------------------------ MODULE SlidingWindowProofs ------------------------
(***************************************************************************)
(* The throttle of throttling.h keeps its window bound for every limit,    *)
(* slack and window length, and for every clock.                           *)
(***************************************************************************)
EXTENDS SlidingWindow, LeastNumber, TLAPS

\* The index invariant: where each of the last maxSize admissions is kept.
RingInv ==
  /\ fullOnce => Stored >= maxSize /\ frontIndex = writeIndex
  /\ ~fullOnce => Stored = writeIndex /\ frontIndex = 0
  /\ \A i \in Slots : i < writeIndex =>
       ptr[i] = sent[Len(sent) + i + 1 - writeIndex]
  /\ \A i \in Slots : fullOnce /\ i >= writeIndex =>
       ptr[i] = sent[Len(sent) + i + 1 - writeIndex - maxSize]

IInv == TypeOK /\ RingInv /\ WindowBound

\* maxSize, the size of the array, is a positive number.
LEMMA MaxSizeType == maxSize \in Nat \ {0}
  BY ThrottleAssumption DEF maxSize

\* Every reachable state is well typed when the step that leads to it starts
\* in one that is, and in one where the indices are where they should be.
LEMMA TypeStep == ASSUME TypeOK, Next PROVE TypeOK'
<1> USE MaxSizeType, ThrottleAssumption DEF TypeOK, Slots
<1>1. CASE Enter
  BY <1>1 DEF Enter, ring
<1>2. CASE checkThrottleLimit
  <2>1. /\ sent' \in Seq(Nat) /\ Len(sent') = Len(sent) + 1
        /\ Len(sent) \in Nat
    BY <1>2 DEF checkThrottleLimit
  <2>2. Wrap(frontIndex + 1) \in Slots /\ Wrap(writeIndex + 1) \in Slots
    BY DEF Wrap
  <2>3. ptr' \in [Slots -> Nat]
    BY <1>2 DEF checkThrottleLimit, store
  <2>4. frontIndex' \in Slots /\ writeIndex' \in Slots
    BY <1>2, <2>2 DEF checkThrottleLimit, store, moveFront
  <2>5. /\ fullOnce' \in BOOLEAN /\ waiting' \in BOOLEAN /\ now' \in Nat
        /\ epoch' = epoch
    BY <1>2 DEF checkThrottleLimit, store
  <2>6. epoch' \in 0 .. Len(sent')
    BY <2>1, <2>5
  <2>7. QED
    BY <2>1, <2>3, <2>4, <2>5, <2>6
<1>3. CASE Renew
  <2>1. ptr' \in [Slots -> Nat]
    BY <1>3 DEF Renew, setSize
  <2>2. Len(sent) \in Nat /\ epoch' = Len(sent) /\ sent' = sent
    BY <1>3 DEF Renew
  <2>3. epoch' \in 0 .. Len(sent')
    BY <2>2
  <2>4. frontIndex' \in Slots /\ writeIndex' \in Slots
    BY <1>3 DEF Renew
  <2>5. QED
    BY <1>3, <2>1, <2>2, <2>3, <2>4 DEF Renew
<1>4. CASE Tick
  BY <1>4 DEF Tick, ring
<1>5. CASE SetClock
  BY <1>5 DEF SetClock, ring
<1>6. QED
  BY <1>1, <1>2, <1>3, <1>4, <1>5 DEF Next

\* An admission leaves the ring exact and the bound unbroken.
LEMMA AdmitStep == ASSUME IInv, checkThrottleLimit PROVE RingInv' /\ WindowBound'
<1> USE MaxSizeType DEF Slots, Stored
<1>1. TypeOK /\ RingInv /\ WindowBound
  BY DEF IInv
<1>2. Len(sent) \in Nat /\ Len(sent') = Len(sent) + 1 /\ epoch' = epoch
  BY <1>1 DEF checkThrottleLimit, TypeOK
<1>3. /\ \A k \in 1 .. Len(sent) : sent'[k] = sent[k]
      /\ sent'[Len(sent) + 1] = now
  BY <1>1 DEF checkThrottleLimit, TypeOK
<1>4. /\ writeIndex \in Slots /\ frontIndex \in Slots /\ fullOnce \in BOOLEAN
      /\ epoch \in 0 .. Len(sent)
  BY <1>1 DEF TypeOK
<1>windex. writeIndex' = IF writeIndex + 1 = maxSize THEN 0 ELSE writeIndex + 1
  BY <1>4 DEF checkThrottleLimit, store, Wrap
<1>flags. /\ fullOnce' = (fullOnce \/ writeIndex + 1 = maxSize)
      /\ frontIndex' = IF ~fullOnce THEN frontIndex
                       ELSE IF frontIndex + 1 = maxSize THEN 0 ELSE frontIndex + 1
  BY <1>4 DEF checkThrottleLimit, store, moveFront, Wrap
<1>slots. \A k \in Slots : ptr'[k] = IF k = writeIndex THEN now ELSE ptr[k]
  BY <1>1 DEF checkThrottleLimit, store, TypeOK
<1>5. RingInv'
  <2>1. /\ fullOnce' => Len(sent') - epoch' >= maxSize /\ frontIndex' = writeIndex'
        /\ ~fullOnce' => Len(sent') - epoch' = writeIndex' /\ frontIndex' = 0
    <3>1. CASE fullOnce
      <4>1. fullOnce' /\ frontIndex' = writeIndex'
        BY <3>1, <1>1, <1>4, <1>windex, <1>flags DEF RingInv
      <4>2. Len(sent') - epoch' >= maxSize
        BY <3>1, <1>1, <1>2, <1>4 DEF RingInv
      <4>3. QED
        BY <4>1, <4>2
    <3>2. CASE ~fullOnce
      <4>1. Len(sent') - epoch' = writeIndex + 1 /\ frontIndex' = 0
        BY <3>2, <1>1, <1>2, <1>4, <1>flags DEF RingInv
      <4>2. CASE writeIndex + 1 = maxSize
        <5>1. fullOnce' /\ writeIndex' = 0
          BY <4>2, <1>windex, <1>flags
        <5>2. QED
          BY <4>1, <4>2, <5>1
      <4>3. CASE writeIndex + 1 # maxSize
        <5>1. ~fullOnce' /\ writeIndex' = writeIndex + 1
          BY <4>3, <3>2, <1>windex, <1>flags
        <5>2. QED
          BY <4>1, <5>1
      <4>4. QED
        BY <4>2, <4>3
    <3>3. QED
      BY <3>1, <3>2, <1>4
  <2>2. ASSUME NEW i \in Slots, i < writeIndex'
        PROVE  ptr'[i] = sent'[Len(sent') + i + 1 - writeIndex']
    <3>1. writeIndex + 1 < maxSize /\ writeIndex' = writeIndex + 1
      BY <2>2, <1>4, <1>windex
    <3>2. CASE i = writeIndex
      <4>1. Len(sent') + i + 1 - writeIndex' = Len(sent) + 1
        BY <3>1, <3>2, <1>2, <1>4
      <4>2. QED
        BY <4>1, <3>2, <1>3, <1>4, <1>slots
    <3>3. CASE i < writeIndex
      <4>1. ptr'[i] = sent[Len(sent) + i + 1 - writeIndex]
        BY <3>3, <1>1, <1>4, <1>slots DEF RingInv
      <4>2. Len(sent) >= writeIndex
        BY <1>1, <1>2, <1>4 DEF RingInv
      <4>3. Len(sent) + i + 1 - writeIndex \in 1 .. Len(sent)
        BY <4>2, <3>3, <1>2, <1>4
      <4>4. Len(sent') + i + 1 - writeIndex' = Len(sent) + i + 1 - writeIndex
        BY <3>1, <1>2, <1>4
      <4>5. QED
        BY <4>1, <4>3, <4>4, <1>3
    <3>4. QED
      BY <3>1, <3>2, <3>3, <2>2, <1>4
  <2>3. ASSUME NEW i \in Slots, fullOnce', i >= writeIndex'
        PROVE  ptr'[i] = sent'[Len(sent') + i + 1 - writeIndex' - maxSize]
    <3>1. CASE writeIndex + 1 < maxSize
      <4>1. fullOnce /\ i >= writeIndex + 1 /\ writeIndex' = writeIndex + 1
        BY <2>3, <3>1, <1>4, <1>windex, <1>flags
      <4>2. ptr'[i] = sent[Len(sent) + i + 1 - writeIndex - maxSize]
        BY <4>1, <1>1, <1>4, <1>slots DEF RingInv
      <4>3. Len(sent) >= maxSize
        BY <4>1, <1>1, <1>2, <1>4 DEF RingInv
      <4>4. Len(sent) + i + 1 - writeIndex - maxSize \in 1 .. Len(sent)
        BY <4>1, <4>3, <1>2, <1>4
      <4>5. Len(sent') + i + 1 - writeIndex' - maxSize
              = Len(sent) + i + 1 - writeIndex - maxSize
        BY <4>1, <1>2, <1>4
      <4>6. QED
        BY <4>2, <4>4, <4>5, <1>3
    <3>2. CASE writeIndex + 1 = maxSize /\ i = writeIndex
      <4>1. Len(sent') + i + 1 - writeIndex' - maxSize = Len(sent) + 1
        BY <3>2, <1>2, <1>4, <1>windex
      <4>2. QED
        BY <4>1, <3>2, <1>3, <1>4, <1>slots
    <3>3. CASE writeIndex + 1 = maxSize /\ i < writeIndex
      <4>1. ptr'[i] = sent[Len(sent) + i + 1 - writeIndex]
        BY <3>3, <1>1, <1>4, <1>slots DEF RingInv
      <4>2. Len(sent) >= writeIndex
        BY <1>1, <1>2, <1>4 DEF RingInv
      <4>3. Len(sent) + i + 1 - writeIndex \in 1 .. Len(sent)
        BY <4>2, <3>3, <1>2, <1>4
      <4>4. Len(sent') + i + 1 - writeIndex' - maxSize = Len(sent) + i + 1 - writeIndex
        BY <3>3, <1>2, <1>4, <1>windex
      <4>5. QED
        BY <4>1, <4>3, <4>4, <1>3
    <3>4. QED
      BY <3>1, <3>2, <3>3, <1>4
  <2>4. QED
    BY <2>1, <2>2, <2>3 DEF RingInv
<1>6. WindowBound'
  <2>1. ASSUME NEW i \in epoch + 1 .. Len(sent) - maxSize
        PROVE  sent'[i + maxSize] - sent'[i] > TimeLimit
    <3>1. sent[i + maxSize] - sent[i] > TimeLimit
      BY <1>1 DEF WindowBound
    <3>2. i \in 1 .. Len(sent) /\ i + maxSize \in 1 .. Len(sent)
      BY <1>2, <1>4
    <3>3. QED
      BY <3>1, <3>2, <1>3
  <2>2. ASSUME NEW i \in Nat, i = Len(sent) + 1 - maxSize, i >= epoch + 1
        PROVE  sent'[i + maxSize] - sent'[i] > TimeLimit
    <3>1. fullOnce /\ frontIndex = writeIndex
      BY <2>2, <1>1, <1>2, <1>4 DEF RingInv
    <3>2. front = sent[i]
      BY <3>1, <2>2, <1>1, <1>2, <1>4 DEF RingInv, front
    <3>3. now - front > TimeLimit
      BY <3>1 DEF checkThrottleLimit, CanPass
    <3>4. i \in 1 .. Len(sent) /\ i + maxSize = Len(sent) + 1
      BY <2>2, <1>2, <1>4
    <3>5. QED
      BY <3>2, <3>3, <3>4, <1>3
  <2>3. \A i \in epoch + 1 .. Len(sent) + 1 - maxSize :
           \/ i \in epoch + 1 .. Len(sent) - maxSize
           \/ i \in Nat /\ i = Len(sent) + 1 - maxSize /\ i >= epoch + 1
    BY <1>2, <1>4
  <2>4. QED
    BY <2>1, <2>2, <2>3, <1>2 DEF WindowBound
<1>7. QED
  BY <1>5, <1>6

\* IInv is preserved by every step.
LEMMA Inductive == ASSUME IInv, [Next]_vars PROVE IInv'
<1> USE MaxSizeType DEF Slots
<1>1. TypeOK /\ RingInv /\ WindowBound
  BY DEF IInv
<1>2. ASSUME Next PROVE TypeOK'
  BY <1>1, <1>2, TypeStep
<1>3. CASE checkThrottleLimit
  BY <1>2, <1>3, AdmitStep DEF IInv, Next
<1>4. CASE Renew
  <2>1. /\ Len(sent) \in Nat /\ epoch' = Len(sent) /\ sent' = sent
        /\ writeIndex' = 0 /\ frontIndex' = 0 /\ fullOnce' = FALSE
    BY <1>1, <1>4 DEF Renew, TypeOK
  <2>2. RingInv'
    BY <2>1 DEF RingInv, Stored
  <2>3. WindowBound'
    BY <2>1 DEF WindowBound
  <2>4. QED
    BY <2>2, <2>3, <1>2, <1>4 DEF IInv, Next
<1>5. ASSUME Enter \/ Tick \/ SetClock PROVE IInv'
  <2>1. UNCHANGED <<ring, sent, epoch>>
    BY <1>5 DEF Enter, Tick, SetClock
  <2>2. RingInv' /\ WindowBound'
    BY <2>1, <1>1 DEF RingInv, WindowBound, Stored, ring
  <2>3. QED
    BY <2>2, <1>2, <1>5 DEF IInv, Next
<1>6. CASE UNCHANGED vars
  BY <1>1, <1>6 DEF IInv, TypeOK, RingInv, WindowBound, Stored, vars
<1>7. QED
  BY <1>3, <1>4, <1>5, <1>6 DEF Next

\* The initial state satisfies IInv.
LEMMA Initial == Init => IInv
  BY MaxSizeType, ThrottleAssumption
     DEF Init, IInv, TypeOK, RingInv, WindowBound, Stored, Slots, setSize

\* The throttle of throttling.h is well typed in every reachable state.
THEOREM TypeCorrect == Spec => []TypeOK
<1>1. IInv => TypeOK
  BY DEF IInv
<1>2. QED
  BY <1>1, Initial, Inductive, PTL DEF Spec

\* Two calls that checkThrottleLimit lets pass maxSize apart are more than
\* TimeLimit apart on the clock it reads, even if that clock is set back.
THEOREM WindowIsBounded == Spec => []WindowBound
<1>1. IInv => WindowBound
  BY DEF IInv
<1>2. QED
  BY <1>1, Initial, Inductive, PTL DEF Spec

\* Readings that never step back from one to the next do not over a stretch.
LEMMA Ascending ==
  ASSUME NEW s \in Seq(Nat), NEW m \in 1 .. Len(s), NEW j \in m .. Len(s),
         \A k \in m .. j - 1 : s[k] <= s[k + 1]
  PROVE  s[m] <= s[j]
<1> SUFFICES ASSUME s[j] < s[m] PROVE FALSE
  OBVIOUS
<1> DEFINE S == {k \in m .. j : s[k] < s[m]}
<1>1. S \in SUBSET Nat /\ j \in S
  OBVIOUS
<1>2. PICK x \in S : \A y \in S : x <= y
  BY <1>1, Least
<1>3. \A k \in 1 .. Len(s) : s[k] \in Nat
  OBVIOUS
<1>4. x - 1 \in m .. j - 1 /\ x - 1 \in 1 .. Len(s) /\ x \in 1 .. Len(s)
  BY <1>2
<1>5. s[x - 1] <= s[x]
  <2>1. s[x - 1] <= s[x - 1 + 1] /\ x - 1 + 1 = x
    BY <1>4
  <2>2. QED
    BY <2>1
<1>6. x - 1 \in S
  <2>1. s[x] < s[m]
    BY <1>2
  <2>2. s[x - 1] \in Nat /\ s[x] \in Nat /\ s[m] \in Nat
    BY <1>3, <1>4
  <2>3. s[x - 1] < s[m]
    BY <1>5, <2>1, <2>2
  <2>4. x - 1 \in m .. j
    BY <1>4
  <2> QED  BY <2>3, <2>4
<1>7. QED
  BY <1>2, <1>4, <1>6

\* While the clock checkThrottleLimit reads is not set back, the exchange sees
\* no more than MsgLimit orders in any stretch as short as TimeLimit.
THEOREM NeverBursts == Spec => []NoBurst
<1>1. IInv => NoBurst
  <2> SUFFICES ASSUME IInv  PROVE NoBurst
    OBVIOUS
  <2>1. /\ sent \in Seq(Nat) /\ Len(sent) \in Nat /\ epoch \in 0 .. Len(sent)
        /\ WindowBound /\ TimeLimit \in Nat
    BY ThrottleAssumption DEF IInv, TypeOK
  <2> SUFFICES ASSUME NEW i \in epoch + 1 .. Len(sent), NEW j \in epoch + 1 .. Len(sent),
                      \A k \in i .. j - 1 : sent[k] <= sent[k + 1],
                      sent[j] - sent[i] <= TimeLimit
               PROVE  j - i < MsgLimit
    BY DEF NoBurst
  <2>2. i \in Int /\ j \in Int /\ MsgLimit \in Int
    BY <2>1, ThrottleAssumption
  <2> SUFFICES ASSUME j - i >= MsgLimit  PROVE FALSE
    BY <2>2
  <2> DEFINE m == i + maxSize
  <2>3. maxSize \in Nat \ {0} /\ maxSize <= MsgLimit
    BY MaxSizeType, ThrottleAssumption DEF maxSize
  <2>4. /\ i \in epoch + 1 .. Len(sent) - maxSize /\ i \in 1 .. Len(sent)
        /\ m \in 1 .. Len(sent) /\ j \in m .. Len(sent)
        /\ \A k \in m .. j - 1 : k \in i .. j - 1
    BY <2>1, <2>3, ThrottleAssumption
  <2>5. sent[m] - sent[i] > TimeLimit
    BY <2>1, <2>4 DEF WindowBound
  <2>6. sent[m] <= sent[j]
    <3>1. \A k \in m .. j - 1 : sent[k] <= sent[k + 1]
      BY <2>4
    <3> HIDE DEF m
    <3>2. QED
      BY <2>1, <2>4, <3>1, Ascending
  <2> HIDE DEF m
  <2>7. \A k \in 1 .. Len(sent) : sent[k] \in Nat
    BY <2>1
  <2>8. j \in 1 .. Len(sent)
    BY <2>1, <2>4
  <2>9. sent[i] \in Nat /\ sent[m] \in Nat /\ sent[j] \in Nat
    BY <2>4, <2>7, <2>8
  <2>10. TimeLimit \in Nat
    BY <2>1
  <2>11. QED
    BY <2>5, <2>6, <2>9, <2>10
<1>2. QED
  BY <1>1, Initial, Inductive, PTL DEF Spec

\* The circular array forgets nothing the window needs: full and front say
\* what they would say of the complete history.
THEOREM RingExact == Spec => []RingIsExact
<1>1. IInv => RingIsExact
  <2> SUFFICES ASSUME IInv PROVE RingIsExact
    OBVIOUS
  <2>1. /\ writeIndex \in Slots /\ fullOnce \in BOOLEAN
        /\ Len(sent) \in Nat /\ epoch \in 0 .. Len(sent)
    BY DEF IInv, TypeOK
  <2>2. QED
    BY <2>1, MaxSizeType DEF IInv, RingInv, RingIsExact, Stored, Slots, front
<1>2. QED
  BY <1>1, Initial, Inductive, PTL DEF Spec

\* The circular array implements the throttle that keeps every admission.
THEOREM Refinement == Spec => ImplementsRateLimit
<1>1. Init => Abstract!Init
  BY ThrottleAssumption DEF Init, Abstract!Init
<1>2. ASSUME IInv, [Next]_vars PROVE [Abstract!Next]_(Abstract!vars)
  <2>1. /\ TypeOK /\ RingInv /\ now \in Nat
        /\ Len(sent) \in Nat /\ epoch \in 0 .. Len(sent)
        /\ writeIndex \in Slots /\ fullOnce \in BOOLEAN
    BY <1>2 DEF IInv, TypeOK
  <2>2. CASE Enter
    BY <2>2 DEF Enter, Abstract!Next, Abstract!Enter
  <2>3. CASE checkThrottleLimit
    <3>1. Abstract!MayAdmit
      BY <2>1, <2>3, MaxSizeType
         DEF checkThrottleLimit, CanPass, RingInv, Stored, front, Slots, Abstract!MayAdmit
    <3>2. QED
      BY <2>3, <3>1 DEF checkThrottleLimit, Abstract!Next, Abstract!Admit
  <2>4. CASE Renew
    BY <2>4 DEF Renew, Abstract!Next, Abstract!Renew
  <2>5. CASE Tick \/ SetClock
    <3>1. now' \in Nat /\ UNCHANGED <<waiting, sent, epoch>>
      BY <2>1, <2>5 DEF Tick, SetClock
    <3>2. QED
      BY <3>1 DEF Abstract!Next, Abstract!Clock
  <2>6. CASE UNCHANGED vars
    BY <2>6 DEF vars, Abstract!vars
  <2>7. QED
    BY <1>2, <2>2, <2>3, <2>4, <2>5, <2>6 DEF Next
<1>3. QED
  BY <1>1, <1>2, Initial, Inductive, PTL DEF Spec, ImplementsRateLimit, Abstract!Spec
=============================================================================
