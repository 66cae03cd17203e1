------------------------ MODULE OrderHistoryProofs ------------------------
(***************************************************************************)
(* Proofs about OrderHistory, for any ids, any number of threads and any   *)
(* capacity of the queue.                                                  *)
(***************************************************************************)
EXTENDS OrderHistory, TLAPS

-----------------------------------------------------------------------------
(* What push and pop do to the elements of a sequence.                     *)

LEMMA AppendElements ==
  ASSUME NEW S, NEW s \in Seq(S), NEW e
  PROVE  Elements(Append(s, e)) = Elements(s) \cup {e}
<1>1. /\ Len(Append(s, e)) = Len(s) + 1
      /\ \A i \in 1 .. Len(s) : Append(s, e)[i] = s[i]
      /\ Append(s, e)[Len(s) + 1] = e
  OBVIOUS
<1>2. 1 .. Len(s) + 1 = (1 .. Len(s)) \cup {Len(s) + 1}
  OBVIOUS
<1>3. ASSUME NEW x \in Elements(Append(s, e))  PROVE  x \in Elements(s) \cup {e}
  BY <1>1, <1>2 DEF Elements
<1>4. ASSUME NEW x \in Elements(s) \cup {e}  PROVE  x \in Elements(Append(s, e))
  BY <1>1, <1>2 DEF Elements
<1> QED  BY <1>3, <1>4

LEMMA TailElements ==
  ASSUME NEW S, NEW s \in Seq(S), s # <<>>
  PROVE  /\ Tail(s) \in Seq(S)
         /\ Head(s) \in S
         /\ Elements(s) = Elements(Tail(s)) \cup {Head(s)}
<1>1. /\ Tail(s) \in Seq(S) /\ Head(s) \in S /\ Head(s) = s[1]
      /\ Len(s) \in Nat \ {0} /\ Len(Tail(s)) = Len(s) - 1
      /\ \A i \in 1 .. Len(s) - 1 : Tail(s)[i] = s[i + 1]
  OBVIOUS
<1>2. ASSUME NEW x \in Elements(s)  PROVE  x \in Elements(Tail(s)) \cup {Head(s)}
  <2>1. PICK i \in 1 .. Len(s) : x = s[i]
    BY DEF Elements
  <2>2. CASE i = 1
    BY <1>1, <2>1, <2>2
  <2>3. CASE i # 1
    <3>1. i - 1 \in 1 .. Len(s) - 1 /\ Tail(s)[i - 1] = s[i]
      BY <1>1, <2>1, <2>3
    <3> QED  BY <1>1, <2>1, <3>1 DEF Elements
  <2> QED  BY <2>2, <2>3
<1>3. ASSUME NEW x \in Elements(Tail(s))  PROVE  x \in Elements(s)
  <2>1. PICK i \in 1 .. Len(s) - 1 : x = Tail(s)[i]
    BY <1>1, <1>3 DEF Elements
  <2>2. i + 1 \in 1 .. Len(s) /\ x = s[i + 1]
    BY <1>1, <2>1
  <2> QED  BY <2>2 DEF Elements
<1>4. Head(s) \in Elements(s)
  BY <1>1 DEF Elements
<1> QED  BY <1>1, <1>2, <1>3, <1>4

-----------------------------------------------------------------------------
(* Type correctness.                                                       *)

LEMMA HistoryTypeInit == HistoryInit => HistoryTypeOK
BY HistoryAssumption DEF HistoryInit, HistoryTypeOK, Phases

LEMMA HistoryTypeStep ==
  HistoryTypeOK /\ [HistoryNext]_historyVars => HistoryTypeOK'
<1> SUFFICES ASSUME HistoryTypeOK, [HistoryNext]_historyVars
             PROVE  HistoryTypeOK'
  OBVIOUS
<1> USE HistoryAssumption
<1>1. ASSUME NEW t \in Threads, NEW id \in Ids \cup {NoId}, StartRemove(t, id)
      PROVE  HistoryTypeOK'
  BY <1>1 DEF StartRemove, HistoryTypeOK, Phases
<1>2. CASE TakeOrder
  <2>1. PICK id \in Ids : setClOrderId(id)
    BY <1>2 DEF TakeOrder
  <2>2. CASE Full
    BY <2>1, <2>2 DEF setClOrderId, HistoryTypeOK
  <2>3. CASE ~Full
    <3>1. orderHistory' = Append(orderHistory, id) /\ Len(orderHistory) < Capacity
      BY <2>1, <2>3 DEF setClOrderId, Full, HistoryTypeOK
    <3>2. orderHistory' \in Seq(Ids) /\ Len(orderHistory') <= Capacity
      BY <3>1 DEF HistoryTypeOK
    <3> QED  BY <2>1, <2>3, <3>2 DEF setClOrderId, HistoryTypeOK
  <2> QED  BY <2>2, <2>3
<1>3. CASE RejectOrder
  BY <1>1, <1>3 DEF RejectOrder
<1>4. CASE Answer
  BY <1>1, <1>4 DEF Answer, HistoryTypeOK
<1>5. ASSUME NEW t \in Threads, PopOne(t)  PROVE  HistoryTypeOK'
  <2>1. /\ orderHistory' \in Seq(Ids) /\ Len(orderHistory') <= Capacity
        /\ Head(orderHistory) \in Ids
    BY <1>5 DEF PopOne, HistoryTypeOK
  <2>2. tempContainer' \in [Threads -> Seq(Ids)]
    BY <1>5, <2>1 DEF PopOne, HistoryTypeOK
  <2> QED  BY <1>5, <2>1, <2>2 DEF PopOne, HistoryTypeOK
<1>6. ASSUME NEW t \in Threads, PopNone(t)  PROVE  HistoryTypeOK'
  BY <1>6 DEF PopNone, HistoryTypeOK, Phases
<1>7. ASSUME NEW t \in Threads, PushBack(t)  PROVE  HistoryTypeOK'
  <2>1. /\ tempContainer[t] \in Seq(Ids) /\ tempContainer[t] # <<>>
    BY <1>7 DEF PushBack, HistoryTypeOK
  <2>2. Head(tempContainer[t]) \in Ids /\ Tail(tempContainer[t]) \in Seq(Ids)
    BY <2>1
  <2>3. orderHistory' \in Seq(Ids) /\ Len(orderHistory') <= Capacity
    BY <1>7, <2>2 DEF PushBack, Full, HistoryTypeOK
  <2> QED  BY <1>7, <2>2, <2>3 DEF PushBack, HistoryTypeOK
<1>8. ASSUME NEW t \in Threads, EndRemove(t)  PROVE  HistoryTypeOK'
  BY <1>8 DEF EndRemove, HistoryTypeOK, Phases
<1>9. ASSUME NEW t \in Threads, Report(t)  PROVE  HistoryTypeOK'
  BY <1>9 DEF Report, HistoryTypeOK, Phases
<1>10. CASE UNCHANGED historyVars
  BY <1>10 DEF historyVars, HistoryTypeOK
<1> QED
  BY <1>2, <1>3, <1>4, <1>5, <1>6, <1>7, <1>8, <1>9, <1>10 DEF HistoryNext, ThreadStep

\* The types of the order history and of the calls on it hold in every
\* state, and the queue never holds more than it has room for.
THEOREM HistoryTypeCorrect == HistorySpec => []HistoryTypeOK
BY HistoryTypeInit, HistoryTypeStep, PTL DEF HistorySpec

-----------------------------------------------------------------------------
(* No id is lost.                                                          *)

LEMMA AccountedStep ==
  HistoryTypeOK /\ Accounted /\ [HistoryNext]_historyVars => Accounted'
<1> SUFFICES ASSUME HistoryTypeOK, Accounted, [HistoryNext]_historyVars,
                    NEW id \in tracked'
             PROVE  id \in reported' \cup InHandler' \cup Held'
  BY DEF Accounted
<1> USE HistoryAssumption
\* What a step may take an id out of, and where it then is.
<1>a. ASSUME id \in tracked,
             reported \subseteq reported',
             InHandler \subseteq InHandler' \cup reported',
             Held \subseteq Held' \cup InHandler'
      PROVE  id \in reported' \cup InHandler' \cup Held'
  BY <1>a DEF Accounted
<1>b. ASSUME NEW t \in Threads, NEW x \in Ids \cup {NoId}, StartRemove(t, x)
      PROVE  id \in reported' \cup InHandler' \cup Held'
  <2>1. /\ id \in tracked /\ reported' = reported
        /\ orderHistory' = orderHistory /\ tempContainer' = tempContainer
    BY <1>b DEF StartRemove
  <2>2. Held' = Held
    BY <2>1 DEF Held
  <2>3. ASSUME NEW u \in Threads, phase[u] # "idle"
        PROVE  phase'[u] # "idle" /\ removeValue'[u] = removeValue[u]
    BY <1>b, <2>3 DEF StartRemove, HistoryTypeOK
  <2>4. InHandler \subseteq InHandler'
    BY <2>3 DEF InHandler
  <2> QED  BY <1>a, <2>1, <2>2, <2>4
<1>1. CASE TakeOrder
  <2>1. PICK x \in Ids : phase[oms] = "idle" /\ Fresh(x) /\ setClOrderId(x)
    BY <1>1 DEF TakeOrder
  <2>2. /\ phase' = phase /\ removeValue' = removeValue /\ tempContainer' = tempContainer
        /\ reported' = reported
    BY <2>1 DEF setClOrderId
  <2>3. InHandler' = InHandler
    BY <2>2 DEF InHandler
  <2>4. CASE ~Full
    <3>1. Elements(orderHistory') = Elements(orderHistory) \cup {x}
          /\ tracked' = tracked \cup {x}
      BY <2>1, <2>4, AppendElements DEF setClOrderId, HistoryTypeOK
    <3>2. Held' = Held \cup {x}
      BY <2>2, <3>1 DEF Held
    <3> QED  BY <1>a, <2>2, <2>3, <3>1, <3>2
  <2>5. CASE Full
    <3>1. orderHistory' = orderHistory /\ tracked' = tracked
      BY <2>1, <2>5 DEF setClOrderId
    <3>2. Held' = Held
      BY <2>2, <3>1 DEF Held
    <3> QED  BY <1>a, <2>2, <2>3, <3>1, <3>2
  <2> QED  BY <2>4, <2>5
<1>2. CASE RejectOrder
  BY <1>2, <1>b DEF RejectOrder
<1>3. CASE Answer
  BY <1>3, <1>b DEF Answer, HistoryTypeOK
<1>4. ASSUME NEW t \in Threads, PopOne(t)
      PROVE  id \in reported' \cup InHandler' \cup Held'
  <2> DEFINE v == Head(orderHistory)
  <2>1. /\ id \in tracked /\ reported' = reported /\ phase' = phase
        /\ removeValue' = removeValue /\ phase[t] = "pop"
    BY <1>4 DEF PopOne
  <2>2. InHandler' = InHandler /\ removeValue[t] \in InHandler
    BY <2>1 DEF InHandler
  <2>3. Elements(orderHistory) = Elements(orderHistory') \cup {v}
    BY <1>4, TailElements DEF PopOne, HistoryTypeOK
  <2>4. \A u \in Threads : tempContainer[u] \in Seq(Ids)
    BY DEF HistoryTypeOK
  <2>5. \A u \in Threads : Elements(tempContainer[u]) \subseteq Elements(tempContainer'[u])
    <3>1. \A u \in Threads \ {t} : tempContainer'[u] = tempContainer[u]
      BY <1>4 DEF PopOne, HistoryTypeOK
    <3>2. \/ tempContainer'[t] = Append(tempContainer[t], v)
          \/ tempContainer'[t] = tempContainer[t]
      BY <1>4 DEF PopOne, HistoryTypeOK
    <3>3. Elements(tempContainer[t]) \subseteq Elements(tempContainer'[t])
      BY <2>4, <3>2, AppendElements
    <3> QED  BY <3>1, <3>3
  <2>6. CASE v = removeValue[t]
    <3>1. v \in InHandler'
      BY <2>2, <2>6
    <3> QED  BY <1>a, <2>1, <2>2, <2>3, <2>5, <3>1 DEF Held
  <2>7. CASE v # removeValue[t]
    <3>1. tempContainer'[t] = Append(tempContainer[t], v)
      BY <1>4, <2>7 DEF PopOne, HistoryTypeOK
    <3>2. v \in Elements(tempContainer'[t])
      BY <2>4, <3>1, AppendElements
    <3>3. Held \subseteq Held'
      BY <2>3, <2>5, <3>2 DEF Held
    <3> QED  BY <1>a, <2>1, <2>2, <3>3
  <2> QED  BY <2>6, <2>7
<1>5. ASSUME NEW t \in Threads, PopNone(t) \/ EndRemove(t)
      PROVE  id \in reported' \cup InHandler' \cup Held'
  <2>1. /\ id \in tracked /\ reported' = reported /\ removeValue' = removeValue
        /\ orderHistory' = orderHistory /\ tempContainer' = tempContainer
    BY <1>5 DEF PopNone, EndRemove
  <2>2. Held' = Held
    BY <2>1 DEF Held
  <2>3. \A u \in Threads : phase[u] # "idle" => phase'[u] # "idle"
    BY <1>5 DEF PopNone, EndRemove, HistoryTypeOK
  <2>4. InHandler \subseteq InHandler'
    BY <2>1, <2>3 DEF InHandler
  <2> QED  BY <1>a, <2>1, <2>2, <2>4
<1>6. ASSUME NEW t \in Threads, PushBack(t)
      PROVE  id \in reported' \cup InHandler' \cup Held'
  <2> DEFINE v == Head(tempContainer[t])
  <2>1. /\ id \in tracked /\ reported' = reported /\ phase' = phase
        /\ removeValue' = removeValue
    BY <1>6 DEF PushBack
  <2>2. InHandler' = InHandler
    BY <2>1 DEF InHandler
  <2>3. Elements(orderHistory') = Elements(orderHistory) \cup {v}
    BY <1>6, AppendElements DEF PushBack, HistoryTypeOK
  <2>4. Elements(tempContainer[t]) = Elements(tempContainer'[t]) \cup {v}
    BY <1>6, TailElements DEF PushBack, HistoryTypeOK
  <2>5. \A u \in Threads \ {t} : tempContainer'[u] = tempContainer[u]
    BY <1>6 DEF PushBack, HistoryTypeOK
  <2>6. Held \subseteq Held'
    BY <2>3, <2>4, <2>5 DEF Held
  <2> QED  BY <1>a, <2>1, <2>2, <2>6
<1>7. ASSUME NEW t \in Threads, Report(t)
      PROVE  id \in reported' \cup InHandler' \cup Held'
  <2>1. /\ id \in tracked /\ reported' = reported \cup {removeValue[t]}
        /\ orderHistory' = orderHistory /\ tempContainer' = tempContainer
    BY <1>7 DEF Report
  <2>2. Held' = Held
    BY <2>1 DEF Held
  <2>3. \A u \in Threads \ {t} : phase'[u] = phase[u] /\ removeValue'[u] = removeValue[u]
    BY <1>7 DEF Report, HistoryTypeOK
  <2>4. InHandler \subseteq InHandler' \cup reported'
    BY <2>1, <2>3 DEF InHandler
  <2> QED  BY <1>a, <2>1, <2>2, <2>4
<1>8. CASE UNCHANGED historyVars
  BY <1>8 DEF historyVars, Accounted, InHandler, Held
<1> QED
  BY <1>1, <1>2, <1>3, <1>4, <1>5, <1>6, <1>7, <1>8 DEF HistoryNext, ThreadStep

\* However many threads drain the order history at once, and whatever its
\* capacity, an id that was pushed is reported to the OMS, in the hands of a
\* handler that will report it, or still held.
THEOREM NoOrderForgotten == HistorySpec => []Accounted
<1>1. HistoryInit => Accounted
  BY DEF HistoryInit, Accounted
<1> QED
  BY <1>1, HistoryTypeInit, HistoryTypeStep, AccountedStep, PTL DEF HistorySpec

-----------------------------------------------------------------------------
(* No id is held twice.  That needs to know that what is held was tracked: *)
(* the OMS thread pushes only ids it has not pushed before.                *)

HeldTracked == Held \subseteq tracked

LEMMA AppendDistinct ==
  ASSUME NEW S, NEW s \in Seq(S), NEW e \in S, Distinct(s), e \notin Elements(s)
  PROVE  Distinct(Append(s, e))
<1>1. /\ Append(s, e) \in Seq(S) /\ Len(Append(s, e)) = Len(s) + 1
      /\ \A i \in 1 .. Len(s) : Append(s, e)[i] = s[i] /\ s[i] # e
      /\ Append(s, e)[Len(s) + 1] = e
  BY DEF Elements
<1>2. SUFFICES ASSUME NEW i \in 1 .. Len(s) + 1, NEW j \in 1 .. Len(s) + 1, i # j
               PROVE  Append(s, e)[i] # Append(s, e)[j]
  BY <1>1 DEF Distinct
<1>3. CASE i \in 1 .. Len(s) /\ j \in 1 .. Len(s)
  BY <1>1, <1>2, <1>3 DEF Distinct
<1>4. CASE i = Len(s) + 1 /\ j \in 1 .. Len(s)
  BY <1>1, <1>4
<1>5. CASE j = Len(s) + 1 /\ i \in 1 .. Len(s)
  BY <1>1, <1>5
<1> QED  BY <1>2, <1>3, <1>4, <1>5

LEMMA TailDistinct ==
  ASSUME NEW S, NEW s \in Seq(S), s # <<>>, Distinct(s)
  PROVE  Distinct(Tail(s)) /\ Head(s) \notin Elements(Tail(s))
<1>1. /\ Head(s) = s[1]
      /\ Len(s) \in Nat \ {0} /\ Len(Tail(s)) = Len(s) - 1
      /\ \A i \in 1 .. Len(s) - 1 : Tail(s)[i] = s[i + 1]
  OBVIOUS
<1>2. ASSUME NEW i \in 1 .. Len(s) - 1, NEW j \in 1 .. Len(s) - 1, i # j
      PROVE  Tail(s)[i] # Tail(s)[j]
  <2>1. i + 1 \in 1 .. Len(s) /\ j + 1 \in 1 .. Len(s) /\ i + 1 # j + 1
    BY <1>1, <1>2
  <2>2. s[i + 1] # s[j + 1]
    BY <2>1 DEF Distinct
  <2> QED  BY <1>1, <2>2
<1>3. ASSUME NEW i \in 1 .. Len(s) - 1  PROVE  Tail(s)[i] # Head(s)
  <2>1. i + 1 \in 1 .. Len(s) /\ 1 \in 1 .. Len(s) /\ i + 1 # 1
    BY <1>1
  <2> QED  BY <1>1, <2>1 DEF Distinct
<1> QED  BY <1>1, <1>2, <1>3 DEF Distinct, Elements

LEMMA HeldOnceStep ==
  HistoryTypeOK /\ HeldTracked /\ HeldOnce /\ [HistoryNext]_historyVars
    => HeldTracked' /\ HeldOnce'
<1> SUFFICES ASSUME HistoryTypeOK, HeldTracked, HeldOnce, [HistoryNext]_historyVars
             PROVE  HeldTracked' /\ HeldOnce'
  OBVIOUS
<1> USE HistoryAssumption
\* A step that moves no id.
<1>a. ASSUME orderHistory' = orderHistory, tempContainer' = tempContainer,
             tracked \subseteq tracked'
      PROVE  HeldTracked' /\ HeldOnce'
  BY <1>a DEF HeldTracked, HeldOnce, Held
<1>1. CASE TakeOrder
  <2>1. PICK x \in Ids : Fresh(x) /\ setClOrderId(x)
    BY <1>1 DEF TakeOrder
  <2>2. CASE Full
    BY <1>a, <2>1, <2>2 DEF setClOrderId
  <2>3. CASE ~Full
    <3>1. /\ orderHistory' = Append(orderHistory, x) /\ tempContainer' = tempContainer
          /\ tracked' = tracked \cup {x}
      BY <2>1, <2>3 DEF setClOrderId
    <3>2. x \notin Held
      BY <2>1 DEF Fresh, HeldTracked
    <3>3. orderHistory \in Seq(Ids)
      BY DEF HistoryTypeOK
    <3>4. Elements(orderHistory') = Elements(orderHistory) \cup {x}
      BY <3>1, <3>3, AppendElements
    <3>5. Distinct(orderHistory')
      BY <3>1, <3>2, <3>3, AppendDistinct DEF HeldOnce, Held
    <3>6. HeldTracked'
      BY <3>1, <3>4 DEF HeldTracked, Held
    <3>7. \A u \in Threads : Elements(tempContainer[u]) \cap (Elements(orderHistory) \cup {x}) = {}
      BY <3>2 DEF HeldOnce, Held
    <3>8. HeldOnce'
      BY <3>1, <3>4, <3>5, <3>7 DEF HeldOnce
    <3> QED  BY <3>6, <3>8
  <2> QED  BY <2>2, <2>3
<1>2. CASE RejectOrder \/ Answer
  BY <1>2, <1>a DEF RejectOrder, Answer, StartRemove
<1>3. ASSUME NEW t \in Threads, PopOne(t)  PROVE  HeldTracked' /\ HeldOnce'
  <2> DEFINE v == Head(orderHistory)
  <2>1. /\ orderHistory # <<>> /\ orderHistory' = Tail(orderHistory) /\ tracked' = tracked
        /\ \A u \in Threads \ {t} : tempContainer'[u] = tempContainer[u]
        /\ \/ tempContainer'[t] = Append(tempContainer[t], v)
           \/ tempContainer'[t] = tempContainer[t]
    BY <1>3 DEF PopOne, HistoryTypeOK
  <2>2. /\ orderHistory \in Seq(Ids) /\ tempContainer[t] \in Seq(Ids)
        /\ Distinct(orderHistory) /\ Distinct(tempContainer[t])
    BY DEF HistoryTypeOK, HeldOnce
  <2>3. /\ Elements(orderHistory) = Elements(orderHistory') \cup {v} /\ v \in Ids
        /\ Distinct(orderHistory') /\ v \notin Elements(orderHistory')
    BY <2>1, <2>2, TailElements, TailDistinct
  <2>4. \A u \in Threads : v \notin Elements(tempContainer[u])
    BY <2>3 DEF HeldOnce
  <2>5. Distinct(tempContainer'[t])
    <3>1. Distinct(Append(tempContainer[t], v))
      BY <2>2, <2>3, <2>4, AppendDistinct
    <3> QED  BY <2>1, <2>2, <3>1
  <2>6. Elements(tempContainer'[t]) \subseteq Elements(tempContainer[t]) \cup {v}
    BY <2>1, <2>2, AppendElements
  <2>7. HeldTracked'
    <3>1. Held' \subseteq Held
      BY <2>1, <2>3, <2>6 DEF Held
    <3> QED  BY <2>1, <3>1 DEF HeldTracked
  <2>8. ASSUME NEW u \in Threads  PROVE  Distinct(tempContainer'[u])
    BY <2>1, <2>5 DEF HeldOnce
  <2>9. ASSUME NEW u \in Threads
        PROVE  Elements(tempContainer'[u]) \cap Elements(orderHistory') = {}
    BY <2>1, <2>3, <2>6 DEF HeldOnce
  <2>10. ASSUME NEW u \in Threads, NEW w \in Threads \ {u}
         PROVE  Elements(tempContainer'[u]) \cap Elements(tempContainer'[w]) = {}
    BY <2>1, <2>4, <2>6 DEF HeldOnce
  <2>11. HeldOnce'
    BY <2>3, <2>8, <2>9, <2>10 DEF HeldOnce
  <2> QED  BY <2>7, <2>11
<1>4. ASSUME NEW t \in Threads, PushBack(t)  PROVE  HeldTracked' /\ HeldOnce'
  <2> DEFINE v == Head(tempContainer[t])
  <2>1. /\ tempContainer[t] # <<>> /\ orderHistory' = Append(orderHistory, v)
        /\ tracked' = tracked /\ tempContainer'[t] = Tail(tempContainer[t])
        /\ \A u \in Threads \ {t} : tempContainer'[u] = tempContainer[u]
    BY <1>4 DEF PushBack, HistoryTypeOK
  <2>2. /\ orderHistory \in Seq(Ids) /\ tempContainer[t] \in Seq(Ids)
        /\ Distinct(orderHistory) /\ Distinct(tempContainer[t])
    BY DEF HistoryTypeOK, HeldOnce
  <2>3. /\ Elements(tempContainer[t]) = Elements(tempContainer'[t]) \cup {v} /\ v \in Ids
        /\ Distinct(tempContainer'[t]) /\ v \notin Elements(tempContainer'[t])
    BY <2>1, <2>2, TailElements, TailDistinct
  <2>4. /\ v \notin Elements(orderHistory)
        /\ \A u \in Threads \ {t} : v \notin Elements(tempContainer[u])
    BY <2>3 DEF HeldOnce
  <2>5. Distinct(orderHistory') /\ Elements(orderHistory') = Elements(orderHistory) \cup {v}
    BY <2>1, <2>2, <2>3, <2>4, AppendDistinct, AppendElements
  <2>6. Held' = Held
    BY <2>1, <2>3, <2>5 DEF Held
  <2>7. ASSUME NEW u \in Threads  PROVE  Distinct(tempContainer'[u])
    BY <2>1, <2>3 DEF HeldOnce
  <2>8. ASSUME NEW u \in Threads
        PROVE  Elements(tempContainer'[u]) \cap Elements(orderHistory') = {}
    BY <2>1, <2>3, <2>4, <2>5 DEF HeldOnce
  <2>9. ASSUME NEW u \in Threads, NEW w \in Threads \ {u}
        PROVE  Elements(tempContainer'[u]) \cap Elements(tempContainer'[w]) = {}
    BY <2>1, <2>3 DEF HeldOnce
  <2>10. HeldOnce'
    BY <2>5, <2>7, <2>8, <2>9 DEF HeldOnce
  <2> QED  BY <2>1, <2>6, <2>10 DEF HeldTracked
<1>5. ASSUME NEW t \in Threads, PopNone(t) \/ EndRemove(t) \/ Report(t)
      PROVE  HeldTracked' /\ HeldOnce'
  BY <1>5, <1>a DEF PopNone, EndRemove, Report
<1>6. CASE UNCHANGED historyVars
  BY <1>6, <1>a DEF historyVars
<1> QED
  BY <1>1, <1>2, <1>3, <1>4, <1>5, <1>6 DEF HistoryNext, ThreadStep

\* However many threads drain the order history at once, no id is in it, or
\* in the containers of the drains, more than once.
THEOREM NoOrderTwice == HistorySpec => []HeldOnce
<1>1. HistoryInit => HeldTracked /\ HeldOnce
  BY DEF HistoryInit, HeldTracked, HeldOnce, Held, Elements, Distinct
<1> QED
  BY <1>1, HistoryTypeInit, HistoryTypeStep, HeldOnceStep, PTL DEF HistorySpec
=============================================================================
