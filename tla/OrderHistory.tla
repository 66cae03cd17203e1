---------------------------- MODULE OrderHistory ----------------------------
(***************************************************************************)
(* Adapter::orderHistory of the NSE order gateways: the ids of the orders  *)
(* taken from the OMS and not yet answered by the exchange.                *)
(*                                                                         *)
(* The OMS thread pushes the id of an order before it sends it.  Whichever *)
(* thread is about to report on an order first takes its id out: it pops   *)
(* every id into a container of its own, leaving the reported one behind,  *)
(* and pushes the others back.  Nothing keeps the other thread from        *)
(* pushing, or from a drain of its own, in between.                        *)
(*                                                                         *)
(* Here push and pop are atomic, which is what this code counts on.        *)
(* OrderHistorySpsc has the queue the code really uses.                    *)
(***************************************************************************)
EXTENDS Integers, Sequences, FiniteSets

CONSTANTS
  Ids,       \* client order ids
  NoId,      \* no id
  Threads,   \* the threads that report on orders
  oms,       \* the one of them that also takes the orders of the OMS
  Capacity   \* capacity of orderHistory: 2000

ASSUME HistoryAssumption ==
  /\ NoId \notin Ids
  /\ oms \in Threads
  /\ Capacity \in Nat \ {0}

VARIABLES
  orderHistory,   \* the queue
  phase,          \* per thread, where it is in removeIdFromOrderHistory
  removeValue,    \* ... the id it removes,
  tempContainer,  \* ... and the ids it has popped and not pushed back
  tracked,        \* history: ids the queue has taken
  dropped,        \* history: ids whose push failed
  reported        \* history: ids reported to the OMS

calls       == <<phase, removeValue, tempContainer>>
historyVars == <<orderHistory, phase, removeValue, tempContainer,
                 tracked, dropped, reported>>

\* The phases of a call: not in it, popping, pushing back, and returned into
\* the handler that is about to report.
Phases == {"idle", "pop", "back", "done"}

HistoryInit ==
  /\ orderHistory = <<>>
  /\ phase = [t \in Threads |-> "idle"]
  /\ removeValue = [t \in Threads |-> NoId]
  /\ tempContainer = [t \in Threads |-> <<>>]
  /\ tracked = {} /\ dropped = {} /\ reported = {}

Full == Len(orderHistory) >= Capacity

\* setClOrderId: the result of the push is ignored.
setClOrderId(id) ==
  /\ \/ /\ ~Full
        /\ orderHistory' = Append(orderHistory, id)
        /\ tracked' = tracked \cup {id}
        /\ UNCHANGED dropped
     \/ /\ Full
        /\ dropped' = dropped \cup {id}
        /\ UNCHANGED <<orderHistory, tracked>>
  /\ UNCHANGED <<phase, removeValue, tempContainer, reported>>

\* A thread calls removeIdFromOrderHistory, which returns at once when the
\* queue is empty.
StartRemove(t, id) ==
  /\ phase[t] = "idle"
  /\ phase' = [phase EXCEPT ![t] = IF orderHistory = <<>> THEN "done" ELSE "pop"]
  /\ removeValue' = [removeValue EXCEPT ![t] = id]
  /\ UNCHANGED <<orderHistory, tempContainer, tracked, dropped, reported>>

\* Mutant of PopOne: pop and push back in one loop.
PopOneInPlace(t) ==
  /\ phase[t] = "pop" /\ orderHistory # <<>>
  /\ orderHistory' = IF Head(orderHistory) = removeValue[t]
                       THEN Tail(orderHistory)
                       ELSE Append(Tail(orderHistory), Head(orderHistory))
  /\ UNCHANGED <<phase, removeValue, tempContainer, tracked, dropped, reported>>

\* Mutant of PopOne: of the ids popped, only the last is kept.
PopOneKeepsLast(t) ==
  /\ phase[t] = "pop" /\ orderHistory # <<>>
  /\ orderHistory' = Tail(orderHistory)
  /\ tempContainer' = [tempContainer EXCEPT ![t] =
       IF Head(orderHistory) # removeValue[t] THEN <<Head(orderHistory)>> ELSE @]
  /\ UNCHANGED <<phase, removeValue, tracked, dropped, reported>>

\* One turn of the loop that pops.
PopOne(t) ==
  /\ phase[t] = "pop" /\ orderHistory # <<>>
  /\ orderHistory' = Tail(orderHistory)
  /\ tempContainer' = [tempContainer EXCEPT ![t] =
       IF Head(orderHistory) # removeValue[t] THEN Append(@, Head(orderHistory)) ELSE @]
  /\ UNCHANGED <<phase, removeValue, tracked, dropped, reported>>

\* The loop that pops ends: the queue is empty.
PopNone(t) ==
  /\ phase[t] = "pop" /\ orderHistory = <<>>
  /\ phase' = [phase EXCEPT ![t] = "back"]
  /\ UNCHANGED <<orderHistory, removeValue, tempContainer, tracked, dropped, reported>>

\* Mutant of PushBack: do { push } while (!push) where the code has
\* while (!push).
PushBackDoWhile(t) ==
  /\ phase[t] = "back" /\ tempContainer[t] # <<>>
  /\ ~Full
  /\ orderHistory' = orderHistory \o <<Head(tempContainer[t]), Head(tempContainer[t])>>
  /\ tempContainer' = [tempContainer EXCEPT ![t] = Tail(@)]
  /\ UNCHANGED <<phase, removeValue, tracked, dropped, reported>>

\* One turn of the loop that pushes back; while the queue is full it spins.
PushBack(t) ==
  /\ phase[t] = "back" /\ tempContainer[t] # <<>>
  /\ ~Full
  /\ orderHistory' = Append(orderHistory, Head(tempContainer[t]))
  /\ tempContainer' = [tempContainer EXCEPT ![t] = Tail(@)]
  /\ UNCHANGED <<phase, removeValue, tracked, dropped, reported>>

EndRemove(t) ==
  /\ phase[t] = "back" /\ tempContainer[t] = <<>>
  /\ phase' = [phase EXCEPT ![t] = "done"]
  /\ UNCHANGED <<orderHistory, removeValue, tempContainer, tracked, dropped, reported>>

\* The handler that called removeIdFromOrderHistory reports to the OMS.
Report(t) ==
  /\ phase[t] = "done"
  /\ reported' = reported \cup {removeValue[t]}
  /\ phase' = [phase EXCEPT ![t] = "idle"]
  /\ removeValue' = [removeValue EXCEPT ![t] = NoId]
  /\ UNCHANGED <<orderHistory, tempContainer, tracked, dropped>>

\* The steps a thread takes on its own once it is in a handler.
ThreadStep(t) == PopOne(t) \/ PopNone(t) \/ PushBack(t) \/ EndRemove(t) \/ Report(t)
-----------------------------------------------------------------------------
(* The history on its own: the OMS sends each id once, the exchange may    *)
(* answer any tracked id, at any time and more than once.                  *)

Fresh(id) == id \notin tracked \cup dropped \cup reported \cup {removeValue[oms]}

\* receiveFromOMS, the gateway being up.
TakeOrder == \E id \in Ids : phase[oms] = "idle" /\ Fresh(id) /\ setClOrderId(id)

\* receiveFromOMS, the gateway being down: rejectMessage.
RejectOrder == \E id \in Ids : Fresh(id) /\ StartRemove(oms, id)

\* An answer of the exchange to an order it was sent, or rejectMessage of the
\* front of the queue after the message download.  NoId stands for what a cell
\* holds when the front of an emptied queue is read.
Answer ==
  \E t \in Threads \ {oms}, id \in tracked \cup dropped \cup {NoId} : StartRemove(t, id)

HistoryNext == TakeOrder \/ RejectOrder \/ Answer \/ \E t \in Threads : ThreadStep(t)

HistorySpec == HistoryInit /\ [][HistoryNext]_historyVars
-----------------------------------------------------------------------------
(* The properties.                                                         *)

Elements(s) == {s[i] : i \in 1 .. Len(s)}

HistoryTypeOK ==
  /\ orderHistory \in Seq(Ids) /\ Len(orderHistory) <= Capacity
  /\ phase \in [Threads -> Phases]
  /\ removeValue \in [Threads -> Ids \cup {NoId}]
  /\ tempContainer \in [Threads -> Seq(Ids)]
  /\ tracked \subseteq Ids /\ dropped \subseteq Ids
  /\ reported \subseteq Ids \cup {NoId}

\* The ids a handler works on: it will report them.
InHandler == {removeValue[t] : t \in {u \in Threads : phase[u] # "idle"}}

\* The ids in the queue and in the containers of the threads.
Held == Elements(orderHistory) \cup UNION {Elements(tempContainer[t]) : t \in Threads}

\* However the drains of the threads interleave, an id the queue has taken is
\* reported to the OMS, about to be, or still held somewhere.
Accounted == tracked \subseteq reported \cup InHandler \cup Held

\* ... and it is never held twice: no container repeats an id, and no two
\* have one in common.
Distinct(s) == \A i, j \in 1 .. Len(s) : i # j => s[i] # s[j]

HeldOnce ==
  /\ Distinct(orderHistory)
  /\ \A t \in Threads :
       /\ Distinct(tempContainer[t])
       /\ Elements(tempContainer[t]) \cap Elements(orderHistory) = {}
       /\ \A u \in Threads \ {t} :
            Elements(tempContainer[t]) \cap Elements(tempContainer[u]) = {}
=============================================================================
