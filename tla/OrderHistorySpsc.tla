-------------------------- MODULE OrderHistorySpsc --------------------------
(***************************************************************************)
(* OrderHistory on the queue the code declares (Adapter.h:135): a          *)
(* boost::lockfree::spsc_queue, whose push and pop each load the two       *)
(* indices, access a cell and then store their own index.  That is safe    *)
(* for one producing and one consuming thread; here the OMS thread and the *)
(* exchange thread both push and both pop.                                 *)
(*                                                                         *)
(* A load and the store that follows it are two steps, with steps of the   *)
(* other thread between them: the code takes no lock.                      *)
(***************************************************************************)
EXTENDS Integers, Sequences, FiniteSets

CONSTANTS Ids, NoId, Threads, oms, Capacity   \* as in OrderHistory

VARIABLES
  cells, readIndex, writeIndex,  \* the ring: Capacity + 1 cells, one unused
  loaded,                        \* per thread, the index its operation loaded
  entering,                      \* the id the OMS thread is pushing
  phase, removeValue, tempContainer, tracked, dropped, reported

ring  == <<cells, readIndex, writeIndex>>
calls == <<phase, removeValue, tempContainer>>
vars  == <<cells, readIndex, writeIndex, loaded, entering, phase, removeValue,
           tempContainer, tracked, dropped, reported>>

Size     == Capacity + 1
NoIndex  == -1

next_index(i) == (i + 1) % Size

Empty == readIndex = writeIndex
Full  == next_index(writeIndex) = readIndex

\* A thread begins an operation of the queue.
MayLoad(t) == loaded[t] = NoIndex

Init ==
  /\ cells = [i \in 0 .. Capacity |-> NoId]
  /\ readIndex = 0 /\ writeIndex = 0
  /\ loaded = [t \in Threads |-> NoIndex]
  /\ entering = NoId
  /\ phase = [t \in Threads |-> "idle"]
  /\ removeValue = [t \in Threads |-> NoId]
  /\ tempContainer = [t \in Threads |-> <<>>]
  /\ tracked = {} /\ dropped = {} /\ reported = {}

\* push: the loads.  What a full queue does is up to the caller.
LoadPush(t) ==
  /\ MayLoad(t) /\ ~Full
  /\ loaded' = [loaded EXCEPT ![t] = writeIndex]

\* push: the cell and the index are written.
StorePush(t, id) ==
  /\ loaded[t] # NoIndex
  /\ cells' = [cells EXCEPT ![loaded[t]] = id]
  /\ writeIndex' = next_index(loaded[t])
  /\ loaded' = [loaded EXCEPT ![t] = NoIndex]
  /\ UNCHANGED readIndex

\* pop: the loads, of a queue that is not empty.
LoadPop(t) ==
  /\ MayLoad(t) /\ ~Empty
  /\ loaded' = [loaded EXCEPT ![t] = readIndex]

\* pop: the cell is read, the index written.
StorePop(t) ==
  /\ loaded[t] # NoIndex
  /\ readIndex' = next_index(loaded[t])
  /\ loaded' = [loaded EXCEPT ![t] = NoIndex]
  /\ UNCHANGED <<cells, writeIndex>>

Fresh(id) == id \notin tracked \cup dropped \cup reported \cup {removeValue[oms], entering}

\* receiveFromOMS calls setClOrderId.
TakeOrder(id) ==
  /\ phase[oms] = "idle" /\ entering = NoId /\ Fresh(id)
  /\ \/ /\ LoadPush(oms)
        /\ entering' = id
        /\ UNCHANGED dropped
     \/ /\ MayLoad(oms) /\ Full
        /\ dropped' = dropped \cup {id}
        /\ UNCHANGED <<loaded, entering>>
  /\ UNCHANGED <<ring, calls, tracked, reported>>

OrderTaken ==
  /\ entering # NoId
  /\ StorePush(oms, entering)
  /\ tracked' = tracked \cup {entering}
  /\ entering' = NoId
  /\ UNCHANGED <<calls, dropped, reported>>

StartRemove(t, id) ==
  /\ phase[t] = "idle" /\ MayLoad(t)
  /\ phase' = [phase EXCEPT ![t] = IF Empty THEN "done" ELSE "pop"]
  /\ removeValue' = [removeValue EXCEPT ![t] = id]
  /\ UNCHANGED <<ring, loaded, entering, tempContainer, tracked, dropped, reported>>

RejectOrder(id) == entering = NoId /\ Fresh(id) /\ StartRemove(oms, id)

Answer(t, id) ==
  t # oms /\ id \in tracked \cup dropped \cup {NoId} /\ StartRemove(t, id)

LoadPopOne(t) ==
  /\ phase[t] = "pop"
  /\ LoadPop(t)
  /\ UNCHANGED <<ring, entering, calls, tracked, dropped, reported>>

PopOne(t) ==
  /\ phase[t] = "pop"
  /\ StorePop(t)
  /\ LET v == cells[loaded[t]]
     IN  tempContainer' = [tempContainer EXCEPT ![t] =
           IF v # removeValue[t] THEN Append(@, v) ELSE @]
  /\ UNCHANGED <<entering, phase, removeValue, tracked, dropped, reported>>

PopNone(t) ==
  /\ phase[t] = "pop" /\ MayLoad(t) /\ Empty
  /\ phase' = [phase EXCEPT ![t] = "back"]
  /\ UNCHANGED <<ring, loaded, entering, removeValue, tempContainer, tracked, dropped, reported>>

LoadPushBack(t) ==
  /\ phase[t] = "back" /\ tempContainer[t] # <<>>
  /\ LoadPush(t)
  /\ UNCHANGED <<ring, entering, calls, tracked, dropped, reported>>

PushBack(t) ==
  /\ phase[t] = "back" /\ tempContainer[t] # <<>>
  /\ StorePush(t, Head(tempContainer[t]))
  /\ tempContainer' = [tempContainer EXCEPT ![t] = Tail(@)]
  /\ UNCHANGED <<entering, phase, removeValue, tracked, dropped, reported>>

EndRemove(t) ==
  /\ phase[t] = "back" /\ tempContainer[t] = <<>>
  /\ phase' = [phase EXCEPT ![t] = "done"]
  /\ UNCHANGED <<ring, loaded, entering, removeValue, tempContainer, tracked, dropped, reported>>

Report(t) ==
  /\ phase[t] = "done"
  /\ reported' = reported \cup {removeValue[t]}
  /\ phase' = [phase EXCEPT ![t] = "idle"]
  /\ removeValue' = [removeValue EXCEPT ![t] = NoId]
  /\ UNCHANGED <<ring, loaded, entering, tempContainer, tracked, dropped>>

Next ==
  \/ \E id \in Ids : TakeOrder(id) \/ RejectOrder(id)
  \/ OrderTaken
  \/ \E t \in Threads :
       \/ \E id \in Ids \cup {NoId} : Answer(t, id)
       \/ LoadPopOne(t) \/ PopOne(t) \/ PopNone(t)
       \/ LoadPushBack(t) \/ PushBack(t) \/ EndRemove(t) \/ Report(t)

Spec == Init /\ [][Next]_vars
-----------------------------------------------------------------------------
(* The properties.                                                         *)

\* What the queue holds: the cells from the read to the write index.
Contents ==
  LET n == (writeIndex - readIndex + Size) % Size
  IN  [i \in 1 .. n |-> cells[(readIndex + i - 1) % Size]]

History == INSTANCE OrderHistory WITH orderHistory <- Contents

\* An order the queue has taken is reported, about to be, or still held
\* (adapter.cpp:122: "collect clorderid for tracking").
Accounted == History!Accounted
=============================================================================
