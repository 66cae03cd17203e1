------------------------------ MODULE MdiDepth ------------------------------
(***************************************************************************)
(* The market depth of one security in the MDI feed of MCX:                *)
(* MDI_SNAPSHOT::processData takes packets from the queue the multicast    *)
(* receiver fills, Broadcast_Snapshot applies snapshots and increments to  *)
(* a MarketData and publishes it.                                          *)
(*                                                                         *)
(* Multicast packets may be lost, repeated or overtake one another.  An    *)
(* increment holds entries, each of which changes one ladder; a snapshot   *)
(* replaces both.  Between two entries the depth is published, so each     *)
(* entry is a step.                                                        *)
(*                                                                         *)
(* The exchange is known from how the feed uses it: increments are         *)
(* numbered, a snapshot has the number of the last increment it includes,  *)
(* levels are counted from 1 (deleteBuyDepthThru removes as many as the    *)
(* level says), and a level that appears under a deleted one is sent as    *)
(* new.  Last trades, volumes, OHLC and DPR are left out.                  *)
(***************************************************************************)
EXTENDS Integers, Sequences, FiniteSets

CONSTANTS
  DEPTH_SIZE,     \* levels of a ladder (5)
  MaxPrice,       \* bound: prices are 1 .. MaxPrice
  MaxQty,         \* bound: quantities are 1 .. MaxQty
  MaxSeq,         \* bound: increments the exchange sends
  MaxWire,        \* bound: packets not yet taken
  MaxFaults       \* bound: packets lost, repeated or overtaken

ASSUME DepthAssumption ==
  /\ DEPTH_SIZE \in Nat \ {0}
  /\ MaxPrice \in Nat /\ MaxQty \in Nat
  /\ MaxSeq \in Nat /\ MaxWire \in Nat /\ MaxFaults \in Nat

Sides   == {"Bid", "Ask"}
Prices  == 1 .. MaxPrice
Levels  == [price : Prices, qty : 1 .. MaxQty]
Empty   == [price |-> 0, qty |-> 0]
Index   == 0 .. DEPTH_SIZE - 1
Ladders == [Index -> Levels \cup {Empty}]

Entry(action, side, level, l) == [action |-> action, side |-> side, level |-> level, at |-> l]

\* An entry has a price and quantity, and the number of a level where its
\* action uses that.
Entries == [action : {"New", "Update", "Delete", "DeleteThru", "DeleteFrom", "Overlay"},
            side : Sides, level : 1 .. DEPTH_SIZE, at : Levels]

VARIABLES
  book,              \* exchange: the levels it shows, as a set per side
  seq,               \* exchange: the number of the last increment
  wire,              \* packets on their way or in multicast_q
  faults,            \* faults so far
  pc,                \* processData: what it does
  work, levels,      \* the entries left of an increment, of a snapshot
  msgSeq,            \* MsgSeqNum of the message it works on
  depth,             \* market_depth: _buyDepth and _sellDepth
  lastProcessed_sequence_inc, lastProcessed_sequence_snap, snapshot_process,
  published,         \* history: the depth last published
  top,               \* history: the highest number applied, ignored or lost
  exact,             \* history: nothing since the last snapshot spoils the depth
  overlaid           \* history: an overlay was applied since the last snapshot

exchangeVars == <<book, seq>>
feedVars     == <<pc, work, levels, msgSeq, depth, lastProcessed_sequence_inc,
                  lastProcessed_sequence_snap, snapshot_process>>
historyVars  == <<published, top, exact, overlaid>>
vars         == <<exchangeVars, wire, faults, feedVars, historyVars>>

NoLevels   == [side \in Sides |-> {}]
EmptyDepth == [side \in Sides |-> [i \in Index |-> Empty]]

Init ==
  /\ book = NoLevels /\ seq = 0 /\ wire = <<>> /\ faults = 0
  /\ pc = "idle" /\ work = <<>> /\ levels = {} /\ msgSeq = 0
  /\ depth = EmptyDepth
  \* The two numbers are not initialised; the snapshot sets them before they are read.
  /\ lastProcessed_sequence_inc = 0 /\ lastProcessed_sequence_snap = 0
  /\ snapshot_process = FALSE
  /\ published = EmptyDepth /\ top = 0 /\ exact = FALSE /\ overlaid = FALSE
-----------------------------------------------------------------------------
(* MarketData: a ladder is an array of levels, the best first.             *)

Better(side, p, r) == IF side = "Bid" THEN p > r ELSE p < r

\* getPositionForBuyPrice, getPositionForSellPrice: where the search stops.
Stops(side, l, price, i) ==
  i = DEPTH_SIZE \/ l[i] = Empty \/ ~Better(side, l[i].price, price)

Position(side, l, price) ==
  CHOOSE i \in 0 .. DEPTH_SIZE :
    Stops(side, l, price, i) /\ \A j \in 0 .. i - 1 : ~Stops(side, l, price, j)

Found(l, price, i) == i < DEPTH_SIZE /\ l[i].price = price

\* Mutant of insertDepth: the search stops one level too far.
insertDepthLate(side, l, new) ==
  LET pos == Position(side, l, new.price) + 1
  IN  [i \in Index |-> IF i < pos THEN l[i] ELSE IF i = pos THEN new ELSE l[i - 1]]

\* insertBuyDepth, insertSellDepth.
insertDepth(side, l, new) ==
  LET pos == Position(side, l, new.price)
  IN  IF Found(l, new.price, pos) THEN l
      ELSE [i \in Index |-> IF i < pos THEN l[i] ELSE IF i = pos THEN new ELSE l[i - 1]]

\* updateBuyDepth, updateSellDepth.
updateDepth(side, l, new) ==
  LET pos == Position(side, l, new.price)
  IN  IF Found(l, new.price, pos) THEN [l EXCEPT ![pos] = new] ELSE l

\* The ladder without k levels from the one at pos on.
Shift(l, pos, k) ==
  [i \in Index |-> IF i < pos THEN l[i] ELSE IF i + k < DEPTH_SIZE THEN l[i + k] ELSE Empty]

\* deleteBuyDepth, deleteSellDepth.
deleteDepth(side, l, price) ==
  LET pos == Position(side, l, price) IN IF Found(l, price, pos) THEN Shift(l, pos, 1) ELSE l

\* deleteDepth of the best level n times over: it stops having an effect once
\* the best level is empty.
Leading(l, n) ==
  CHOOSE k \in 0 .. n :
    /\ \A j \in 0 .. k - 1 : j < DEPTH_SIZE /\ l[j] # Empty
    /\ k = n \/ k = DEPTH_SIZE \/ l[k] = Empty

deleteBest(l, n) == Shift(l, 0, Leading(l, n))

\* updateBuyDepth_Overlay, updateSellDepth_Overlay: level is used as an index.
\* Past the ladder _buyDepth is not written, and with _sellDepth it is the
\* last traded price behind it that is.
overlayDepth(l, level, new) == IF level < DEPTH_SIZE THEN [l EXCEPT ![level] = new] ELSE l

\* checkBestBidAsk.
checkBestBidAsk(d) ==
  /\ d["Bid"][0] # Empty \/ d["Ask"][0] # Empty
  /\ d["Bid"][0].price <= d["Ask"][0].price \/ d["Ask"][0] = Empty
-----------------------------------------------------------------------------
(* The exchange.  Its book is a set of levels per side, and for each event *)
(* it says which entries tell of it.                                       *)

feedKeeps == <<feedVars, published, overlaid>>

Worst(side, S) == CHOOSE x \in S : \A y \in S : x = y \/ Better(side, y.price, x.price)
Above(side, S, x) == {y \in S : Better(side, y.price, x.price)}

\* Whether x is the level numbered n.
IsLevel(side, S, x, n) == Cardinality(Above(side, S, x)) = n - 1

Uncrossed(b) == \A x \in b["Bid"], y \in b["Ask"] : x.price < y.price

\* The levels of a side become S, and the entries say so.
SendIncrement(side, S, entries) ==
  /\ seq < MaxSeq /\ Len(wire) < MaxWire
  /\ seq' = seq + 1
  /\ book' = [book EXCEPT ![side] = S]
  /\ Uncrossed(book')
  /\ wire' = Append(wire, [kind |-> "increment", seq |-> seq', levels |-> {}, entries |-> entries])
  /\ UNCHANGED <<faults, feedKeeps, top, exact>>

\* A new level, under which a full ladder loses its last.
NewLevel(side) ==
  \E x \in Levels :
    LET S == book[side]
        T == S \cup {x}
    IN  /\ \A y \in S : y.price # x.price
        /\ \/ /\ Cardinality(S) < DEPTH_SIZE
              /\ SendIncrement(side, T, <<Entry("New", side, 1, x)>>)
           \/ /\ Cardinality(S) = DEPTH_SIZE /\ x # Worst(side, T)
              /\ SendIncrement(side, T \ {Worst(side, T)}, <<Entry("New", side, 1, x)>>)

UpdateLevel(side) ==
  \E x \in book[side], y \in Levels :
    /\ y.price = x.price /\ y # x
    /\ SendIncrement(side, (book[side] \ {x}) \cup {y}, <<Entry("Update", side, 1, y)>>)

\* A level less, and perhaps one that a full ladder hid.
DeleteLevel(side) ==
  \E x \in book[side] :
    \/ SendIncrement(side, book[side] \ {x}, <<Entry("Delete", side, 1, x)>>)
    \/ /\ Cardinality(book[side]) = DEPTH_SIZE
       /\ \E y \in Levels :
            /\ \A z \in book[side] : Better(side, z.price, y.price)
            /\ SendIncrement(side, (book[side] \ {x}) \cup {y},
                             <<Entry("Delete", side, 1, x), Entry("New", side, 1, y)>>)

\* The levels up to the nth, or from the nth on.
DeleteLevels(side) ==
  \E x \in book[side], n \in 1 .. DEPTH_SIZE :
    LET S == book[side]
        A == Above(side, S, x)
    IN  /\ IsLevel(side, S, x, n)
        /\ \/ SendIncrement(side, S \ (A \cup {x}), <<Entry("DeleteThru", side, n, x)>>)
           \/ SendIncrement(side, A, <<Entry("DeleteFrom", side, n, x)>>)

\* Another price or quantity for the nth level, which stays the nth.
OverlayLevel(side) ==
  \E x \in book[side], y \in Levels, n \in 1 .. DEPTH_SIZE :
    LET S == book[side] \ {x} IN
      /\ y # x /\ IsLevel(side, book[side], x, n)
      /\ \A z \in S : z.price # y.price
      /\ Above(side, S, y) = Above(side, S, x)
      /\ SendIncrement(side, S \cup {y}, <<Entry("Overlay", side, n, y)>>)

SendSnapshot ==
  /\ Len(wire) < MaxWire
  /\ wire' = Append(wire, [kind |-> "snapshot", seq |-> seq, entries |-> <<>>,
       levels |-> UNION {{Entry("New", side, 1, x) : x \in book[side]} : side \in Sides}])
  /\ UNCHANGED <<exchangeVars, faults, feedKeeps, top, exact>>
-----------------------------------------------------------------------------
(* The network.                                                            *)

Fault == faults < MaxFaults /\ faults' = faults + 1

\* What is lost of the packets still to come is missing, but for what the
\* last snapshot had.
Lost(m) ==
  IF m.kind = "increment"
  THEN /\ top' = IF m.seq > top THEN m.seq ELSE top
       /\ exact' = (exact /\ m.seq <= lastProcessed_sequence_snap)
  ELSE UNCHANGED <<top, exact>>

LosePacket ==
  /\ Fault /\ wire # <<>>
  /\ wire' = Tail(wire)
  /\ Lost(Head(wire))
  /\ UNCHANGED <<exchangeVars, feedKeeps>>

RepeatPacket ==
  /\ Fault /\ wire # <<>> /\ Len(wire) < MaxWire
  /\ wire' = Append(wire, Head(wire))
  /\ UNCHANGED <<exchangeVars, feedKeeps, top, exact>>

Overtake ==
  /\ Fault /\ Len(wire) > 1
  /\ wire' = <<wire[2], wire[1]>> \o SubSeq(wire, 3, Len(wire))
  /\ UNCHANGED <<exchangeVars, feedKeeps, top, exact>>
-----------------------------------------------------------------------------
(* The feed: MDI_SNAPSHOT::processData, Broadcast_Snapshot.                *)

othersKeep == <<exchangeVars, faults>>

Take(kind) ==
  /\ pc = "idle" /\ wire # <<>> /\ Head(wire).kind = kind
  /\ wire' = Tail(wire)

\* Mutant of TakeSnapshot: the depth is not cleared.
TakeSnapshotKeeps ==
  /\ Take("snapshot")
  /\ pc' = "snapshot" /\ work' = <<>> /\ msgSeq' = Head(wire).seq /\ levels' = Head(wire).levels
  /\ lastProcessed_sequence_inc' = msgSeq' /\ lastProcessed_sequence_snap' = msgSeq'
  /\ exact' = (msgSeq' >= top) /\ overlaid' = FALSE
  /\ UNCHANGED <<othersKeep, depth, snapshot_process, published, top>>

\* processDepthSnapshot clears the depth, ...
TakeSnapshot ==
  /\ Take("snapshot")
  /\ pc' = "snapshot" /\ work' = <<>> /\ msgSeq' = Head(wire).seq /\ levels' = Head(wire).levels
  /\ depth' = EmptyDepth
  /\ lastProcessed_sequence_inc' = msgSeq' /\ lastProcessed_sequence_snap' = msgSeq'
  /\ exact' = (msgSeq' >= top) /\ overlaid' = FALSE
  /\ UNCHANGED <<othersKeep, snapshot_process, published, top>>

\* ... inserts the levels one by one, ...
SnapshotEntry ==
  /\ pc = "snapshot"
  /\ \E e \in levels :
       /\ levels' = levels \ {e}
       /\ depth' = [depth EXCEPT ![e.side] = insertDepth(e.side, @, e.at)]
  /\ UNCHANGED <<othersKeep, wire, pc, work, msgSeq, lastProcessed_sequence_inc,
                 lastProcessed_sequence_snap, snapshot_process, historyVars>>

\* Mutant of Publish: the depth from before the entry is sent.
PublishBefore == published' = IF checkBestBidAsk(depth) THEN depth ELSE published

Publish == published' = IF checkBestBidAsk(depth') THEN depth' ELSE published

\* ... and publishes.
EndSnapshot ==
  /\ pc = "snapshot" /\ levels = {}
  /\ pc' = "idle" /\ msgSeq' = 0
  /\ UNCHANGED depth /\ Publish
  /\ snapshot_process' = TRUE
  /\ UNCHANGED <<othersKeep, wire, work, levels, lastProcessed_sequence_inc,
                 lastProcessed_sequence_snap, top, exact, overlaid>>

TakeIncrement ==
  /\ Take("increment")
  /\ pc' = "increment" /\ work' = Head(wire).entries /\ msgSeq' = Head(wire).seq
  /\ UNCHANGED <<othersKeep, levels, depth, lastProcessed_sequence_inc,
                 lastProcessed_sequence_snap, snapshot_process, historyVars>>

NextEntry == pc = "increment" /\ work # <<>> /\ work' = Tail(work)

\* The handlers of the update actions.  process_Increment_Delete_from calls
\* deleteBuyDepthFrom for both sides, and that removes the best levels.
Apply(e) ==
  LET l == depth[e.side] IN
  \/ /\ e.action = "New"
     /\ depth' = [depth EXCEPT ![e.side] = insertDepth(e.side, l, e.at)]
  \/ /\ e.action = "Update"
     /\ depth' = [depth EXCEPT ![e.side] = updateDepth(e.side, l, e.at)]
  \/ /\ e.action = "Delete"
     /\ depth' = [depth EXCEPT ![e.side] = deleteDepth(e.side, l, e.at.price)]
  \/ /\ e.action = "DeleteThru"
     /\ depth' = [depth EXCEPT ![e.side] = deleteBest(l, e.level)]
  \/ /\ e.action = "DeleteFrom"
     /\ depth' = [depth EXCEPT !["Bid"] = deleteBest(@, DEPTH_SIZE - e.level + 1)]
  \/ /\ e.action = "Overlay"
     /\ depth' = [depth EXCEPT ![e.side] = overlayDepth(l, e.level, e.at)]

\* Mutant of IsNext: what has the last number is applied again.
IsNextOrSame == msgSeq >= lastProcessed_sequence_inc

IsNext == msgSeq > lastProcessed_sequence_inc

\* process_Increment_Depth of an entry that is applied and published, ...
ApplyEntry ==
  /\ NextEntry /\ snapshot_process /\ IsNext
  /\ LET e == Head(work) IN
       /\ Apply(e)
       /\ exact' = (exact /\ e.action \notin {"DeleteFrom", "Overlay"})
       /\ overlaid' = (overlaid \/ e.action = "Overlay")
  /\ Publish
  /\ UNCHANGED <<othersKeep, wire, pc, levels, msgSeq, lastProcessed_sequence_inc,
                 lastProcessed_sequence_snap, snapshot_process, top>>

\* ... of one that has no snapshot to follow, or that the snapshot had, ...
SkipEntry ==
  /\ NextEntry
  /\ snapshot_process => msgSeq <= lastProcessed_sequence_snap /\ ~IsNext
  /\ UNCHANGED <<othersKeep, wire, pc, levels, msgSeq, depth, lastProcessed_sequence_inc,
                 lastProcessed_sequence_snap, snapshot_process, historyVars>>

\* ... of one with the last number, or of one before it that is missing: with
\* it the feed waits for the next snapshot.
MissingEntry ==
  /\ NextEntry /\ snapshot_process
  /\ msgSeq > lastProcessed_sequence_snap /\ ~IsNext
  /\ snapshot_process' = (snapshot_process /\ msgSeq = lastProcessed_sequence_inc)
  /\ UNCHANGED depth /\ Publish
  /\ UNCHANGED <<othersKeep, wire, pc, levels, msgSeq, lastProcessed_sequence_inc,
                 lastProcessed_sequence_snap, top, exact, overlaid>>

\* Mutant of EndIncrement: the number expected next is kept.
EndIncrementNext ==
  /\ pc = "increment" /\ work = <<>>
  /\ pc' = "idle" /\ msgSeq' = 0
  /\ lastProcessed_sequence_inc' = msgSeq + 1
  /\ top' = IF msgSeq > top THEN msgSeq ELSE top
  /\ exact' = (exact /\ msgSeq > lastProcessed_sequence_snap)
  /\ UNCHANGED <<othersKeep, wire, work, levels, depth, lastProcessed_sequence_snap,
                 snapshot_process, published, overlaid>>

\* The number is taken whether or not the entries were applied.
EndIncrement ==
  /\ pc = "increment" /\ work = <<>>
  /\ pc' = "idle" /\ msgSeq' = 0
  /\ lastProcessed_sequence_inc' = msgSeq
  /\ top' = IF msgSeq > top THEN msgSeq ELSE top
  /\ exact' = (exact /\ msgSeq > lastProcessed_sequence_snap)
  /\ UNCHANGED <<othersKeep, wire, work, levels, depth, lastProcessed_sequence_snap,
                 snapshot_process, published, overlaid>>

\* A packet that cannot be decoded is popped in the catch block and the next
\* one, if it has come, after it.
DecodeFails ==
  /\ Fault /\ pc = "idle" /\ Len(wire) > 1
  /\ wire' = SubSeq(wire, 3, Len(wire))
  /\ LET numbers == {wire[i].seq : i \in {j \in {1, 2} : wire[j].kind = "increment"}} IN
       /\ top' = CHOOSE n \in numbers \cup {top} : \A k \in numbers \cup {top} : k <= n
       /\ exact' = (exact /\ \A n \in numbers : n <= lastProcessed_sequence_snap)
  /\ UNCHANGED <<exchangeVars, feedKeeps>>
-----------------------------------------------------------------------------
Changes == \E side \in Sides :
             NewLevel(side) \/ UpdateLevel(side) \/ DeleteLevel(side)
               \/ DeleteLevels(side) \/ OverlayLevel(side)

Feed == \/ TakeSnapshot \/ SnapshotEntry \/ EndSnapshot
        \/ TakeIncrement \/ ApplyEntry \/ SkipEntry \/ MissingEntry \/ EndIncrement

Next == \/ Changes \/ SendSnapshot
        \/ LosePacket \/ RepeatPacket \/ Overtake \/ DecodeFails
        \/ Feed

Spec == Init /\ [][Next]_vars

\* The feed runs, and the exchange goes on sending snapshots.
FairSpec == Spec /\ WF_vars(Feed) /\ WF_vars(SendSnapshot)
-----------------------------------------------------------------------------
\* The state of the feed is well typed.
DepthTypeOK ==
  /\ depth \in [Sides -> Ladders] /\ published \in [Sides -> Ladders]
  /\ pc \in {"idle", "snapshot", "increment"}
  /\ work \in Seq(Entries) /\ levels \subseteq Entries
  /\ {msgSeq, lastProcessed_sequence_inc, lastProcessed_sequence_snap, top} \subseteq 0 .. seq
  /\ {snapshot_process, exact, overlaid} \subseteq BOOLEAN

\* checkCorrectnessBuy, checkCorrectnessSell: better prices first, no price
\* twice, no gap.
Correct(side, l) ==
  \A i, j \in Index :
    i < j /\ l[j] # Empty => l[i] # Empty /\ Better(side, l[i].price, l[j].price)

\* The ladders keep their order whatever packets are lost, repeated or
\* overtaken, in the middle of a message too, as long as no overlay is applied
\* (an overlay puts its price at the level it names, whatever is around it).
LaddersCorrect == ~overlaid => \A side \in Sides : Correct(side, depth[side])

LevelsOf(l) == {l[i] : i \in Index} \ {Empty}

SameBook == \A side \in Sides : LevelsOf(depth[side]) = book[side]

\* Once every packet is handled the depth is the book of the exchange, though
\* increments were repeated or overtook others, unless one the snapshot did not
\* have was lost, a snapshot came after an increment it did not have, an
\* increment came that the snapshot had (its number is taken as the last), or an
\* overlay or a DeleteFrom was applied.
DepthIsBook == pc = "idle" /\ wire = <<>> /\ snapshot_process /\ exact => SameBook

\* Between messages whoever listens has the depth as it is, also when entries
\* were ignored or missing, unless it is empty or crossed: then they keep the
\* last one that was not.
PublishedIsCurrent == pc = "idle" => published = depth \/ ~checkBestBidAsk(depth)

\* Snapshots heal: when changes and faults have ended the depth comes to be
\* the book, and stays so.
Heals == <>[](pc = "idle" => SameBook)
=============================================================================
