--------------------------- MODULE MdiDepthProofs ---------------------------
(***************************************************************************)
(* Proofs about MdiDepth, for ladders of any length, any prices and        *)
(* quantities, and any number of increments, packets and faults.           *)
(*                                                                         *)
(* First the types, the order of the ladders and what is published.  Then  *)
(* the depth is the book: what each entry makes of a ladder as a set of    *)
(* levels, the history of the exchange's books, and where in it the feed   *)
(* is.                                                                     *)
(***************************************************************************)
EXTENDS MdiDepth, LeastNumber, FiniteSetTheorems, SequenceTheorems, TLAPS

-----------------------------------------------------------------------------
(* Numbers.                                                                *)

LEMMA LargestOfThree ==
  ASSUME NEW a \in Nat, NEW b \in Nat, NEW c \in Nat,
         NEW S, S \subseteq {a, b, c}, S # {}
  PROVE  \E n \in S : \A k \in S : k <= n
<1>1. CASE c \in S /\ a <= c /\ b <= c
  BY <1>1
<1>2. CASE b \in S /\ (c \in S => c <= b) /\ a <= b
  BY <1>2
<1>3. CASE a \in S /\ (b \in S => b <= a) /\ (c \in S => c <= a)
  BY <1>3
<1>4. CASE c \in S /\ (a \in S => a <= c) /\ (b \in S => b <= c)
  BY <1>4
<1>5. CASE b \in S /\ (a \in S => a <= b) /\ (c \in S => c <= b)
  BY <1>5
<1>6. a \in S \/ b \in S \/ c \in S
  OBVIOUS
<1> QED  BY <1>1, <1>2, <1>3, <1>4, <1>5, <1>6

-----------------------------------------------------------------------------
(* Ladders.  In each lemma l is any ladder, correct or not, until it says  *)
(* otherwise.                                                              *)

LEMMA LevelFacts ==
  ASSUME NEW x \in Levels
  PROVE  x.price \in Nat \ {0} /\ x # Empty
BY DepthAssumption DEF Levels, Prices, Empty

LEMMA LadderFacts ==
  ASSUME NEW l \in Ladders, NEW i \in Index
  PROVE  /\ l[i] \in Levels \cup {Empty}
         /\ l[i].price \in Nat
         /\ l[i].price = 0 <=> l[i] = Empty
BY DepthAssumption, LevelFacts DEF Ladders, Empty, Index

\* The search stops, at the first place where it may.
LEMMA PositionFirst ==
  ASSUME NEW side \in Sides, NEW l \in Ladders, NEW price \in Nat
  PROVE  LET pos == Position(side, l, price)
         IN  /\ pos \in 0 .. DEPTH_SIZE
             /\ Stops(side, l, price, pos)
             /\ \A j \in 0 .. pos - 1 : ~Stops(side, l, price, j)
<1> DEFINE S == {i \in 0 .. DEPTH_SIZE : Stops(side, l, price, i)}
<1>1. S \in SUBSET Nat /\ DEPTH_SIZE \in S
  BY DepthAssumption DEF Stops
<1>2. PICK x \in S : \A y \in S : x <= y
  BY <1>1, Least
<1>3. \A j \in 0 .. x - 1 : ~Stops(side, l, price, j)
  BY <1>2, DepthAssumption
<1> QED  BY <1>2, <1>3 DEF Position

\* How many of the best levels there are to delete.
LEMMA LeadingNumber ==
  ASSUME NEW l, NEW n \in Nat
  PROVE  LET k == Leading(l, n)
         IN  /\ k \in 0 .. n
             /\ \A j \in 0 .. k - 1 : j < DEPTH_SIZE /\ l[j] # Empty
             /\ k = n \/ k = DEPTH_SIZE \/ l[k] = Empty
<1> DEFINE S == {k \in 0 .. n : k = n \/ k = DEPTH_SIZE \/ l[k] = Empty}
<1>1. S \in SUBSET Nat /\ n \in S
  OBVIOUS
<1>2. PICK x \in S : \A y \in S : x <= y
  BY <1>1, Least
<1>3. \A j \in 0 .. x - 1 : j \in 0 .. n /\ j # DEPTH_SIZE /\ l[j] # Empty
  BY <1>2
<1>4. \A j \in 0 .. x - 1 : j < DEPTH_SIZE
  BY <1>2, <1>3, DepthAssumption
<1>5. \E k \in 0 .. n :
        /\ \A j \in 0 .. k - 1 : j < DEPTH_SIZE /\ l[j] # Empty
        /\ k = n \/ k = DEPTH_SIZE \/ l[k] = Empty
  BY <1>2, <1>3, <1>4
<1> QED  BY <1>5, Zenon DEF Leading

\* A ladder that loses levels keeps the order of the others.
LEMMA ShiftLadder ==
  ASSUME NEW side \in Sides, NEW l \in Ladders, NEW pos \in Nat, NEW k \in Nat
  PROVE  /\ Shift(l, pos, k) \in Ladders
         /\ Correct(side, l) => Correct(side, Shift(l, pos, k))
<1> DEFINE m == Shift(l, pos, k)
<1>1. m \in Ladders
  BY DepthAssumption DEF Shift, Ladders, Index
<1>2. ASSUME Correct(side, l), NEW i \in Index, NEW j \in Index, i < j, m[j] # Empty
      PROVE  m[i] # Empty /\ Better(side, m[i].price, m[j].price)
  <2> DEFINE at(x) == IF x < pos THEN x ELSE x + k
  <2>1. at(i) < at(j) /\ at(i) \in Nat /\ at(j) \in Nat
    BY <1>2 DEF Index
  <2>2. at(j) < DEPTH_SIZE /\ m[j] = l[at(j)]
    BY <1>2, DepthAssumption DEF Shift, Index
  <2>3. m[i] = l[at(i)]
    BY <2>1, <2>2, DepthAssumption DEF Shift, Index
  <2>4. at(i) \in Index /\ at(j) \in Index
    BY <2>1, <2>2, DepthAssumption DEF Index
  <2> HIDE DEF at
  <2> QED  BY <1>2, <2>1, <2>2, <2>3, <2>4 DEF Correct
<1> QED  BY <1>1, <1>2 DEF Correct

LEMMA InsertLadder ==
  ASSUME NEW side \in Sides, NEW l \in Ladders, NEW new \in Levels
  PROVE  /\ insertDepth(side, l, new) \in Ladders
         /\ Correct(side, l) => Correct(side, insertDepth(side, l, new))
<1> DEFINE pos == Position(side, l, new.price)
           m   == [i \in Index |-> IF i < pos THEN l[i] ELSE IF i = pos THEN new ELSE l[i - 1]]
<1>1. new.price \in Nat /\ new # Empty
  BY LevelFacts
<1>2. /\ pos \in 0 .. DEPTH_SIZE /\ Stops(side, l, new.price, pos)
      /\ \A j \in 0 .. pos - 1 : ~Stops(side, l, new.price, j)
  BY <1>1, PositionFirst
<1> HIDE DEF pos
<1>3. insertDepth(side, l, new) = IF Found(l, new.price, pos) THEN l ELSE m
  BY DEF insertDepth, pos
<1>4. m \in Ladders
  BY <1>2, DepthAssumption DEF Ladders, Index
<1>5. ASSUME NEW i \in Index, i < pos
      PROVE  l[i] # Empty /\ Better(side, l[i].price, new.price)
  BY <1>2, <1>5, DepthAssumption DEF Stops, Index
<1>6. ASSUME Correct(side, l), ~Found(l, new.price, pos), NEW i \in Index, i >= pos, l[i] # Empty
      PROVE  Better(side, new.price, l[i].price)
  <2>1. pos \in Index
    BY <1>2, <1>6, DepthAssumption DEF Index
  <2>2. l[pos] # Empty /\ (pos < i => Better(side, l[pos].price, l[i].price))
    BY <1>6, <2>1, DepthAssumption DEF Correct, Index
  <2>3. l[pos].price \in Nat /\ l[i].price \in Nat
    BY <2>1, <1>6, LadderFacts
  <2>4. Better(side, new.price, l[pos].price)
    BY <1>1, <1>2, <1>6, <2>1, <2>2, <2>3, DepthAssumption DEF Stops, Found, Better, Index
  <2>5. CASE pos = i
    BY <2>4, <2>5
  <2>6. CASE pos # i
    BY <1>1, <1>2, <1>6, <2>2, <2>3, <2>4, <2>6, DepthAssumption DEF Better, Index
  <2> QED  BY <2>5, <2>6
<1>7. ASSUME Correct(side, l), ~Found(l, new.price, pos),
             NEW i \in Index, NEW j \in Index, i < j, m[j] # Empty
      PROVE  m[i] # Empty /\ Better(side, m[i].price, m[j].price)
  <2>0. /\ i < pos => m[i] = l[i]
        /\ i = pos => m[i] = new
        /\ i > pos => m[i] = l[i - 1] /\ i - 1 \in Index
        /\ j < pos => m[j] = l[j]
        /\ j = pos => m[j] = new
        /\ j > pos => m[j] = l[j - 1] /\ j - 1 \in Index
    BY <1>2, DepthAssumption DEF Index
  <2> HIDE DEF m
  <2>1. CASE j < pos
    BY <1>2, <1>7, <2>0, <2>1, DepthAssumption DEF Correct, Index
  <2>2. CASE j = pos
    BY <1>5, <1>7, <2>0, <2>2
  <2>3. CASE j > pos /\ i < pos
    BY <1>2, <1>5, <1>7, <2>0, <2>3, DepthAssumption DEF Correct, Index
  <2>4. CASE j > pos /\ i = pos
    BY <1>1, <1>2, <1>6, <1>7, <2>0, <2>4, DepthAssumption DEF Index
  <2>5. CASE j > pos /\ i > pos
    BY <1>2, <1>7, <2>0, <2>5, DepthAssumption DEF Correct, Index
  <2> QED  BY <1>2, <2>1, <2>2, <2>3, <2>4, <2>5, DepthAssumption DEF Index
<1>8. Correct(side, l) /\ ~Found(l, new.price, pos) => Correct(side, m)
  <2> HIDE DEF m
  <2> QED  BY <1>7 DEF Correct
<1> QED  BY <1>3, <1>4, <1>8

LEMMA UpdateLadder ==
  ASSUME NEW side \in Sides, NEW l \in Ladders, NEW new \in Levels
  PROVE  /\ updateDepth(side, l, new) \in Ladders
         /\ Correct(side, l) => Correct(side, updateDepth(side, l, new))
<1> DEFINE pos == Position(side, l, new.price)
<1>1. new.price \in Nat \ {0} /\ new # Empty
  BY LevelFacts
<1>2. pos \in 0 .. DEPTH_SIZE
  BY <1>1, PositionFirst
<1> HIDE DEF pos
<1>3. CASE ~Found(l, new.price, pos)
  BY <1>3 DEF updateDepth, pos
<1>4. CASE Found(l, new.price, pos)
  <2> DEFINE m == [l EXCEPT ![pos] = new]
  <2>1. pos \in Index /\ l[pos].price = new.price
    BY <1>2, <1>4, DepthAssumption DEF Found, Index
  <2>2. updateDepth(side, l, new) = m /\ m \in Ladders
    BY <1>4, <2>1 DEF updateDepth, pos, Ladders
  <2>3. \A i \in Index : m[i].price = l[i].price /\ (m[i] = Empty <=> l[i] = Empty)
    BY <1>1, <2>1, LadderFacts DEF Ladders
  <2> HIDE DEF m
  <2> QED  BY <2>2, <2>3 DEF Correct
<1> QED  BY <1>3, <1>4

LEMMA DeleteLadder ==
  ASSUME NEW side \in Sides, NEW l \in Ladders, NEW price \in Nat
  PROVE  /\ deleteDepth(side, l, price) \in Ladders
         /\ Correct(side, l) => Correct(side, deleteDepth(side, l, price))
<1>1. Position(side, l, price) \in Nat
  BY PositionFirst
<1> QED  BY <1>1, ShiftLadder DEF deleteDepth

LEMMA DeleteBestLadder ==
  ASSUME NEW side \in Sides, NEW l \in Ladders, NEW n \in Nat
  PROVE  /\ deleteBest(l, n) \in Ladders
         /\ Correct(side, l) => Correct(side, deleteBest(l, n))
<1>1. Leading(l, n) \in Nat
  BY LeadingNumber
<1> QED  BY <1>1, ShiftLadder DEF deleteBest

LEMMA OverlayLadder ==
  ASSUME NEW l \in Ladders, NEW level \in Nat, NEW new \in Levels
  PROVE  overlayDepth(l, level, new) \in Ladders
BY DEF overlayDepth, Ladders

-----------------------------------------------------------------------------
(* The exchange and the packets.                                           *)

Packets(n) == [kind : {"increment", "snapshot"}, seq : 0 .. n,
               levels : SUBSET Entries, entries : Seq(Entries)]

\* The inductive invariant: what is on its way is well typed, and outside a
\* snapshot what was published last is the depth, unless that is not shown.
DepthInv ==
  /\ DepthTypeOK
  /\ seq \in Nat
  /\ book \in [Sides -> SUBSET Levels]
  /\ wire \in Seq(Packets(seq))
  /\ LaddersCorrect
  /\ pc # "snapshot" => published = depth \/ ~checkBestBidAsk(depth)

LEMMA PacketsGrow ==
  ASSUME NEW n \in Nat, NEW w \in Seq(Packets(n))
  PROVE  w \in Seq(Packets(n + 1))
<1>1. Packets(n) \subseteq Packets(n + 1)
  BY DEF Packets
<1> QED  BY <1>1

LEMMA OneEntry ==
  ASSUME NEW action \in {"New", "Update", "Delete", "DeleteThru", "DeleteFrom", "Overlay"},
         NEW side \in Sides, NEW level \in 1 .. DEPTH_SIZE, NEW x \in Levels
  PROVE  Entry(action, side, level, x) \in Entries
BY DEF Entry, Entries

LEMMA FirstLevel == 1 \in 1 .. DEPTH_SIZE
BY DepthAssumption

LEMMA SendIncrementStep ==
  ASSUME DepthInv, NEW side \in Sides, NEW S \in SUBSET Levels, NEW entries \in Seq(Entries),
         SendIncrement(side, S, entries)
  PROVE  DepthInv'
<1>1. seq' = seq + 1 /\ seq' \in Nat /\ book' \in [Sides -> SUBSET Levels]
  BY DEF SendIncrement, DepthInv
<1>2. wire' \in Seq(Packets(seq'))
  <2>1. wire \in Seq(Packets(seq'))
    BY <1>1, PacketsGrow DEF DepthInv
  <2> DEFINE m == [kind |-> "increment", seq |-> seq', levels |-> {}, entries |-> entries]
  <2>2. m \in Packets(seq')
    BY <1>1 DEF Packets
  <2>3. wire' = Append(wire, m)
    BY DEF SendIncrement
  <2> HIDE DEF m
  <2> QED  BY <2>1, <2>2, <2>3
<1>3. UNCHANGED <<pc, work, levels, msgSeq, depth, lastProcessed_sequence_inc,
                  lastProcessed_sequence_snap, snapshot_process, published, top, exact, overlaid>>
  BY DEF SendIncrement, feedKeeps, feedVars
<1>4. DepthTypeOK'
  BY <1>1, <1>3 DEF DepthInv, DepthTypeOK
<1> QED  BY <1>1, <1>2, <1>3, <1>4 DEF DepthInv, LaddersCorrect, checkBestBidAsk

LEMMA ChangesStep == ASSUME DepthInv, Changes  PROVE DepthInv'
<1> PICK side \in Sides :
      NewLevel(side) \/ UpdateLevel(side) \/ DeleteLevel(side)
        \/ DeleteLevels(side) \/ OverlayLevel(side)
  BY DEF Changes
<1>0. book[side] \subseteq Levels
  BY DEF DepthInv
<1>1. CASE NewLevel(side)
  <2>1. PICK x \in Levels, S \in SUBSET Levels :
          SendIncrement(side, S, <<Entry("New", side, 1, x)>>)
    BY <1>0, <1>1 DEF NewLevel
  <2>2. <<Entry("New", side, 1, x)>> \in Seq(Entries)
    BY OneEntry, FirstLevel
  <2> QED  BY <1>0, <2>1, <2>2, SendIncrementStep
<1>2. CASE UpdateLevel(side)
  <2>1. PICK y \in Levels, S \in SUBSET Levels :
          SendIncrement(side, S, <<Entry("Update", side, 1, y)>>)
    BY <1>0, <1>2 DEF UpdateLevel
  <2>2. <<Entry("Update", side, 1, y)>> \in Seq(Entries)
    BY OneEntry, FirstLevel
  <2> QED  BY <1>0, <2>1, <2>2, SendIncrementStep
<1>3. CASE DeleteLevel(side)
  <2>1. PICK x \in book[side] :
          \/ SendIncrement(side, book[side] \ {x}, <<Entry("Delete", side, 1, x)>>)
          \/ \E y \in Levels :
               SendIncrement(side, (book[side] \ {x}) \cup {y},
                             <<Entry("Delete", side, 1, x), Entry("New", side, 1, y)>>)
    BY <1>3 DEF DeleteLevel
  <2>2. Entry("Delete", side, 1, x) \in Entries
    BY <1>0, OneEntry, FirstLevel
  <2>3. \A y \in Levels : Entry("New", side, 1, y) \in Entries
    BY OneEntry, FirstLevel
  <2>4. CASE SendIncrement(side, book[side] \ {x}, <<Entry("Delete", side, 1, x)>>)
    <3>1. <<Entry("Delete", side, 1, x)>> \in Seq(Entries) /\ book[side] \ {x} \in SUBSET Levels
      BY <1>0, <2>2
    <3> QED  BY <2>4, <3>1, SendIncrementStep
  <2>5. ASSUME NEW y \in Levels,
               SendIncrement(side, (book[side] \ {x}) \cup {y},
                             <<Entry("Delete", side, 1, x), Entry("New", side, 1, y)>>)
        PROVE  DepthInv'
    <3>1. /\ <<Entry("Delete", side, 1, x), Entry("New", side, 1, y)>> \in Seq(Entries)
          /\ (book[side] \ {x}) \cup {y} \in SUBSET Levels
      BY <1>0, <2>2, <2>3
    <3> QED  BY <2>5, <3>1, SendIncrementStep
  <2> QED  BY <2>1, <2>4, <2>5
<1>4. CASE DeleteLevels(side)
  <2>1. PICK x \in book[side], n \in 1 .. DEPTH_SIZE, S \in SUBSET Levels,
             action \in {"DeleteThru", "DeleteFrom"} :
          SendIncrement(side, S, <<Entry(action, side, n, x)>>)
    BY <1>0, <1>4 DEF DeleteLevels, Above
  <2>2. <<Entry(action, side, n, x)>> \in Seq(Entries)
    BY <1>0, OneEntry
  <2> QED  BY <1>0, <2>1, <2>2, SendIncrementStep
<1>5. CASE OverlayLevel(side)
  <2>1. PICK y \in Levels, n \in 1 .. DEPTH_SIZE, S \in SUBSET Levels :
          SendIncrement(side, S, <<Entry("Overlay", side, n, y)>>)
    BY <1>0, <1>5 DEF OverlayLevel
  <2>2. <<Entry("Overlay", side, n, y)>> \in Seq(Entries)
    BY OneEntry
  <2> QED  BY <1>0, <2>1, <2>2, SendIncrementStep
<1> QED  BY <1>1, <1>2, <1>3, <1>4, <1>5

LEMMA SendSnapshotStep == ASSUME DepthInv, SendSnapshot  PROVE DepthInv'
<1> DEFINE m == [kind |-> "snapshot", seq |-> seq, entries |-> <<>>,
       levels |-> UNION {{Entry("New", side, 1, x) : x \in book[side]} : side \in Sides}]
<1>1. m \in Packets(seq)
  <2>1. \A side \in Sides : \A x \in book[side] : Entry("New", side, 1, x) \in Entries
    BY OneEntry, FirstLevel DEF DepthInv
  <2>2. UNION {{Entry("New", side, 1, x) : x \in book[side]} : side \in Sides} \in SUBSET Entries
    BY <2>1
  <2> QED  BY <2>2 DEF Packets, DepthInv
<1>2. wire' = Append(wire, m)
  BY DEF SendSnapshot
<1> HIDE DEF m
<1>3. wire' \in Seq(Packets(seq))
  BY <1>1, <1>2 DEF DepthInv
<1> QED  BY <1>3 DEF SendSnapshot, exchangeVars, feedKeeps, feedVars,
                     DepthInv, DepthTypeOK, LaddersCorrect, checkBestBidAsk

\* A step of the network changes the packets, and what is known to be missing.
LEMMA NetworkKeeps ==
  ASSUME DepthInv, UNCHANGED <<exchangeVars, feedKeeps>>,
         wire' \in Seq(Packets(seq)), top' \in 0 .. seq, exact' \in BOOLEAN
  PROVE  DepthInv'
BY DEF exchangeVars, feedKeeps, feedVars, DepthInv, DepthTypeOK, LaddersCorrect, checkBestBidAsk

LEMMA NetworkStep ==
  ASSUME DepthInv, LosePacket \/ RepeatPacket \/ Overtake \/ DecodeFails
  PROVE  DepthInv'
<1>0. wire \in Seq(Packets(seq)) /\ seq \in Nat /\ top \in 0 .. seq /\ exact \in BOOLEAN
  BY DEF DepthInv, DepthTypeOK
<1>1. \A i \in 1 .. Len(wire) : wire[i] \in Packets(seq) /\ wire[i].seq \in 0 .. seq
  <2>1. \A i \in 1 .. Len(wire) : wire[i] \in Packets(seq)
    BY <1>0
  <2>2. \A m \in Packets(seq) : m.seq \in 0 .. seq
    BY DEF Packets
  <2> QED  BY <2>1, <2>2
<1>2. CASE LosePacket
  <2>1. wire' = Tail(wire) /\ wire # <<>> /\ Lost(wire[1]) /\ UNCHANGED <<exchangeVars, feedKeeps>>
    BY <1>0, <1>2 DEF LosePacket
  <2>2. wire' \in Seq(Packets(seq))
    BY <1>0, <2>1
  <2>3. wire[1].seq \in 0 .. seq
    BY <1>0, <1>1, <2>1
  <2>4. top' \in 0 .. seq /\ exact' \in BOOLEAN
    BY <1>0, <2>1, <2>3 DEF Lost
  <2> QED  BY <2>1, <2>2, <2>4, NetworkKeeps
<1>3. CASE RepeatPacket
  <2>1. wire' \in Seq(Packets(seq))
    BY <1>0, <1>3 DEF RepeatPacket
  <2> QED  BY <1>0, <1>3, <2>1, NetworkKeeps DEF RepeatPacket
<1>4. CASE Overtake
  <2>1. /\ wire' = <<wire[2], wire[1]>> \o SubSeq(wire, 3, Len(wire)) /\ Len(wire) > 1
        /\ UNCHANGED <<exchangeVars, feedKeeps, top, exact>>
    BY <1>4 DEF Overtake
  <2>2. <<wire[2], wire[1]>> \in Seq(Packets(seq)) /\ SubSeq(wire, 3, Len(wire)) \in Seq(Packets(seq))
    BY <1>0, <1>1, <2>1
  <2>3. wire' \in Seq(Packets(seq))
    BY <2>1, <2>2
  <2> QED  BY <1>0, <2>1, <2>3, NetworkKeeps
<1>5. CASE DecodeFails
  <2> DEFINE numbers == {wire[i].seq : i \in {j \in {1, 2} : wire[j].kind = "increment"}}
             all     == numbers \cup {top}
  <2>1. /\ wire' = SubSeq(wire, 3, Len(wire)) /\ Len(wire) > 1
        /\ top' = CHOOSE n \in all : \A k \in all : k <= n
        /\ exact' \in BOOLEAN /\ UNCHANGED <<exchangeVars, feedKeeps>>
    BY <1>5 DEF DecodeFails
  <2>2. wire' \in Seq(Packets(seq))
    BY <1>0, <2>1
  <2>3. wire[1].seq \in 0 .. seq /\ wire[2].seq \in 0 .. seq
    BY <1>0, <1>1, <2>1
  <2>4. all \subseteq {wire[1].seq, wire[2].seq, top} /\ all # {}
    OBVIOUS
  <2>5. all \subseteq 0 .. seq
    BY <1>0, <2>3, <2>4
  <2> HIDE DEF all
  <2>6. \E n \in all : \A k \in all : k <= n
    <3>1. wire[1].seq \in Nat /\ wire[2].seq \in Nat /\ top \in Nat
      BY <1>0, <2>3
    <3> QED  BY <2>4, <3>1, LargestOfThree
  <2>7. top' \in 0 .. seq
    BY <2>1, <2>5, <2>6
  <2> QED  BY <2>1, <2>2, <2>7, NetworkKeeps
<1> QED  BY <1>2, <1>3, <1>4, <1>5

-----------------------------------------------------------------------------
(* The feed.                                                               *)

LEMMA EntryFields ==
  ASSUME NEW e \in Entries
  PROVE  e.side \in Sides /\ e.at \in Levels /\ e.at.price \in Nat
         /\ e.level \in Nat \ {0} /\ e.level <= DEPTH_SIZE
BY LevelFacts, DepthAssumption DEF Entries

LEMMA TakePacket ==
  ASSUME DepthInv, NEW kind, Take(kind)
  PROVE  /\ wire' \in Seq(Packets(seq))
         /\ Head(wire).seq \in 0 .. seq /\ Head(wire).levels \subseteq Entries
         /\ Head(wire).entries \in Seq(Entries)
<1>1. wire \in Seq(Packets(seq)) /\ wire # <<>> /\ wire' = Tail(wire)
  BY DEF DepthInv, Take
<1>2. Head(wire) \in Packets(seq) /\ wire' \in Seq(Packets(seq))
  BY <1>1
<1> QED  BY <1>2 DEF Packets

LEMMA EmptyLadder == \A side \in Sides : EmptyDepth[side] \in Ladders /\ Correct(side, EmptyDepth[side])
BY DEF EmptyDepth, Ladders, Correct

LEMMA PublishedDepth ==
  ASSUME depth' \in [Sides -> Ladders], published \in [Sides -> Ladders], Publish
  PROVE  /\ published' \in [Sides -> Ladders]
         /\ published' = depth' \/ ~checkBestBidAsk(depth')
BY DEF Publish

LEMMA SnapshotStep ==
  ASSUME DepthInv, TakeSnapshot \/ SnapshotEntry \/ EndSnapshot
  PROVE  DepthInv'
<1>0. DepthTypeOK /\ seq \in Nat
  BY DEF DepthInv
<1>1. CASE TakeSnapshot
  <2>1. /\ wire' \in Seq(Packets(seq))
        /\ msgSeq' \in 0 .. seq /\ levels' \subseteq Entries /\ Take("snapshot")
    BY <1>1, TakePacket DEF TakeSnapshot
  <2>2. depth' = EmptyDepth /\ depth' \in [Sides -> Ladders]
    BY <1>1, EmptyLadder DEF TakeSnapshot, EmptyDepth
  <2>3. DepthTypeOK'
    <3>1. /\ pc' = "snapshot" /\ work' = <<>> /\ exact' = (msgSeq' >= top) /\ overlaid' = FALSE
          /\ lastProcessed_sequence_inc' = msgSeq' /\ lastProcessed_sequence_snap' = msgSeq'
          /\ UNCHANGED <<seq, snapshot_process, published, top>>
      BY <1>1 DEF TakeSnapshot, othersKeep, exchangeVars
    <3>2. exact' \in BOOLEAN /\ work' \in Seq(Entries)
      BY <3>1
    <3> QED  BY <1>0, <2>1, <2>2, <3>1, <3>2 DEF DepthTypeOK
  <2>4. LaddersCorrect'
    BY <2>2, EmptyLadder DEF LaddersCorrect
  <2> QED  BY <1>1, <2>1, <2>3, <2>4 DEF TakeSnapshot, othersKeep, exchangeVars, DepthInv
<1>2. CASE SnapshotEntry
  <2>1. PICK e \in levels :
          /\ levels' = levels \ {e}
          /\ depth' = [depth EXCEPT ![e.side] = insertDepth(e.side, depth[e.side], e.at)]
    BY <1>2 DEF SnapshotEntry
  <2>2. e.side \in Sides /\ e.at \in Levels
    BY <1>0, <2>1, EntryFields DEF DepthTypeOK
  <2>3. /\ depth' \in [Sides -> Ladders]
        /\ (\A side \in Sides : Correct(side, depth[side]))
             => \A side \in Sides : Correct(side, depth'[side])
    <3>1. depth \in [Sides -> Ladders]
      BY <1>0 DEF DepthTypeOK
    <3> QED  BY <2>1, <2>2, <3>1, InsertLadder
  <2>4. UNCHANGED <<book, seq, wire, pc, work, msgSeq, lastProcessed_sequence_inc,
                    lastProcessed_sequence_snap, snapshot_process, published, top, exact, overlaid>>
        /\ pc = "snapshot"
    BY <1>2 DEF SnapshotEntry, othersKeep, exchangeVars, historyVars
  <2>5. DepthTypeOK'
    BY <1>0, <2>1, <2>3, <2>4 DEF DepthTypeOK
  <2>6. LaddersCorrect'
    BY <2>3, <2>4 DEF DepthInv, LaddersCorrect
  <2> QED  BY <2>4, <2>5, <2>6 DEF DepthInv
<1>3. CASE EndSnapshot
  <2>1. depth' = depth /\ pc' = "idle" /\ msgSeq' = 0 /\ snapshot_process' = TRUE
        /\ UNCHANGED <<book, seq, wire, work, levels, lastProcessed_sequence_inc,
                       lastProcessed_sequence_snap, top, exact, overlaid>>
    BY <1>3 DEF EndSnapshot, othersKeep, exchangeVars
  <2>2. /\ published' \in [Sides -> Ladders]
        /\ published' = depth' \/ ~checkBestBidAsk(depth')
    BY <1>0, <1>3, <2>1, PublishedDepth DEF EndSnapshot, DepthTypeOK
  <2>3. DepthTypeOK'
    BY <1>0, <2>1, <2>2 DEF DepthTypeOK
  <2>4. LaddersCorrect'
    BY <2>1 DEF DepthInv, LaddersCorrect
  <2>5. ~checkBestBidAsk(depth') => ~checkBestBidAsk(depth)'
    BY DEF checkBestBidAsk
  <2> QED  BY <2>1, <2>2, <2>3, <2>4, <2>5 DEF DepthInv
<1> QED  BY <1>1, <1>2, <1>3

\* An entry that is applied, whatever it is, gives ladders, and correct ones
\* if they were and it is not an overlay.
LEMMA ApplyLadders ==
  ASSUME depth \in [Sides -> Ladders], NEW e \in Entries, Apply(e)
  PROVE  /\ depth' \in [Sides -> Ladders]
         /\ (\A side \in Sides : Correct(side, depth[side])) /\ e.action # "Overlay"
              => \A side \in Sides : Correct(side, depth'[side])
<1> DEFINE l == depth[e.side]
<1>0. l \in Ladders /\ e.side \in Sides /\ e.at \in Levels
      /\ e.at.price \in Nat /\ e.level \in Nat
  BY EntryFields
<1>1. ASSUME NEW side \in Sides, NEW m \in Ladders, depth' = [depth EXCEPT ![side] = m],
             Correct(side, depth[side]) => Correct(side, m)
      PROVE  /\ depth' \in [Sides -> Ladders]
             /\ (\A s \in Sides : Correct(s, depth[s])) => \A s \in Sides : Correct(s, depth'[s])
  BY <1>1
<1>2. CASE e.action = "New"
  <2>1. depth' = [depth EXCEPT ![e.side] = insertDepth(e.side, l, e.at)]
    BY <1>2 DEF Apply
  <2> QED  BY <1>0, <1>1, <2>1, InsertLadder
<1>3. CASE e.action = "Update"
  <2>1. depth' = [depth EXCEPT ![e.side] = updateDepth(e.side, l, e.at)]
    BY <1>3 DEF Apply
  <2> QED  BY <1>0, <1>1, <2>1, UpdateLadder
<1>4. CASE e.action = "Delete"
  <2>1. depth' = [depth EXCEPT ![e.side] = deleteDepth(e.side, l, e.at.price)]
    BY <1>4 DEF Apply
  <2> QED  BY <1>0, <1>1, <2>1, DeleteLadder
<1>5. CASE e.action = "DeleteThru"
  <2>1. depth' = [depth EXCEPT ![e.side] = deleteBest(l, e.level)]
    BY <1>5 DEF Apply
  <2> QED  BY <1>0, <1>1, <2>1, DeleteBestLadder
<1>6. CASE e.action = "DeleteFrom"
  <2>1. /\ depth' = [depth EXCEPT !["Bid"] = deleteBest(depth["Bid"], DEPTH_SIZE - e.level + 1)]
        /\ "Bid" \in Sides
    BY <1>6 DEF Apply, Sides
  <2>2. DEPTH_SIZE - e.level + 1 \in Nat /\ depth["Bid"] \in Ladders
    BY <2>1, EntryFields, DepthAssumption
  <2> QED  BY <1>1, <2>1, <2>2, DeleteBestLadder
<1>7. CASE e.action = "Overlay"
  <2>1. depth' = [depth EXCEPT ![e.side] = overlayDepth(l, e.level, e.at)]
    BY <1>7 DEF Apply
  <2>2. overlayDepth(l, e.level, e.at) \in Ladders
    BY <1>0, OverlayLadder
  <2> HIDE DEF l
  <2> QED  BY <1>0, <1>7, <2>1, <2>2
<1> QED  BY <1>2, <1>3, <1>4, <1>5, <1>6, <1>7 DEF Apply

LEMMA FirstEntry ==
  ASSUME DepthTypeOK, NextEntry
  PROVE  Head(work) \in Entries /\ work' \in Seq(Entries)
<1>1. work \in Seq(Entries) /\ work # <<>> /\ work' = Tail(work)
  BY DEF DepthTypeOK, NextEntry
<1> QED  BY <1>1

LEMMA IncrementStep ==
  ASSUME DepthInv, TakeIncrement \/ ApplyEntry \/ SkipEntry \/ MissingEntry \/ EndIncrement
  PROVE  DepthInv'
<1>0. DepthTypeOK /\ seq \in Nat
  BY DEF DepthInv
<1>p. ~checkBestBidAsk(depth') => ~checkBestBidAsk(depth)'
  BY DEF checkBestBidAsk
<1>1. CASE TakeIncrement
  <2>1. /\ wire' \in Seq(Packets(seq))
        /\ msgSeq' \in 0 .. seq /\ work' \in Seq(Entries) /\ pc = "idle"
    BY <1>1, TakePacket DEF TakeIncrement, Take
  <2>2. DepthTypeOK'
    BY <1>0, <1>1, <2>1 DEF TakeIncrement, othersKeep, exchangeVars, historyVars, DepthTypeOK
  <2> QED  BY <1>1, <1>p, <2>1, <2>2
              DEF TakeIncrement, othersKeep, exchangeVars, historyVars, DepthInv, LaddersCorrect
<1>2. CASE ApplyEntry
  <2> DEFINE e == Head(work)
  <2>1. /\ Apply(e) /\ NextEntry /\ Publish
        /\ exact' = (exact /\ e.action \notin {"DeleteFrom", "Overlay"})
        /\ overlaid' = (overlaid \/ e.action = "Overlay")
    BY <1>2 DEF ApplyEntry
  <2>2. UNCHANGED <<book, seq, wire, pc, levels, msgSeq, lastProcessed_sequence_inc,
                    lastProcessed_sequence_snap, snapshot_process, top>>
    BY <1>2 DEF ApplyEntry, othersKeep, exchangeVars
  <2>3. e \in Entries /\ work' \in Seq(Entries)
    BY <1>0, <2>1, FirstEntry
  <2> HIDE DEF e
  <2>4. /\ depth' \in [Sides -> Ladders]
        /\ (\A side \in Sides : Correct(side, depth[side])) /\ e.action # "Overlay"
             => \A side \in Sides : Correct(side, depth'[side])
    BY <1>0, <2>1, <2>3, ApplyLadders DEF DepthTypeOK
  <2>5. /\ published' \in [Sides -> Ladders]
        /\ published' = depth' \/ ~checkBestBidAsk(depth')
    BY <1>0, <2>1, <2>4, PublishedDepth DEF DepthTypeOK
  <2>6. exact' \in BOOLEAN /\ overlaid' \in BOOLEAN
    BY <1>0, <2>1 DEF DepthTypeOK
  <2>7. DepthTypeOK'
    BY <1>0, <2>2, <2>3, <2>4, <2>5, <2>6 DEF DepthTypeOK
  <2>8. ~overlaid' => ~overlaid /\ e.action # "Overlay"
    BY <2>1
  <2>9. LaddersCorrect'
    BY <2>4, <2>8 DEF DepthInv, LaddersCorrect
  <2> QED  BY <1>p, <2>2, <2>5, <2>7, <2>9 DEF DepthInv
<1>3. CASE SkipEntry
  <2>1. work' \in Seq(Entries)
    BY <1>0, <1>3, FirstEntry DEF SkipEntry
  <2>2. DepthTypeOK'
    BY <1>0, <1>3, <2>1 DEF SkipEntry, othersKeep, exchangeVars, historyVars, DepthTypeOK
  <2> QED  BY <1>3, <1>p, <2>2
              DEF SkipEntry, othersKeep, exchangeVars, historyVars, DepthInv, LaddersCorrect
<1>4. CASE MissingEntry
  <2>1. work' \in Seq(Entries) /\ depth' = depth /\ snapshot_process' \in BOOLEAN
        /\ UNCHANGED <<book, seq, wire, pc, levels, msgSeq, lastProcessed_sequence_inc,
                       lastProcessed_sequence_snap, top, exact, overlaid>>
    BY <1>0, <1>4, FirstEntry DEF MissingEntry, othersKeep, exchangeVars, DepthTypeOK
  <2>2. /\ published' \in [Sides -> Ladders]
        /\ published' = depth' \/ ~checkBestBidAsk(depth')
    BY <1>0, <1>4, <2>1, PublishedDepth DEF MissingEntry, DepthTypeOK
  <2>3. DepthTypeOK'
    BY <1>0, <2>1, <2>2 DEF DepthTypeOK
  <2>4. LaddersCorrect'
    BY <2>1 DEF DepthInv, LaddersCorrect
  <2> QED  BY <1>p, <2>1, <2>2, <2>3, <2>4 DEF DepthInv
<1>5. CASE EndIncrement
  <2>1. top' \in 0 .. seq /\ exact' \in BOOLEAN /\ lastProcessed_sequence_inc' \in 0 .. seq
        /\ msgSeq' = 0 /\ pc' = "idle" /\ pc # "snapshot"
        /\ UNCHANGED <<book, seq, wire, work, levels, depth, lastProcessed_sequence_snap,
                       snapshot_process, published, overlaid>>
    BY <1>0, <1>5 DEF EndIncrement, othersKeep, exchangeVars, DepthTypeOK
  <2>2. DepthTypeOK'
    BY <1>0, <2>1 DEF DepthTypeOK
  <2> QED  BY <1>p, <2>1, <2>2 DEF DepthInv, LaddersCorrect
<1> QED  BY <1>1, <1>2, <1>3, <1>4, <1>5

-----------------------------------------------------------------------------
(* The invariant.                                                          *)

LEMMA DepthInit == Init => DepthInv
<1> SUFFICES ASSUME Init  PROVE DepthInv
  OBVIOUS
<1>1. EmptyDepth \in [Sides -> Ladders] /\ NoLevels \in [Sides -> SUBSET Levels]
  BY EmptyLadder DEF EmptyDepth, NoLevels
<1>2. DepthTypeOK
  <2>1. /\ seq = 0 /\ pc = "idle" /\ work = <<>> /\ levels = {} /\ msgSeq = 0 /\ top = 0
        /\ lastProcessed_sequence_inc = 0 /\ lastProcessed_sequence_snap = 0
        /\ snapshot_process = FALSE /\ exact = FALSE /\ overlaid = FALSE
        /\ depth = EmptyDepth /\ published = EmptyDepth
    BY DEF Init
  <2>2. work \in Seq(Entries)
    BY <2>1
  <2>3. {msgSeq, lastProcessed_sequence_inc, lastProcessed_sequence_snap, top} \subseteq 0 .. seq
    BY <2>1
  <2>4. {snapshot_process, exact, overlaid} \subseteq BOOLEAN
    BY <2>1
  <2> QED  BY <1>1, <2>1, <2>2, <2>3, <2>4 DEF DepthTypeOK
<1>3. LaddersCorrect
  BY EmptyLadder DEF Init, LaddersCorrect
<1> QED  BY <1>1, <1>2, <1>3 DEF Init, DepthInv

LEMMA DepthStep == DepthInv /\ [Next]_vars => DepthInv'
<1> SUFFICES ASSUME DepthInv, [Next]_vars  PROVE DepthInv'
  OBVIOUS
<1>1. CASE Changes
  BY <1>1, ChangesStep
<1>2. CASE SendSnapshot
  BY <1>2, SendSnapshotStep
<1>3. CASE LosePacket \/ RepeatPacket \/ Overtake \/ DecodeFails
  BY <1>3, NetworkStep
<1>4. CASE Feed
  BY <1>4, SnapshotStep, IncrementStep DEF Feed
<1>5. CASE UNCHANGED vars
  BY <1>5 DEF vars, exchangeVars, feedVars, historyVars, DepthInv, DepthTypeOK,
              LaddersCorrect, checkBestBidAsk
<1> QED  BY <1>1, <1>2, <1>3, <1>4, <1>5 DEF Next

LEMMA DepthInvariant == Spec => []DepthInv
BY DepthInit, DepthStep, PTL DEF Spec

\* The state of the feed is well typed; no number it keeps is ahead of the exchange.
THEOREM DepthTypeCorrect == Spec => []DepthTypeOK
<1>1. DepthInv => DepthTypeOK
  BY DEF DepthInv
<1> QED  BY <1>1, DepthInvariant, PTL

\* What checkCorrectnessBuy and checkCorrectnessSell test holds of the ladders
\* in every state, whatever the network does to the packets, until an overlay.
THEOREM LaddersStayCorrect == Spec => []LaddersCorrect
<1>1. DepthInv => LaddersCorrect
  BY DEF DepthInv
<1> QED  BY <1>1, DepthInvariant, PTL

\* Between messages what was last published is the depth, unless that is one
\* checkBestBidAsk holds back.
THEOREM PublishedStaysCurrent == Spec => []PublishedIsCurrent
<1>1. DepthInv => PublishedIsCurrent
  BY DEF DepthInv, PublishedIsCurrent
<1> QED  BY <1>1, DepthInvariant, PTL
-----------------------------------------------------------------------------
(* The depth is the book.  The exchange has a history of books, one for    *)
(* each number, and an increment tells how to get from one to the next.    *)

Spoils(e) == e.action \in {"DeleteFrom", "Overlay"}

\* What Apply does to the ladder of an entry that does not spoil the depth.
Changed(e, l) ==
  CASE e.action = "New"    -> insertDepth(e.side, l, e.at)
    [] e.action = "Update" -> updateDepth(e.side, l, e.at)
    [] e.action = "Delete" -> deleteDepth(e.side, l, e.at.price)
    [] OTHER               -> deleteBest(l, e.level)

AfterEntry(d, e) == [d EXCEPT ![e.side] = Changed(e, d[e.side])]

\* The entry makes levels T of levels S.
Leads(e, S, T) ==
  \A l \in Ladders : Correct(e.side, l) /\ LevelsOf(l) = S =>
    /\ Changed(e, l) \in Ladders /\ Correct(e.side, Changed(e, l))
    /\ LevelsOf(Changed(e, l)) = T

\* After a list of entries, which has two at most.
After(d, w) ==
  IF w = <<>> THEN d
  ELSE IF Len(w) = 1 THEN AfterEntry(d, w[1]) ELSE AfterEntry(AfterEntry(d, w[1]), w[2])

Shows(d, b) == \A side \in Sides : Correct(side, d[side]) /\ LevelsOf(d[side]) = b[side]

Spoiled(w) == \E i \in 1 .. Len(w) : Spoils(w[i])

\* The entries bring whoever has book a to book b.
Brings(a, b, w) ==
  Spoiled(w) \/ \A d \in [Sides -> Ladders] : Shows(d, a) => Shows(After(d, w), b)

SnapshotOf(b) == UNION {{Entry("New", side, 1, x) : x \in b[side]} : side \in Sides}

\* The depth has what entries S of the snapshot do not bring of book b.
Filling(d, S, b) ==
  /\ S \subseteq SnapshotOf(b)
  /\ \A side \in Sides :
       /\ Correct(side, d[side]) /\ LevelsOf(d[side]) \subseteq b[side]
       /\ \A x \in b[side] : x \in LevelsOf(d[side]) \/ Entry("New", side, 1, x) \in S

\* What a packet says of the history B is true.
Tells(B, m) ==
  /\ m.kind = "snapshot" => m.levels = SnapshotOf(B[m.seq])
  /\ m.kind = "increment" => /\ m.seq >= 1 /\ Len(m.entries) \in {1, 2}
                             /\ Brings(B[m.seq - 1], B[m.seq], m.entries)

Coming(n)  == \E i \in 1 .. Len(wire) : wire[i].kind = "increment" /\ wire[i].seq = n
InHand(n)  == pc = "increment" /\ msgSeq = n

\* B is the history of the exchange: a book that ladders show for each number.
History(B) ==
  /\ B[seq] = book
  /\ \A n \in 0 .. seq : \E d \in [Sides -> Ladders] : Shows(d, B[n])
  /\ \A i \in 1 .. Len(wire) : Tells(B, wire[i])

\* The depth follows the exchange since the last snapshot.
Live == exact /\ (pc = "snapshot" \/ snapshot_process)

\* An increment that is to be found missing: the next snapshot is waited for.
Late ==
  \E n \in lastProcessed_sequence_snap + 1 .. lastProcessed_sequence_inc - 1 :
    Coming(n) \/ (InHand(n) /\ work # <<>>)

\* All increments so far have been applied, in their order.
InOrder(B) ==
  LET now == lastProcessed_sequence_inc IN
  /\ \A n \in now + 1 .. seq : Coming(n) \/ InHand(n)
  /\ pc = "snapshot" => Filling(depth, levels, B[now])
  /\ pc = "idle" \/ (pc = "increment" /\ msgSeq <= now) => Shows(depth, B[now])
  /\ InHand(now + 1) => Spoiled(work) \/ Shows(After(depth, work), B[now + 1])

Follows(B) ==
  /\ \A n \in top + 1 .. seq : Coming(n) \/ InHand(n)
  /\ pc = "increment" => Len(work) <= 2 /\ msgSeq >= 1
  /\ pc = "snapshot" => msgSeq = lastProcessed_sequence_inc
  /\ Live =>
       /\ lastProcessed_sequence_snap <= lastProcessed_sequence_inc
       /\ pc = "snapshot" => lastProcessed_sequence_inc = lastProcessed_sequence_snap
       /\ pc = "increment" /\ lastProcessed_sequence_snap < msgSeq
            /\ msgSeq < lastProcessed_sequence_inc => work # <<>>
       /\ Late \/ InOrder(B)

BookInv == \E B \in [Nat -> [Sides -> SUBSET Levels]] : History(B) /\ Follows(B)

-----------------------------------------------------------------------------
(* The levels of a correct ladder, as a set.                               *)

LEMMA LevelAt ==
  ASSUME NEW l \in Ladders
  PROVE  /\ \A x \in LevelsOf(l) : x \in Levels /\ \E i \in Index : l[i] = x
         /\ \A i \in Index : l[i] # Empty => l[i] \in LevelsOf(l)
BY LadderFacts DEF LevelsOf

\* No two levels have one price.
LEMMA OnePrice ==
  ASSUME NEW side \in Sides, NEW l \in Ladders, Correct(side, l),
         NEW i \in Index, NEW j \in Index, l[i] # Empty, l[i].price = l[j].price
  PROVE  i = j
<1>1. l[i].price \in Nat /\ l[j].price \in Nat /\ l[j] # Empty
  BY LadderFacts
<1>2. i \in Int /\ j \in Int
  BY DEF Index
<1>3. ~(i < j) /\ ~(j < i)
  BY <1>1 DEF Correct, Better
<1> QED  BY <1>2, <1>3

\* How many levels there are tells which places are empty.
LEMMA LadderSize ==
  ASSUME NEW side \in Sides, NEW l \in Ladders, Correct(side, l)
  PROVE  /\ IsFiniteSet(LevelsOf(l)) /\ Cardinality(LevelsOf(l)) \in 0 .. DEPTH_SIZE
         /\ \A i \in Index : l[i] # Empty <=> i < Cardinality(LevelsOf(l))
<1> DEFINE S == {k \in 0 .. DEPTH_SIZE : k = DEPTH_SIZE \/ l[k] = Empty}
<1>1. S \in SUBSET Nat /\ DEPTH_SIZE \in S
  BY DepthAssumption
<1>2. PICK n \in S : \A k \in S : n <= k
  BY <1>1, Least
<1>3. n \in 0 .. DEPTH_SIZE /\ n \in Nat
  BY <1>2
<1>4. ASSUME NEW i \in Index  PROVE l[i] # Empty <=> i < n
  <2>1. CASE i < n
    <3>1. i \in 0 .. DEPTH_SIZE /\ i \notin S
      BY <1>2, <1>3, <2>1, DepthAssumption DEF Index
    <3> QED  BY <2>1, <3>1
  <2>2. CASE ~(i < n)
    <3>1. n \in Index /\ n <= i
      BY <1>3, <2>2, DepthAssumption DEF Index
    <3>2. l[n] = Empty
      BY <1>2, <3>1, DepthAssumption DEF Index
    <3>3. n < i => l[i] = Empty
      BY <3>1, <3>2 DEF Correct
    <3>4. n = i \/ n < i
      BY <3>1 DEF Index
    <3> QED  BY <2>2, <3>2, <3>3, <3>4
  <2> QED  BY <2>1, <2>2
<1> DEFINE f == [k \in 1 .. n |-> l[k - 1]]
<1>5. ASSUME NEW k \in 1 .. n  PROVE k - 1 \in Index /\ l[k - 1] \in LevelsOf(l)
  <2>1. k - 1 \in Index /\ k - 1 < n
    BY <1>3, <1>5, DepthAssumption DEF Index
  <2> QED  BY <1>4, <2>1, LevelAt
<1>6. f \in Injection(1 .. n, LevelsOf(l))
  <2>1. f \in [1 .. n -> LevelsOf(l)]
    BY <1>5
  <2>2. ASSUME NEW a \in 1 .. n, NEW b \in 1 .. n, f[a] = f[b]  PROVE a = b
    <3>1. /\ a - 1 \in Index /\ b - 1 \in Index /\ l[a - 1] = l[b - 1]
          /\ l[a - 1] # Empty
      BY <1>5, <2>2 DEF LevelsOf
    <3>2. a - 1 = b - 1
      BY <3>1, OnePrice
    <3> QED  BY <3>2
  <2> QED  BY <2>1, <2>2 DEF Injection, IsInjective
<1>7. f \in Surjection(1 .. n, LevelsOf(l))
  <2>1. ASSUME NEW x \in LevelsOf(l)  PROVE \E k \in 1 .. n : f[k] = x
    <3>1. PICK i \in Index : l[i] = x /\ x # Empty
      BY DEF LevelsOf
    <3>2. i + 1 \in 1 .. n /\ (i + 1) - 1 = i
      BY <1>3, <1>4, <3>1 DEF Index
    <3>3. f[i + 1] = x
      BY <3>1, <3>2
    <3> QED  BY <3>2, <3>3
  <2> QED  BY <1>6, <2>1 DEF Surjection, Injection
<1>8. ExistsBijection(1 .. n, LevelsOf(l))
  BY <1>6, <1>7 DEF ExistsBijection, Bijection
<1>9. IsFiniteSet(LevelsOf(l)) /\ Cardinality(LevelsOf(l)) = n
  BY <1>3, <1>8, FS_CountingElements, FS_NatBijection
<1> QED  BY <1>3, <1>4, <1>9

\* The search finds a price that is there.
LEMMA SearchFinds ==
  ASSUME NEW side \in Sides, NEW l \in Ladders, Correct(side, l),
         NEW i \in Index, l[i] # Empty
  PROVE  Position(side, l, l[i].price) = i /\ Found(l, l[i].price, i)
<1> DEFINE pos == Position(side, l, l[i].price)
<1>1. l[i].price \in Nat /\ i \in Nat /\ i < DEPTH_SIZE
  BY LadderFacts, DepthAssumption DEF Index
<1>2. /\ pos \in 0 .. DEPTH_SIZE /\ Stops(side, l, l[i].price, pos)
      /\ \A j \in 0 .. pos - 1 : ~Stops(side, l, l[i].price, j)
  BY <1>1, PositionFirst
<1>3. Found(l, l[i].price, i)
  BY <1>1 DEF Found
<1> HIDE DEF pos
<1>4. Stops(side, l, l[i].price, i)
  BY <1>1 DEF Stops, Better
<1>5. pos <= i
  BY <1>1, <1>2, <1>4
<1>6. ASSUME pos < i  PROVE FALSE
  <2>1. pos \in Index /\ pos # DEPTH_SIZE
    BY <1>1, <1>2, <1>6, DepthAssumption DEF Index
  <2>2. l[pos] # Empty /\ Better(side, l[pos].price, l[i].price)
    BY <1>6, <2>1 DEF Correct
  <2> QED  BY <1>2, <2>1, <2>2 DEF Stops
<1>7. pos = i
  BY <1>1, <1>2, <1>5, <1>6
<1> QED  BY <1>3, <1>7 DEF pos

LEMMA NotFound ==
  ASSUME NEW side \in Sides, NEW l \in Ladders, NEW new \in Levels,
         \A x \in LevelsOf(l) : x.price # new.price
  PROVE  ~Found(l, new.price, Position(side, l, new.price))
<1> DEFINE pos == Position(side, l, new.price)
<1>1. pos \in 0 .. DEPTH_SIZE /\ new.price \in Nat \ {0}
  BY LevelFacts, PositionFirst
<1> HIDE DEF pos
<1>2. SUFFICES ASSUME pos \in Index, l[pos].price = new.price  PROVE FALSE
  BY <1>1, DepthAssumption DEF Found, Index, pos
<1>3. l[pos] # Empty
  BY <1>1, <1>2, LadderFacts
<1> QED  BY <1>2, <1>3, LevelAt

\* A new level pushes the last one out.
LEMMA InsertLevels ==
  ASSUME NEW side \in Sides, NEW l \in Ladders, Correct(side, l), NEW new \in Levels,
         \A x \in LevelsOf(l) : x.price # new.price,
         Position(side, l, new.price) < DEPTH_SIZE
  PROVE  LevelsOf(insertDepth(side, l, new)) = (LevelsOf(l) \cup {new}) \ {l[DEPTH_SIZE - 1]}
<1> DEFINE pos == Position(side, l, new.price)
           m   == [i \in Index |-> IF i < pos THEN l[i] ELSE IF i = pos THEN new ELSE l[i - 1]]
           w   == l[DEPTH_SIZE - 1]
<1>1. pos \in 0 .. DEPTH_SIZE /\ new # Empty
  BY LevelFacts, PositionFirst
<1>2. insertDepth(side, l, new) = m
  BY NotFound DEF insertDepth
<1>3. pos < DEPTH_SIZE
  OBVIOUS
<1> HIDE DEF pos
<1>4. DEPTH_SIZE - 1 \in Index /\ pos \in Index /\ \A i \in Index : i \in Nat /\ i < DEPTH_SIZE
  BY <1>1, <1>3, DepthAssumption DEF Index
<1>5. /\ \A i \in Index : i < pos => m[i] = l[i]
      /\ m[pos] = new
      /\ \A i \in Index : i >= pos /\ i # DEPTH_SIZE - 1 => i + 1 \in Index /\ m[i + 1] = l[i]
      /\ \A i \in Index : i > pos => i - 1 \in Index /\ m[i] = l[i - 1] /\ i - 1 # DEPTH_SIZE - 1
  BY <1>1, <1>4, DepthAssumption DEF Index
<1> HIDE DEF m
<1>6. \A i \in Index : l[i] # Empty /\ l[i] = w => i = DEPTH_SIZE - 1
  BY <1>4, OnePrice
<1>7. new # w
  BY <1>1, <1>4, LevelAt
<1>8. ASSUME NEW x \in LevelsOf(m)  PROVE x \in (LevelsOf(l) \cup {new}) \ {w}
  <2>1. PICK i \in Index : x = m[i] /\ x # Empty
    BY <1>8 DEF LevelsOf
  <2>2. CASE i < pos
    <3>1. x = l[i] /\ i # DEPTH_SIZE - 1
      BY <1>3, <1>4, <1>5, <2>1, <2>2, DepthAssumption
    <3> QED  BY <1>6, <2>1, <3>1, LevelAt
  <2>3. CASE i = pos
    BY <1>5, <1>7, <2>1, <2>3
  <2>4. CASE i > pos
    BY <1>5, <1>6, <2>1, <2>4, LevelAt
  <2> QED  BY <1>4, <2>2, <2>3, <2>4
<1>9. ASSUME NEW x \in (LevelsOf(l) \cup {new}) \ {w}  PROVE x \in LevelsOf(m)
  <2>1. CASE x = new
    BY <1>1, <1>4, <1>5, <2>1 DEF LevelsOf
  <2>2. CASE x \in LevelsOf(l)
    <3>1. PICK i \in Index : x = l[i] /\ x # Empty /\ i # DEPTH_SIZE - 1
      BY <1>9, <2>2 DEF LevelsOf
    <3>2. CASE i < pos
      BY <1>5, <3>1, <3>2 DEF LevelsOf
    <3>3. CASE i >= pos
      BY <1>5, <3>1, <3>3 DEF LevelsOf
    <3> QED  BY <1>4, <3>2, <3>3
  <2> QED  BY <1>9, <2>1, <2>2
<1> QED  BY <1>2, <1>8, <1>9

\* Where there is room nothing is pushed out.
LEMMA InsertRoom ==
  ASSUME NEW side \in Sides, NEW l \in Ladders, Correct(side, l), NEW new \in Levels,
         \A x \in LevelsOf(l) : x.price # new.price,
         Cardinality(LevelsOf(l)) < DEPTH_SIZE
  PROVE  LevelsOf(insertDepth(side, l, new)) = LevelsOf(l) \cup {new}
<1> DEFINE pos == Position(side, l, new.price)
<1>1. /\ pos \in 0 .. DEPTH_SIZE
      /\ \A j \in 0 .. pos - 1 : ~Stops(side, l, new.price, j)
      /\ new # Empty
  BY LevelFacts, PositionFirst
<1>2. DEPTH_SIZE - 1 \in Index /\ l[DEPTH_SIZE - 1] = Empty
  BY LadderSize, DepthAssumption DEF Index
<1>3. pos < DEPTH_SIZE
  BY <1>1, <1>2, DepthAssumption DEF Stops
<1>4. LevelsOf(insertDepth(side, l, new)) = (LevelsOf(l) \cup {new}) \ {l[DEPTH_SIZE - 1]}
  BY <1>3, InsertLevels
<1> QED  BY <1>1, <1>2, <1>4 DEF LevelsOf

\* The worst level of a set is the one that all others are better than.
LEMMA WorstIs ==
  ASSUME NEW side \in Sides, NEW S \in SUBSET Levels, NEW w \in S,
         \A y \in S : y = w \/ Better(side, y.price, w.price)
  PROVE  Worst(side, S) = w
<1>1. \A x \in S : x.price \in Nat
  BY LevelFacts
<1>2. \A x \in S : (\A y \in S : x = y \/ Better(side, y.price, x.price)) => x = w
  BY <1>1 DEF Better
<1> QED  BY <1>2 DEF Worst

\* A full ladder keeps the best of its levels and the new one.
LEMMA InsertFull ==
  ASSUME NEW side \in Sides, NEW l \in Ladders, Correct(side, l), NEW new \in Levels,
         \A x \in LevelsOf(l) : x.price # new.price,
         Cardinality(LevelsOf(l)) = DEPTH_SIZE,
         new # Worst(side, LevelsOf(l) \cup {new})
  PROVE  LevelsOf(insertDepth(side, l, new))
           = (LevelsOf(l) \cup {new}) \ {Worst(side, LevelsOf(l) \cup {new})}
<1> DEFINE pos == Position(side, l, new.price)
           T   == LevelsOf(l) \cup {new}
           w   == l[DEPTH_SIZE - 1]
<1>1. /\ pos \in 0 .. DEPTH_SIZE /\ Stops(side, l, new.price, pos)
      /\ \A j \in 0 .. pos - 1 : ~Stops(side, l, new.price, j)
      /\ new # Empty /\ new.price \in Nat
  BY LevelFacts, PositionFirst
<1>2. /\ DEPTH_SIZE - 1 \in Index /\ T \in SUBSET Levels
      /\ \A i \in Index : i \in Nat /\ i < DEPTH_SIZE /\ i <= DEPTH_SIZE - 1 /\ l[i] # Empty
  BY LadderSize, LevelAt, DepthAssumption DEF Index
<1>3. \A i \in Index : l[i] \in LevelsOf(l) /\ l[i].price \in Nat /\ l[i].price # new.price
  BY <1>2, LevelAt, LadderFacts
<1> HIDE DEF pos
<1>4. pos < DEPTH_SIZE
  <2> SUFFICES ASSUME pos = DEPTH_SIZE  PROVE FALSE
    BY <1>1, DepthAssumption
  <2>1. ASSUME NEW y \in LevelsOf(l)  PROVE Better(side, y.price, new.price)
    <3>1. PICK i \in Index : l[i] = y
      BY LevelAt
    <3>2. ~Stops(side, l, new.price, i)
      BY <1>1, <1>2, <3>1, DepthAssumption
    <3> QED  BY <3>1, <3>2 DEF Stops
  <2>2. Worst(side, T) = new
    BY <1>2, <2>1, WorstIs
  <2> QED  BY <2>2
<1>5. Worst(side, T) = w
  <2>1. ASSUME NEW y \in LevelsOf(l)  PROVE y = w \/ Better(side, y.price, w.price)
    <3>1. PICK i \in Index : l[i] = y
      BY LevelAt
    <3> QED  BY <1>2, <3>1 DEF Correct
  <2>2. Better(side, new.price, w.price)
    <3>1. pos \in Index
      BY <1>1, <1>4, DepthAssumption DEF Index
    <3>2. Better(side, new.price, l[pos].price)
      BY <1>1, <1>2, <1>3, <3>1 DEF Stops, Better
    <3>3. l[pos] = w \/ Better(side, l[pos].price, w.price)
      BY <1>3, <2>1, <3>1
    <3>4. l[pos].price \in Nat /\ w.price \in Nat
      BY <1>2, <1>3, <3>1
    <3> QED  BY <1>1, <3>2, <3>3, <3>4 DEF Better
  <2>3. w \in T
    BY <1>2, <1>3
  <2> QED  BY <1>2, <2>1, <2>2, <2>3, WorstIs
<1>6. LevelsOf(insertDepth(side, l, new)) = T \ {w}
  BY <1>4, InsertLevels DEF pos
<1> QED  BY <1>5, <1>6

LEMMA UpdateLevels ==
  ASSUME NEW side \in Sides, NEW l \in Ladders, Correct(side, l),
         NEW x \in LevelsOf(l), NEW new \in Levels, new.price = x.price
  PROVE  LevelsOf(updateDepth(side, l, new)) = (LevelsOf(l) \ {x}) \cup {new}
<1>1. PICK i \in Index : l[i] = x /\ x # Empty
  BY DEF LevelsOf
<1>2. updateDepth(side, l, new) = [l EXCEPT ![i] = new]
  <2>1. Position(side, l, x.price) = i /\ Found(l, x.price, i)
    BY <1>1, SearchFinds
  <2> QED  BY <2>1 DEF updateDepth
<1> DEFINE m == [l EXCEPT ![i] = new]
<1>3. m[i] = new /\ new # Empty /\ \A j \in Index : j # i => m[j] = l[j]
  BY LevelFacts DEF Ladders
<1>4. \A j \in Index : j # i => l[j] # x
  BY <1>1, OnePrice
<1> HIDE DEF m
<1>5. LevelsOf(m) = (LevelsOf(l) \ {x}) \cup {new}
  BY <1>1, <1>3, <1>4 DEF LevelsOf
<1> QED  BY <1>2, <1>5 DEF m

LEMMA ShiftLevels ==
  ASSUME NEW l \in Ladders, NEW pos \in Nat, NEW k \in Nat
  PROVE  LevelsOf(Shift(l, pos, k)) = {l[i] : i \in {j \in Index : j < pos \/ j >= pos + k}} \ {Empty}
<1> DEFINE m == Shift(l, pos, k)
           R == {j \in Index : j < pos \/ j >= pos + k}
<1>1. \A i \in Index : i \in Nat /\ i < DEPTH_SIZE
  BY DepthAssumption DEF Index
<1>2. ASSUME NEW x \in LevelsOf(m)  PROVE x \in {l[i] : i \in R} \ {Empty}
  <2>1. PICK i \in Index : m[i] = x /\ x # Empty
    BY <1>2 DEF LevelsOf
  <2>2. CASE i < pos
    BY <2>1, <2>2 DEF Shift
  <2>3. CASE i >= pos
    <3>1. i + k < DEPTH_SIZE /\ x = l[i + k]
      BY <1>1, <2>1, <2>3 DEF Shift
    <3>2. i + k \in R
      BY <1>1, <2>3, <3>1, DepthAssumption DEF Index
    <3> QED  BY <2>1, <3>1, <3>2
  <2> QED  BY <1>1, <2>2, <2>3
<1>3. ASSUME NEW i \in R, l[i] # Empty  PROVE l[i] \in LevelsOf(m)
  <2>1. CASE i < pos
    BY <1>3, <2>1 DEF Shift, LevelsOf
  <2>2. CASE i >= pos
    <3>1. i - k \in Index /\ i - k >= pos /\ (i - k) + k = i /\ i < DEPTH_SIZE
      BY <1>1, <2>2, DepthAssumption DEF Index
    <3>2. m[i - k] = l[i]
      BY <1>1, <3>1 DEF Shift
    <3> QED  BY <1>3, <3>1, <3>2 DEF LevelsOf
  <2> QED  BY <1>1, <2>1, <2>2
<1> QED  BY <1>2, <1>3

LEMMA DeleteLevels1 ==
  ASSUME NEW side \in Sides, NEW l \in Ladders, Correct(side, l), NEW x \in LevelsOf(l)
  PROVE  LevelsOf(deleteDepth(side, l, x.price)) = LevelsOf(l) \ {x}
<1>1. PICK i \in Index : l[i] = x /\ x # Empty
  BY DEF LevelsOf
<1>2. deleteDepth(side, l, x.price) = Shift(l, i, 1)
  BY <1>1, SearchFinds DEF deleteDepth
<1>3. {j \in Index : j < i \/ j >= i + 1} = Index \ {i}
  BY DEF Index
<1>4. LevelsOf(Shift(l, i, 1)) = {l[j] : j \in Index \ {i}} \ {Empty}
  <2>1. i \in Nat
    BY DEF Index
  <2>2. LevelsOf(Shift(l, i, 1)) = {l[h] : h \in {j \in Index : j < i \/ j >= i + 1}} \ {Empty}
    BY <2>1, ShiftLevels
  <2> QED  BY <1>3, <2>2
<1>5. \A j \in Index \ {i} : l[j] # x
  BY <1>1, OnePrice
<1> QED  BY <1>1, <1>2, <1>4, <1>5 DEF LevelsOf

\* The best n levels of a ladder.
Best(l, n) == [i \in Index |-> IF i < n THEN l[i] ELSE Empty]

LEMMA BestLadder ==
  ASSUME NEW side \in Sides, NEW l \in Ladders, Correct(side, l), NEW i \in Index, l[i] # Empty
  PROVE  /\ Best(l, i) \in Ladders /\ Correct(side, Best(l, i))
         /\ LevelsOf(Best(l, i)) = Above(side, LevelsOf(l), l[i])
         /\ Cardinality(Above(side, LevelsOf(l), l[i])) = i
<1> DEFINE m == Best(l, i)
<1>1. m \in Ladders
  BY DEF Best, Ladders
<1>2. \A j \in Index : j \in Nat /\ j < DEPTH_SIZE /\ (j < i => m[j] = l[j]) /\ (j >= i => m[j] = Empty)
  BY DepthAssumption DEF Best, Index
<1> HIDE DEF m
<1>3. \A j \in Index : j < i => l[j] # Empty /\ Better(side, l[j].price, l[i].price)
  BY DEF Correct
<1>4. Correct(side, m)
  BY <1>2 DEF Correct
<1>5. ASSUME NEW x \in LevelsOf(m)  PROVE x \in Above(side, LevelsOf(l), l[i])
  <2>1. PICK j \in Index : m[j] = x /\ x # Empty
    BY <1>5 DEF LevelsOf
  <2>2. j < i /\ x = l[j]
    BY <1>2, <2>1
  <2> QED  BY <1>3, <2>1, <2>2, LevelAt DEF Above
<1>6. ASSUME NEW x \in Above(side, LevelsOf(l), l[i])  PROVE x \in LevelsOf(m)
  <2>1. x \in LevelsOf(l) /\ Better(side, x.price, l[i].price)
    BY <1>6 DEF Above
  <2>2. PICK j \in Index : l[j] = x /\ x # Empty
    BY <2>1 DEF LevelsOf
  <2>3. l[j].price \in Nat /\ l[i].price \in Nat
    BY LadderFacts
  <2>4. ~(j > i) /\ j # i
    BY <2>1, <2>2, <2>3 DEF Correct, Better
  <2>5. m[j] = x
    BY <1>2, <2>2, <2>4
  <2> QED  BY <2>2, <2>5 DEF LevelsOf
<1>7. LevelsOf(m) = Above(side, LevelsOf(l), l[i])
  BY <1>5, <1>6
<1>8. Cardinality(LevelsOf(m)) = i
  <2> DEFINE c == Cardinality(LevelsOf(m))
  <2>1. c \in 0 .. DEPTH_SIZE /\ \A j \in Index : m[j] # Empty <=> j < c
    BY <1>1, <1>4, LadderSize
  <2>2. \A j \in Index : j < i <=> j < c
    BY <1>2, <1>3, <2>1
  <2> HIDE DEF c
  <2>3. ~(c < i)
    <3>1. c < i => c \in Index
      BY <1>2, <2>1, DepthAssumption DEF Index
    <3> QED  BY <2>1, <2>2, <3>1
  <2>4. ~(i < c)
    BY <1>2, <2>2
  <2> QED  BY <1>2, <2>1, <2>3, <2>4 DEF c
<1> QED  BY <1>1, <1>4, <1>7, <1>8 DEF m

\* The level numbered n is at n - 1.
LEMMA LevelNumber ==
  ASSUME NEW side \in Sides, NEW l \in Ladders, Correct(side, l),
         NEW x \in LevelsOf(l), NEW n \in Nat, IsLevel(side, LevelsOf(l), x, n)
  PROVE  n >= 1 /\ n - 1 \in Index /\ l[n - 1] = x /\ x # Empty
<1>1. PICK i \in Index : l[i] = x /\ x # Empty
  BY DEF LevelsOf
<1>2. i = n - 1
  BY <1>1, BestLadder DEF IsLevel
<1> QED  BY <1>1, <1>2, DepthAssumption DEF Index

LEMMA DeleteThruLevels ==
  ASSUME NEW side \in Sides, NEW l \in Ladders, Correct(side, l),
         NEW x \in LevelsOf(l), NEW n \in Nat, IsLevel(side, LevelsOf(l), x, n)
  PROVE  LevelsOf(deleteBest(l, n))
           = LevelsOf(l) \ (Above(side, LevelsOf(l), x) \cup {x})
<1>1. n - 1 \in Index /\ l[n - 1] = x /\ x # Empty /\ n >= 1
  BY LevelNumber
<1>2. \A j \in Index : j \in Nat /\ j < DEPTH_SIZE
  BY DepthAssumption DEF Index
<1>3. Leading(l, n) = n
  <2> DEFINE k == Leading(l, n)
  <2>1. k \in 0 .. n /\ (k = n \/ k = DEPTH_SIZE \/ l[k] = Empty)
    BY LeadingNumber
  <2> HIDE DEF k
  <2>2. ASSUME k < n  PROVE FALSE
    <3>1. k \in Index /\ k <= n - 1 /\ k # DEPTH_SIZE
      BY <1>1, <1>2, <2>1, <2>2, DepthAssumption DEF Index
    <3>2. l[k] # Empty
      BY <1>1, <1>2, <3>1 DEF Correct
    <3> QED  BY <2>1, <2>2, <3>1, <3>2
  <2> QED  BY <2>1, <2>2 DEF k
<1>4. LevelsOf(deleteBest(l, n)) = {l[i] : i \in {j \in Index : j < 0 \/ j >= 0 + n}} \ {Empty}
  BY <1>3, ShiftLevels DEF deleteBest
<1>5. {j \in Index : j < 0 \/ j >= 0 + n} = {j \in Index : j >= n}
  BY <1>2
<1>6. Above(side, LevelsOf(l), x) = LevelsOf(Best(l, n - 1))
  BY <1>1, BestLadder
<1>7. ASSUME NEW j \in Index, l[j] # Empty
      PROVE  j >= n <=> l[j] \notin Above(side, LevelsOf(l), x) \cup {x}
  <2>1. j < n - 1 => l[j] \in Above(side, LevelsOf(l), x)
    <3>1. j < n - 1 => Best(l, n - 1)[j] = l[j]
      BY DEF Best
    <3> QED  BY <1>6, <1>7, <3>1 DEF LevelsOf
  <2>2. j = n - 1 => l[j] = x
    BY <1>1
  <2>3. ASSUME j >= n  PROVE l[j] # x /\ l[j] \notin Above(side, LevelsOf(l), x)
    <3>1. Better(side, l[n - 1].price, l[j].price) /\ n - 1 < j
      BY <1>1, <1>2, <1>7, <2>3 DEF Correct
    <3>2. l[j].price \in Nat /\ l[n - 1].price \in Nat
      BY <1>1, LadderFacts
    <3> QED  BY <1>1, <3>1, <3>2 DEF Above, Better
  <2> QED  BY <1>1, <1>2, <2>1, <2>2, <2>3
<1> QED  BY <1>4, <1>5, <1>7 DEF LevelsOf

\* A level may change as long as no other comes before it that did not, or after it that did.
LEMMA OverlayLevels ==
  ASSUME NEW side \in Sides, NEW l \in Ladders, Correct(side, l),
         NEW x \in LevelsOf(l), NEW y \in Levels,
         \A z \in LevelsOf(l) \ {x} : z.price # y.price,
         Above(side, LevelsOf(l) \ {x}, y) = Above(side, LevelsOf(l) \ {x}, x)
  PROVE  \E m \in Ladders : Correct(side, m) /\ LevelsOf(m) = (LevelsOf(l) \ {x}) \cup {y}
<1>1. PICK i \in Index : l[i] = x /\ x # Empty
  BY DEF LevelsOf
<1> DEFINE m == [l EXCEPT ![i] = y]
<1>2. m \in Ladders /\ m[i] = y /\ y # Empty /\ \A j \in Index : j # i => m[j] = l[j]
  BY LevelFacts DEF Ladders
<1> HIDE DEF m
<1>3. \A j \in Index : j # i => l[j] # x
  BY <1>1, OnePrice
<1>4. LevelsOf(m) = (LevelsOf(l) \ {x}) \cup {y}
  BY <1>1, <1>2, <1>3 DEF LevelsOf
<1>5. ASSUME NEW j \in Index, j # i, l[j] # Empty
      PROVE  Better(side, l[j].price, y.price) <=> Better(side, l[j].price, x.price)
  <2>1. l[j] \in LevelsOf(l) \ {x}
    BY <1>3, <1>5, LevelAt
  <2> QED  BY <2>1 DEF Above
<1>6. ASSUME NEW a \in Index, NEW b \in Index, a < b, m[b] # Empty
      PROVE  m[a] # Empty /\ Better(side, m[a].price, m[b].price)
  <2>1. a \in Int /\ b \in Int /\ i \in Int /\ y.price \in Nat
    BY LevelFacts DEF Index
  <2>2. CASE b = i
    <3>1. l[a] # Empty /\ Better(side, l[a].price, x.price) /\ a # i
      BY <1>1, <1>6, <2>1, <2>2 DEF Correct
    <3> QED  BY <1>2, <1>5, <2>2, <3>1
  <2>3. CASE a = i
    <3>1. /\ b # i /\ m[b] = l[b] /\ l[b] # Empty
          /\ Better(side, x.price, l[b].price)
      BY <1>1, <1>2, <1>6, <2>1, <2>3 DEF Correct
    <3>2. l[b].price \in Nat /\ x.price \in Nat
      BY <1>1, LadderFacts
    <3>3. ~Better(side, l[b].price, x.price)
      BY <3>1, <3>2 DEF Better
    <3>4. ~Better(side, l[b].price, y.price)
      BY <1>5, <3>1, <3>3
    <3>5. l[b].price # y.price
      BY <1>3, <3>1, LevelAt
    <3>6. Better(side, y.price, l[b].price)
      BY <2>1, <3>2, <3>4, <3>5 DEF Better
    <3> QED  BY <1>2, <2>3, <3>1, <3>6
  <2>4. CASE a # i /\ b # i
    BY <1>2, <1>6, <2>4 DEF Correct
  <2> QED  BY <2>2, <2>3, <2>4
<1> QED  BY <1>2, <1>4, <1>6 DEF Correct

-----------------------------------------------------------------------------
(* What the entries of an increment do.                                    *)

Shown(b) == \E d \in [Sides -> Ladders] : Shows(d, b)

LEMMA EntryIs ==
  ASSUME NEW action, NEW side, NEW level, NEW x
  PROVE  /\ Entry(action, side, level, x).action = action
         /\ Entry(action, side, level, x).side = side
         /\ Entry(action, side, level, x).level = level
         /\ Entry(action, side, level, x).at = x
BY DEF Entry

LEMMA LeadsOne ==
  ASSUME NEW e \in Entries, NEW b \in [Sides -> SUBSET Levels], NEW T \in SUBSET Levels,
         Leads(e, b[e.side], T), NEW d \in [Sides -> Ladders], Shows(d, b)
  PROVE  /\ AfterEntry(d, e) \in [Sides -> Ladders]
         /\ Shows(AfterEntry(d, e), [b EXCEPT ![e.side] = T])
<1>1. e.side \in Sides
  BY EntryFields
<1>2. d[e.side] \in Ladders /\ Correct(e.side, d[e.side]) /\ LevelsOf(d[e.side]) = b[e.side]
  BY <1>1 DEF Shows
<1> DEFINE m == Changed(e, d[e.side])
<1>3. m \in Ladders /\ Correct(e.side, m) /\ LevelsOf(m) = T
  BY <1>2 DEF Leads
<1>4. AfterEntry(d, e) = [d EXCEPT ![e.side] = m]
  BY DEF AfterEntry
<1> HIDE DEF m
<1> QED  BY <1>1, <1>3, <1>4 DEF Shows

\* What is sent of a change is true, and the next book is one that ladders show.
Told ==
  /\ Shown(book')
  /\ \E w \in Seq(Entries) :
       /\ wire' = Append(wire, [kind |-> "increment", seq |-> seq', levels |-> {}, entries |-> w])
       /\ Len(w) \in {1, 2} /\ Brings(book, book', w)

LEMMA ToldOne ==
  ASSUME DepthInv, Shown(book), NEW e \in Entries, NEW S \in SUBSET Levels,
         SendIncrement(e.side, S, <<e>>), Leads(e, book[e.side], S)
  PROVE  Told
<1>1. /\ book' = [book EXCEPT ![e.side] = S] /\ book \in [Sides -> SUBSET Levels]
      /\ wire' = Append(wire, [kind |-> "increment", seq |-> seq', levels |-> {}, entries |-> <<e>>])
  BY DEF SendIncrement, DepthInv
<1>2. ASSUME NEW d \in [Sides -> Ladders], Shows(d, book)
      PROVE  AfterEntry(d, e) \in [Sides -> Ladders] /\ Shows(AfterEntry(d, e), book')
  BY <1>1, <1>2, LeadsOne
<1>3. Shown(book')
  BY <1>2 DEF Shown
<1>4. \A d : After(d, <<e>>) = AfterEntry(d, e)
  BY DEF After
<1>5. Brings(book, book', <<e>>)
  BY <1>2, <1>4 DEF Brings
<1>6. <<e>> \in Seq(Entries) /\ Len(<<e>>) = 1
  OBVIOUS
<1> QED  BY <1>1, <1>3, <1>5, <1>6 DEF Told

LEMMA ToldTwo ==
  ASSUME DepthInv, Shown(book), NEW e \in Entries, NEW f \in Entries, e.side = f.side,
         NEW S \in SUBSET Levels, NEW T \in SUBSET Levels,
         SendIncrement(e.side, T, <<e, f>>), Leads(e, book[e.side], S), Leads(f, S, T)
  PROVE  Told
<1> DEFINE b == [book EXCEPT ![e.side] = S]
<1>1. /\ book' = [book EXCEPT ![e.side] = T] /\ book \in [Sides -> SUBSET Levels]
      /\ wire' = Append(wire, [kind |-> "increment", seq |-> seq', levels |-> {}, entries |-> <<e, f>>])
  BY DEF SendIncrement, DepthInv
<1>2. /\ b \in [Sides -> SUBSET Levels] /\ b[f.side] = S
      /\ book' = [b EXCEPT ![f.side] = T]
  BY <1>1, EntryFields
<1>3. ASSUME NEW d \in [Sides -> Ladders], Shows(d, book)
      PROVE  /\ AfterEntry(AfterEntry(d, e), f) \in [Sides -> Ladders]
             /\ Shows(AfterEntry(AfterEntry(d, e), f), book')
  <2>1. AfterEntry(d, e) \in [Sides -> Ladders] /\ Shows(AfterEntry(d, e), b)
    BY <1>1, <1>3, LeadsOne
  <2> HIDE DEF b
  <2> QED  BY <1>2, <2>1, LeadsOne
<1>4. Shown(book')
  BY <1>3 DEF Shown
<1>5. \A d : After(d, <<e, f>>) = AfterEntry(AfterEntry(d, e), f)
  BY DEF After
<1>6. Brings(book, book', <<e, f>>)
  BY <1>3, <1>5 DEF Brings
<1>7. <<e, f>> \in Seq(Entries) /\ Len(<<e, f>>) = 2
  OBVIOUS
<1> QED  BY <1>1, <1>4, <1>6, <1>7 DEF Told

LEMMA ToldSpoiled ==
  ASSUME DepthInv, Shown(book), NEW e \in Entries, Spoils(e), NEW S \in SUBSET Levels,
         SendIncrement(e.side, S, <<e>>),
         NEW m \in Ladders, Correct(e.side, m), LevelsOf(m) = S
  PROVE  Told
<1>1. /\ book' = [book EXCEPT ![e.side] = S] /\ book \in [Sides -> SUBSET Levels]
      /\ wire' = Append(wire, [kind |-> "increment", seq |-> seq', levels |-> {}, entries |-> <<e>>])
  BY DEF SendIncrement, DepthInv
<1>2. PICK d \in [Sides -> Ladders] : Shows(d, book)
  BY DEF Shown
<1>3. Shows([d EXCEPT ![e.side] = m], book') /\ [d EXCEPT ![e.side] = m] \in [Sides -> Ladders]
  BY <1>1, <1>2, EntryFields DEF Shows
<1>4. Shown(book')
  BY <1>3 DEF Shown
<1>5. Brings(book, book', <<e>>)
  BY DEF Brings, Spoiled
<1>6. <<e>> \in Seq(Entries) /\ Len(<<e>>) = 1
  OBVIOUS
<1> QED  BY <1>1, <1>4, <1>5, <1>6 DEF Told

\* The levels of a side of a book that ladders show.
LEMMA SideShown ==
  ASSUME NEW b, Shown(b), NEW side \in Sides
  PROVE  \E l \in Ladders : Correct(side, l) /\ LevelsOf(l) = b[side]
BY DEF Shown, Shows

LEMMA NewLeads ==
  ASSUME NEW side \in Sides, NEW S, NEW x \in Levels, \A y \in S : y.price # x.price
  PROVE  /\ Cardinality(S) < DEPTH_SIZE => Leads(Entry("New", side, 1, x), S, S \cup {x})
         /\ Cardinality(S) = DEPTH_SIZE /\ x # Worst(side, S \cup {x}) =>
              Leads(Entry("New", side, 1, x), S, (S \cup {x}) \ {Worst(side, S \cup {x})})
<1>1. \A l : Changed(Entry("New", side, 1, x), l) = insertDepth(side, l, x)
  BY EntryIs DEF Changed
<1>2. Entry("New", side, 1, x).side = side
  BY EntryIs
<1>3. ASSUME NEW l \in Ladders, Correct(side, l), LevelsOf(l) = S
      PROVE  /\ insertDepth(side, l, x) \in Ladders /\ Correct(side, insertDepth(side, l, x))
             /\ Cardinality(S) < DEPTH_SIZE => LevelsOf(insertDepth(side, l, x)) = S \cup {x}
             /\ Cardinality(S) = DEPTH_SIZE /\ x # Worst(side, S \cup {x}) =>
                  LevelsOf(insertDepth(side, l, x)) = (S \cup {x}) \ {Worst(side, S \cup {x})}
  BY <1>3, InsertLadder, InsertRoom, InsertFull
<1> QED  BY <1>1, <1>2, <1>3 DEF Leads

LEMMA DeleteLeads ==
  ASSUME NEW side \in Sides, NEW S \in SUBSET Levels, NEW x \in S
  PROVE  Leads(Entry("Delete", side, 1, x), S, S \ {x})
<1>1. \A l : Changed(Entry("Delete", side, 1, x), l) = deleteDepth(side, l, x.price)
  BY EntryIs DEF Changed
<1>2. x.price \in Nat
  BY LevelFacts
<1> QED  BY <1>1, <1>2, EntryIs, DeleteLadder, DeleteLevels1 DEF Leads

LEMMA UpdateLeads ==
  ASSUME NEW side \in Sides, NEW S, NEW x \in S, NEW y \in Levels, y.price = x.price
  PROVE  Leads(Entry("Update", side, 1, y), S, (S \ {x}) \cup {y})
<1>1. \A l : Changed(Entry("Update", side, 1, y), l) = updateDepth(side, l, y)
  BY EntryIs DEF Changed
<1> QED  BY <1>1, EntryIs, UpdateLadder, UpdateLevels DEF Leads

LEMMA DeleteThruLeads ==
  ASSUME NEW side \in Sides, NEW S, NEW x \in S, NEW n \in 1 .. DEPTH_SIZE, IsLevel(side, S, x, n)
  PROVE  Leads(Entry("DeleteThru", side, n, x), S, S \ (Above(side, S, x) \cup {x}))
<1>1. \A l : Changed(Entry("DeleteThru", side, n, x), l) = deleteBest(l, n)
  BY EntryIs DEF Changed
<1>2. n \in Nat
  OBVIOUS
<1> QED  BY <1>1, <1>2, EntryIs, DeleteBestLadder, DeleteThruLevels DEF Leads

\* Each change of the exchange's book.
LEMMA ChangesTold ==
  ASSUME DepthInv, Shown(book), Changes
  PROVE  Told
<1>0. book \in [Sides -> SUBSET Levels] /\ 1 \in 1 .. DEPTH_SIZE
  BY FirstLevel DEF DepthInv
<1>1. PICK side \in Sides : \/ NewLevel(side) \/ UpdateLevel(side) \/ DeleteLevel(side)
                            \/ DeleteLevels(side) \/ OverlayLevel(side)
  BY DEF Changes
<1> DEFINE S == book[side]
<1>2. S \in SUBSET Levels
  BY <1>0
<1>3. PICK l \in Ladders : Correct(side, l) /\ LevelsOf(l) = S
  BY SideShown
<1>4. /\ \A x \in Levels : Entry("New", side, 1, x) \in Entries
      /\ \A x \in Levels : Entry("Update", side, 1, x) \in Entries
      /\ \A x \in Levels : Entry("Delete", side, 1, x) \in Entries
      /\ \A x \in Levels, n \in 1 .. DEPTH_SIZE : /\ Entry("DeleteThru", side, n, x) \in Entries
                                                  /\ Entry("DeleteFrom", side, n, x) \in Entries
                                                  /\ Entry("Overlay", side, n, x) \in Entries
  BY <1>0, OneEntry
<1>5. CASE NewLevel(side)
  <2>1. PICK x \in Levels :
          /\ \A y \in S : y.price # x.price
          /\ \/ /\ Cardinality(S) < DEPTH_SIZE
                /\ SendIncrement(side, S \cup {x}, <<Entry("New", side, 1, x)>>)
             \/ /\ Cardinality(S) = DEPTH_SIZE /\ x # Worst(side, S \cup {x})
                /\ SendIncrement(side, (S \cup {x}) \ {Worst(side, S \cup {x})},
                                 <<Entry("New", side, 1, x)>>)
    BY <1>5 DEF NewLevel
  <2>2. PICK T \in SUBSET Levels : /\ SendIncrement(side, T, <<Entry("New", side, 1, x)>>)
                                   /\ Leads(Entry("New", side, 1, x), S, T)
    BY <1>2, <2>1, NewLeads
  <2> DEFINE e == Entry("New", side, 1, x)
  <2>3. e \in Entries /\ e.side = side
    BY <1>4, EntryIs
  <2> HIDE DEF e
  <2> QED  BY <2>2, <2>3, ToldOne DEF e
<1>6. CASE UpdateLevel(side)
  <2>1. PICK x \in S, y \in Levels :
          /\ y.price = x.price
          /\ SendIncrement(side, (S \ {x}) \cup {y}, <<Entry("Update", side, 1, y)>>)
    BY <1>6 DEF UpdateLevel
  <2>2. Leads(Entry("Update", side, 1, y), S, (S \ {x}) \cup {y}) /\ (S \ {x}) \cup {y} \in SUBSET Levels
    BY <1>2, <2>1, UpdateLeads
  <2> DEFINE e == Entry("Update", side, 1, y)
  <2>3. e \in Entries /\ e.side = side
    BY <1>4, EntryIs
  <2>4. SendIncrement(side, (S \ {x}) \cup {y}, <<e>>) /\ Leads(e, S, (S \ {x}) \cup {y})
    BY <2>1, <2>2
  <2> HIDE DEF e
  <2> QED  BY <2>2, <2>3, <2>4, ToldOne
<1>7. CASE DeleteLevel(side)
  <2>1. PICK x \in S :
          \/ SendIncrement(side, S \ {x}, <<Entry("Delete", side, 1, x)>>)
          \/ \E y \in Levels :
               /\ \A z \in S : Better(side, z.price, y.price)
               /\ SendIncrement(side, (S \ {x}) \cup {y},
                                <<Entry("Delete", side, 1, x), Entry("New", side, 1, y)>>)
    BY <1>7 DEF DeleteLevel
  <2> DEFINE e == Entry("Delete", side, 1, x)
  <2>2. /\ x \in Levels /\ S \ {x} \in SUBSET Levels
        /\ e \in Entries /\ e.side = side /\ Leads(e, S, S \ {x})
    BY <1>2, <1>4, EntryIs, DeleteLeads
  <2>3. ASSUME SendIncrement(side, S \ {x}, <<e>>)  PROVE Told
    <3> HIDE DEF e
    <3> QED  BY <2>2, <2>3, ToldOne
  <2>4. ASSUME NEW y \in Levels, \A z \in S : Better(side, z.price, y.price),
               SendIncrement(side, (S \ {x}) \cup {y}, <<e, Entry("New", side, 1, y)>>)
        PROVE  Told
    <3> DEFINE f == Entry("New", side, 1, y)
    <3>0. IsFiniteSet(S) /\ Cardinality(S) \in 0 .. DEPTH_SIZE
      BY <1>3, LadderSize
    <3>1. Cardinality(S \ {x}) < DEPTH_SIZE
      <4>1. Cardinality(S \ {x}) = Cardinality(S) - 1
        BY <3>0, FS_RemoveElement
      <4> QED  BY <3>0, <4>1, DepthAssumption
    <3>2. \A z \in S \ {x} : z.price # y.price
      BY <1>2, <2>4, LevelFacts DEF Better
    <3>3. f \in Entries /\ f.side = side
      BY <1>4, EntryIs
    <3>6. Leads(f, S \ {x}, (S \ {x}) \cup {y})
      BY <3>1, <3>2, NewLeads
    <3>4. (S \ {x}) \cup {y} \in SUBSET Levels
      BY <2>2
    <3>5. SendIncrement(side, (S \ {x}) \cup {y}, <<e, f>>)
      BY <2>4
    <3> HIDE DEF e, f
    <3> QED  BY <2>2, <3>3, <3>4, <3>5, <3>6, ToldTwo
  <2> QED  BY <2>1, <2>3, <2>4
<1>8. CASE DeleteLevels(side)
  <2>1. PICK x \in S, n \in 1 .. DEPTH_SIZE :
          /\ IsLevel(side, S, x, n)
          /\ \/ SendIncrement(side, S \ (Above(side, S, x) \cup {x}), <<Entry("DeleteThru", side, n, x)>>)
             \/ SendIncrement(side, Above(side, S, x), <<Entry("DeleteFrom", side, n, x)>>)
    BY <1>8 DEF DeleteLevels
  <2>2. x \in Levels /\ n \in Nat /\ Above(side, S, x) \in SUBSET Levels
    BY <1>2 DEF Above
  <2>3. CASE SendIncrement(side, S \ (Above(side, S, x) \cup {x}), <<Entry("DeleteThru", side, n, x)>>)
    <3> DEFINE e == Entry("DeleteThru", side, n, x)
               T == S \ (Above(side, S, x) \cup {x})
    <3>1. Leads(e, S, T) /\ e \in Entries /\ e.side = side
      BY <1>4, <2>1, <2>2, EntryIs, DeleteThruLeads
    <3>2. T \in SUBSET Levels
      BY <1>2
    <3>3. SendIncrement(side, T, <<e>>)
      BY <2>3
    <3> HIDE DEF e, T
    <3> QED  BY <3>1, <3>2, <3>3, ToldOne
  <2>4. CASE SendIncrement(side, Above(side, S, x), <<Entry("DeleteFrom", side, n, x)>>)
    <3>1. n - 1 \in Index /\ l[n - 1] = x /\ x # Empty
      BY <1>3, <2>1, <2>2, LevelNumber
    <3>2. PICK m \in Ladders : Correct(side, m) /\ LevelsOf(m) = Above(side, S, x)
      BY <1>3, <3>1, BestLadder
    <3> DEFINE e == Entry("DeleteFrom", side, n, x)
    <3>3. Spoils(e) /\ e \in Entries /\ e.side = side
      BY <1>4, <2>2, EntryIs DEF Spoils
    <3>4. SendIncrement(side, Above(side, S, x), <<e>>)
      BY <2>4
    <3> HIDE DEF e
    <3> QED  BY <2>2, <3>2, <3>3, <3>4, ToldSpoiled
  <2> QED  BY <2>1, <2>3, <2>4
<1>9. CASE OverlayLevel(side)
  <2>1. PICK x \in S, y \in Levels, n \in 1 .. DEPTH_SIZE :
          /\ \A z \in S \ {x} : z.price # y.price
          /\ Above(side, S \ {x}, y) = Above(side, S \ {x}, x)
          /\ SendIncrement(side, (S \ {x}) \cup {y}, <<Entry("Overlay", side, n, y)>>)
    BY <1>9 DEF OverlayLevel
  <2>2. PICK m \in Ladders : Correct(side, m) /\ LevelsOf(m) = (S \ {x}) \cup {y}
    BY <1>3, <2>1, OverlayLevels
  <2> DEFINE e == Entry("Overlay", side, n, y)
  <2>3. Spoils(e) /\ e \in Entries /\ e.side = side
    BY <1>4, EntryIs DEF Spoils
  <2>4. (S \ {x}) \cup {y} \in SUBSET Levels
    BY <1>2
  <2>5. SendIncrement(side, (S \ {x}) \cup {y}, <<e>>)
    BY <2>1
  <2> HIDE DEF e
  <2> QED  BY <2>2, <2>3, <2>4, <2>5, ToldSpoiled
<1> QED  BY <1>1, <1>5, <1>6, <1>7, <1>8, <1>9

-----------------------------------------------------------------------------
(* The history, and where the feed is in it.                               *)

Histories == [Nat -> [Sides -> SUBSET Levels]]

LEMMA PacketFields ==
  ASSUME DepthInv
  PROVE  /\ Len(wire) \in Nat
         /\ \A i \in 1 .. Len(wire) : wire[i].kind \in {"increment", "snapshot"} /\ wire[i].seq \in 0 .. seq
<1>1. wire \in Seq(Packets(seq))
  BY DEF DepthInv
<1>2. \A m \in Packets(seq) : m.kind \in {"increment", "snapshot"} /\ m.seq \in 0 .. seq
  BY DEF Packets
<1> QED  BY <1>1, <1>2

LEMMA Numbers ==
  ASSUME DepthInv
  PROVE  /\ seq \in Nat /\ top \in 0 .. seq /\ msgSeq \in 0 .. seq
         /\ lastProcessed_sequence_inc \in 0 .. seq /\ lastProcessed_sequence_snap \in 0 .. seq
BY DEF DepthInv, DepthTypeOK

LEMMA Beyond ==
  ASSUME NEW a \in Nat, NEW b \in Nat, NEW c \in Nat, a <= b, NEW k \in b + 1 .. c
  PROVE  k \in a + 1 .. c /\ k \in 0 .. c /\ ~(k <= b)
OBVIOUS

LEMMA LargerOfTwo ==
  ASSUME NEW a \in Nat, NEW b \in Nat
  PROVE  LET m == IF a > b THEN a ELSE b IN m \in Nat /\ a <= m /\ b <= m /\ m \in {a, b}
OBVIOUS

\* A new packet is true, the others were.
LEMMA HistoryKept ==
  ASSUME DepthInv, NEW B \in Histories, History(B), UNCHANGED exchangeVars,
         \A i \in 1 .. Len(wire') :
           Tells(B, wire'[i]) \/ \E j \in 1 .. Len(wire) : wire'[i] = wire[j]
  PROVE  History(B)'
BY DEF History, exchangeVars

\* The network may lose an increment that the snapshot had, or forget what is exact.
LEMMA NetworkFollows ==
  ASSUME DepthInv, NEW B \in Histories, Follows(B),
         UNCHANGED <<exchangeVars, feedVars>>, top <= top', top' \in Nat, exact' => exact,
         \A n \in 0 .. seq :
           Coming(n) => Coming(n)' \/ (n <= top' /\ (exact' => n <= lastProcessed_sequence_snap))
  PROVE  Follows(B)'
<1>1. /\ UNCHANGED <<seq, pc, work, levels, msgSeq, depth, lastProcessed_sequence_inc,
                     lastProcessed_sequence_snap, snapshot_process>>
      /\ seq \in Nat /\ top \in 0 .. seq /\ lastProcessed_sequence_inc \in 0 .. seq
      /\ lastProcessed_sequence_snap \in 0 .. seq
  BY Numbers DEF exchangeVars, feedVars
<1>2. \A n : InHand(n)' = InHand(n)
  BY <1>1 DEF InHand
<1>3. ASSUME NEW n \in top' + 1 .. seq'  PROVE Coming(n)' \/ InHand(n)'
  <2>1. n \in top + 1 .. seq /\ n \in 0 .. seq /\ ~(n <= top')
    <3>1. seq' = seq /\ seq \in Nat /\ top \in Nat
      BY <1>1
    <3>2. n \in top' + 1 .. seq
      BY <3>1
    <3>3. top' \in Nat /\ top <= top'
      OBVIOUS
    <3> QED  BY <3>1, <3>2, <3>3, Beyond
  <2>2. Coming(n) \/ InHand(n)
    BY <2>1 DEF Follows
  <2> QED  BY <1>2, <2>1, <2>2
<1>4. Live' => Live
  BY <1>1 DEF Live
<1>5. ASSUME Live', Late, lastProcessed_sequence_snap <= lastProcessed_sequence_inc
      PROVE  Late'
  <2>1. PICK n \in lastProcessed_sequence_snap + 1 .. lastProcessed_sequence_inc - 1 :
          Coming(n) \/ (InHand(n) /\ work # <<>>)
    BY <1>5 DEF Late
  <2>2. exact' /\ n \in 0 .. seq /\ ~(n <= lastProcessed_sequence_snap)
    BY <1>1, <1>5 DEF Live
  <2>3. Coming(n)' \/ (InHand(n)' /\ work' # <<>>)
    BY <1>1, <1>2, <2>1, <2>2
  <2> QED  BY <1>1, <2>3 DEF Late
<1>6. ASSUME Live', InOrder(B), lastProcessed_sequence_snap <= lastProcessed_sequence_inc
      PROVE  InOrder(B)'
  <2>1. exact'
    BY <1>6 DEF Live
  <2>2. ASSUME NEW n \in lastProcessed_sequence_inc + 1 .. seq
        PROVE  Coming(n)' \/ InHand(n)'
    <3>1. Coming(n) \/ InHand(n)
      BY <1>6, <2>2 DEF InOrder
    <3>2. n \in 0 .. seq /\ ~(n <= lastProcessed_sequence_snap)
      BY <1>1, <1>6, <2>2
    <3> QED  BY <1>2, <2>1, <3>1, <3>2
  <2>3. InHand(lastProcessed_sequence_inc + 1)' = InHand(lastProcessed_sequence_inc + 1)
    BY <1>1 DEF InHand
  <2>4. /\ Spoiled(work)' = Spoiled(work) /\ After(depth, work)' = After(depth, work)
        /\ Shows(depth, B[lastProcessed_sequence_inc])' = Shows(depth, B[lastProcessed_sequence_inc])
    BY <1>1 DEF Spoiled, After, Shows
  <2> QED  BY <1>1, <1>6, <2>2, <2>3, <2>4 DEF InOrder, Filling, Shows, InHand, After, Spoiled
<1> QED  BY <1>1, <1>3, <1>4, <1>5, <1>6 DEF Follows

LEMMA NetworkBook ==
  ASSUME DepthInv, NEW B \in Histories, History(B), Follows(B),
         SendSnapshot \/ LosePacket \/ RepeatPacket \/ Overtake \/ DecodeFails
  PROVE  History(B)' /\ Follows(B)'
<1>0. /\ Len(wire) \in Nat /\ wire \in Seq(Packets(seq)) /\ seq \in Nat /\ top \in 0 .. seq
      /\ \A i \in 1 .. Len(wire) : wire[i].kind \in {"increment", "snapshot"} /\ wire[i].seq \in 0 .. seq
  BY PacketFields, Numbers DEF DepthInv
<1>1. ASSUME UNCHANGED <<exchangeVars, feedVars, top, exact>>,
             \A i \in 1 .. Len(wire) : \E j \in 1 .. Len(wire') : wire'[j] = wire[i],
             \A i \in 1 .. Len(wire') :
               Tells(B, wire'[i]) \/ \E j \in 1 .. Len(wire) : wire'[i] = wire[j]
      PROVE  History(B)' /\ Follows(B)'
  <2>1. \A n : Coming(n) => Coming(n)'
    BY <1>1 DEF Coming
  <2>2. History(B)'
    BY <1>1, HistoryKept
  <2>3. top <= top' /\ top' \in Nat /\ (exact' => exact)
    BY <1>0, <1>1
  <2>4. Follows(B)'
    BY <1>1, <2>1, <2>3, NetworkFollows
  <2> QED  BY <2>2, <2>4
<1>2. ASSUME NEW m, wire' = Append(wire, m), Tells(B, m) \/ \E j \in 1 .. Len(wire) : m = wire[j],
             UNCHANGED <<exchangeVars, feedVars, top, exact>>
      PROVE  History(B)' /\ Follows(B)'
  <2>1. /\ \A i \in 1 .. Len(wire) : i \in 1 .. Len(wire') /\ wire'[i] = wire[i]
        /\ \A i \in 1 .. Len(wire') : wire'[i] = m \/ (i \in 1 .. Len(wire) /\ wire'[i] = wire[i])
    BY <1>0, <1>2
  <2>2. /\ \A i \in 1 .. Len(wire) : \E j \in 1 .. Len(wire') : wire'[j] = wire[i]
        /\ \A i \in 1 .. Len(wire') :
             Tells(B, wire'[i]) \/ \E j \in 1 .. Len(wire) : wire'[i] = wire[j]
    BY <1>2, <2>1
  <2> QED  BY <1>1, <1>2, <2>2
\* Packets are lost from the front.
<1>3. ASSUME NEW k \in 1 .. Len(wire), wire' = SubSeq(wire, k + 1, Len(wire)),
             UNCHANGED <<exchangeVars, feedVars>>, top <= top', top' \in Nat, exact' => exact,
             \A i \in 1 .. k : wire[i].kind = "increment" =>
               wire[i].seq <= top' /\ (exact' => wire[i].seq <= lastProcessed_sequence_snap)
      PROVE  History(B)' /\ Follows(B)'
  <2>1. /\ \A i \in 1 .. Len(wire') : i + k \in 1 .. Len(wire) /\ wire'[i] = wire[i + k]
        /\ \A i \in k + 1 .. Len(wire) : i - k \in 1 .. Len(wire') /\ wire'[i - k] = wire[i]
    BY <1>0, <1>3
  <2>2. History(B)'
    BY <1>3, <2>1, HistoryKept
  <2>3. ASSUME NEW n \in 0 .. seq, Coming(n)
        PROVE  Coming(n)' \/ (n <= top' /\ (exact' => n <= lastProcessed_sequence_snap))
    <3>1. PICK i \in 1 .. Len(wire) : wire[i].kind = "increment" /\ wire[i].seq = n
      BY <2>3 DEF Coming
    <3>2. CASE i \in 1 .. k
      BY <1>3, <3>1, <3>2
    <3>3. CASE i \in k + 1 .. Len(wire)
      <4>1. i - k \in 1 .. Len(wire') /\ wire'[i - k] = wire[i]
        BY <2>1, <3>3
      <4> QED  BY <3>1, <4>1 DEF Coming
    <3> QED  BY <1>0, <3>2, <3>3
  <2>4. Follows(B)'
    BY <1>3, <2>3, NetworkFollows
  <2> QED  BY <2>2, <2>4
<1>4. CASE SendSnapshot
  <2> DEFINE m == [kind |-> "snapshot", seq |-> seq, entries |-> <<>>,
       levels |-> UNION {{Entry("New", side, 1, x) : x \in book[side]} : side \in Sides}]
  <2>1. Tells(B, m)
    BY DEF Tells, History, SnapshotOf
  <2>2. wire' = Append(wire, m) /\ UNCHANGED <<exchangeVars, feedVars, top, exact>>
    BY <1>4 DEF SendSnapshot, feedKeeps
  <2> HIDE DEF m
  <2> QED  BY <1>2, <2>1, <2>2
<1>5. CASE LosePacket
  <2>1. /\ wire # <<>> /\ wire' = Tail(wire) /\ Lost(wire[1])
        /\ UNCHANGED <<exchangeVars, feedVars>>
    BY <1>0, <1>5 DEF LosePacket, feedKeeps
  <2>2. 1 \in 1 .. Len(wire) /\ wire' = SubSeq(wire, 1 + 1, Len(wire))
    BY <1>0, <2>1
  <2>3. /\ top <= top' /\ top' \in Nat /\ (exact' => exact)
        /\ wire[1].kind = "increment" =>
             wire[1].seq <= top' /\ (exact' => wire[1].seq <= lastProcessed_sequence_snap)
    <3>1. wire[1].seq \in Nat /\ top \in Nat /\ exact \in BOOLEAN
      BY <1>0, <2>2 DEF DepthInv, DepthTypeOK
    <3>2. CASE wire[1].kind = "increment"
      <4>1. /\ top' = IF wire[1].seq > top THEN wire[1].seq ELSE top
            /\ exact' = (exact /\ wire[1].seq <= lastProcessed_sequence_snap)
        BY <2>1, <3>2 DEF Lost
      <4>2. top <= top' /\ top' \in Nat /\ wire[1].seq <= top'
        BY <3>1, <4>1, LargerOfTwo
      <4>3. exact' => exact /\ wire[1].seq <= lastProcessed_sequence_snap
        BY <4>1, Zenon
      <4> QED  BY <4>2, <4>3
    <3>3. CASE wire[1].kind # "increment"
      BY <2>1, <3>1, <3>3 DEF Lost
    <3> QED  BY <3>2, <3>3
  <2>4. \A i \in 1 .. 1 : i = 1
    OBVIOUS
  <2> QED  BY <1>3, <2>1, <2>2, <2>3, <2>4
<1>6. CASE RepeatPacket
  <2>1. /\ wire' = Append(wire, wire[1]) /\ 1 \in 1 .. Len(wire)
        /\ UNCHANGED <<exchangeVars, feedVars, top, exact>>
    BY <1>0, <1>6 DEF RepeatPacket, feedKeeps
  <2> QED  BY <1>2, <2>1
<1>7. CASE Overtake
  <2>1. /\ Len(wire) > 1 /\ wire' = <<wire[2], wire[1]>> \o SubSeq(wire, 3, Len(wire))
        /\ UNCHANGED <<exchangeVars, feedVars, top, exact>>
    BY <1>7 DEF Overtake, feedKeeps
  <2>2. /\ Len(wire') = Len(wire) /\ wire'[1] = wire[2] /\ wire'[2] = wire[1]
        /\ \A i \in 3 .. Len(wire) : wire'[i] = wire[i]
    BY <1>0, <2>1
  <2>3. 1 \in 1 .. Len(wire) /\ 2 \in 1 .. Len(wire)
        /\ \A i \in 1 .. Len(wire) : i = 1 \/ i = 2 \/ i \in 3 .. Len(wire)
    BY <1>0, <2>1
  <2>4. /\ \A i \in 1 .. Len(wire) : \E j \in 1 .. Len(wire') : wire'[j] = wire[i]
        /\ \A i \in 1 .. Len(wire') : \E j \in 1 .. Len(wire) : wire'[i] = wire[j]
    BY <2>2, <2>3
  <2> QED  BY <1>1, <2>1, <2>4
<1>8. CASE DecodeFails
  <2> DEFINE numbers == {wire[i].seq : i \in {j \in {1, 2} : wire[j].kind = "increment"}}
             all     == numbers \cup {top}
  <2>1. /\ Len(wire) > 1 /\ wire' = SubSeq(wire, 2 + 1, Len(wire))
        /\ top' = CHOOSE n \in all : \A k \in all : k <= n
        /\ exact' = (exact /\ \A n \in numbers : n <= lastProcessed_sequence_snap)
        /\ UNCHANGED <<exchangeVars, feedVars>>
    BY <1>8 DEF DecodeFails, feedKeeps
  <2>2. wire[1].seq \in Nat /\ wire[2].seq \in Nat /\ top \in Nat /\ 2 \in 1 .. Len(wire)
    BY <1>0, <2>1
  <2>3. all \subseteq {wire[1].seq, wire[2].seq, top} /\ top \in all
    OBVIOUS
  <2>4. \A i \in 1 .. 2 : wire[i].kind = "increment" => wire[i].seq \in numbers /\ wire[i].seq \in all
    OBVIOUS
  <2> HIDE DEF all, numbers
  <2>5. \E n \in all : \A k \in all : k <= n
    BY <2>2, <2>3, LargestOfThree
  <2>6. top' \in all /\ \A k \in all : k <= top'
    BY <2>1, <2>5
  <2>7. top <= top' /\ top' \in Nat /\ (exact' => exact)
    BY <2>1, <2>2, <2>3, <2>6
  <2>8. \A i \in 1 .. 2 : wire[i].kind = "increment" =>
          wire[i].seq <= top' /\ (exact' => wire[i].seq <= lastProcessed_sequence_snap)
    BY <2>1, <2>4, <2>6
  <2> QED  BY <1>3, <2>1, <2>2, <2>7, <2>8
<1> QED  BY <1>4, <1>5, <1>6, <1>7, <1>8

\* The next book, and the increment that tells of it.
LEMMA ChangesBook ==
  ASSUME DepthInv, NEW B \in Histories, History(B), Follows(B), Changes
  PROVE  \E C \in Histories : History(C)' /\ Follows(C)'
<1>1. /\ seq' = seq + 1 /\ seq \in Nat
      /\ UNCHANGED <<pc, work, levels, msgSeq, depth, lastProcessed_sequence_inc,
                     lastProcessed_sequence_snap, snapshot_process, top, exact>>
  <2>1. PICK side \in Sides : \/ NewLevel(side) \/ UpdateLevel(side) \/ DeleteLevel(side)
                              \/ DeleteLevels(side) \/ OverlayLevel(side)
    BY DEF Changes
  <2>2. \E S, w : SendIncrement(side, S, w)
    <3>1. CASE NewLevel(side)
      BY <3>1, Zenon DEF NewLevel
    <3>2. CASE UpdateLevel(side)
      BY <3>2, Zenon DEF UpdateLevel
    <3>3. CASE DeleteLevel(side)
      BY <3>3, Zenon DEF DeleteLevel
    <3>4. CASE DeleteLevels(side)
      BY <3>4, Zenon DEF DeleteLevels
    <3>5. CASE OverlayLevel(side)
      BY <3>5, Zenon DEF OverlayLevel
    <3> QED  BY <2>1, <3>1, <3>2, <3>3, <3>4, <3>5
  <2> QED  BY <2>2, Numbers DEF SendIncrement, feedKeeps, feedVars
<1>2. Told /\ book' \in [Sides -> SUBSET Levels]
  <2>1. Shown(book)
    BY Numbers DEF History, Shown
  <2>2. DepthInv'
    BY ChangesStep
  <2> QED  BY <2>1, <2>2, ChangesTold DEF DepthInv
<1>3. PICK w \in Seq(Entries) :
        /\ wire' = Append(wire, [kind |-> "increment", seq |-> seq', levels |-> {}, entries |-> w])
        /\ Len(w) \in {1, 2} /\ Brings(book, book', w)
  BY <1>2 DEF Told
<1> DEFINE m == [kind |-> "increment", seq |-> seq', levels |-> {}, entries |-> w]
<1>4. PICK C \in Histories : /\ C[seq'] = book' /\ C[seq] = book
                             /\ \A n \in 0 .. seq : C[n] = B[n]
  <2> DEFINE D == [B EXCEPT ![seq'] = book']
  <2>1. /\ D \in Histories /\ D[seq'] = book' /\ D[seq] = book
        /\ \A n \in 0 .. seq : D[n] = B[n]
    BY <1>1, <1>2 DEF Histories, History
  <2> HIDE DEF D
  <2> QED  BY <2>1
<1>5. /\ Len(wire) \in Nat /\ Len(wire') = Len(wire) + 1
      /\ \A i \in 1 .. Len(wire) : wire'[i] = wire[i] /\ i \in 1 .. Len(wire')
      /\ wire'[Len(wire')] = m /\ Len(wire') \in 1 .. Len(wire')
      /\ \A i \in 1 .. Len(wire') : i = Len(wire') \/ i \in 1 .. Len(wire)
  BY <1>3, PacketFields DEF DepthInv
<1>6. Tells(C, m)
  <2>1. m.kind = "increment" /\ m.seq = seq + 1 /\ m.entries = w /\ (seq + 1) - 1 = seq
    BY <1>1
  <2>2. Brings(C[seq], C[seq + 1], w)
    BY <1>1, <1>3, <1>4
  <2> HIDE DEF m
  <2> QED  BY <1>1, <1>3, <2>1, <2>2 DEF Tells
<1>7. m.kind = "increment" /\ m.seq = seq'
  OBVIOUS
<1> HIDE DEF m
<1>8. History(C)'
  <2>1. ASSUME NEW n \in 0 .. seq'  PROVE \E d \in [Sides -> Ladders] : Shows(d, C[n])
    <3>1. CASE n \in 0 .. seq
      BY <1>4, <3>1 DEF History
    <3>2. CASE n = seq'
      BY <1>2, <1>4, <3>2 DEF Told, Shown
    <3> QED  BY <1>1, <3>1, <3>2
  <2>2. ASSUME NEW i \in 1 .. Len(wire)  PROVE Tells(C, wire[i])
    <3>1. wire[i].seq \in 0 .. seq /\ Tells(B, wire[i])
      BY PacketFields DEF History
    <3>2. C[wire[i].seq] = B[wire[i].seq]
      BY <1>4, <3>1
    <3>3. wire[i].seq >= 1 => C[wire[i].seq - 1] = B[wire[i].seq - 1]
      BY <1>1, <1>4, <3>1
    <3> QED  BY <3>1, <3>2, <3>3 DEF Tells
  <2>3. \A i \in 1 .. Len(wire') : Tells(C, wire'[i])
    BY <1>5, <1>6, <2>2
  <2> QED  BY <1>4, <2>1, <2>3 DEF History
<1>9. \A n : /\ Coming(n) \/ n = seq' => Coming(n)'
            /\ InHand(n)' = InHand(n)
  BY <1>1, <1>5, <1>7 DEF Coming, InHand
<1>10. Follows(C)'
  <2>1. ASSUME NEW n, \A k \in n + 1 .. seq : Coming(k) \/ InHand(k), n \in Int
        PROVE  \A k \in n + 1 .. seq' : Coming(k)' \/ InHand(k)'
    <3> SUFFICES ASSUME NEW k \in n + 1 .. seq'  PROVE Coming(k)' \/ InHand(k)'
      OBVIOUS
    <3>1. k \in n + 1 .. seq \/ k = seq'
      BY <1>1, <2>1
    <3> QED  BY <1>9, <2>1, <3>1
  <2>2. \A k \in top' + 1 .. seq' : Coming(k)' \/ InHand(k)'
    BY <1>1, <2>1, Numbers DEF Follows
  <2>3. Live' = Live
    BY <1>1 DEF Live
  <2>4. Late => Late'
    BY <1>1, <1>9 DEF Late
  <2>5. InOrder(B) => InOrder(C)'
    <3> SUFFICES ASSUME InOrder(B)  PROVE InOrder(C)'
      OBVIOUS
    <3> DEFINE now == lastProcessed_sequence_inc
    <3>1. now \in 0 .. seq /\ C[now] = B[now] /\ now' = now
      BY <1>1, <1>4, Numbers
    <3>2. \A k \in now + 1 .. seq' : Coming(k)' \/ InHand(k)'
      <4>1. \A k \in now + 1 .. seq : Coming(k) \/ InHand(k)
        BY DEF InOrder
      <4>2. now \in Int
        BY <3>1
      <4> HIDE DEF now
      <4> QED  BY <2>1, <4>1, <4>2
    <3>3. InHand(now + 1) => C[now + 1] = B[now + 1]
      BY <1>4, Numbers DEF InHand
    <3>4. InHand(now + 1)' = InHand(now + 1)
      BY <1>1 DEF InHand
    <3> HIDE DEF now
    <3> QED  BY <1>1, <3>1, <3>2, <3>3, <3>4 DEF InOrder, Filling, Shows, After, Spoiled, now
  <2> QED  BY <1>1, <2>2, <2>3, <2>4, <2>5 DEF Follows
<1> QED  BY <1>4, <1>8, <1>10

-----------------------------------------------------------------------------
(* The steps of the feed.                                                  *)

\* An entry of the snapshot is inserted: there is room for it, for the ladders
\* of the exchange hold them all.
LEMMA FillingStep ==
  ASSUME NEW d \in [Sides -> Ladders], NEW b \in [Sides -> SUBSET Levels],
         NEW m \in [Sides -> Ladders], Shows(m, b), NEW S, Filling(d, S, b), NEW e \in S
  PROVE  Filling([d EXCEPT ![e.side] = insertDepth(e.side, d[e.side], e.at)], S \ {e}, b)
<1>0. PICK side \in Sides : \E x \in b[side] : e = Entry("New", side, 1, x)
  BY DEF Filling, SnapshotOf
<1>1. PICK x \in b[side] : e = Entry("New", side, 1, x)
  BY <1>0
<1>2. e.side = side /\ e.at = x /\ x \in Levels
  BY <1>1, EntryIs
<1> DEFINE l == d[side]
           h == m[side]
           n == insertDepth(side, l, x)
<1>3. /\ l \in Ladders /\ Correct(side, l) /\ LevelsOf(l) \subseteq b[side]
      /\ h \in Ladders /\ Correct(side, h) /\ LevelsOf(h) = b[side]
  BY DEF Filling, Shows
<1>4. n \in Ladders /\ Correct(side, n)
  BY <1>2, <1>3, InsertLadder
<1>5. LevelsOf(n) = LevelsOf(l) \cup {x}
  <2> HIDE DEF l, h
  <2>1. CASE x \in LevelsOf(l)
    <3>1. PICK i \in Index : l[i] = x /\ l[i] # Empty
      BY <2>1 DEF LevelsOf
    <3>2. Position(side, l, x.price) = i /\ Found(l, x.price, i)
      BY <1>3, <3>1, SearchFinds
    <3>3. n = l
      BY <3>2 DEF insertDepth
    <3> QED  BY <2>1, <3>3
  <2>2. CASE x \notin LevelsOf(l)
    <3>1. ASSUME NEW y \in LevelsOf(l)  PROVE y.price # x.price
      <4>1. PICK i \in Index, j \in Index : h[i] = y /\ h[j] = x /\ h[i] # Empty
        BY <1>3 DEF LevelsOf
      <4>2. y # x
        BY <2>2
      <4> QED  BY <1>3, <4>1, <4>2, OnePrice
    <3>2. Cardinality(LevelsOf(l)) < DEPTH_SIZE
      <4>1. IsFiniteSet(LevelsOf(h)) /\ Cardinality(LevelsOf(h)) \in 0 .. DEPTH_SIZE
        BY <1>3, LadderSize
      <4>2. Cardinality(LevelsOf(l)) \in 0 .. DEPTH_SIZE
        BY <1>3, LadderSize
      <4>3. LevelsOf(l) \subseteq LevelsOf(h) /\ LevelsOf(l) # LevelsOf(h)
        BY <1>3, <2>2
      <4>4. /\ Cardinality(LevelsOf(l)) <= Cardinality(LevelsOf(h))
            /\ Cardinality(LevelsOf(l)) # Cardinality(LevelsOf(h))
        BY <4>1, <4>3, FS_Subset
      <4> QED  BY <4>1, <4>2, <4>4, DepthAssumption
    <3> QED  BY <1>2, <1>3, <3>1, <3>2, InsertRoom
  <2> QED  BY <2>1, <2>2
<1>6. [d EXCEPT ![e.side] = insertDepth(e.side, d[e.side], e.at)] = [d EXCEPT ![side] = n]
  BY <1>2
<1> DEFINE f == [d EXCEPT ![side] = n]
<1>7. f[side] = n /\ \A s \in Sides : s # side => f[s] = d[s]
  OBVIOUS
<1> HIDE DEF n, f
<1>8. ASSUME NEW s \in Sides
      PROVE  /\ Correct(s, f[s]) /\ LevelsOf(f[s]) \subseteq b[s]
             /\ \A y \in b[s] : y \in LevelsOf(f[s]) \/ Entry("New", s, 1, y) \in S \ {e}
  <2>1. CASE s = side
    <3>1. Correct(s, f[s]) /\ LevelsOf(f[s]) \subseteq b[s]
      BY <1>3, <1>4, <1>5, <1>7, <2>1
    <3>2. ASSUME NEW y \in b[s], y \notin LevelsOf(f[s])
          PROVE  Entry("New", s, 1, y) \in S \ {e}
      <4>1. y # x /\ y \notin LevelsOf(l)
        BY <1>5, <1>7, <2>1, <3>2
      <4>2. Entry("New", s, 1, y) \in S
        BY <2>1, <4>1 DEF Filling
      <4>3. Entry("New", s, 1, y).at = y
        BY EntryIs
      <4> QED  BY <1>2, <4>1, <4>2, <4>3
    <3> QED  BY <3>1, <3>2
  <2>2. CASE s # side
    <3>1. f[s] = d[s]
      BY <1>7, <2>2
    <3>2. \A y : Entry("New", s, 1, y) # e
      BY <1>2, <2>2, EntryIs
    <3> QED  BY <3>1, <3>2 DEF Filling
  <2> QED  BY <2>1, <2>2
<1>9. S \ {e} \subseteq SnapshotOf(b)
  BY DEF Filling
<1>10. Filling(f, S \ {e}, b)
  BY <1>8, <1>9 DEF Filling
<1> QED  BY <1>6, <1>10 DEF f

LEMMA Filled ==
  ASSUME NEW d, NEW b, Filling(d, {}, b)
  PROVE  Shows(d, b)
BY DEF Filling, Shows

\* The depth starts empty and the snapshot brings it all.
LEMMA FillingStarts ==
  ASSUME NEW b \in [Sides -> SUBSET Levels]
  PROVE  Filling(EmptyDepth, SnapshotOf(b), b)
<1>1. \A side \in Sides : Correct(side, EmptyDepth[side]) /\ LevelsOf(EmptyDepth[side]) = {}
  BY EmptyLadder DEF EmptyDepth, LevelsOf
<1>2. \A side \in Sides : \A x \in b[side] : Entry("New", side, 1, x) \in SnapshotOf(b)
  BY DEF SnapshotOf
<1> QED  BY <1>1, <1>2 DEF Filling

\* The first packet is taken: what it says is true, and others are still coming.
LEMMA Taken ==
  ASSUME DepthInv, NEW B \in Histories, History(B), NEW kind, Take(kind), UNCHANGED exchangeVars
  PROVE  /\ History(B)' /\ Head(wire) = wire[1] /\ pc = "idle"
         /\ wire[1].kind = kind /\ Tells(B, wire[1]) /\ wire[1].seq \in 0 .. seq
         /\ \A n : Coming(n) => Coming(n)' \/ (kind = "increment" /\ wire[1].seq = n)
<1>1. /\ wire # <<>> /\ Head(wire) = wire[1] /\ wire' = Tail(wire) /\ pc = "idle"
      /\ wire[1].kind = kind
  BY DEF Take, DepthInv
<1>2. 1 \in 1 .. Len(wire) /\ Len(wire') = Len(wire) - 1 /\ Len(wire) \in Nat
      /\ \A i \in 1 .. Len(wire') : wire'[i] = wire[i + 1]
  BY <1>1 DEF DepthInv
<1>3. /\ \A i \in 1 .. Len(wire') : \E j \in 1 .. Len(wire) : wire'[i] = wire[j]
      /\ \A i \in 1 .. Len(wire) : i = 1 \/ \E j \in 1 .. Len(wire') : wire'[j] = wire[i]
  <2>1. \A i \in 1 .. Len(wire') : i + 1 \in 1 .. Len(wire)
    BY <1>2
  <2>2. \A i \in 1 .. Len(wire) : i = 1 \/ (i - 1 \in 1 .. Len(wire') /\ wire'[i - 1] = wire[i])
    BY <1>2
  <2> QED  BY <1>2, <2>1, <2>2
<1>4. History(B)'
  BY <1>3, HistoryKept
<1>5. ASSUME NEW n, Coming(n)
      PROVE  Coming(n)' \/ (kind = "increment" /\ wire[1].seq = n)
  <2>1. PICK i \in 1 .. Len(wire) : wire[i].kind = "increment" /\ wire[i].seq = n
    BY <1>5 DEF Coming
  <2>2. CASE i = 1
    BY <1>1, <2>1, <2>2
  <2>3. CASE i # 1
    <3>1. PICK j \in 1 .. Len(wire') : wire'[j] = wire[i]
      BY <1>3, <2>3
    <3>2. Coming(n)'
      BY <2>1, <3>1 DEF Coming
    <3> QED  BY <3>2
  <2> QED  BY <2>2, <2>3
<1>6. Tells(B, wire[1]) /\ wire[1].seq \in 0 .. seq
  BY <1>2, PacketFields DEF History
<1> QED  BY <1>1, <1>4, <1>5, <1>6

LEMMA TakeSnapshotBook ==
  ASSUME DepthInv, NEW B \in Histories, History(B), Follows(B), TakeSnapshot
  PROVE  History(B)' /\ Follows(B)'
<1>1. /\ Take("snapshot") /\ UNCHANGED exchangeVars /\ UNCHANGED <<seq, top>>
      /\ pc' = "snapshot" /\ msgSeq' = Head(wire).seq /\ levels' = Head(wire).levels
      /\ depth' = EmptyDepth /\ lastProcessed_sequence_inc' = msgSeq'
      /\ lastProcessed_sequence_snap' = msgSeq' /\ exact' = (msgSeq' >= top)
  BY DEF TakeSnapshot, othersKeep, exchangeVars
<1>2. /\ History(B)' /\ Head(wire) = wire[1] /\ pc = "idle" /\ wire[1].kind = "snapshot"
      /\ Tells(B, wire[1]) /\ wire[1].seq \in 0 .. seq /\ \A n : Coming(n) => Coming(n)'
  BY <1>1, Taken
<1>3. \A n \in top + 1 .. seq : Coming(n)'
  BY <1>2 DEF Follows, InHand
<1>4. ASSUME Live'  PROVE InOrder(B)'
  <2>1. msgSeq' \in Nat /\ seq \in Nat /\ top \in Nat /\ msgSeq' >= top
    <3>1. exact'
      BY <1>4 DEF Live
    <3>2. msgSeq' >= top
      BY <1>1, <3>1, Zenon
    <3>3. msgSeq' \in Nat /\ seq \in Nat /\ top \in Nat
      BY <1>1, <1>2, Numbers
    <3> QED  BY <3>2, <3>3
  <2>2. ASSUME NEW n \in msgSeq' + 1 .. seq  PROVE Coming(n)'
    <3>1. n \in top + 1 .. seq
      BY <2>1, <2>2, Beyond
    <3> QED  BY <1>3, <3>1
  <2>3. levels' = SnapshotOf(B[msgSeq']) /\ B[msgSeq'] \in [Sides -> SUBSET Levels]
    BY <1>1, <1>2, <2>1 DEF Tells, Histories
  <2>4. Filling(depth', levels', B[msgSeq'])
    BY <1>1, <2>3, FillingStarts
  <2> QED  BY <1>1, <2>2, <2>4 DEF InOrder, InHand
<1>5. msgSeq' \in Nat
  BY <1>1, <1>2, Numbers
<1> QED  BY <1>1, <1>2, <1>3, <1>4, <1>5 DEF Follows

LEMMA SnapshotEntryBook ==
  ASSUME DepthInv, NEW B \in Histories, History(B), Follows(B), SnapshotEntry
  PROVE  History(B)' /\ Follows(B)'
<1>1. /\ UNCHANGED <<book, seq, wire, pc, work, msgSeq, lastProcessed_sequence_inc,
                     lastProcessed_sequence_snap, snapshot_process, top, exact>>
      /\ pc = "snapshot"
  BY DEF SnapshotEntry, othersKeep, exchangeVars, historyVars
<1>2. PICK e \in levels :
        /\ levels' = levels \ {e}
        /\ depth' = [depth EXCEPT ![e.side] = insertDepth(e.side, depth[e.side], e.at)]
  BY DEF SnapshotEntry
<1>3. History(B)'
  BY <1>1, HistoryKept DEF exchangeVars, History
<1>4. \A n : Coming(n)' = Coming(n) /\ InHand(n)' = InHand(n)
  BY <1>1 DEF Coming, InHand
<1>5. Live' = Live /\ Late' = Late
  BY <1>1, <1>4 DEF Live, Late
<1>6. ASSUME InOrder(B)  PROVE InOrder(B)'
  <2> DEFINE now == lastProcessed_sequence_inc
  <2>1. /\ now \in 0 .. seq /\ depth \in [Sides -> Ladders]
        /\ B[now] \in [Sides -> SUBSET Levels]
    BY Numbers DEF DepthInv, DepthTypeOK, Histories
  <2>2. PICK m \in [Sides -> Ladders] : Shows(m, B[now])
    BY <2>1 DEF History
  <2>3. Filling(depth, levels, B[now])
    BY <1>1, <1>6 DEF InOrder
  <2> HIDE DEF now
  <2>4. Filling(depth', levels', B[now])
    BY <1>2, <2>1, <2>2, <2>3, FillingStep
  <2>5. \A n \in now + 1 .. seq : Coming(n)' \/ InHand(n)'
    BY <1>4, <1>6 DEF InOrder, now
  <2> QED  BY <1>1, <2>4, <2>5 DEF InOrder, InHand, now
<1> QED  BY <1>1, <1>3, <1>4, <1>5, <1>6 DEF Follows

LEMMA EndSnapshotBook ==
  ASSUME DepthInv, NEW B \in Histories, History(B), Follows(B), EndSnapshot
  PROVE  History(B)' /\ Follows(B)'
<1>1. /\ UNCHANGED <<book, seq, wire, depth, lastProcessed_sequence_inc,
                     lastProcessed_sequence_snap, top, exact>>
      /\ pc = "snapshot" /\ levels = {} /\ pc' = "idle"
  BY DEF EndSnapshot, othersKeep, exchangeVars
<1>2. History(B)'
  BY <1>1, HistoryKept DEF exchangeVars, History
<1>3. \A n : Coming(n)' = Coming(n) /\ ~InHand(n)' /\ ~InHand(n)
  BY <1>1 DEF Coming, InHand
<1>4. ASSUME Live'
      PROVE  /\ lastProcessed_sequence_snap <= lastProcessed_sequence_inc
             /\ InOrder(B)'
  <2>1. Live
    BY <1>1, <1>4 DEF Live
  <2>2. /\ lastProcessed_sequence_inc = lastProcessed_sequence_snap /\ (Late \/ InOrder(B))
        /\ lastProcessed_sequence_snap <= lastProcessed_sequence_inc
    BY <1>1, <2>1 DEF Follows
  <2>3. ~Late
    BY <2>2, Numbers DEF Late
  <2>4. /\ Filling(depth, {}, B[lastProcessed_sequence_inc])
        /\ \A n \in lastProcessed_sequence_inc + 1 .. seq : Coming(n)
    BY <1>1, <1>3, <2>2, <2>3 DEF InOrder
  <2>5. Shows(depth, B[lastProcessed_sequence_inc])
    BY <2>4, Filled
  <2> QED  BY <1>1, <1>3, <2>2, <2>4, <2>5 DEF InOrder, Shows
<1> QED  BY <1>1, <1>2, <1>3, <1>4 DEF Follows

\* The packets on their way and the message in hand stay, so does the history.
LEMMA HandKept ==
  ASSUME DepthInv, NEW B \in Histories, History(B),
         UNCHANGED <<book, seq, wire, pc, msgSeq, lastProcessed_sequence_inc,
                     lastProcessed_sequence_snap, top>>
  PROVE  History(B)' /\ \A n : Coming(n)' = Coming(n) /\ InHand(n)' = InHand(n)
<1>1. History(B)'
  BY HistoryKept DEF exchangeVars, History
<1> QED  BY <1>1 DEF Coming, InHand

LEMMA TakeIncrementBook ==
  ASSUME DepthInv, NEW B \in Histories, History(B), Follows(B), TakeIncrement
  PROVE  History(B)' /\ Follows(B)'
<1>1. /\ Take("increment") /\ UNCHANGED exchangeVars
      /\ UNCHANGED <<seq, depth, lastProcessed_sequence_inc, lastProcessed_sequence_snap,
                     snapshot_process, top, exact>>
      /\ pc' = "increment" /\ work' = Head(wire).entries /\ msgSeq' = Head(wire).seq
  BY DEF TakeIncrement, othersKeep, exchangeVars, historyVars
<1>2. /\ History(B)' /\ Head(wire) = wire[1] /\ pc = "idle" /\ wire[1].kind = "increment"
      /\ Tells(B, wire[1]) /\ wire[1].seq \in 0 .. seq
      /\ \A n : Coming(n) => Coming(n)' \/ wire[1].seq = n
  BY <1>1, Taken
<1>3. \A n : Coming(n) \/ InHand(n) => Coming(n)' \/ InHand(n)'
  BY <1>1, <1>2 DEF InHand
<1>4. /\ msgSeq' >= 1 /\ Len(work') \in {1, 2} /\ work' # <<>>
      /\ Brings(B[msgSeq' - 1], B[msgSeq'], work')
  <2>1. /\ msgSeq' >= 1 /\ Len(work') \in {1, 2}
        /\ Brings(B[msgSeq' - 1], B[msgSeq'], work')
    BY <1>1, <1>2 DEF Tells
  <2>2. work' # <<>>
    BY <2>1
  <2> QED  BY <2>1, <2>2
<1>5. Live' => Live
  BY <1>1 DEF Live
<1>6. Late => Late'
  BY <1>1, <1>3, <1>4 DEF Late
<1>7. ASSUME InOrder(B)  PROVE InOrder(B)'
  <2> DEFINE now == lastProcessed_sequence_inc
  <2>1. now' = now /\ now \in Nat /\ Shows(depth, B[now]) /\ depth \in [Sides -> Ladders]
    BY <1>1, <1>2, <1>7, Numbers DEF InOrder, DepthInv, DepthTypeOK
  <2>2. \A n \in now + 1 .. seq : Coming(n)' \/ InHand(n)'
    BY <1>3, <1>7 DEF InOrder
  <2> HIDE DEF now
  <2>3. ASSUME msgSeq' = now + 1
        PROVE  Spoiled(work') \/ Shows(After(depth, work'), B[now + 1])
    <3>1. msgSeq' - 1 = now
      BY <2>1, <2>3
    <3>2. Brings(B[now], B[now + 1], work')
      BY <1>4, <2>3, <3>1
    <3> QED  BY <2>1, <3>2 DEF Brings
  <2>4. Shows(depth, B[now])'
    BY <1>1, <2>1 DEF Shows
  <2>5. InHand(now + 1)' => (Spoiled(work) \/ Shows(After(depth, work), B[now + 1]))'
    BY <1>1, <2>1, <2>3 DEF InHand, Spoiled, Shows, After
  <2> QED  BY <1>1, <2>1, <2>2, <2>4, <2>5 DEF InOrder, now
<1>8. \A n \in top' + 1 .. seq' : Coming(n)' \/ InHand(n)'
  BY <1>1, <1>3 DEF Follows
<1>9. Len(work') <= 2
  <2>1. \A k : k = 1 \/ k = 2 => k <= 2
    OBVIOUS
  <2> QED  BY <1>4, <2>1, Zenon
<1>10. ASSUME Live'
       PROVE  lastProcessed_sequence_snap <= lastProcessed_sequence_inc /\ (Late \/ InOrder(B))
  BY <1>5, <1>10 DEF Follows
<1> QED  BY <1>1, <1>2, <1>4, <1>6, <1>7, <1>8, <1>9, <1>10 DEF Follows

\* The first entry changes the depth, the second what comes of that.
LEMMA AfterFirst ==
  ASSUME NEW d, NEW w \in Seq(Entries), w # <<>>, Len(w) <= 2
  PROVE  /\ After(d, w) = After(AfterEntry(d, Head(w)), Tail(w))
         /\ Spoiled(w) /\ ~Spoils(Head(w)) => Spoiled(Tail(w))
<1> DEFINE t == Tail(w)
<1>1. Len(w) \in Nat /\ Len(w) # 0 /\ Head(w) = w[1] /\ t \in Seq(Entries)
      /\ Len(t) = Len(w) - 1 /\ \A i \in 1 .. Len(w) - 1 : t[i] = w[i + 1]
  BY EmptySeq
<1> HIDE DEF t
<1>2. CASE Len(w) = 1
  <2>1. Len(t) = 0
    BY <1>1, <1>2
  <2>2. t = <<>>
    BY <1>1, <2>1, EmptySeq
  <2> QED  BY <1>1, <1>2, <2>2 DEF After, Spoiled, t
<1>3. CASE Len(w) = 2
  <2>1. Len(t) = 1 /\ t[1] = w[2]
    BY <1>1, <1>3
  <2>2. t # <<>>
    BY <1>1, <2>1, EmptySeq
  <2>3. 1 .. Len(w) = {1, 2}
    BY <1>3
  <2>4. After(d, w) = After(AfterEntry(d, w[1]), t)
    BY <1>3, <2>1, <2>2 DEF After
  <2>5. Spoiled(w) /\ ~Spoils(w[1]) => Spoiled(t)
    BY <2>1, <2>3 DEF Spoiled
  <2> QED  BY <1>1, <2>4, <2>5 DEF t
<1> QED  BY <1>1, <1>2, <1>3

LEMMA ApplyIs ==
  ASSUME NEW e \in Entries, Apply(e), ~Spoils(e)
  PROVE  depth' = AfterEntry(depth, e)
BY DEF Apply, AfterEntry, Changed, Spoils

LEMMA ApplyEntryBook ==
  ASSUME DepthInv, NEW B \in Histories, History(B), Follows(B), ApplyEntry
  PROVE  History(B)' /\ Follows(B)'
<1>1. /\ UNCHANGED <<book, seq, wire, pc, msgSeq, lastProcessed_sequence_inc,
                     lastProcessed_sequence_snap, snapshot_process, top>>
      /\ pc = "increment" /\ work # <<>> /\ work' = Tail(work) /\ snapshot_process
      /\ msgSeq > lastProcessed_sequence_inc
  BY DEF ApplyEntry, NextEntry, IsNext, othersKeep, exchangeVars
<1>2. /\ work \in Seq(Entries) /\ Head(work) \in Entries
      /\ msgSeq \in Nat /\ lastProcessed_sequence_inc \in Nat
  <2>1. work \in Seq(Entries)
    BY DEF DepthInv, DepthTypeOK
  <2> QED  BY <1>1, <2>1, Numbers
<1> DEFINE e == Head(work)
<1>3. Apply(e) /\ exact' = (exact /\ ~Spoils(e))
  BY DEF ApplyEntry, Spoils
<1> HIDE DEF e
<1>4. History(B)' /\ \A n : Coming(n)' = Coming(n) /\ InHand(n)' = InHand(n)
  BY <1>1, HandKept
<1>5. Len(work) <= 2 /\ Len(work') <= 2
  <2>1. Len(work) <= 2
    BY <1>1 DEF Follows
  <2> QED  BY <1>1, <1>2, <2>1
<1>6. ASSUME Live'  PROVE Live /\ ~Spoils(e)
  BY <1>1, <1>3, <1>6 DEF Live
<1>7. Late => Late'
  <2>1. \A n \in lastProcessed_sequence_snap + 1 .. lastProcessed_sequence_inc - 1 : ~InHand(n)
    BY <1>1, <1>2, Numbers DEF InHand
  <2> QED  BY <1>1, <1>4, <2>1 DEF Late
<1>8. ASSUME ~Spoils(e), InOrder(B)  PROVE InOrder(B)'
  <2> DEFINE now == lastProcessed_sequence_inc
  <2>1. /\ After(depth', work') = After(depth, work)
        /\ Spoiled(work) => Spoiled(work')
    <3>1. depth' = AfterEntry(depth, e)
      BY <1>2, <1>3, <1>8, ApplyIs DEF e
    <3> QED  BY <1>1, <1>2, <1>5, <1>8, <3>1, AfterFirst DEF e
  <2>2. \A n \in now + 1 .. seq : Coming(n)' \/ InHand(n)'
    BY <1>4, <1>8 DEF InOrder
  <2>3. now' = now /\ ~(msgSeq <= now) /\ pc # "idle" /\ pc # "snapshot"
    BY <1>1, <1>2
  <2>4. InHand(now + 1) => Spoiled(work) \/ Shows(After(depth, work), B[now + 1])
    BY <1>8 DEF InOrder
  <2> HIDE DEF now
  <2>5. InHand(now + 1)' => (Spoiled(work) \/ Shows(After(depth, work), B[now + 1]))'
    <3>1. InHand(now + 1)' = InHand(now + 1)
      BY <1>1, <2>3 DEF InHand
    <3>2. Shows(After(depth, work), B[now + 1])' = Shows(After(depth', work'), B[now + 1])
      BY <2>3 DEF Shows, After, AfterEntry, Changed
    <3>3. Spoiled(work)' = Spoiled(work')
      BY DEF Spoiled
    <3> QED  BY <2>1, <2>4, <3>1, <3>2, <3>3
  <2> QED  BY <1>1, <2>2, <2>3, <2>5 DEF InOrder, now
<1> QED  BY <1>1, <1>2, <1>4, <1>5, <1>6, <1>7, <1>8 DEF Follows

LEMMA IgnoredEntryBook ==
  ASSUME DepthInv, NEW B \in Histories, History(B), Follows(B), SkipEntry \/ MissingEntry
  PROVE  History(B)' /\ Follows(B)'
<1>1. /\ UNCHANGED <<book, seq, wire, pc, msgSeq, depth, lastProcessed_sequence_inc,
                     lastProcessed_sequence_snap, top, exact>>
      /\ pc = "increment" /\ work # <<>> /\ work' = Tail(work)
  BY DEF SkipEntry, MissingEntry, NextEntry, othersKeep, exchangeVars, historyVars
<1>2. History(B)' /\ \A n : Coming(n)' = Coming(n) /\ InHand(n)' = InHand(n)
  BY <1>1, HandKept
<1>3. Len(work) <= 2 /\ Len(work') <= 2
  <2>1. Len(work) <= 2 /\ work \in Seq(Entries)
    BY <1>1 DEF Follows, DepthInv, DepthTypeOK
  <2> QED  BY <1>1, <2>1
\* It is one the snapshot had, or the last that was taken.
<1>4. ASSUME Live'
      PROVE  /\ Live /\ lastProcessed_sequence_snap <= lastProcessed_sequence_inc
             /\ msgSeq <= lastProcessed_sequence_inc
             /\ msgSeq <= lastProcessed_sequence_snap \/ msgSeq = lastProcessed_sequence_inc
  <2>1. exact /\ snapshot_process'
    BY <1>1, <1>4 DEF Live
  <2>2. snapshot_process
    BY <2>1 DEF SkipEntry, MissingEntry, historyVars
  <2>3. Live
    BY <2>1, <2>2 DEF Live
  <2>4. lastProcessed_sequence_snap <= lastProcessed_sequence_inc
    BY <2>3 DEF Follows
  <2>5. CASE SkipEntry
    <3>1. msgSeq <= lastProcessed_sequence_snap
      BY <2>2, <2>5 DEF SkipEntry
    <3> QED  BY <2>3, <2>4, <3>1, Numbers
  <2>6. CASE MissingEntry
    <3>1. msgSeq = lastProcessed_sequence_inc
      BY <2>1, <2>6 DEF MissingEntry
    <3> QED  BY <2>3, <2>4, <3>1, Numbers
  <2> QED  BY <2>5, <2>6
<1>5. ASSUME Live', Late  PROVE Late'
  <2>1. \A n \in lastProcessed_sequence_snap + 1 .. lastProcessed_sequence_inc - 1 : ~InHand(n)
    BY <1>4, <1>5, Numbers DEF InHand
  <2> QED  BY <1>1, <1>2, <1>5, <2>1 DEF Late
<1>6. ASSUME Live', InOrder(B)  PROVE InOrder(B)'
  <2> DEFINE now == lastProcessed_sequence_inc
  <2>1. msgSeq <= now /\ now' = now
    BY <1>1, <1>4, <1>6
  <2>2. Shows(depth, B[now]) /\ \A n \in now + 1 .. seq : Coming(n) \/ InHand(n)
    BY <1>1, <1>6, <2>1 DEF InOrder
  <2>3. msgSeq # now + 1
    BY <2>1, Numbers
  <2>4. Shows(depth, B[now])'
    BY <1>1, <2>2 DEF Shows
  <2> QED  BY <1>1, <1>2, <2>2, <2>3, <2>4 DEF InOrder, InHand
<1>7. ASSUME Live'
      PROVE  ~(lastProcessed_sequence_snap < msgSeq /\ msgSeq < lastProcessed_sequence_inc)
  BY <1>4, <1>7, Numbers
<1> QED  BY <1>1, <1>2, <1>3, <1>4, <1>5, <1>6, <1>7 DEF Follows

\* The number is taken: the next, the last once more, or one too far.
LEMMA EndIncrementBook ==
  ASSUME DepthInv, NEW B \in Histories, History(B), Follows(B), EndIncrement
  PROVE  History(B)' /\ Follows(B)'
<1>1. /\ UNCHANGED <<book, seq, wire, work, depth, lastProcessed_sequence_snap, snapshot_process>>
      /\ pc = "increment" /\ work = <<>> /\ pc' = "idle"
      /\ lastProcessed_sequence_inc' = msgSeq
      /\ top' = IF msgSeq > top THEN msgSeq ELSE top
      /\ exact' = (exact /\ msgSeq > lastProcessed_sequence_snap)
  BY DEF EndIncrement, othersKeep, exchangeVars
<1>2. History(B)'
  BY <1>1, HistoryKept DEF exchangeVars, History
<1>3. \A n : Coming(n)' = Coming(n) /\ ~InHand(n)' /\ (InHand(n) => n = msgSeq)
  BY <1>1 DEF Coming, InHand
<1>4. \A n \in top' + 1 .. seq' : Coming(n)' \/ InHand(n)'
  <2>1. /\ msgSeq \in Nat /\ top \in Nat /\ seq \in Nat /\ seq' = seq
        /\ top' \in Nat /\ msgSeq <= top' /\ top <= top'
    BY <1>1, Numbers, LargerOfTwo
  <2> SUFFICES ASSUME NEW n \in top' + 1 .. seq  PROVE Coming(n)' \/ InHand(n)'
    BY <2>1
  <2>2. n \in top + 1 .. seq /\ ~(n <= top')
    BY <2>1, Beyond
  <2>3. n # msgSeq
    BY <2>1, <2>2
  <2> QED  BY <1>3, <2>2, <2>3 DEF Follows
<1>5. ASSUME Live'
      PROVE  /\ Live /\ lastProcessed_sequence_snap < msgSeq
             /\ lastProcessed_sequence_inc <= msgSeq
             /\ Late \/ InOrder(B)
  <2>1. exact' /\ snapshot_process
    BY <1>1, <1>5 DEF Live
  <2>2. exact /\ lastProcessed_sequence_snap < msgSeq
    <3>1. exact /\ msgSeq > lastProcessed_sequence_snap
      BY <1>1, <2>1, Zenon
    <3> QED  BY <3>1, Numbers
  <2>3. Live
    BY <2>1, <2>2 DEF Live
  <2>4. ~(msgSeq < lastProcessed_sequence_inc) /\ (Late \/ InOrder(B))
    BY <1>1, <2>2, <2>3 DEF Follows
  <2> QED  BY <2>2, <2>3, <2>4, Numbers
<1>6. ASSUME Live', Late  PROVE Late'
  <2>1. PICK n \in lastProcessed_sequence_snap + 1 .. lastProcessed_sequence_inc - 1 : Coming(n)
    BY <1>1, <1>6 DEF Late
  <2>2. n \in lastProcessed_sequence_snap + 1 .. msgSeq - 1
    BY <1>5, <1>6, <2>1, Numbers
  <2> QED  BY <1>1, <1>3, <2>1, <2>2 DEF Late
<1>7. ASSUME Live', InOrder(B)  PROVE Late' \/ InOrder(B)'
  <2> DEFINE now == lastProcessed_sequence_inc
  <2>1. \A n \in now + 1 .. seq : Coming(n) \/ InHand(n)
    BY <1>7 DEF InOrder
  <2>2. ASSUME Shows(depth, B[msgSeq])  PROVE InOrder(B)'
    <3>1. ASSUME NEW n \in msgSeq + 1 .. seq  PROVE Coming(n)'
      <4>1. n \in now + 1 .. seq /\ n # msgSeq
        BY <1>5, <1>7, Numbers
      <4> QED  BY <1>3, <2>1, <4>1
    <3>2. Shows(depth, B[lastProcessed_sequence_inc])'
      BY <1>1, <2>2 DEF Shows
    <3> QED  BY <1>1, <3>1, <3>2 DEF InOrder, InHand
  <2>3. CASE msgSeq = now
    <3>1. msgSeq <= now
      BY <2>3, Numbers
    <3>2. Shows(depth, B[msgSeq])
      BY <1>1, <1>7, <2>3, <3>1 DEF InOrder
    <3> QED  BY <2>2, <3>2
  <2>4. CASE msgSeq = now + 1
    <3>1. ~Spoiled(work) /\ After(depth, work) = depth
      BY <1>1 DEF Spoiled, After
    <3>2. Shows(depth, B[msgSeq])
      BY <1>1, <1>7, <2>4, <3>1 DEF InOrder, InHand
    <3> QED  BY <2>2, <3>2
  <2>5. CASE msgSeq > now + 1
    <3>1. /\ now + 1 \in now + 1 .. seq /\ now + 1 # msgSeq
          /\ now + 1 \in lastProcessed_sequence_snap + 1 .. msgSeq - 1
      <4>1. lastProcessed_sequence_snap <= now
        BY <1>5, <1>7 DEF Follows
      <4> QED  BY <2>5, <4>1, Numbers
    <3>2. Coming(now + 1)
      BY <1>3, <2>1, <3>1
    <3>3. \E n \in lastProcessed_sequence_snap + 1 .. msgSeq - 1 : Coming(n)'
      BY <1>3, <3>1, <3>2
    <3>4. Late'
      BY <1>1, <3>3 DEF Late
    <3> QED  BY <3>4
  <2>6. msgSeq = now \/ msgSeq = now + 1 \/ msgSeq > now + 1
    BY <1>5, <1>7, Numbers
  <2> QED  BY <2>3, <2>4, <2>5, <2>6
<1>8. Live' => (lastProcessed_sequence_snap <= lastProcessed_sequence_inc)'
  BY <1>1, <1>5, Numbers
<1> QED  BY <1>1, <1>2, <1>4, <1>5, <1>6, <1>7, <1>8 DEF Follows

-----------------------------------------------------------------------------
(* The depth is the book of the exchange.                                  *)

LEMMA BookInit == Init => BookInv
<1> SUFFICES ASSUME Init  PROVE BookInv
  OBVIOUS
<1> DEFINE B == [n \in Nat |-> NoLevels]
<1>1. B \in Histories /\ \A n \in Nat : B[n] = NoLevels
  BY DEF Histories, NoLevels
<1> HIDE DEF B
<1>2. EmptyDepth \in [Sides -> Ladders] /\ Shows(EmptyDepth, NoLevels)
  <2>1. \A side \in Sides : LevelsOf(EmptyDepth[side]) = {}
    BY DEF EmptyDepth, LevelsOf
  <2> QED  BY <2>1, EmptyLadder DEF EmptyDepth, NoLevels, Shows
<1>3. book = NoLevels /\ seq = 0 /\ wire = <<>> /\ pc = "idle" /\ top = 0 /\ exact = FALSE
  BY DEF Init
<1>4. History(B)
  <2>1. 1 .. Len(wire) = {}
    BY <1>3
  <2> QED  BY <1>1, <1>2, <1>3, <2>1 DEF History
<1>5. Follows(B)
  BY <1>3 DEF Follows, Live
<1> QED  BY <1>1, <1>4, <1>5 DEF BookInv, Histories

LEMMA BookStep == DepthInv /\ BookInv /\ [Next]_vars => BookInv'
<1> SUFFICES ASSUME DepthInv, BookInv, [Next]_vars  PROVE BookInv'
  OBVIOUS
<1>1. PICK B \in Histories : History(B) /\ Follows(B)
  BY DEF BookInv, Histories
<1>2. \E C \in Histories : History(C)' /\ Follows(C)'
  <2>1. CASE Changes
    BY <1>1, <2>1, ChangesBook
  <2>2. CASE SendSnapshot \/ LosePacket \/ RepeatPacket \/ Overtake \/ DecodeFails
    BY <1>1, <2>2, NetworkBook
  <2>3. CASE Feed
    <3>1. History(B)' /\ Follows(B)'
      BY <1>1, <2>3, TakeSnapshotBook, SnapshotEntryBook, EndSnapshotBook, TakeIncrementBook,
         ApplyEntryBook, IgnoredEntryBook, EndIncrementBook DEF Feed
    <3> QED  BY <3>1
  <2>4. CASE UNCHANGED vars
    <3>1. UNCHANGED <<book, seq, wire, pc, work, levels, msgSeq, depth, top, exact,
                      lastProcessed_sequence_inc, lastProcessed_sequence_snap, snapshot_process>>
      BY <2>4 DEF vars, exchangeVars, feedVars, historyVars
    <3>2. History(B)' /\ \A n : Coming(n)' = Coming(n) /\ InHand(n)' = InHand(n)
      BY <1>1, <3>1, HandKept
    <3>3. UNCHANGED <<exchangeVars, feedVars>> /\ top <= top' /\ top' \in Nat /\ (exact' => exact)
      BY <3>1, Numbers DEF exchangeVars, feedVars
    <3>4. Follows(B)'
      BY <1>1, <3>2, <3>3, NetworkFollows
    <3> QED  BY <3>2, <3>4
  <2> QED  BY <2>1, <2>2, <2>3, <2>4 DEF Next
<1> QED  BY <1>2 DEF BookInv, Histories

LEMMA BookHolds == DepthInv /\ BookInv => DepthIsBook
<1> SUFFICES ASSUME DepthInv, BookInv, pc = "idle", wire = <<>>, snapshot_process, exact
             PROVE  SameBook
  BY DEF DepthIsBook
<1>1. PICK B \in Histories : History(B) /\ Follows(B)
  BY DEF BookInv, Histories
<1>2. Live
  BY DEF Live
<1>3. \A n : ~Coming(n) /\ ~InHand(n)
  BY DEF Coming, InHand
<1>4. InOrder(B)
  BY <1>1, <1>2, <1>3 DEF Follows, Late
<1>5. lastProcessed_sequence_inc = seq
  <2>1. ~(seq \in lastProcessed_sequence_inc + 1 .. seq)
    BY <1>3, <1>4 DEF InOrder
  <2> QED  BY <2>1, Numbers
<1>6. Shows(depth, book)
  BY <1>1, <1>4, <1>5 DEF InOrder, History
<1> QED  BY <1>6 DEF Shows, SameBook

\* Once every packet is handled the depth is the book of the exchange, though
\* increments were repeated or overtook others, unless since the last snapshot
\* an increment it did not have was lost, one that it had came, it came itself
\* after one it did not have, or an overlay or a DeleteFrom was applied.  What
\* Broadcast_Snapshot makes of a late increment, to wait for the next snapshot,
\* is what makes this so.
THEOREM DepthStaysBook == Spec => []DepthIsBook
<1>1. Spec => []BookInv
  BY BookInit, BookStep, DepthInvariant, PTL DEF Spec
<1>2. DepthInv /\ BookInv => DepthIsBook
  BY BookHolds
<1> QED  BY <1>1, <1>2, DepthInvariant, PTL
=============================================================================
