----------------------- MODULE McxTradeRecoveryProofs -----------------------
(***************************************************************************)
(* Proofs about McxTradeRecovery, for any number of trades and sessions,   *)
(* any length of a part, any margin and any contents of the uninitialised  *)
(* numbers: the gateway's state is well typed, it is a TradeFeed, and it   *)
(* has the trades of partition 1 when it tells of a deletion.              *)
(***************************************************************************)
EXTENDS McxTradeRecovery, TLAPS

\* Messages that tell only of trades that were made.
Truthful(m) ==
  {x \in Messages : x.kind \in {"OrderExec", "TradeBroadcast"} =>
                      x.trade \in Trades /\ x.trade[2] <= m[x.trade[1]]}

\* The inductive invariant: nothing on its way tells of a trade not yet made,
\* and what the OMS was told is what tradeRecord holds.
FeedInv ==
  /\ RecoveryTypeOK
  /\ inbox \in Seq(Truthful(made))
  /\ replay.next <= replay.end => replay.p \in Partitions /\ replay.end <= made[replay.p]
  /\ told = [t \in Trades |-> IF t \in tradeRecord THEN 1 ELSE 0]

-----------------------------------------------------------------------------
(* Messages and sequences of them.                                         *)

LEMMA MessageFields ==
  ASSUME NEW m \in Messages
  PROVE  /\ m.kind \in {"OrderExec", "TradeBroadcast"} => m.trade \in Trades
         /\ m.kind = "RetransmitResponse" =>
              m.end \in SeqNumbers /\ m.last \in SeqNumbers /\ m.total \in SeqNumbers
BY DEF Messages, SubscribeResponse, DeleteAll, RetransmitResponse, TradeBroadcast, OrderExec

LEMMA PlainMessages ==
  ASSUME NEW f
  PROVE  /\ DeleteAll \in Truthful(f)
         /\ \A b \in Numbers : SubscribeResponse(b) \in Truthful(f)
         /\ \A e, l, t \in SeqNumbers : RetransmitResponse(e, l, t) \in Truthful(f)
<1>1. DeleteAll \in Messages /\ DeleteAll.kind = "DeleteAllOrderBroadcast"
  BY DEF Messages, DeleteAll
<1>2. ASSUME NEW b \in Numbers  PROVE SubscribeResponse(b) \in Truthful(f)
  <2>1. SubscribeResponse(b) \in Messages
    BY DEF Messages
  <2>2. SubscribeResponse(b).kind = "SubscribeResponse"
    BY DEF SubscribeResponse
  <2> QED  BY <2>1, <2>2 DEF Truthful
<1>3. ASSUME NEW e \in SeqNumbers, NEW l \in SeqNumbers, NEW t \in SeqNumbers
      PROVE  RetransmitResponse(e, l, t) \in Truthful(f)
  <2>1. RetransmitResponse(e, l, t) \in Messages
    BY DEF Messages
  <2>2. RetransmitResponse(e, l, t).kind = "RetransmitResponse"
    BY DEF RetransmitResponse
  <2> QED  BY <2>1, <2>2 DEF Truthful
<1> QED  BY <1>1, <1>2, <1>3 DEF Truthful

LEMMA RequestFields ==
  ASSUME NEW r \in Requests
  PROVE  /\ r.kind = "Subscribe" => r.appl \in Range(RefApplID) /\ r.number \in Numbers
         /\ r.kind = "Retransmit" => r.p \in Partitions /\ r.from \in 1 .. MaxTrades + 1
<1>1. CASE r \in {Subscribe(a, n) : a \in Range(RefApplID), n \in Numbers}
  <2>1. PICK a \in Range(RefApplID), n \in Numbers : r = Subscribe(a, n)
    BY <1>1
  <2>2. r.kind = "Subscribe" /\ r.appl = a /\ r.number = IF n = StartNumber THEN n ELSE 0
    BY <2>1 DEF Subscribe
  <2>3. r.number \in Numbers
    BY <2>2 DEF Numbers, StartNumber
  <2> QED  BY <2>2, <2>3
<1>2. CASE r \in {Retransmit(p, n) : p \in Partitions, n \in 1 .. MaxTrades + 1}
  <2>1. PICK p \in Partitions, n \in 1 .. MaxTrades + 1 : r = Retransmit(p, n)
    BY <1>2
  <2>2. r.kind = "Retransmit" /\ r.p = p /\ r.from = n
    BY <2>1 DEF Retransmit
  <2> QED  BY <2>2
<1> QED  BY <1>1, <1>2 DEF Requests

LEMMA ThreeSubscriptions ==
  /\ Done = 3
  /\ \A i \in 1 .. 3 : RefApplID[i] \in Range(RefApplID)
<1>1. Done = 3 /\ DOMAIN RefApplID = 1 .. 3
  BY DEF Done, RefApplID
<1> QED  BY <1>1 DEF Range

LEMMA NumbersGo ==
  ASSUME NEW n \in Numbers
  PROVE  Following(n) \in Numbers
BY DEF Numbers, Following, StartNumber

LEMMA TradeMessages ==
  ASSUME NEW f, NEW t \in Trades, t[2] <= f[t[1]]
  PROVE  TradeBroadcast(t) \in Truthful(f) /\ OrderExec(t) \in Truthful(f)
BY DEF Truthful, Messages, TradeBroadcast, OrderExec

LEMMA SeqMonotone ==
  ASSUME NEW S, NEW T, S \subseteq T, NEW s \in Seq(S)
  PROVE  s \in Seq(T)
OBVIOUS

\* Messages stay truthful when more trades are made.
LEMMA TruthfulGrows ==
  ASSUME NEW f \in [Partitions -> SeqNumbers], NEW g \in [Partitions -> SeqNumbers],
         \A p \in Partitions : f[p] <= g[p]
  PROVE  Truthful(f) \subseteq Truthful(g)
<1> SUFFICES ASSUME NEW x \in Truthful(f),
                    x.kind \in {"OrderExec", "TradeBroadcast"}
             PROVE  x.trade \in Trades /\ x.trade[2] <= g[x.trade[1]]
  BY DEF Truthful
<1>1. x.trade \in Trades /\ x.trade[2] <= f[x.trade[1]]
  BY DEF Truthful
<1>2. x.trade[1] \in Partitions /\ x.trade[2] \in Int
  BY <1>1 DEF Trades
<1>3. f[x.trade[1]] \in Int /\ g[x.trade[1]] \in Int /\ f[x.trade[1]] <= g[x.trade[1]]
  BY <1>2, RecoveryAssumption DEF SeqNumbers
<1> QED  BY <1>1, <1>2, <1>3

LEMMA HeadTail ==
  ASSUME NEW S, NEW s \in Seq(S), s # <<>>
  PROVE  Head(s) \in S /\ Tail(s) \in Seq(S)
OBVIOUS

\* A request for trades is well formed.
LEMMA RequestSent ==
  ASSUME requests \in Seq(Requests), NEW n \in 0 .. MaxTrades + 1, NEW p \in Partitions
  PROVE  sendRetransmissionTrade(n, p) \in Seq(Requests)
<1>1. Retransmit(p, IF n = 0 THEN 1 ELSE n) \in Requests
  BY RecoveryAssumption DEF Requests
<1> QED  BY <1>1 DEF sendRetransmissionTrade

-----------------------------------------------------------------------------
(* The first state, and the steps of the exchange.                         *)

LEMMA InitFeed == Init => FeedInv /\ Feed!Init
<1> SUFFICES ASSUME Init  PROVE  FeedInv /\ Feed!Init
  OBVIOUS
<1>1. RecoveryTypeOK
  <2>1. /\ made \in [Partitions -> SeqNumbers] /\ partitionID \in Partitions
        /\ {endSeqNumber, lastSeqNumber, ApllSeq} \subseteq SeqNumbers
        /\ saved \subseteq SeqNumbers /\ sessions \in 0 .. MaxSessions
        /\ tradeRecord \subseteq Trades /\ told \in [Trades -> Nat]
    BY RecoveryAssumption DEF Init, Partitions, SeqNumbers
  <2>2. replay \in [p : 0 .. 2, next : 1 .. MaxTrades + 1, end : SeqNumbers]
    BY RecoveryAssumption DEF Init, Idle, SeqNumbers
  <2>3. {isLoggedOn, isSendDeleteBroadCastMsg, quiet, orderly, cancelled} \subseteq BOOLEAN
    BY DEF Init
  <2>4. requests \in Seq(Requests) /\ inbox \in Seq(Messages)
    BY DEF Init
  <2>5. /\ subscribed \subseteq Range(RefApplID) /\ sent \in 0 .. Done
        /\ seqNu \in Numbers /\ order \in {NoOrder} \cup Numbers
    BY ThreeSubscriptions DEF Init, Numbers, StartNumber
  <2>6. begun \in [kind : {"Retransmit"}, p : 0 .. 2, from : SeqNumbers]
    BY RecoveryAssumption DEF Init, NotBegun, Retransmit, SeqNumbers
  <2> QED  BY <2>1, <2>2, <2>3, <2>4, <2>5, <2>6 DEF RecoveryTypeOK
<1>2. Feed!Init
  BY DEF Init, Feed!Init, Partitions, Trades, Feed!Partitions, Feed!Trades
<1> QED  BY <1>1, <1>2 DEF Init, FeedInv, Idle

LEMMA MakeTradeStep ==
  ASSUME FeedInv, NEW p \in Partitions, MakeTrade(p)
  PROVE  FeedInv' /\ Feed!Next
<1> DEFINE t == <<p, made[p] + 1>>
<1>1. /\ made \in [Partitions -> SeqNumbers] /\ made' \in [Partitions -> SeqNumbers]
      /\ \A q \in Partitions : made[q] <= made'[q]
      /\ t \in Trades /\ t[2] <= made'[t[1]]
  <2>1. made \in [Partitions -> SeqNumbers] /\ made[p] < MaxTrades
        /\ made' = [made EXCEPT ![p] = @ + 1]
    BY DEF FeedInv, RecoveryTypeOK, MakeTrade
  <2>2. made[p] + 1 \in SeqNumbers /\ made[p] + 1 \in 1 .. MaxTrades
    BY <2>1, RecoveryAssumption DEF SeqNumbers
  <2>3. made' \in [Partitions -> SeqNumbers]
    BY <2>1, <2>2
  <2>4. ASSUME NEW q \in Partitions  PROVE  made[q] <= made'[q]
    BY <2>1, RecoveryAssumption DEF SeqNumbers
  <2>5. t \in Trades /\ t[2] <= made'[t[1]]
    BY <2>1, <2>2 DEF Trades
  <2> QED  BY <2>1, <2>3, <2>4, <2>5
<1>2. Truthful(made) \subseteq Truthful(made')
  BY <1>1, TruthfulGrows
<1>3. inbox \in Seq(Truthful(made'))
  BY <1>2, SeqMonotone DEF FeedInv
<1>4. TradeBroadcast(t) \in Truthful(made') /\ OrderExec(t) \in Truthful(made')
  BY <1>1, TradeMessages
<1>5. inbox' \in Seq(Truthful(made')) /\ quiet' \in BOOLEAN
  <2>1. CASE 1 \in subscribed
    <3>1. inbox' \in {inbox \o <<OrderExec(t), TradeBroadcast(t)>>,
                      inbox \o <<TradeBroadcast(t), OrderExec(t)>>} /\ quiet' = FALSE
      BY <2>1 DEF MakeTrade
    <3>2. /\ <<OrderExec(t), TradeBroadcast(t)>> \in Seq(Truthful(made'))
          /\ <<TradeBroadcast(t), OrderExec(t)>> \in Seq(Truthful(made'))
      BY <1>4
    <3> HIDE DEF t
    <3>3. inbox' \in Seq(Truthful(made'))
      <4>1. ASSUME NEW S, NEW u \in Seq(S), NEW v \in Seq(S)  PROVE  u \o v \in Seq(S)
        OBVIOUS
      <4> QED  BY <1>3, <3>1, <3>2, <4>1, Zenon
    <3> QED  BY <3>1, <3>3
  <2>2. CASE 1 \notin subscribed
    BY <1>3, <2>2 DEF MakeTrade, FeedInv, RecoveryTypeOK
  <2> QED  BY <2>1, <2>2
<1>6. inbox' \in Seq(Messages)
  BY <1>5, SeqMonotone DEF Truthful
<1>7. UNCHANGED <<subscribed, requests, replay, gatewayKeeps>>
  BY DEF MakeTrade
<1>8. RecoveryTypeOK'
  BY <1>1, <1>5, <1>6, <1>7
     DEF FeedInv, RecoveryTypeOK, gatewayKeeps, logonVars, recoveryVars, fileVars
<1>9. replay'.next <= replay'.end => replay'.p \in Partitions /\ replay'.end <= made'[replay'.p]
  <2> SUFFICES ASSUME replay.next <= replay.end
               PROVE  replay.p \in Partitions /\ replay.end <= made'[replay.p]
    BY <1>7
  <2>1. replay.p \in Partitions /\ replay.end <= made[replay.p] /\ replay.end \in Int
    BY RecoveryAssumption DEF FeedInv, RecoveryTypeOK, SeqNumbers
  <2>2. made[replay.p] \in Int /\ made'[replay.p] \in Int /\ made[replay.p] <= made'[replay.p]
    BY <1>1, <2>1 DEF SeqNumbers
  <2> QED  BY <2>1, <2>2
<1>10. Feed!Next
  <2>1. Feed!Make(p)
    BY <1>7 DEF MakeTrade, Feed!Make, gatewayKeeps
  <2> QED  BY <2>1 DEF Feed!Next, Partitions, Feed!Partitions
<1> QED  BY <1>5, <1>7, <1>8, <1>9, <1>10 DEF FeedInv, gatewayKeeps

\* Steps that make and tell of nothing.
LEMMA QuietStep ==
  ASSUME FeedInv, RecoveryTypeOK', inbox' \in Seq(Truthful(made)),
         UNCHANGED <<made, tradeRecord, told>>,
         replay'.next <= replay'.end =>
           replay'.p \in Partitions /\ replay'.end <= made[replay'.p]
  PROVE  FeedInv' /\ UNCHANGED Feed!vars
BY DEF FeedInv, Feed!vars

\* Appending to the inbox.
LEMMA Arrives ==
  ASSUME FeedInv, NEW m \in Truthful(made), inbox' = Append(inbox, m)
  PROVE  inbox' \in Seq(Truthful(made)) /\ inbox' \in Seq(Messages)
<1>1. inbox' \in Seq(Truthful(made))
  BY DEF FeedInv
<1> QED  BY <1>1, SeqMonotone DEF Truthful

LEMMA MassDeleteStep ==
  ASSUME FeedInv, MassDelete
  PROVE  FeedInv' /\ UNCHANGED Feed!vars
<1>1. inbox' \in Seq(Truthful(made)) /\ inbox' \in Seq(Messages)
  BY PlainMessages, Arrives DEF MassDelete
<1>2. UNCHANGED <<made, subscribed, requests, replay, quiet, gatewayKeeps>>
  BY DEF MassDelete
<1>3. RecoveryTypeOK'
  BY <1>1, <1>2 DEF FeedInv, RecoveryTypeOK, gatewayKeeps, logonVars, recoveryVars, fileVars
<1> QED  BY <1>1, <1>2, <1>3, QuietStep DEF FeedInv, gatewayKeeps

LEMMA AcceptSubscriptionStep ==
  ASSUME FeedInv, AcceptSubscription
  PROVE  FeedInv' /\ UNCHANGED Feed!vars
<1> DEFINE r == Head(requests)
<1>1. requests' \in Seq(Requests) /\ r \in Requests /\ r.kind = "Subscribe"
  BY HeadTail DEF AcceptSubscription, FeedInv, RecoveryTypeOK
<1>2. r.appl \in Range(RefApplID) /\ r.number \in Numbers
  BY <1>1, RequestFields
<1>3. inbox' \in Seq(Truthful(made)) /\ inbox' \in Seq(Messages)
  <2>1. inbox' = Append(inbox, SubscribeResponse(r.number))
    BY DEF AcceptSubscription
  <2>2. SubscribeResponse(r.number) \in Truthful(made)
    BY <1>2, PlainMessages
  <2> QED  BY <2>1, <2>2, Arrives
<1>4. UNCHANGED <<made, replay, quiet, gatewayKeeps>> /\ subscribed' = subscribed \cup {r.appl}
  BY DEF AcceptSubscription
<1> HIDE DEF r
<1>5. RecoveryTypeOK'
  BY <1>1, <1>2, <1>3, <1>4
     DEF FeedInv, RecoveryTypeOK, gatewayKeeps, logonVars, recoveryVars, fileVars
<1> QED  BY <1>3, <1>4, <1>5, QuietStep DEF FeedInv, gatewayKeeps

LEMMA AnswerRequestStep ==
  ASSUME FeedInv, AnswerRequest
  PROVE  FeedInv' /\ UNCHANGED Feed!vars
<1> DEFINE r    == Head(requests)
           last == made[r.p]
           stop == IF r.from + Part - 1 < last THEN r.from + Part - 1 ELSE last
<1>1. requests' \in Seq(Requests) /\ r \in Requests /\ r.kind = "Retransmit"
  BY HeadTail DEF AnswerRequest, FeedInv, RecoveryTypeOK
<1>2. r.p \in Partitions /\ r.from \in 1 .. MaxTrades + 1 /\ last \in SeqNumbers
  BY <1>1, RequestFields DEF FeedInv, RecoveryTypeOK
<1>3. UNCHANGED <<made, subscribed, quiet, gatewayKeeps>>
  BY DEF AnswerRequest
<1>4. /\ inbox' \in Seq(Truthful(made)) /\ inbox' \in Seq(Messages)
      /\ replay' \in [p : 0 .. 2, next : 1 .. MaxTrades + 1, end : SeqNumbers]
      /\ replay'.next <= replay'.end => replay'.p \in Partitions /\ replay'.end <= made[replay'.p]
  <2>1. CASE r.from <= last
    <3>1. stop \in SeqNumbers /\ stop - r.from + 1 \in SeqNumbers /\ stop <= last
      BY <1>2, <2>1, RecoveryAssumption DEF SeqNumbers
    <3>2. RetransmitResponse(stop, last, stop - r.from + 1) \in Truthful(made)
      BY <1>2, <3>1, PlainMessages
    <3>3. /\ inbox' = Append(inbox, RetransmitResponse(stop, last, stop - r.from + 1))
          /\ replay' = [p |-> r.p, next |-> r.from, end |-> stop]
      BY <2>1 DEF AnswerRequest
    <3>4. inbox' \in Seq(Truthful(made)) /\ inbox' \in Seq(Messages)
      BY <3>2, <3>3, Arrives
    <3>5. r.p \in 0 .. 2
      BY <1>2 DEF Partitions
    <3> HIDE DEF r, last, stop
    <3>6. replay' \in [p : 0 .. 2, next : 1 .. MaxTrades + 1, end : SeqNumbers]
      BY <1>2, <3>1, <3>3, <3>5
    <3> QED  BY <1>2, <3>1, <3>3, <3>4, <3>6 DEF last
  <2>2. CASE ~(r.from <= last)
    <3>1. RetransmitResponse(last, last, 0) \in Truthful(made)
      BY <1>2, PlainMessages, RecoveryAssumption DEF SeqNumbers
    <3>2. inbox' = Append(inbox, RetransmitResponse(last, last, 0)) /\ replay' = Idle
      BY <2>2 DEF AnswerRequest
    <3>3. inbox' \in Seq(Truthful(made)) /\ inbox' \in Seq(Messages)
      BY <3>1, <3>2, Arrives
    <3> QED  BY <3>2, <3>3, RecoveryAssumption DEF Idle, SeqNumbers
  <2> QED  BY <2>1, <2>2
<1>5. RecoveryTypeOK'
  BY <1>1, <1>3, <1>4 DEF FeedInv, RecoveryTypeOK, gatewayKeeps, logonVars, recoveryVars, fileVars
<1> QED  BY <1>3, <1>4, <1>5, QuietStep DEF gatewayKeeps

LEMMA ReplayTradeStep ==
  ASSUME FeedInv, ReplayTrade
  PROVE  FeedInv' /\ UNCHANGED Feed!vars
<1> DEFINE t == <<replay.p, replay.next>>
<1>1. replay.p \in Partitions /\ replay.next \in 1 .. replay.end
      /\ replay.end \in SeqNumbers /\ replay.end <= made[replay.p]
  BY RecoveryAssumption DEF ReplayTrade, FeedInv, RecoveryTypeOK, SeqNumbers
<1>2. t \in Trades /\ t[2] <= made[t[1]]
  BY <1>1, RecoveryAssumption DEF Trades, SeqNumbers, FeedInv, RecoveryTypeOK
<1>3. TradeBroadcast(t) \in Truthful(made)
  BY <1>2, TradeMessages
<1>4. inbox' \in Seq(Truthful(made)) /\ inbox' \in Seq(Messages)
  BY <1>3, Arrives DEF ReplayTrade
<1>5. /\ replay' = [replay EXCEPT !.next = @ + 1]
      /\ replay \in [p : 0 .. 2, next : 1 .. MaxTrades + 1, end : SeqNumbers]
  BY DEF ReplayTrade, FeedInv, RecoveryTypeOK
<1>6. /\ replay' \in [p : 0 .. 2, next : 1 .. MaxTrades + 1, end : SeqNumbers]
      /\ replay'.p = replay.p /\ replay'.end = replay.end
  BY <1>1, <1>5, RecoveryAssumption DEF SeqNumbers
<1>7. UNCHANGED <<made, subscribed, requests, quiet, gatewayKeeps>>
  BY DEF ReplayTrade
<1>8. RecoveryTypeOK'
  BY <1>4, <1>6, <1>7 DEF FeedInv, RecoveryTypeOK, gatewayKeeps, logonVars, recoveryVars, fileVars
<1> QED  BY <1>1, <1>4, <1>6, <1>7, <1>8, QuietStep DEF gatewayKeeps

-----------------------------------------------------------------------------
(* The steps of the gateway.                                               *)

\* A handler takes a truthful message out of the inbox.
LEMMA Received ==
  ASSUME FeedInv, NEW kind, Receive(kind)
  PROVE  /\ Head(inbox) \in Truthful(made) /\ Head(inbox) \in Messages
         /\ Head(inbox).kind = kind
         /\ inbox' \in Seq(Truthful(made)) /\ inbox' \in Seq(Messages)
<1>1. Head(inbox) \in Truthful(made) /\ inbox' \in Seq(Truthful(made)) /\ Head(inbox).kind = kind
  BY HeadTail DEF Receive, FeedInv
<1> QED  BY <1>1, SeqMonotone DEF Truthful

\* Telling of a trade that was made keeps the record and is a step of the feed.
LEMMA ForwardStep ==
  ASSUME FeedInv, NEW t \in Trades, t[2] <= made[t[1]], Forward(t), UNCHANGED made
  PROVE  /\ tradeRecord' \subseteq Trades /\ told' \in [Trades -> Nat]
         /\ told' = [u \in Trades |-> IF u \in tradeRecord' THEN 1 ELSE 0]
         /\ [Feed!Next]_(Feed!vars)
<1>1. /\ told = [u \in Trades |-> IF u \in tradeRecord THEN 1 ELSE 0]
      /\ tradeRecord \subseteq Trades
  BY DEF FeedInv, RecoveryTypeOK
<1>2. CASE t \in tradeRecord
  <2>1. tradeRecord' = tradeRecord /\ told' = told
    BY <1>2 DEF Forward
  <2> QED  BY <1>1, <2>1 DEF Feed!vars
<1>3. CASE t \notin tradeRecord
  <2>1. told[t] = 0
    BY <1>1, <1>3
  <2>2. tradeRecord' = tradeRecord \cup {t} /\ told' = [told EXCEPT ![t] = 1]
    BY <1>3, <2>1 DEF Forward
  <2>3. told' = [u \in Trades |-> IF u \in tradeRecord' THEN 1 ELSE 0]
    BY <1>1, <2>2
  <2>4. Feed!Tell(t)
    BY <2>1, <2>2 DEF Feed!Tell
  <2>5. Feed!Next
    BY <2>4 DEF Feed!Next, Trades, Feed!Trades, Partitions, Feed!Partitions
  <2> QED  BY <1>1, <2>2, <2>3, <2>5
<1> QED  BY <1>2, <1>3

LEMMA ReceiveOrderExecStep ==
  ASSUME FeedInv, ReceiveOrderExec
  PROVE  FeedInv' /\ [Feed!Next]_(Feed!vars)
<1> DEFINE m == Head(inbox)
<1>1. /\ m \in Truthful(made) /\ m.kind = "OrderExec"
      /\ inbox' \in Seq(Truthful(made)) /\ inbox' \in Seq(Messages)
  BY Received DEF ReceiveOrderExec
<1>2. m.trade \in Trades /\ m.trade[2] <= made[m.trade[1]]
  BY <1>1 DEF Truthful
<1>3. UNCHANGED <<exchangeKeeps, requests, logonVars, recoveryVars, fileVars, sessions, begun,
                  quiet, cancelled>> /\ Forward(m.trade)
  BY DEF ReceiveOrderExec
<1>4. /\ tradeRecord' \subseteq Trades /\ told' \in [Trades -> Nat]
      /\ told' = [u \in Trades |-> IF u \in tradeRecord' THEN 1 ELSE 0]
      /\ [Feed!Next]_(Feed!vars)
  BY <1>2, <1>3, ForwardStep DEF exchangeKeeps
<1>5. RecoveryTypeOK'
  BY <1>1, <1>3, <1>4
     DEF FeedInv, RecoveryTypeOK, exchangeKeeps, logonVars, recoveryVars, fileVars
<1> QED  BY <1>1, <1>3, <1>4, <1>5 DEF FeedInv, exchangeKeeps

LEMMA NextRequestTypes ==
  ASSUME FeedInv, NEW p \in Partitions, NEW n \in 1 .. MaxTrades, NextRequest(p, n)
  PROVE  requests' \in Seq(Requests) /\ partitionID' \in Partitions
<1>1. /\ n + 1 \in 0 .. MaxTrades + 1 /\ 1 \in 0 .. MaxTrades + 1
      /\ requests \in Seq(Requests) /\ partitionID \in Partitions
      /\ partitionID < 2 => partitionID + 1 \in Partitions
  BY RecoveryAssumption DEF FeedInv, RecoveryTypeOK, Partitions
<1>2. sendRetransmissionTrade(n + 1, p) \in Seq(Requests)
  BY <1>1, RequestSent
<1>3. partitionID < 2 => sendRetransmissionTrade(1, partitionID + 1) \in Seq(Requests)
  BY <1>1, RequestSent
<1> QED  BY <1>1, <1>2, <1>3 DEF NextRequest

LEMMA ReceiveTradeBroadcastStep ==
  ASSUME FeedInv, ReceiveTradeBroadcast
  PROVE  FeedInv' /\ [Feed!Next]_(Feed!vars)
<1> DEFINE m == Head(inbox)
           t == m.trade
<1>1. /\ m \in Truthful(made) /\ m.kind = "TradeBroadcast"
      /\ inbox' \in Seq(Truthful(made)) /\ inbox' \in Seq(Messages)
  BY Received DEF ReceiveTradeBroadcast
<1>2. t \in Trades /\ t[2] <= made[t[1]] /\ t[1] \in Partitions /\ t[2] \in 1 .. MaxTrades
  BY <1>1 DEF Truthful, Trades
<1>3. /\ UNCHANGED <<exchangeKeeps, logonVars, endSeqNumber, lastSeqNumber,
                     isSendDeleteBroadCastMsg, ApllSeq, sessions, begun, quiet, cancelled>>
      /\ Forward(t) /\ saved' = saved \cup {0, t[2]} /\ NextRequest(t[1], t[2])
  BY DEF ReceiveTradeBroadcast
<1>4. /\ tradeRecord' \subseteq Trades /\ told' \in [Trades -> Nat]
      /\ told' = [u \in Trades |-> IF u \in tradeRecord' THEN 1 ELSE 0]
      /\ [Feed!Next]_(Feed!vars)
  BY <1>2, <1>3, ForwardStep DEF exchangeKeeps
<1>5. requests' \in Seq(Requests) /\ partitionID' \in Partitions
  BY <1>2, <1>3, NextRequestTypes
<1>6. saved' \subseteq SeqNumbers
  <2>1. saved \subseteq SeqNumbers
    BY DEF FeedInv, RecoveryTypeOK
  <2>2. 0 \in SeqNumbers /\ t[2] \in SeqNumbers
    BY <1>2, RecoveryAssumption DEF SeqNumbers
  <2> QED  BY <1>3, <2>1, <2>2
<1> HIDE DEF m, t
<1>7. RecoveryTypeOK'
  BY <1>1, <1>3, <1>4, <1>5, <1>6
     DEF FeedInv, RecoveryTypeOK, exchangeKeeps, logonVars
<1> QED  BY <1>1, <1>3, <1>4, <1>7 DEF FeedInv, exchangeKeeps

LEMMA ReceiveRetransmitResponseStep ==
  ASSUME FeedInv, ReceiveRetransmitResponse
  PROVE  FeedInv' /\ UNCHANGED Feed!vars
<1> DEFINE m == Head(inbox)
<1>1. /\ m \in Messages /\ m.kind = "RetransmitResponse"
      /\ inbox' \in Seq(Truthful(made)) /\ inbox' \in Seq(Messages)
  BY Received DEF ReceiveRetransmitResponse
<1>2. m.end \in SeqNumbers /\ m.last \in SeqNumbers
  BY <1>1, MessageFields
<1>3. /\ endSeqNumber' = m.end /\ lastSeqNumber' = m.last
      /\ UNCHANGED <<exchangeKeeps, logonVars, tradeRecord, fileVars, sessions, told, begun, quiet>>
  BY DEF ReceiveRetransmitResponse
<1>4. /\ 1 \in 0 .. MaxTrades + 1
      /\ requests \in Seq(Requests) /\ partitionID \in Partitions
      /\ partitionID < 2 => partitionID + 1 \in Partitions
  BY RecoveryAssumption DEF FeedInv, RecoveryTypeOK, Partitions
<1>5. partitionID < 2 => sendRetransmissionTrade(1, partitionID + 1) \in Seq(Requests)
  BY <1>4, RequestSent
<1>6. /\ requests' \in Seq(Requests) /\ partitionID' \in Partitions
      /\ isSendDeleteBroadCastMsg' \in BOOLEAN /\ cancelled' \in BOOLEAN
  BY <1>4, <1>5 DEF ReceiveRetransmitResponse, FeedInv, RecoveryTypeOK
<1> HIDE DEF m
<1>7. RecoveryTypeOK'
  BY <1>1, <1>2, <1>3, <1>6 DEF FeedInv, RecoveryTypeOK, exchangeKeeps, logonVars, fileVars
<1> QED  BY <1>1, <1>3, <1>7, QuietStep DEF FeedInv, exchangeKeeps

LEMMA ReceiveSubscribeResponseStep ==
  ASSUME FeedInv, ReceiveSubscribeResponse
  PROVE  FeedInv' /\ UNCHANGED Feed!vars
<1>1. inbox' \in Seq(Truthful(made)) /\ inbox' \in Seq(Messages)
  BY Received DEF ReceiveSubscribeResponse
<1>2. /\ ApllSeq \in SeqNumbers /\ requests \in Seq(Requests) /\ partitionID \in Partitions
      /\ begun \in [kind : {"Retransmit"}, p : 0 .. 2, from : SeqNumbers]
  BY DEF FeedInv, RecoveryTypeOK
<1>3. UNCHANGED <<exchangeKeeps, logonVars, recoveryVars, tradeRecord, saved, sessions, told,
                  quiet, cancelled>>
  BY DEF ReceiveSubscribeResponse
<1>4. /\ ApllSeq' \in SeqNumbers /\ requests' \in Seq(Requests)
      /\ begun' \in [kind : {"Retransmit"}, p : 0 .. 2, from : SeqNumbers]
  <2>1. CASE StartRecovery
    <3>1. ApllSeq' \in SeqNumbers /\ ApllSeq' \in 0 .. MaxTrades + 1
      BY <1>2, <2>1, RecoveryAssumption DEF StartRecovery, SeqNumbers
    <3>2. requests' \in Seq(Requests)
      BY <1>2, <2>1, <3>1, RequestSent DEF StartRecovery
    <3>3. begun' = Retransmit(partitionID, ApllSeq')
      BY <2>1 DEF StartRecovery
    <3>4. partitionID \in 0 .. 2
      BY <1>2 DEF Partitions
    <3> QED  BY <3>1, <3>2, <3>3, <3>4 DEF Retransmit
  <2>2. CASE UNCHANGED <<ApllSeq, requests, begun>>
    BY <1>2, <2>2
  <2> QED  BY <2>1, <2>2 DEF ReceiveSubscribeResponse
<1>5. RecoveryTypeOK'
  BY <1>1, <1>3, <1>4 DEF FeedInv, RecoveryTypeOK, exchangeKeeps, logonVars, recoveryVars
<1> QED  BY <1>1, <1>3, <1>5, QuietStep DEF FeedInv, exchangeKeeps

LEMMA ReceiveDeleteAllStep ==
  ASSUME FeedInv, ReceiveDeleteAll
  PROVE  FeedInv' /\ UNCHANGED Feed!vars
<1>1. inbox' \in Seq(Truthful(made)) /\ inbox' \in Seq(Messages)
  BY Received DEF ReceiveDeleteAll
<1>2. /\ UNCHANGED <<exchangeKeeps, requests, logonVars, recoveryVars, tradeRecord, fileVars,
                     sessions, told, begun, quiet>>
      /\ cancelled' \in BOOLEAN
  BY DEF ReceiveDeleteAll, FeedInv, RecoveryTypeOK
<1>3. RecoveryTypeOK'
  BY <1>1, <1>2 DEF FeedInv, RecoveryTypeOK, exchangeKeeps, logonVars, recoveryVars, fileVars
<1> QED  BY <1>1, <1>2, <1>3, QuietStep DEF FeedInv, exchangeKeeps

LEMMA UserLoginResponseStep ==
  ASSUME FeedInv, UserLoginResponse
  PROVE  FeedInv' /\ UNCHANGED Feed!vars
<1>1. /\ UNCHANGED <<exchangeVars, order, endSeqNumber, lastSeqNumber, tradeRecord, fileVars,
                     told, begun, quiet, cancelled>>
      /\ partitionID' = 1 /\ sessions' = sessions + 1 /\ sessions < MaxSessions
      /\ sent' = 0 /\ seqNu' = UserLoginNumber
      /\ {isLoggedOn', isSendDeleteBroadCastMsg', orderly'} \subseteq BOOLEAN
  BY DEF UserLoginResponse
<1>2. /\ partitionID' \in Partitions /\ sessions' \in 0 .. MaxSessions
      /\ sent' \in 0 .. Done /\ seqNu' \in Numbers
  BY <1>1, RecoveryAssumption, ThreeSubscriptions
  DEF Partitions, Numbers, StartNumber, UserLoginNumber, FeedInv, RecoveryTypeOK
<1>3. RecoveryTypeOK'
  BY <1>1, <1>2 DEF FeedInv, RecoveryTypeOK, exchangeVars, fileVars
<1> QED  BY <1>1, <1>3, QuietStep DEF FeedInv, exchangeVars

\* What the steps between the answer to the user login and the third
\* subscription leave alone.
LEMMA SubscribingKeeps ==
  ASSUME FeedInv, UNCHANGED subscribingKeeps, requests' \in Seq(Requests),
         sent' \in 0 .. Done, seqNu' \in Numbers, order' \in {NoOrder} \cup Numbers,
         orderly' \in BOOLEAN
  PROVE  FeedInv' /\ UNCHANGED Feed!vars
<1>1. RecoveryTypeOK'
  BY DEF FeedInv, RecoveryTypeOK, subscribingKeeps, recoveryVars, fileVars, historyVars
<1> QED  BY <1>1, QuietStep DEF FeedInv, subscribingKeeps, historyVars

LEMMA SendSubscriptionStep ==
  ASSUME FeedInv, SendSubscription
  PROVE  FeedInv' /\ UNCHANGED Feed!vars
<1>1. /\ requests \in Seq(Requests) /\ sent \in 0 .. 3 /\ seqNu \in Numbers
      /\ order \in {NoOrder} \cup Numbers /\ orderly \in BOOLEAN
  BY ThreeSubscriptions DEF FeedInv, RecoveryTypeOK
<1>2. sent < 3 /\ sent' = sent + 1 /\ UNCHANGED orderly /\ UNCHANGED subscribingKeeps
  BY ThreeSubscriptions DEF SendSubscription, subscribing
<1>3. Subscribe(RefApplID[sent'], Following(seqNu)) \in Requests
  <2>1. RefApplID[sent'] \in Range(RefApplID)
    BY <1>1, <1>2, ThreeSubscriptions
  <2> QED  BY <1>1, <2>1, NumbersGo DEF Requests
<1>4. requests' \in Seq(Requests)
  BY <1>1, <1>3 DEF SendSubscription
<1>5. seqNu' \in Numbers /\ order' \in {NoOrder} \cup Numbers
  <2>1. 0 \in Numbers
    BY DEF Numbers, StartNumber
  <2> QED  BY <1>1, <2>1, NumbersGo DEF SendSubscription
<1>6. sent' \in 0 .. Done
  BY <1>1, <1>2, ThreeSubscriptions
<1> QED  BY <1>1, <1>2, <1>4, <1>5, <1>6, SubscribingKeeps

LEMMA OrderStep ==
  ASSUME FeedInv, Order
  PROVE  FeedInv' /\ UNCHANGED Feed!vars
<1>1. /\ requests \in Seq(Requests) /\ sent \in 0 .. Done /\ seqNu \in Numbers
      /\ order \in {NoOrder} \cup Numbers /\ orderly \in BOOLEAN
  BY DEF FeedInv, RecoveryTypeOK
<1>2. CASE ReadNumber
  <2>1. order' = Following(seqNu) /\ UNCHANGED <<sent, seqNu, requests, orderly>>
        /\ UNCHANGED subscribingKeeps
    BY <1>2 DEF ReadNumber
  <2>2. Following(seqNu) \in Numbers
    BY <1>1, NumbersGo
  <2> QED  BY <1>1, <2>1, <2>2, SubscribingKeeps
<1>3. CASE WriteNumber
  <2>1. /\ order \in Numbers /\ seqNu' = order /\ order' = NoOrder /\ orderly' = FALSE
        /\ UNCHANGED <<sent, requests>> /\ UNCHANGED subscribingKeeps
    BY <1>1, <1>3 DEF WriteNumber
  <2> QED  BY <1>1, <2>1, SubscribingKeeps
<1> QED  BY <1>2, <1>3 DEF Order

\* The types of what a lost connection resets.
LEMMA ConnectionLost ==
  ASSUME FeedInv, LoseConnection
  PROVE  /\ requests' \in Seq(Requests) /\ inbox' = <<>> /\ replay' = Idle
         /\ {isLoggedOn', orderly', quiet', cancelled'} \subseteq BOOLEAN
         /\ subscribed' \subseteq Range(RefApplID)
         /\ sent' \in 0 .. Done /\ seqNu' \in Numbers /\ order' \in {NoOrder} \cup Numbers
         /\ begun' \in [kind : {"Retransmit"}, p : 0 .. 2, from : SeqNumbers]
         /\ replay' \in [p : 0 .. 2, next : 1 .. MaxTrades + 1, end : SeqNumbers]
         /\ replay'.next > replay'.end
         /\ UNCHANGED <<made, sessions>>
<1>1. /\ requests' = <<>> /\ inbox' = <<>> /\ replay' = Idle
      /\ subscribed' = {} /\ quiet' = TRUE /\ cancelled' = FALSE /\ begun' = NotBegun
      /\ isLoggedOn' = FALSE /\ orderly' = TRUE /\ sent' = 0 /\ seqNu' = 0 /\ order' = NoOrder
      /\ UNCHANGED <<made, sessions>>
  BY DEF LoseConnection
<1>2. 0 \in SeqNumbers /\ 1 \in 1 .. MaxTrades + 1 /\ 0 \in 0 .. 2
  BY RecoveryAssumption DEF SeqNumbers
<1>3. Idle \in [p : 0 .. 2, next : 1 .. MaxTrades + 1, end : SeqNumbers] /\ Idle.next > Idle.end
  BY <1>2 DEF Idle
<1>4. NotBegun \in [kind : {"Retransmit"}, p : 0 .. 2, from : SeqNumbers]
  BY <1>2 DEF NotBegun, Retransmit
<1>5. requests' \in Seq(Requests)
  BY <1>1
<1>6. replay'.next > replay'.end
  BY <1>1, <1>3
<1>7. 0 \in 0 .. Done /\ 0 \in Numbers
  BY ThreeSubscriptions DEF Numbers, StartNumber
<1> QED  BY <1>1, <1>3, <1>4, <1>5, <1>6, <1>7

LEMMA DisconnectStep ==
  ASSUME FeedInv, Disconnect
  PROVE  FeedInv' /\ UNCHANGED Feed!vars
<1>1. LoseConnection /\ UNCHANGED <<recoveryVars, tradeRecord, fileVars, told>>
  BY DEF Disconnect
<1>2. RecoveryTypeOK'
  <2>1. inbox' \in Seq(Messages)
    BY <1>1, ConnectionLost
  <2>2. isSendDeleteBroadCastMsg' \in BOOLEAN
    BY <1>1 DEF FeedInv, RecoveryTypeOK, recoveryVars
  <2> QED  BY <1>1, <2>1, <2>2, ConnectionLost
           DEF FeedInv, RecoveryTypeOK, recoveryVars, fileVars
<1>3. ~(replay'.next <= replay'.end)
  BY <1>1, ConnectionLost DEF Idle
<1> QED  BY <1>1, <1>2, <1>3, ConnectionLost, QuietStep

LEMMA RestartStep ==
  ASSUME FeedInv, Restart
  PROVE  FeedInv' /\ Feed!Next
<1>1. LoseConnection /\ NewProcess /\ ApllSeq' \in saved /\ saved' = {ApllSeq'}
  BY DEF Restart
<1>2. /\ partitionID' \in Partitions /\ {endSeqNumber', lastSeqNumber'} \subseteq SeqNumbers
      /\ isSendDeleteBroadCastMsg' \in BOOLEAN
      /\ tradeRecord' \subseteq Trades /\ told' \in [Trades -> Nat]
  BY <1>1, RecoveryAssumption DEF NewProcess, Partitions, SeqNumbers
<1>3. RecoveryTypeOK'
  <2>1. inbox' \in Seq(Messages)
    BY <1>1, ConnectionLost
  <2>2. ApllSeq' \in SeqNumbers /\ saved' \subseteq SeqNumbers
    BY <1>1 DEF FeedInv, RecoveryTypeOK
  <2> QED  BY <1>1, <1>2, <2>1, <2>2, ConnectionLost DEF FeedInv, RecoveryTypeOK
<1>4. ~(replay'.next <= replay'.end)
  BY <1>1, ConnectionLost DEF Idle
<1>5. told' = [t \in Trades |-> IF t \in tradeRecord' THEN 1 ELSE 0]
  BY <1>1 DEF NewProcess
<1>6. Feed!Next
  BY <1>1, ConnectionLost
     DEF NewProcess, Feed!Next, Feed!NewProcess, Trades, Feed!Trades, Partitions, Feed!Partitions
<1>7. inbox' \in Seq(Truthful(made'))
  BY <1>1, ConnectionLost
<1> QED  BY <1>3, <1>4, <1>5, <1>6, <1>7 DEF FeedInv
-----------------------------------------------------------------------------
(* The theorems.                                                           *)

LEMMA FeedStep == FeedInv /\ [Next]_vars => FeedInv' /\ [Feed!Next]_(Feed!vars)
<1> SUFFICES ASSUME FeedInv, [Next]_vars  PROVE  FeedInv' /\ [Feed!Next]_(Feed!vars)
  OBVIOUS
<1>1. ASSUME NEW p \in Partitions, MakeTrade(p)  PROVE  FeedInv' /\ [Feed!Next]_(Feed!vars)
  BY <1>1, MakeTradeStep
<1>2. CASE MassDelete
  BY <1>2, MassDeleteStep
<1>3. CASE Exchange
  BY <1>3, AcceptSubscriptionStep, AnswerRequestStep, ReplayTradeStep DEF Exchange
<1>4. CASE LogOn \/ Order
  BY <1>4, UserLoginResponseStep, SendSubscriptionStep, OrderStep DEF LogOn
<1>5. CASE Handler
  BY <1>5, ReceiveSubscribeResponseStep, ReceiveOrderExecStep, ReceiveTradeBroadcastStep,
     ReceiveRetransmitResponseStep, ReceiveDeleteAllStep DEF Handler
<1>6. CASE Disconnect
  BY <1>6, DisconnectStep
<1>7. CASE Restart
  BY <1>7, RestartStep
<1>8. CASE UNCHANGED vars
  BY <1>8 DEF FeedInv, RecoveryTypeOK, vars, exchangeVars, logonVars, recoveryVars, fileVars,
              historyVars, Feed!vars
<1> QED  BY <1>1, <1>2, <1>3, <1>4, <1>5, <1>6, <1>7, <1>8 DEF Next

\* The state of the gateway's recovery is well typed.
THEOREM RecoveryTypeCorrect == Spec => []RecoveryTypeOK
<1>1. FeedInv => RecoveryTypeOK
  BY DEF FeedInv
<1> QED  BY <1>1, InitFeed, FeedStep, PTL DEF Spec

\* To the OMS the gateway is a feed that tells of each trade that was made,
\* and in one process of none twice (TradeHandler::IsEligibleToSend), whatever
\* the exchange repeats, and however often the connection breaks.
THEOREM TellsOnce == Spec => ImplementsTradeFeed
BY InitFeed, FeedStep, PTL DEF Spec, ImplementsTradeFeed, Feed!Spec
-----------------------------------------------------------------------------
(* Partition 1 before the deletion.  While no trade is made, and if no     *)
(* order took a number between the subscriptions, a session goes through   *)
(* stages: the gateway subscribes, the exchange accepts, the answer to the *)
(* third subscription is awaited; then the gateway asks for a part,        *)
(* receives the part, asks for the next, until it has the last.            *)

Deletion(m)    == m.kind = "DeleteAllOrderBroadcast"
FirstTrade(m)  == m.kind = "TradeBroadcast" /\ m.trade[1] = 1
InFirst(n)     == <<1, n>> \in tradeRecord
NothingReplayed == replay.next > replay.end

\* Until partition 1 is recovered mass deletions are dropped.
Early == partitionID = 1 /\ ~isSendDeleteBroadCastMsg /\ ~cancelled

\* The subscriptions, when no order comes between: the third has number 5.
Sub(i)   == Subscribe(RefApplID[i], UserLoginNumber + i)
Idles(m) == Deletion(m) \/ m = SubscribeResponse(0)

Subscribing ==
  /\ Early /\ NothingReplayed
  /\ subscribed = {} /\ inbox = <<>>
  /\ seqNu = UserLoginNumber + sent
  /\ \/ sent = 0 /\ requests = <<>>
     \/ sent = 1 /\ requests = <<Sub(1)>>
     \/ sent = 2 /\ requests = <<Sub(1), Sub(2)>>

Accepting ==
  /\ Early /\ NothingReplayed /\ sent = Done
  /\ \/ requests = <<Sub(1), Sub(2), Sub(3)>>
     \/ 1 \in subscribed /\ requests = <<Sub(2), Sub(3)>>
     \/ 1 \in subscribed /\ requests = <<Sub(3)>>
  /\ \A j \in 1 .. Len(inbox) : Idles(inbox[j])

Answering ==
  /\ Early /\ NothingReplayed /\ sent = Done /\ 1 \in subscribed /\ requests = <<>>
  /\ \E k \in 1 .. Len(inbox) :
       /\ inbox[k] = SubscribeResponse(StartNumber)
       /\ \A j \in 1 .. Len(inbox) :
            /\ j < k => Idles(inbox[j])
            /\ j > k => Deletion(inbox[j])

\* The trades before the number asked for have been told.
Asking ==
  /\ Early /\ sent = Done /\ 1 \in subscribed /\ NothingReplayed
  /\ \E f \in Nat :
       /\ requests = <<Retransmit(1, f)>>
       /\ \A n \in begun.from .. made[1] : n < f => InFirst(n)
  /\ \A j \in 1 .. Len(inbox) : Deletion(inbox[j])

\* The response to the request is still to be handled, or has been.
ResponseComes(e) ==
  \E k \in 1 .. Len(inbox), t \in SeqNumbers :
    /\ inbox[k] = RetransmitResponse(e, made[1], t)
    /\ t = 0 => \A n \in begun.from .. made[1] : InFirst(n)
    /\ \A j \in 1 .. Len(inbox) :
         /\ j < k => Deletion(inbox[j])
         /\ j > k => Deletion(inbox[j]) \/ FirstTrade(inbox[j])

ResponseCame(e) ==
  /\ endSeqNumber = e /\ lastSeqNumber = made[1]
  /\ \A j \in 1 .. Len(inbox) : Deletion(inbox[j]) \/ FirstTrade(inbox[j])

\* The trades of the part that ends with e have been told, or are on their
\* way, and the last of them comes last.
PartComes(e) ==
  /\ \A n \in begun.from .. made[1] :
       n <= e => \/ InFirst(n)
                 \/ n \in replay.next .. replay.end
                 \/ \E i \in 1 .. Len(inbox) : inbox[i] = TradeBroadcast(<<1, n>>)
  /\ ~NothingReplayed => replay.p = 1 /\ replay.end = e
  /\ \A i \in 1 .. Len(inbox) :
       inbox[i] = TradeBroadcast(<<1, e>>) =>
         NothingReplayed /\ \A j \in 1 .. Len(inbox) : j > i => Deletion(inbox[j])

Receiving ==
  /\ Early /\ sent = Done /\ 1 \in subscribed /\ requests = <<>>
  /\ \E e \in SeqNumbers : PartComes(e) /\ (ResponseComes(e) \/ ResponseCame(e))

\* Recovery goes on with partition 2.
Recovered ==
  /\ partitionID = 2 /\ sent = Done /\ 1 \in subscribed
  /\ \A i \in 1 .. Len(requests) : requests[i].kind = "Retransmit"
  /\ \A i \in 1 .. Len(inbox) : inbox[i].kind # "SubscribeResponse"
  /\ \A n \in begun.from .. made[1] : InFirst(n)

Stage == Subscribing \/ Accepting \/ Answering \/ Asking \/ Receiving \/ Recovered

StagesInv ==
  /\ ~isLoggedOn => /\ subscribed = {} /\ requests = <<>> /\ inbox = <<>> /\ NothingReplayed
                    /\ ~cancelled
  /\ isLoggedOn /\ quiet /\ orderly => Stage

\* The inbox after a message has come, and after one has been taken.
LEMMA Comes ==
  ASSUME FeedInv, NEW m, inbox' = Append(inbox, m)
  PROVE  /\ Len(inbox) \in Nat /\ Len(inbox') = Len(inbox) + 1
         /\ \A i \in 1 .. Len(inbox) : inbox'[i] = inbox[i] /\ i \in 1 .. Len(inbox')
         /\ inbox'[Len(inbox')] = m /\ Len(inbox') \in 1 .. Len(inbox')
         /\ \A i \in 1 .. Len(inbox') : i \in 1 .. Len(inbox) \/ i = Len(inbox')
         /\ \A i \in 1 .. Len(inbox) : i < Len(inbox')
BY DEF FeedInv

LEMMA Taken ==
  ASSUME FeedInv, NEW kind, Receive(kind)
  PROVE  /\ Len(inbox) \in Nat \ {0} /\ Len(inbox') = Len(inbox) - 1
         /\ 1 \in 1 .. Len(inbox) /\ Head(inbox) = inbox[1] /\ inbox[1].kind = kind
         /\ inbox[1] \in Truthful(made)
         /\ \A i \in 1 .. Len(inbox') : inbox'[i] = inbox[i + 1] /\ i + 1 \in 1 .. Len(inbox)
         /\ \A i \in 1 .. Len(inbox) : i # 1 => i - 1 \in 1 .. Len(inbox') /\ inbox'[i - 1] = inbox[i]
<1>1. inbox \in Seq(Truthful(made)) /\ inbox # <<>> /\ inbox' = Tail(inbox) /\ Head(inbox).kind = kind
  BY DEF FeedInv, Receive
<1>2. /\ Len(inbox) \in Nat \ {0} /\ Len(inbox') = Len(inbox) - 1 /\ Head(inbox) = inbox[1]
      /\ \A i \in 1 .. Len(inbox) - 1 : inbox'[i] = inbox[i + 1]
      /\ inbox[1] \in Truthful(made)
  BY <1>1
<1>3. ASSUME NEW i \in 1 .. Len(inbox), i # 1
      PROVE  i - 1 \in 1 .. Len(inbox') /\ inbox'[i - 1] = inbox[i]
  <2>1. i - 1 \in 1 .. Len(inbox) - 1 /\ (i - 1) + 1 = i
    BY <1>2, <1>3
  <2> QED  BY <1>2, <2>1
<1>4. \A i \in 1 .. Len(inbox') : i + 1 \in 1 .. Len(inbox)
  BY <1>2
<1> QED  BY <1>1, <1>2, <1>3, <1>4

LEMMA Kinds ==
  /\ DeleteAll.kind = "DeleteAllOrderBroadcast"
  /\ \A b : SubscribeResponse(b).kind = "SubscribeResponse" /\ SubscribeResponse(b).number = b
  /\ \A e, l, t : /\ RetransmitResponse(e, l, t).kind = "RetransmitResponse"
                  /\ RetransmitResponse(e, l, t).end = e
                  /\ RetransmitResponse(e, l, t).last = l
                  /\ RetransmitResponse(e, l, t).total = t
  /\ \A t : TradeBroadcast(t).kind = "TradeBroadcast" /\ TradeBroadcast(t).trade = t
  /\ \A m \in Messages : m.kind = "TradeBroadcast" => m = TradeBroadcast(m.trade)
  /\ \A p, n : /\ Retransmit(p, n).kind = "Retransmit"
               /\ Retransmit(p, n).p = p /\ Retransmit(p, n).from = n
<1>1. \A m \in Messages : m.kind = "TradeBroadcast" => m = TradeBroadcast(m.trade)
  BY DEF SubscribeResponse, DeleteAll, RetransmitResponse, TradeBroadcast, OrderExec, Messages
<1> QED  BY <1>1 DEF SubscribeResponse, DeleteAll, RetransmitResponse, TradeBroadcast, Retransmit

\* The subscriptions, the third of which has number 5.
LEMMA Subs ==
  /\ Done = 3
  /\ \A i \in 1 .. 3 : Sub(i).kind = "Subscribe"
  /\ Sub(1).appl = 1 /\ Sub(1).number = 0 /\ Sub(2).number = 0 /\ Sub(3).number = StartNumber
BY ThreeSubscriptions DEF Sub, Subscribe, RefApplID, UserLoginNumber, StartNumber

\* While the gateway is subscribed and no trade is made, in one session.
LEMMA QuietSteps ==
  ASSUME FeedInv, Next, isLoggedOn, isLoggedOn', quiet', orderly'
  PROVE  /\ quiet /\ orderly /\ tradeRecord \subseteq tradeRecord'
         /\ \/ /\ 1 \notin subscribed
               /\ UNCHANGED <<subscribed, requests, replay, inbox, logonVars, recoveryVars,
                              cancelled>>
            \/ MassDelete \/ Exchange \/ Handler
            \/ sent < Done /\ (SendSubscription \/ ReadNumber)
<1>1. ASSUME NEW p \in Partitions, MakeTrade(p)
      PROVE  /\ quiet /\ orderly /\ tradeRecord \subseteq tradeRecord' /\ 1 \notin subscribed
             /\ UNCHANGED <<subscribed, requests, replay, inbox, logonVars, recoveryVars,
                            cancelled>>
  BY <1>1 DEF MakeTrade, gatewayKeeps, logonVars
<1>2. CASE MassDelete \/ Exchange
  BY <1>2 DEF MassDelete, Exchange, AcceptSubscription, AnswerRequest, ReplayTrade, gatewayKeeps,
     logonVars
<1>3. CASE Handler
  BY <1>3 DEF Handler, ReceiveSubscribeResponse, ReceiveOrderExec, ReceiveTradeBroadcast, Forward,
     ReceiveRetransmitResponse, ReceiveDeleteAll, logonVars
<1>4. ~UserLoginResponse /\ ~Disconnect /\ ~Restart /\ ~WriteNumber
  BY DEF UserLoginResponse, Disconnect, Restart, LoseConnection, WriteNumber
<1>5. CASE SendSubscription \/ ReadNumber
  BY <1>5 DEF SendSubscription, ReadNumber, subscribing, subscribingKeeps, historyVars
<1> QED  BY <1>1, <1>2, <1>3, <1>4, <1>5 DEF Next, LogOn, Order

LEMMA Second ==
  ASSUME NEW a, NEW b
  PROVE  Append(<<a>>, b) = <<a, b>>
<1> DEFINE s == Append(<<a>>, b)
<1>1. s \in Seq({a, b}) /\ Len(s) = 2 /\ s[1] = a /\ s[2] = b
  OBVIOUS
<1> HIDE DEF s
<1>2. s = <<a, b>>
  BY <1>1
<1> QED  BY <1>2 DEF s

LEMMA Third ==
  ASSUME NEW a, NEW b, NEW c
  PROVE  Append(<<a, b>>, c) = <<a, b, c>>
<1> DEFINE s == Append(<<a, b>>, c)
<1>1. s \in Seq({a, b, c}) /\ Len(s) = 3 /\ s[1] = a /\ s[2] = b /\ s[3] = c
  OBVIOUS
<1> HIDE DEF s
<1>2. s = <<a, b, c>>
  BY <1>1
<1> QED  BY <1>2 DEF s

LEMMA SubscribingStep ==
  ASSUME FeedInv, Next, isLoggedOn, isLoggedOn', quiet', orderly', Subscribing
  PROVE  Subscribing' \/ Accepting'
<1>1. /\ Early /\ NothingReplayed /\ replay.next \in Int /\ replay.end \in Int
      /\ subscribed = {} /\ inbox = <<>> /\ seqNu = UserLoginNumber + sent
  BY RecoveryAssumption DEF Subscribing, FeedInv, RecoveryTypeOK, SeqNumbers
<1>2. \/ sent = 0 /\ requests = <<>>
      \/ sent = 1 /\ requests = <<Sub(1)>>
      \/ sent = 2 /\ requests = <<Sub(1), Sub(2)>>
  BY DEF Subscribing
<1>3. ~MassDelete /\ ~Handler /\ ~Exchange
  <2>1. ~Handler
    BY <1>1 DEF Handler, ReceiveSubscribeResponse, ReceiveOrderExec, ReceiveTradeBroadcast,
       ReceiveRetransmitResponse, ReceiveDeleteAll, Receive
  <2>2. ~ReplayTrade
    <3>1. ReplayTrade => replay.next <= replay.end
      BY DEF ReplayTrade
    <3> QED  BY <1>1, <3>1 DEF NothingReplayed
  <2>3. ~AcceptSubscription
    <3>1. sent # 3
      BY <1>2
    <3> QED  BY <3>1, ThreeSubscriptions DEF AcceptSubscription
  <2>4. ~AnswerRequest
    <3>1. AnswerRequest => requests # <<>> /\ Head(requests).kind = "Retransmit"
      BY DEF AnswerRequest
    <3>2. requests # <<>> => Head(requests) = Sub(1)
      BY <1>2
    <3> QED  BY <3>1, <3>2, Subs
  <2> QED  BY <1>1, <2>1, <2>2, <2>3, <2>4 DEF MassDelete, Exchange
<1>4. CASE \/ UNCHANGED <<subscribed, requests, replay, inbox, logonVars, recoveryVars, cancelled>>
           \/ ReadNumber
  <2>1. UNCHANGED <<subscribed, requests, replay, inbox, sent, seqNu, recoveryVars, cancelled>>
    BY <1>4 DEF ReadNumber, subscribingKeeps, historyVars, logonVars
  <2> QED  BY <1>1, <1>2, <2>1 DEF Subscribing, Early, NothingReplayed, recoveryVars
<1>5. CASE SendSubscription
  <2>1. /\ UNCHANGED <<subscribed, replay, inbox, recoveryVars, cancelled>>
        /\ sent' = sent + 1
        /\ requests' = Append(requests, Subscribe(RefApplID[sent'], Following(seqNu)))
        /\ sent' < 3 => seqNu' = Following(seqNu)
    BY <1>5, Subs DEF SendSubscription, subscribingKeeps, historyVars
  <2>2. sent \in 0 .. 2 /\ Following(seqNu) = UserLoginNumber + sent'
    BY <1>1, <1>2, <2>1 DEF Following, UserLoginNumber, StartNumber
  <2>3. requests' = Append(requests, Sub(sent'))
    BY <2>1, <2>2 DEF Sub
  <2>4. \/ sent' = 1 /\ requests' = <<Sub(1)>>
        \/ sent' = 2 /\ requests' = <<Sub(1), Sub(2)>>
        \/ sent' = 3 /\ requests' = <<Sub(1), Sub(2), Sub(3)>>
    <3>1. CASE sent = 0 /\ requests = <<>>
      <4>1. sent' = 1 /\ requests' = Append(<<>>, Sub(1))
        BY <2>1, <2>3, <3>1
      <4> QED  BY <4>1
    <3>2. CASE sent = 1 /\ requests = <<Sub(1)>>
      <4>1. sent' = 2 /\ requests' = Append(<<Sub(1)>>, Sub(2))
        BY <2>1, <2>3, <3>2
      <4> QED  BY <4>1, Second
    <3>3. CASE sent = 2 /\ requests = <<Sub(1), Sub(2)>>
      <4>1. sent' = 3 /\ requests' = Append(<<Sub(1), Sub(2)>>, Sub(3))
        BY <2>1, <2>3, <3>3
      <4> QED  BY <4>1, Third
    <3> QED  BY <1>2, <3>1, <3>2, <3>3
  <2>5. CASE sent' < 3
    <3>1. seqNu' = UserLoginNumber + sent'
      BY <2>1, <2>2, <2>5
    <3> QED  BY <1>1, <2>1, <2>4, <2>5, <3>1
             DEF Subscribing, Early, NothingReplayed, recoveryVars, Sub
  <2>6. CASE ~(sent' < 3)
    <3>1. sent' = 3 /\ requests' = <<Sub(1), Sub(2), Sub(3)>> /\ inbox' = <<>>
      BY <1>1, <2>1, <2>2, <2>4, <2>6
    <3>2. \A j \in 1 .. Len(inbox') : Idles(inbox'[j])
      BY <3>1
    <3> QED  BY <1>1, <2>1, <3>1, <3>2, Subs DEF Accepting, Early, NothingReplayed, recoveryVars, Sub
  <2> QED  BY <2>5, <2>6
<1> QED  BY <1>3, <1>4, <1>5, QuietSteps

LEMMA IdleAnswer ==
  ASSUME NEW m, Idles(m), m.kind = "SubscribeResponse"
  PROVE  m.number # StartNumber
<1>1. m = SubscribeResponse(0)
  BY DEF Idles, Deletion
<1>2. m.number = 0
  BY <1>1, Kinds
<1> QED  BY <1>2 DEF StartNumber

LEMMA AcceptingStep ==
  ASSUME FeedInv, Next, isLoggedOn, isLoggedOn', quiet', orderly', Accepting
  PROVE  Accepting' \/ Answering'
<1>1. /\ Early /\ NothingReplayed /\ replay.next \in Int /\ replay.end \in Int
      /\ sent = Done
  BY RecoveryAssumption DEF Accepting, FeedInv, RecoveryTypeOK, SeqNumbers
<1>2. \/ requests = <<Sub(1), Sub(2), Sub(3)>>
      \/ 1 \in subscribed /\ requests = <<Sub(2), Sub(3)>>
      \/ 1 \in subscribed /\ requests = <<Sub(3)>>
  BY DEF Accepting
<1>3. \A j \in 1 .. Len(inbox) : Idles(inbox[j])
  BY DEF Accepting
<1>4. ~AnswerRequest /\ ~ReplayTrade
  <2>1. /\ AnswerRequest => Head(requests).kind = "Retransmit"
        /\ ReplayTrade => replay.next <= replay.end
    BY DEF AnswerRequest, ReplayTrade
  <2>2. Head(requests) \in {Sub(1), Sub(2), Sub(3)}
    BY <1>2
  <2>3. Head(requests).kind = "Subscribe"
    BY <2>2, Subs
  <2> QED  BY <1>1, <2>1, <2>3 DEF NothingReplayed
\* Nothing but the inbox changes.
<1>5. ASSUME UNCHANGED <<subscribed, requests, replay, recoveryVars, sent>>, ~cancelled',
             \A j \in 1 .. Len(inbox') : Idles(inbox'[j])
      PROVE  Accepting'
  BY <1>1, <1>2, <1>5 DEF Accepting, Early, NothingReplayed, recoveryVars, Sub
<1>6. CASE UNCHANGED <<subscribed, requests, replay, inbox, logonVars, recoveryVars, cancelled>>
  BY <1>1, <1>3, <1>5, <1>6 DEF logonVars, Early
<1>7. CASE MassDelete
  <2>1. /\ UNCHANGED <<subscribed, requests, replay, recoveryVars, sent>> /\ ~cancelled'
        /\ inbox' = Append(inbox, DeleteAll)
    BY <1>1, <1>7 DEF MassDelete, gatewayKeeps, logonVars, Early
  <2>2. \A j \in 1 .. Len(inbox') : Idles(inbox'[j])
    <3>1. Idles(DeleteAll)
      BY Kinds DEF Idles, Deletion
    <3>2. \A j \in 1 .. Len(inbox') :
            \/ j \in 1 .. Len(inbox) /\ inbox'[j] = inbox[j]
            \/ inbox'[j] = DeleteAll
      BY <2>1, Comes
    <3> QED  BY <1>3, <3>1, <3>2
  <2> QED  BY <1>5, <2>1, <2>2
<1>8. CASE Handler
  <2>1. \A kind : Receive(kind) => /\ kind \in {"SubscribeResponse", "DeleteAllOrderBroadcast"}
                                  /\ Idles(Head(inbox))
                                  /\ \A j \in 1 .. Len(inbox') : Idles(inbox'[j])
    <3> SUFFICES ASSUME NEW kind, Receive(kind)
                 PROVE  /\ kind \in {"SubscribeResponse", "DeleteAllOrderBroadcast"}
                        /\ Idles(Head(inbox))
                        /\ \A j \in 1 .. Len(inbox') : Idles(inbox'[j])
      OBVIOUS
    <3>1. Idles(Head(inbox)) /\ Head(inbox).kind = kind
      BY <1>3, Taken
    <3>2. \A j \in 1 .. Len(inbox') : Idles(inbox'[j])
      BY <1>3, Taken
    <3> QED  BY <3>1, <3>2, Kinds DEF Idles, Deletion
  <2>2. CASE ReceiveSubscribeResponse
    <3>1. Receive("SubscribeResponse") /\ Head(inbox).kind = "SubscribeResponse"
      BY <2>2 DEF ReceiveSubscribeResponse, Receive
    <3>2. Head(inbox).number # StartNumber
      BY <2>1, <3>1, IdleAnswer
    <3>3. UNCHANGED <<subscribed, requests, replay, recoveryVars, sent, cancelled>>
      BY <2>2, <3>2 DEF ReceiveSubscribeResponse, exchangeKeeps, logonVars
    <3> QED  BY <1>1, <1>5, <2>1, <3>1, <3>3 DEF Early
  <2>3. CASE ReceiveDeleteAll
    <3>1. /\ Receive("DeleteAllOrderBroadcast") /\ ~cancelled'
          /\ UNCHANGED <<subscribed, requests, replay, recoveryVars, sent>>
      BY <1>1, <2>3 DEF ReceiveDeleteAll, exchangeKeeps, logonVars, Early
    <3> QED  BY <1>5, <2>1, <3>1
  <2>4. ~ReceiveOrderExec /\ ~ReceiveTradeBroadcast /\ ~ReceiveRetransmitResponse
    <3>1. /\ ReceiveOrderExec => Receive("OrderExec")
          /\ ReceiveTradeBroadcast => Receive("TradeBroadcast")
          /\ ReceiveRetransmitResponse => Receive("RetransmitResponse")
      BY DEF ReceiveOrderExec, ReceiveTradeBroadcast, ReceiveRetransmitResponse
    <3> QED  BY <2>1, <3>1
  <2> QED  BY <1>8, <2>2, <2>3, <2>4 DEF Handler
<1>9. CASE AcceptSubscription
  <2> DEFINE r == Head(requests)
  <2>1. /\ UNCHANGED <<replay, recoveryVars, sent>> /\ ~cancelled'
        /\ requests' = Tail(requests) /\ subscribed' = subscribed \cup {r.appl}
        /\ inbox' = Append(inbox, SubscribeResponse(r.number))
    BY <1>1, <1>9 DEF AcceptSubscription, gatewayKeeps, logonVars, Early
  <2>2. CASE requests = <<Sub(1), Sub(2), Sub(3)>> \/ requests = <<Sub(2), Sub(3)>>
    <3>1. r = Sub(1) \/ r = Sub(2)
      BY <2>2
    <3>2. inbox' = Append(inbox, SubscribeResponse(0))
      BY <2>1, <3>1, Subs
    <3>3. \A j \in 1 .. Len(inbox') : Idles(inbox'[j])
      BY <1>3, <3>2, Comes DEF Idles
    <3>4. \/ requests' = <<Sub(2), Sub(3)>> /\ 1 \in subscribed'
          \/ requests' = <<Sub(3)>> /\ 1 \in subscribed'
      <4>1. CASE requests = <<Sub(1), Sub(2), Sub(3)>>
        <5>1. r = Sub(1) /\ requests' = <<Sub(2), Sub(3)>>
          BY <2>1, <4>1
        <5>2. 1 \in subscribed'
          BY <2>1, <5>1, Subs
        <5> QED  BY <5>1, <5>2
      <4>2. CASE requests = <<Sub(2), Sub(3)>>
        <5>1. requests # <<Sub(1), Sub(2), Sub(3)>> /\ requests # <<Sub(3)>>
          BY <4>2
        <5>2. 1 \in subscribed /\ requests' = <<Sub(3)>>
          BY <1>2, <2>1, <4>2, <5>1
        <5> QED  BY <2>1, <5>2
      <4> QED  BY <2>2, <4>1, <4>2
    <3> QED  BY <1>1, <2>1, <3>3, <3>4 DEF Accepting, Early, NothingReplayed, recoveryVars, Sub
  <2>3. CASE requests = <<Sub(3)>>
    <3>1. r = Sub(3) /\ requests' = <<>>
      BY <2>1, <2>3
    <3>2. 1 \in subscribed'
      <4>1. requests # <<Sub(1), Sub(2), Sub(3)>> /\ requests # <<Sub(2), Sub(3)>>
        BY <2>3
      <4> QED  BY <1>2, <2>1, <4>1
    <3>3. inbox' = Append(inbox, SubscribeResponse(StartNumber))
      BY <2>1, <3>1, Subs
    <3>4. /\ Len(inbox') \in 1 .. Len(inbox') /\ inbox'[Len(inbox')] = SubscribeResponse(StartNumber)
          /\ \A j \in 1 .. Len(inbox') :
               /\ j < Len(inbox') => Idles(inbox'[j])
               /\ j > Len(inbox') => Deletion(inbox'[j])
      <4>1. /\ Len(inbox') \in 1 .. Len(inbox') /\ inbox'[Len(inbox')] = SubscribeResponse(StartNumber)
            /\ Len(inbox) \in Nat /\ Len(inbox') = Len(inbox) + 1
            /\ \A j \in 1 .. Len(inbox) : inbox'[j] = inbox[j]
        BY <3>3, Comes
      <4>2. ASSUME NEW j \in 1 .. Len(inbox')
            PROVE  /\ j < Len(inbox') => Idles(inbox'[j])
                   /\ j > Len(inbox') => Deletion(inbox'[j])
        <5>1. ~(j > Len(inbox')) /\ (j < Len(inbox') => j \in 1 .. Len(inbox))
          BY <4>1
        <5> QED  BY <1>3, <4>1, <5>1
      <4> QED  BY <4>1, <4>2
    <3> QED  BY <1>1, <2>1, <3>1, <3>2, <3>4 DEF Answering, Early, NothingReplayed, recoveryVars
  <2> QED  BY <1>2, <2>2, <2>3
<1>10. ~(sent < Done)
  BY <1>1, Subs
<1> QED  BY <1>4, <1>6, <1>7, <1>8, <1>9, <1>10, QuietSteps DEF Exchange

LEMMA AnsweringStep ==
  ASSUME FeedInv, Next, isLoggedOn, isLoggedOn', quiet', orderly', Answering
  PROVE  Answering' \/ Asking'
<1>1. /\ Early /\ NothingReplayed /\ replay.next \in Int /\ replay.end \in Int
      /\ sent = Done /\ 1 \in subscribed /\ requests = <<>>
  BY RecoveryAssumption DEF Answering, FeedInv, RecoveryTypeOK, SeqNumbers
<1>2. PICK k \in 1 .. Len(inbox) :
        /\ inbox[k] = SubscribeResponse(StartNumber)
        /\ \A j \in 1 .. Len(inbox) :
             /\ j < k => Idles(inbox[j])
             /\ j > k => Deletion(inbox[j])
  BY DEF Answering
<1>3. ~Exchange
  <2>1. /\ AcceptSubscription => requests # <<>>
        /\ AnswerRequest => requests # <<>>
        /\ ReplayTrade => replay.next <= replay.end
    BY DEF AcceptSubscription, AnswerRequest, ReplayTrade
  <2> QED  BY <1>1, <2>1 DEF Exchange, NothingReplayed
<1>4. CASE MassDelete
  <2>1. /\ UNCHANGED <<subscribed, requests, replay, recoveryVars, sent>> /\ ~cancelled'
        /\ inbox' = Append(inbox, DeleteAll)
    BY <1>1, <1>4 DEF MassDelete, gatewayKeeps, logonVars, Early
  <2>2. k \in 1 .. Len(inbox') /\ inbox'[k] = SubscribeResponse(StartNumber)
    BY <1>2, <2>1, Comes
  <2>3. \A j \in 1 .. Len(inbox') : /\ j < k => Idles(inbox'[j])
                                    /\ j > k => Deletion(inbox'[j])
    <3> SUFFICES ASSUME NEW j \in 1 .. Len(inbox')
                 PROVE  /\ j < k => Idles(inbox'[j])
                        /\ j > k => Deletion(inbox'[j])
      OBVIOUS
    <3>1. CASE j \in 1 .. Len(inbox)
      <4>1. inbox'[j] = inbox[j]
        BY <2>1, <3>1, Comes
      <4> QED  BY <1>2, <3>1, <4>1
    <3>2. CASE j \notin 1 .. Len(inbox)
      <4>1. inbox'[j] = DeleteAll /\ ~(j < k)
        BY <2>1, <3>2, Comes
      <4> QED  BY <4>1, Kinds DEF Deletion
    <3> QED  BY <3>1, <3>2
  <2> QED  BY <1>1, <2>1, <2>2, <2>3 DEF Answering, Early, NothingReplayed, recoveryVars
<1>5. CASE Handler
  <2>1. \A kind : Receive(kind) => kind \in {"SubscribeResponse", "DeleteAllOrderBroadcast"}
    <3> SUFFICES ASSUME NEW kind, Receive(kind)
                 PROVE  kind \in {"SubscribeResponse", "DeleteAllOrderBroadcast"}
      OBVIOUS
    <3>1. 1 \in 1 .. Len(inbox) /\ inbox[1].kind = kind
      BY Taken
    <3>2. k = 1 \/ Idles(inbox[1])
      <4>1. k = 1 \/ 1 < k
        OBVIOUS
      <4> QED  BY <1>2, <3>1, <4>1
    <3> QED  BY <1>2, <3>1, <3>2, Kinds DEF Idles, Deletion
\* A message before the answer.
  <2>2. ASSUME NEW kind, Receive(kind), k # 1, ~cancelled',
               UNCHANGED <<subscribed, requests, replay, recoveryVars, sent>>
        PROVE  Answering'
    <3>1. k - 1 \in 1 .. Len(inbox') /\ inbox'[k - 1] = SubscribeResponse(StartNumber)
      BY <1>2, <2>2, Taken
    <3>2. \A j \in 1 .. Len(inbox') : /\ j < k - 1 => Idles(inbox'[j])
                                      /\ j > k - 1 => Deletion(inbox'[j])
      <4> SUFFICES ASSUME NEW j \in 1 .. Len(inbox')
                   PROVE  /\ j < k - 1 => Idles(inbox'[j])
                          /\ j > k - 1 => Deletion(inbox'[j])
        OBVIOUS
      <4>1. inbox'[j] = inbox[j + 1] /\ j + 1 \in 1 .. Len(inbox)
        BY <2>2, Taken
      <4>2. (j < k - 1 => j + 1 < k) /\ (j > k - 1 => j + 1 > k)
        OBVIOUS
      <4> QED  BY <1>2, <4>1, <4>2
    <3> QED  BY <1>1, <2>2, <3>1, <3>2 DEF Answering, Early, NothingReplayed, recoveryVars
  <2>3. CASE ReceiveSubscribeResponse /\ k # 1
    <3>1. Receive("SubscribeResponse") /\ Head(inbox).kind = "SubscribeResponse"
      BY <2>3 DEF ReceiveSubscribeResponse, Receive
    <3>2. Idles(Head(inbox))
      <4>1. Head(inbox) = inbox[1] /\ 1 \in 1 .. Len(inbox)
        BY <3>1, Taken
      <4>2. 1 < k
        BY <2>3
      <4> QED  BY <1>2, <4>1, <4>2
    <3>3. Head(inbox).number # StartNumber
      BY <3>1, <3>2, IdleAnswer
    <3>4. UNCHANGED <<subscribed, requests, replay, recoveryVars, sent, cancelled>>
      BY <2>3, <3>3 DEF ReceiveSubscribeResponse, exchangeKeeps, logonVars
    <3> QED  BY <1>1, <2>2, <2>3, <3>1, <3>4 DEF Early
  <2>4. CASE ReceiveSubscribeResponse /\ k = 1
    <3>1. Receive("SubscribeResponse")
      BY <2>4 DEF ReceiveSubscribeResponse
    <3>2. Head(inbox).number = StartNumber
      BY <1>2, <2>4, <3>1, Taken, Kinds
    <3>3. \A j \in 1 .. Len(inbox') : Deletion(inbox'[j])
      BY <1>2, <2>4, <3>1, Taken
    <3>4. /\ UNCHANGED <<subscribed, replay, recoveryVars, sent, cancelled>> /\ StartRecovery
      BY <2>4, <3>2 DEF ReceiveSubscribeResponse, exchangeKeeps, logonVars
    <3>5. /\ begun' = Retransmit(1, ApllSeq') /\ requests' = sendRetransmissionTrade(ApllSeq', 1)
          /\ ApllSeq' \in Nat /\ ApllSeq' # 0
      BY <1>1, <3>4, RecoveryAssumption
      DEF StartRecovery, FeedInv, RecoveryTypeOK, SeqNumbers, Early
    <3>6. requests' = <<Retransmit(1, ApllSeq')>>
      BY <1>1, <3>5 DEF sendRetransmissionTrade
    <3>7. \A n \in begun'.from .. made'[1] : ~(n < ApllSeq')
      <4>1. begun'.from = ApllSeq'
        BY <3>5, Kinds
      <4> QED  BY <3>5, <4>1
    <3>8. \E f \in Nat : /\ requests' = <<Retransmit(1, f)>>
                         /\ \A n \in begun'.from .. made'[1] : n < f => InFirst(n)'
      BY <3>5, <3>6, <3>7
    <3> QED  BY <1>1, <3>3, <3>4, <3>8 DEF Asking, Early, NothingReplayed, recoveryVars
  <2>5. CASE ReceiveDeleteAll
    <3>1. /\ Receive("DeleteAllOrderBroadcast") /\ ~cancelled'
          /\ UNCHANGED <<subscribed, requests, replay, recoveryVars, sent>>
      BY <1>1, <2>5 DEF ReceiveDeleteAll, exchangeKeeps, logonVars, Early
    <3>2. k # 1
      BY <1>2, <3>1, Taken, Kinds
    <3> QED  BY <2>2, <3>1, <3>2
  <2>6. ~ReceiveOrderExec /\ ~ReceiveTradeBroadcast /\ ~ReceiveRetransmitResponse
    <3>1. /\ ReceiveOrderExec => Receive("OrderExec")
          /\ ReceiveTradeBroadcast => Receive("TradeBroadcast")
          /\ ReceiveRetransmitResponse => Receive("RetransmitResponse")
      BY DEF ReceiveOrderExec, ReceiveTradeBroadcast, ReceiveRetransmitResponse
    <3> QED  BY <2>1, <3>1
  <2> QED  BY <1>5, <2>3, <2>4, <2>5, <2>6 DEF Handler
<1>6. ~(sent < Done)
  BY <1>1, Subs
<1> QED  BY <1>1, <1>3, <1>4, <1>5, <1>6, QuietSteps

LEMMA AskingStep ==
  ASSUME FeedInv, Next, isLoggedOn, isLoggedOn', quiet', orderly', Asking
  PROVE  Asking' \/ Receiving'
<1>1. /\ Early /\ NothingReplayed /\ replay.next \in Int /\ replay.end \in Int
      /\ begun.from \in Nat /\ made[1] \in SeqNumbers /\ Part \in Nat \ {0}
  BY RecoveryAssumption
  DEF Asking, FeedInv, RecoveryTypeOK, SeqNumbers, Partitions
<1>2. PICK f \in Nat : /\ requests = <<Retransmit(1, f)>>
                       /\ \A n \in begun.from .. made[1] : n < f => InFirst(n)
  BY DEF Asking
<1>3. sent = Done /\ 1 \in subscribed /\ \A j \in 1 .. Len(inbox) : Deletion(inbox[j])
  BY DEF Asking
<1>4. ~ReplayTrade /\ ~AcceptSubscription
  <2>1. /\ ReplayTrade => replay.next <= replay.end
        /\ AcceptSubscription => Head(requests).kind = "Subscribe"
    BY DEF ReplayTrade, AcceptSubscription
  <2>2. Head(requests) = Retransmit(1, f)
    BY <1>2
  <2>3. Head(requests).kind = "Retransmit"
    BY <2>2, Kinds
  <2> QED  BY <1>1, <2>1, <2>3 DEF NothingReplayed
<1>5. ASSUME UNCHANGED <<made, sent, subscribed, requests, replay, recoveryVars, begun>>, ~cancelled',
             tradeRecord \subseteq tradeRecord',
             \A j \in 1 .. Len(inbox') : Deletion(inbox'[j])
      PROVE  Asking'
  <2>1. \A n \in begun'.from .. made'[1] : n < f => InFirst(n)'
    BY <1>2, <1>5 DEF InFirst
  <2> QED  BY <1>1, <1>2, <1>3, <1>5, <2>1 DEF Asking, Early, NothingReplayed, recoveryVars
<1>6. CASE MassDelete
  <2>1. /\ inbox' = Append(inbox, DeleteAll) /\ tradeRecord' = tradeRecord /\ ~cancelled'
        /\ UNCHANGED <<made, sent, subscribed, requests, replay, recoveryVars, begun>>
    BY <1>1, <1>6 DEF MassDelete, gatewayKeeps, logonVars, Early
  <2>2. \A j \in 1 .. Len(inbox') : Deletion(inbox'[j])
    BY <1>3, <2>1, Comes, Kinds DEF Deletion
  <2> QED  BY <1>5, <2>1, <2>2
<1>7. CASE Handler
  <2>1. \A kind : Receive(kind) => kind = "DeleteAllOrderBroadcast"
    BY <1>3, Taken DEF Deletion
  <2>2. ReceiveDeleteAll
    BY <1>7, <2>1 DEF Handler, ReceiveSubscribeResponse, ReceiveOrderExec, ReceiveTradeBroadcast,
       ReceiveRetransmitResponse
  <2>3. \A j \in 1 .. Len(inbox') : Deletion(inbox'[j])
    BY <1>3, <2>2, Taken DEF ReceiveDeleteAll
  <2>4. /\ UNCHANGED <<made, sent, subscribed, requests, replay, recoveryVars, begun, tradeRecord>>
        /\ ~cancelled'
    BY <1>1, <2>2 DEF ReceiveDeleteAll, exchangeKeeps, logonVars, Early
  <2> QED  BY <1>5, <2>3, <2>4
<1>8. CASE AnswerRequest
  <2> DEFINE last == made[1]
             stop == IF f + Part - 1 < last THEN f + Part - 1 ELSE last
  <2>1. Head(requests) = Retransmit(1, f) /\ Tail(requests) = <<>>
        /\ Head(requests).p = 1 /\ Head(requests).from = f /\ Head(requests).kind = "Retransmit"
    BY <1>2, Kinds
  <2>2. /\ requests' = <<>>
        /\ \/ /\ f <= last
              /\ inbox' = Append(inbox, RetransmitResponse(stop, last, stop - f + 1))
              /\ replay' = [p |-> 1, next |-> f, end |-> stop]
           \/ /\ f > last
              /\ inbox' = Append(inbox, RetransmitResponse(last, last, 0))
              /\ replay' = Idle
    BY <1>1, <1>8, <2>1 DEF AnswerRequest, SeqNumbers
  <2>3. /\ UNCHANGED <<made, sent, subscribed, recoveryVars, begun, tradeRecord>>
        /\ ~cancelled'
    BY <1>1, <1>8 DEF AnswerRequest, gatewayKeeps, logonVars, Early
  <2>4. \A n : InFirst(n)' = InFirst(n)
    BY <2>3 DEF InFirst
  <2>5. f \in 1 .. MaxTrades + 1
    <3>1. requests \in Seq(Requests) /\ requests # <<>>
      BY <1>2 DEF FeedInv, RecoveryTypeOK
    <3>2. Head(requests) \in Requests
      BY <3>1, HeadTail
    <3> QED  BY <2>1, <3>2, RequestFields
  <2>6. ASSUME NEW e \in SeqNumbers, NEW t \in SeqNumbers,
               inbox' = Append(inbox, RetransmitResponse(e, made[1], t)),
               t = 0 => \A n \in begun.from .. made[1] : InFirst(n),
               \A n \in begun.from .. made[1] : n <= e => InFirst(n) \/ n \in replay'.next .. replay'.end,
               replay'.next <= replay'.end => replay'.p = 1 /\ replay'.end = e,
               replay'.next \in Int, replay'.end \in Int
        PROVE  Receiving'
    <3>1. /\ Len(inbox') \in 1 .. Len(inbox')
          /\ inbox'[Len(inbox')] = RetransmitResponse(e, made'[1], t)
          /\ \A j \in 1 .. Len(inbox') : /\ j < Len(inbox') => Deletion(inbox'[j])
                                         /\ ~(j > Len(inbox'))
      BY <1>3, <2>3, <2>6, Comes
    <3>2. t = 0 => \A n \in begun'.from .. made'[1] : InFirst(n)'
      BY <2>3, <2>4, <2>6
    <3>3. ResponseComes(e)'
      BY <3>1, <3>2 DEF ResponseComes
    <3>4. \A n \in begun'.from .. made'[1] :
            n <= e => InFirst(n)' \/ n \in replay'.next .. replay'.end
      BY <2>3, <2>4, <2>6
    <3>5. ~NothingReplayed' => replay'.p = 1 /\ replay'.end = e
      BY <2>6 DEF NothingReplayed
    <3>6. \A i \in 1 .. Len(inbox') : inbox'[i].kind # "TradeBroadcast"
      BY <3>1, Kinds DEF Deletion
    <3>7. PartComes(e)'
      BY <3>4, <3>5, <3>6, Kinds DEF PartComes
    <3>8. \E d \in SeqNumbers : PartComes(d)' /\ (ResponseComes(d)' \/ ResponseCame(d)')
      BY <3>3, <3>7
    <3> QED  BY <1>1, <1>3, <2>2, <2>3, <3>8 DEF Receiving, Early, recoveryVars
  <2>7. CASE f <= last
    <3>1. stop \in SeqNumbers /\ stop - f + 1 \in SeqNumbers /\ stop - f + 1 # 0
      BY <1>1, <2>5, <2>7, RecoveryAssumption DEF SeqNumbers
    <3>2. replay'.p = 1 /\ replay'.next = f /\ replay'.end = stop
      BY <1>1, <2>2, <2>7 DEF SeqNumbers
    <3>3. inbox' = Append(inbox, RetransmitResponse(stop, last, stop - f + 1))
      BY <1>1, <2>2, <2>7 DEF SeqNumbers
    <3>4. \A n \in begun.from .. made[1] : n <= stop => InFirst(n) \/ n \in f .. stop
      BY <1>1, <1>2, <3>1 DEF SeqNumbers
    <3> HIDE DEF stop
    <3> QED  BY <2>6, <3>1, <3>2, <3>3, <3>4 DEF SeqNumbers
  <2>8. CASE f > last
    <3>1. inbox' = Append(inbox, RetransmitResponse(last, last, 0)) /\ replay' = Idle
      BY <1>1, <2>2, <2>8 DEF SeqNumbers
    <3>2. \A n \in begun.from .. made[1] : InFirst(n)
      BY <1>1, <1>2, <2>8 DEF SeqNumbers
    <3>3. replay'.next = 1 /\ replay'.end = 0
      BY <3>1 DEF Idle
    <3>4. 0 \in SeqNumbers
      BY RecoveryAssumption DEF SeqNumbers
    <3> QED  BY <1>1, <2>6, <3>1, <3>2, <3>3, <3>4
  <2> QED  BY <1>1, <2>7, <2>8 DEF SeqNumbers
<1>9. ~(sent < Done)
  BY <1>3, Subs
<1> QED  BY <1>3, <1>4, <1>6, <1>7, <1>8, <1>9, QuietSteps DEF Exchange

LEMMA RecoveredStep ==
  ASSUME FeedInv, Next, isLoggedOn, isLoggedOn', quiet', orderly', Recovered
  PROVE  Recovered'
<1>1. /\ partitionID = 2 /\ sent = Done /\ 1 \in subscribed
      /\ \A i \in 1 .. Len(requests) : requests[i].kind = "Retransmit"
      /\ \A i \in 1 .. Len(inbox) : inbox[i].kind # "SubscribeResponse"
      /\ \A n \in begun.from .. made[1] : InFirst(n)
  BY DEF Recovered
<1>2. tradeRecord \subseteq tradeRecord'
  BY QuietSteps
<1>3. requests \in Seq(Requests)
  BY DEF FeedInv, RecoveryTypeOK
<1>4. ASSUME UNCHANGED <<made, sent, subscribed, begun, partitionID>>,
             \A i \in 1 .. Len(requests') : requests'[i].kind = "Retransmit",
             \A i \in 1 .. Len(inbox') : inbox'[i].kind # "SubscribeResponse"
      PROVE  Recovered'
  <2>1. \A n \in begun'.from .. made'[1] : InFirst(n)'
    BY <1>1, <1>2, <1>4 DEF InFirst
  <2> QED  BY <1>1, <1>4, <2>1 DEF Recovered
<1>5. ASSUME NEW kind, Receive(kind)
      PROVE  kind # "SubscribeResponse" /\ \A i \in 1 .. Len(inbox') : inbox'[i].kind # "SubscribeResponse"
  <2>1. inbox[1].kind # "SubscribeResponse" /\ inbox[1] \in Messages /\ inbox[1].kind = kind
    BY <1>1, <1>5, Taken DEF Truthful
  <2> QED  BY <1>1, <1>5, <2>1, Taken, Kinds
<1>6. ASSUME NEW m, m.kind # "SubscribeResponse", inbox' = Append(inbox, m)
      PROVE  \A i \in 1 .. Len(inbox') : inbox'[i].kind # "SubscribeResponse"
  BY <1>1, <1>6, Comes, Kinds
<1>7. CASE MassDelete
  <2>1. /\ UNCHANGED <<made, sent, subscribed, requests, begun, partitionID>>
        /\ inbox' = Append(inbox, DeleteAll)
    BY <1>7 DEF MassDelete, gatewayKeeps, logonVars, recoveryVars
  <2>2. \A i \in 1 .. Len(inbox') : inbox'[i].kind # "SubscribeResponse"
    BY <1>6, <2>1, Kinds
  <2> QED  BY <1>1, <1>4, <2>1, <2>2
<1>8. ~AcceptSubscription
  <2>1. AcceptSubscription => requests # <<>> /\ Head(requests).kind = "Subscribe"
    BY DEF AcceptSubscription
  <2>2. requests # <<>> => 1 \in 1 .. Len(requests) /\ Head(requests) = requests[1]
    BY <1>3
  <2> QED  BY <1>1, <2>1, <2>2
<1>9. CASE AnswerRequest
  <2>1. requests' = Tail(requests) /\ requests # <<>>
        /\ UNCHANGED <<made, sent, subscribed, begun, partitionID>>
        /\ \E e, l, t : inbox' = Append(inbox, RetransmitResponse(e, l, t))
    BY <1>9 DEF AnswerRequest, gatewayKeeps, logonVars, recoveryVars
  <2>2. \A i \in 1 .. Len(requests') : requests'[i] = requests[i + 1] /\ i + 1 \in 1 .. Len(requests)
    BY <1>3, <2>1
  <2> QED  BY <1>1, <1>4, <1>6, <2>1, <2>2, Kinds
<1>10. CASE ReplayTrade
  <2>1. /\ UNCHANGED <<made, sent, subscribed, requests, begun, partitionID>>
        /\ inbox' = Append(inbox, TradeBroadcast(<<replay.p, replay.next>>))
    BY <1>10 DEF ReplayTrade, gatewayKeeps, logonVars, recoveryVars
  <2>2. \A i \in 1 .. Len(inbox') : inbox'[i].kind # "SubscribeResponse"
    BY <1>6, <2>1, Kinds
  <2> QED  BY <1>1, <1>4, <2>1, <2>2
<1>11. CASE ReceiveOrderExec \/ ReceiveDeleteAll \/ ReceiveRetransmitResponse
  <2>1. \E kind : Receive(kind)
    BY <1>11 DEF ReceiveOrderExec, ReceiveDeleteAll, ReceiveRetransmitResponse
  <2>2. CASE ReceiveOrderExec \/ ReceiveDeleteAll
    <3>1. UNCHANGED <<made, sent, subscribed, requests, begun, partitionID>>
      BY <2>2 DEF ReceiveOrderExec, ReceiveDeleteAll, exchangeKeeps, logonVars, recoveryVars
    <3> QED  BY <1>1, <1>4, <1>5, <2>1, <3>1
  <2>3. CASE ReceiveRetransmitResponse
    <3>1. UNCHANGED <<made, sent, subscribed, begun>>
      BY <2>3 DEF ReceiveRetransmitResponse, exchangeKeeps, logonVars
    <3>2. UNCHANGED <<requests, partitionID>>
      <4>1. ~(partitionID < 2)
        BY <1>1
      <4> QED  BY <2>3, <4>1 DEF ReceiveRetransmitResponse
    <3> QED  BY <1>1, <1>4, <1>5, <2>1, <3>1, <3>2
  <2> QED  BY <1>11, <2>2, <2>3
<1>12. CASE ReceiveTradeBroadcast
  <2> DEFINE t == Head(inbox).trade
  <2>1. /\ Receive("TradeBroadcast") /\ NextRequest(t[1], t[2])
        /\ UNCHANGED <<made, sent, subscribed, begun>>
    BY <1>12 DEF ReceiveTradeBroadcast, exchangeKeeps, logonVars
  <2>2. t[1] \in Partitions
    <3>1. Head(inbox) \in Messages /\ Head(inbox).kind = "TradeBroadcast"
      BY <2>1, Received
    <3> QED  BY <3>1, MessageFields DEF Trades
  <2>3. /\ partitionID' = partitionID
        /\ \/ requests' = requests
           \/ \E n : requests' = Append(requests, Retransmit(t[1], n))
    <3>1. ~(partitionID < 2)
      BY <1>1
    <3> HIDE DEF t
    <3>2. UNCHANGED <<requests, partitionID>>
            \/ (requests' = sendRetransmissionTrade(t[2] + 1, t[1]) /\ UNCHANGED partitionID)
      BY <2>1, <3>1 DEF NextRequest
    <3> QED  BY <3>2 DEF sendRetransmissionTrade
  <2>4. \A i \in 1 .. Len(requests') : requests'[i].kind = "Retransmit"
    <3>1. ASSUME NEW n, requests' = Append(requests, Retransmit(t[1], n))
          PROVE  \A i \in 1 .. Len(requests') : requests'[i].kind = "Retransmit"
      <4>1. Retransmit(t[1], n).kind = "Retransmit"
        BY Kinds
      <4> QED  BY <1>1, <1>3, <3>1, <4>1
    <3> QED  BY <1>1, <2>3, <3>1
  <2> QED  BY <1>4, <1>5, <2>1, <2>3, <2>4
<1>13. ~ReceiveSubscribeResponse
  BY <1>5 DEF ReceiveSubscribeResponse
<1>14. ~(sent < Done)
  BY <1>1, Subs
<1> QED
  BY <1>1, <1>7, <1>8, <1>9, <1>10, <1>11, <1>12, <1>13, <1>14, QuietSteps DEF Exchange, Handler

LEMMA ReceivingStep ==
  ASSUME FeedInv, Next, isLoggedOn, isLoggedOn', quiet', orderly', Receiving
  PROVE  Receiving' \/ Asking' \/ Recovered'
<1>1. /\ Early /\ sent = Done /\ 1 \in subscribed /\ requests = <<>>
      /\ replay.next \in Int /\ replay.end \in Int
      /\ begun.from \in Nat /\ made[1] \in SeqNumbers
      /\ tradeRecord \subseteq tradeRecord'
  BY RecoveryAssumption, QuietSteps
  DEF Receiving, FeedInv, RecoveryTypeOK, SeqNumbers, Partitions
<1>2. PICK e \in SeqNumbers : PartComes(e) /\ (ResponseComes(e) \/ ResponseCame(e))
  BY DEF Receiving
<1>3. \A i \in 1 .. Len(inbox) :
        \/ Deletion(inbox[i]) \/ FirstTrade(inbox[i])
        \/ inbox[i].kind = "RetransmitResponse"
  BY <1>2, Kinds DEF ResponseComes, ResponseCame
<1>4. ~AcceptSubscription /\ ~AnswerRequest
  BY <1>1 DEF AcceptSubscription, AnswerRequest
<1>5. ~ReceiveSubscribeResponse /\ ~ReceiveOrderExec
  <2>1. /\ ReceiveSubscribeResponse => Receive("SubscribeResponse")
        /\ ReceiveOrderExec => Receive("OrderExec")
    BY DEF ReceiveSubscribeResponse, ReceiveOrderExec
  <2>2. \A kind : Receive(kind) => kind # "SubscribeResponse" /\ kind # "OrderExec"
    BY <1>3, Taken DEF Deletion, FirstTrade
  <2> QED  BY <2>1, <2>2
<1>6. ASSUME UNCHANGED <<made, sent, subscribed, requests, partitionID, isSendDeleteBroadCastMsg>>,
             ~cancelled', PartComes(e)', ResponseComes(e)' \/ ResponseCame(e)'
      PROVE  Receiving'
  <2>1. \E d \in SeqNumbers : PartComes(d)' /\ (ResponseComes(d)' \/ ResponseCame(d)')
    BY <1>6
  <2> QED  BY <1>1, <1>6, <2>1 DEF Receiving, Early
\* A message that comes behind the others.
<1>7. ASSUME NEW m, inbox' = Append(inbox, m), Deletion(m) \/ FirstTrade(m),
             UNCHANGED <<made, begun, endSeqNumber, lastSeqNumber>>
      PROVE  ResponseComes(e)' \/ ResponseCame(e)'
  <2>1. \A n : InFirst(n) => InFirst(n)'
    BY <1>1 DEF InFirst
  <2>2. CASE ResponseComes(e)
    <3>1. PICK k \in 1 .. Len(inbox), t \in SeqNumbers :
            /\ inbox[k] = RetransmitResponse(e, made[1], t)
            /\ t = 0 => \A n \in begun.from .. made[1] : InFirst(n)
            /\ \A j \in 1 .. Len(inbox) :
                 /\ j < k => Deletion(inbox[j])
                 /\ j > k => Deletion(inbox[j]) \/ FirstTrade(inbox[j])
      BY <2>2 DEF ResponseComes
    <3>2. /\ k \in 1 .. Len(inbox') /\ inbox'[k] = RetransmitResponse(e, made'[1], t)
          /\ t = 0 => \A n \in begun'.from .. made'[1] : InFirst(n)'
      BY <1>7, <2>1, <3>1, Comes
    <3>3. \A j \in 1 .. Len(inbox') :
            /\ j < k => Deletion(inbox'[j])
            /\ j > k => Deletion(inbox'[j]) \/ FirstTrade(inbox'[j])
      BY <1>7, <3>1, Comes
    <3> QED  BY <3>2, <3>3 DEF ResponseComes
  <2>3. CASE ResponseCame(e)
    <3>1. \A j \in 1 .. Len(inbox') : Deletion(inbox'[j]) \/ FirstTrade(inbox'[j])
      BY <1>7, <2>3, Comes DEF ResponseCame
    <3> QED  BY <1>7, <2>3, <3>1 DEF ResponseCame
  <2> QED  BY <1>2, <2>2, <2>3
<1>8. CASE MassDelete
  <2>1. /\ inbox' = Append(inbox, DeleteAll) /\ ~cancelled'
        /\ UNCHANGED <<made, sent, subscribed, requests, replay, recoveryVars, begun, tradeRecord>>
    BY <1>1, <1>8 DEF MassDelete, gatewayKeeps, logonVars, Early
  <2>2. ResponseComes(e)' \/ ResponseCame(e)'
    BY <1>7, <2>1, Kinds DEF Deletion, recoveryVars
  <2>3. \A n \in begun'.from .. made'[1] :
          n <= e => \/ InFirst(n)'
                    \/ n \in replay'.next .. replay'.end
                    \/ \E i \in 1 .. Len(inbox') : inbox'[i] = TradeBroadcast(<<1, n>>)
    <3> SUFFICES ASSUME NEW n \in begun.from .. made[1], n <= e, ~InFirst(n),
                        ~(n \in replay.next .. replay.end)
                 PROVE  \E i \in 1 .. Len(inbox') : inbox'[i] = TradeBroadcast(<<1, n>>)
      BY <2>1 DEF InFirst
    <3>1. PICK i \in 1 .. Len(inbox) : inbox[i] = TradeBroadcast(<<1, n>>)
      BY <1>2 DEF PartComes
    <3>2. i \in 1 .. Len(inbox') /\ inbox'[i] = TradeBroadcast(<<1, n>>)
      BY <2>1, <3>1, Comes
    <3> QED  BY <3>2
  <2>4. \A i \in 1 .. Len(inbox') :
          inbox'[i] = TradeBroadcast(<<1, e>>) =>
            NothingReplayed' /\ \A j \in 1 .. Len(inbox') : j > i => Deletion(inbox'[j])
    <3>1. TradeBroadcast(<<1, e>>) # DeleteAll /\ Deletion(DeleteAll)
      BY Kinds DEF Deletion
    <3> QED  BY <1>2, <2>1, <3>1, Comes DEF PartComes, NothingReplayed
  <2>5. PartComes(e)'
    BY <1>2, <2>1, <2>3, <2>4 DEF PartComes, NothingReplayed
  <2> QED  BY <1>6, <2>1, <2>2, <2>5 DEF recoveryVars
<1>9. CASE ReplayTrade
  <2> DEFINE m == TradeBroadcast(<<1, replay.next>>)
  <2>1. replay.p = 1 /\ replay.end = e /\ replay.next <= replay.end
    BY <1>1, <1>2, <1>9 DEF ReplayTrade, PartComes, NothingReplayed
  <2>2. /\ inbox' = Append(inbox, m) /\ ~cancelled'
        /\ UNCHANGED <<made, sent, subscribed, requests, recoveryVars, begun, tradeRecord>>
        /\ replay' = [replay EXCEPT !.next = @ + 1]
    BY <1>1, <1>9, <2>1 DEF ReplayTrade, gatewayKeeps, logonVars, Early
  <2>3. replay'.p = 1 /\ replay'.end = e /\ replay'.next = replay.next + 1
    BY <2>1, <2>2 DEF FeedInv, RecoveryTypeOK
  <2>4. ResponseComes(e)' \/ ResponseCame(e)'
    <3>1. FirstTrade(m)
      BY Kinds DEF FirstTrade
    <3> QED  BY <1>7, <2>2, <3>1 DEF recoveryVars
  <2>5. \A n \in begun'.from .. made'[1] :
          n <= e => \/ InFirst(n)'
                    \/ n \in replay'.next .. replay'.end
                    \/ \E i \in 1 .. Len(inbox') : inbox'[i] = TradeBroadcast(<<1, n>>)
    <3> SUFFICES ASSUME NEW n \in begun.from .. made[1], n <= e, ~InFirst(n),
                        ~(n \in replay'.next .. replay'.end)
                 PROVE  \E i \in 1 .. Len(inbox') : inbox'[i] = TradeBroadcast(<<1, n>>)
      BY <2>2 DEF InFirst
    <3>1. n \in replay.next .. replay.end \/ \E i \in 1 .. Len(inbox) : inbox[i] = TradeBroadcast(<<1, n>>)
      BY <1>2 DEF PartComes
    <3>2. CASE n \in replay.next .. replay.end
      <4>1. n = replay.next
        BY <1>1, <2>1, <2>3, <3>2
      <4>2. inbox'[Len(inbox')] = m /\ Len(inbox') \in 1 .. Len(inbox')
        BY <2>2, Comes
      <4> QED  BY <4>1, <4>2
    <3>3. CASE \E i \in 1 .. Len(inbox) : inbox[i] = TradeBroadcast(<<1, n>>)
      <4>1. PICK i \in 1 .. Len(inbox) : inbox[i] = TradeBroadcast(<<1, n>>)
        BY <3>3
      <4>2. i \in 1 .. Len(inbox') /\ inbox'[i] = TradeBroadcast(<<1, n>>)
        BY <2>2, <4>1, Comes
      <4> QED  BY <4>2
    <3> QED  BY <3>1, <3>2, <3>3
  <2>6. ASSUME NEW i \in 1 .. Len(inbox'), inbox'[i] = TradeBroadcast(<<1, e>>)
        PROVE  NothingReplayed' /\ \A j \in 1 .. Len(inbox') : j > i => Deletion(inbox'[j])
    <3>1. \A k \in 1 .. Len(inbox) : inbox[k] # TradeBroadcast(<<1, e>>)
      BY <1>1, <1>2, <2>1 DEF PartComes, NothingReplayed
    <3>2. i = Len(inbox') /\ inbox'[i] = m
      BY <2>2, <2>6, <3>1, Comes
    <3>3. m.trade = <<1, e>> /\ m.trade = <<1, replay.next>>
      BY <2>6, <3>2, Kinds
    <3>4. replay.next = e
      BY <3>3
    <3>5. NothingReplayed'
      BY <1>1, <2>1, <2>3, <3>4 DEF NothingReplayed
    <3>6. \A j \in 1 .. Len(inbox') : ~(j > i)
      BY <2>2, <3>2, Comes
    <3> QED  BY <3>5, <3>6
  <2>7. PartComes(e)'
    BY <2>3, <2>5, <2>6 DEF PartComes
  <2> QED  BY <1>6, <2>2, <2>4, <2>7 DEF recoveryVars
\* A message that is taken from before the others.
<1>10. ASSUME NEW kind, Receive(kind), kind # "TradeBroadcast", UNCHANGED <<made, begun, replay>>
       PROVE  PartComes(e)'
  <2>1. \A n \in begun'.from .. made'[1] :
          n <= e => \/ InFirst(n)'
                    \/ n \in replay'.next .. replay'.end
                    \/ \E i \in 1 .. Len(inbox') : inbox'[i] = TradeBroadcast(<<1, n>>)
    <3> SUFFICES ASSUME NEW n \in begun.from .. made[1], n <= e, ~InFirst(n),
                        ~(n \in replay.next .. replay.end)
                 PROVE  \E i \in 1 .. Len(inbox') : inbox'[i] = TradeBroadcast(<<1, n>>)
      BY <1>1, <1>10 DEF InFirst
    <3>1. PICK i \in 1 .. Len(inbox) : inbox[i] = TradeBroadcast(<<1, n>>)
      BY <1>2 DEF PartComes
    <3>2. i # 1
      BY <1>10, <3>1, Taken, Kinds
    <3>3. i - 1 \in 1 .. Len(inbox') /\ inbox'[i - 1] = TradeBroadcast(<<1, n>>)
      BY <1>10, <3>1, <3>2, Taken
    <3> QED  BY <3>3
  <2>2. ASSUME NEW i \in 1 .. Len(inbox'), inbox'[i] = TradeBroadcast(<<1, e>>)
        PROVE  NothingReplayed' /\ \A j \in 1 .. Len(inbox') : j > i => Deletion(inbox'[j])
    <3>1. i + 1 \in 1 .. Len(inbox) /\ inbox[i + 1] = TradeBroadcast(<<1, e>>)
      BY <1>10, <2>2, Taken
    <3>2. NothingReplayed /\ \A j \in 1 .. Len(inbox) : j > i + 1 => Deletion(inbox[j])
      BY <1>2, <3>1 DEF PartComes
    <3>3. \A j \in 1 .. Len(inbox') : j > i => Deletion(inbox'[j])
      BY <1>10, <3>2, Taken
    <3> QED  BY <1>10, <3>2, <3>3 DEF NothingReplayed
  <2> QED  BY <1>2, <1>10, <2>1, <2>2 DEF PartComes, NothingReplayed
<1>11. CASE ReceiveDeleteAll
  <2>1. /\ Receive("DeleteAllOrderBroadcast") /\ ~cancelled'
        /\ UNCHANGED <<made, sent, subscribed, requests, replay, recoveryVars, begun, tradeRecord>>
    BY <1>1, <1>11 DEF ReceiveDeleteAll, exchangeKeeps, logonVars, Early
  <2>2. PartComes(e)'
    BY <1>10, <2>1
  <2>3. \A n : InFirst(n)' = InFirst(n)
    BY <2>1 DEF InFirst
  <2>4. CASE ResponseComes(e)
    <3>1. PICK k \in 1 .. Len(inbox), t \in SeqNumbers :
            /\ inbox[k] = RetransmitResponse(e, made[1], t)
            /\ t = 0 => \A n \in begun.from .. made[1] : InFirst(n)
            /\ \A j \in 1 .. Len(inbox) :
                 /\ j < k => Deletion(inbox[j])
                 /\ j > k => Deletion(inbox[j]) \/ FirstTrade(inbox[j])
      BY <2>4 DEF ResponseComes
    <3>2. k # 1
      BY <2>1, <3>1, Taken, Kinds
    <3>3. /\ k - 1 \in 1 .. Len(inbox') /\ inbox'[k - 1] = RetransmitResponse(e, made'[1], t)
          /\ t = 0 => \A n \in begun'.from .. made'[1] : InFirst(n)'
      BY <2>1, <2>3, <3>1, <3>2, Taken
    <3>4. \A j \in 1 .. Len(inbox') :
            /\ j < k - 1 => Deletion(inbox'[j])
            /\ j > k - 1 => Deletion(inbox'[j]) \/ FirstTrade(inbox'[j])
      <4> SUFFICES ASSUME NEW j \in 1 .. Len(inbox')
                   PROVE  /\ j < k - 1 => Deletion(inbox'[j])
                          /\ j > k - 1 => Deletion(inbox'[j]) \/ FirstTrade(inbox'[j])
        OBVIOUS
      <4>1. inbox'[j] = inbox[j + 1] /\ j + 1 \in 1 .. Len(inbox)
        BY <2>1, Taken
      <4>2. (j < k - 1 => j + 1 < k) /\ (j > k - 1 => j + 1 > k)
        OBVIOUS
      <4> QED  BY <3>1, <4>1, <4>2
    <3>5. ResponseComes(e)'
      BY <3>3, <3>4 DEF ResponseComes
    <3> QED  BY <1>6, <2>1, <2>2, <3>5 DEF recoveryVars
  <2>5. CASE ResponseCame(e)
    <3>1. \A j \in 1 .. Len(inbox') : Deletion(inbox'[j]) \/ FirstTrade(inbox'[j])
      BY <2>1, <2>5, Taken DEF ResponseCame
    <3>2. ResponseCame(e)'
      BY <2>1, <2>5, <3>1 DEF ResponseCame, recoveryVars
    <3> QED  BY <1>6, <2>1, <2>2, <3>2 DEF recoveryVars
  <2> QED  BY <1>2, <2>4, <2>5
<1>12. CASE ReceiveRetransmitResponse
  <2>1. /\ Receive("RetransmitResponse")
        /\ UNCHANGED <<made, sent, subscribed, replay, begun, tradeRecord>>
    BY <1>12 DEF ReceiveRetransmitResponse, exchangeKeeps, logonVars
  <2>2. \A n : InFirst(n)' = InFirst(n)
    BY <2>1 DEF InFirst
  <2>3. ~ResponseCame(e)
    BY <2>1, Taken DEF ResponseCame, Deletion, FirstTrade
  <2>4. PICK k \in 1 .. Len(inbox), t \in SeqNumbers :
          /\ inbox[k] = RetransmitResponse(e, made[1], t)
          /\ t = 0 => \A n \in begun.from .. made[1] : InFirst(n)
          /\ \A j \in 1 .. Len(inbox) :
               /\ j < k => Deletion(inbox[j])
               /\ j > k => Deletion(inbox[j]) \/ FirstTrade(inbox[j])
    BY <1>2, <2>3 DEF ResponseComes
  <2>5. k = 1
    <3>1. 1 \in 1 .. Len(inbox) /\ ~Deletion(inbox[1])
      BY <2>1, Taken DEF Deletion
    <3>2. ~(1 < k)
      BY <2>4, <3>1
    <3> QED  BY <3>2
  <2>6. Head(inbox) = RetransmitResponse(e, made[1], t)
    BY <2>1, <2>4, <2>5, Taken
  <2>7. Head(inbox).end = e /\ Head(inbox).last = made[1] /\ Head(inbox).total = t
    BY <2>6, Kinds
  <2>8. ASSUME NEW j \in 1 .. Len(inbox')
         PROVE  Deletion(inbox'[j]) \/ FirstTrade(inbox'[j])
    <3>1. inbox'[j] = inbox[j + 1] /\ j + 1 \in 1 .. Len(inbox)
      BY <2>1, Taken
    <3>2. j + 1 > k
      BY <2>5
    <3> QED  BY <2>4, <3>1, <3>2
  <2>9. /\ Head(inbox).end = e /\ Head(inbox).last = made[1] /\ Head(inbox).total = t
        /\ \A j \in 1 .. Len(inbox') : Deletion(inbox'[j]) \/ FirstTrade(inbox'[j])
    BY <2>7, <2>8
  <2>10. PartComes(e)'
    BY <1>10, <2>1
  <2>11. CASE UNCHANGED <<requests, partitionID, isSendDeleteBroadCastMsg, cancelled>>
    <3>1. endSeqNumber' = e /\ lastSeqNumber' = made'[1]
      BY <1>12, <2>1, <2>9 DEF ReceiveRetransmitResponse
    <3>2. ResponseCame(e)'
      BY <2>9, <3>1 DEF ResponseCame
    <3> QED  BY <1>1, <1>6, <2>1, <2>10, <2>11, <3>2 DEF Early
  <2>12. CASE /\ Head(inbox).total = 0 /\ requests' = sendRetransmissionTrade(1, partitionID + 1)
             /\ partitionID' = partitionID + 1
    <3>1. requests' = <<Retransmit(2, 1)>> /\ partitionID' = 2
      BY <1>1, <2>12 DEF sendRetransmissionTrade, Early
    <3>3. \A i \in 1 .. Len(requests') : requests'[i].kind = "Retransmit"
      BY <3>1, Kinds
    <3>4. \A i \in 1 .. Len(inbox') : inbox'[i].kind # "SubscribeResponse"
      BY <2>9, Kinds DEF Deletion, FirstTrade
    <3>5. \A n \in begun'.from .. made'[1] : InFirst(n)'
      BY <2>1, <2>2, <2>4, <2>9, <2>12
    <3> QED  BY <1>1, <2>1, <3>1, <3>3, <3>4, <3>5 DEF Recovered
  <2>13. partitionID # 2
    BY <1>1 DEF Early
  <2> QED  BY <1>12, <2>11, <2>12, <2>13 DEF ReceiveRetransmitResponse
<1>13. CASE ReceiveTradeBroadcast
  <2> DEFINE t == Head(inbox).trade
  <2>1. /\ Receive("TradeBroadcast") /\ NextRequest(t[1], t[2])
        /\ tradeRecord' = tradeRecord \cup {t}
        /\ UNCHANGED <<made, sent, subscribed, replay, begun, endSeqNumber, lastSeqNumber,
                       isSendDeleteBroadCastMsg, cancelled>>
    BY <1>13 DEF ReceiveTradeBroadcast, Forward, exchangeKeeps, logonVars
  <2>2. ResponseCame(e)
    <3>1. ~ResponseComes(e)
      <4> SUFFICES ASSUME ResponseComes(e)  PROVE FALSE
        OBVIOUS
      <4>1. PICK k \in 1 .. Len(inbox), u \in SeqNumbers :
              /\ inbox[k] = RetransmitResponse(e, made[1], u)
              /\ \A j \in 1 .. Len(inbox) : j < k => Deletion(inbox[j])
        BY DEF ResponseComes
      <4>2. k # 1
        BY <2>1, <4>1, Taken, Kinds
      <4>3. 1 \in 1 .. Len(inbox) /\ ~Deletion(inbox[1])
        BY <2>1, Taken DEF Deletion
      <4>4. 1 < k
        BY <4>2
      <4> QED  BY <4>1, <4>3, <4>4
    <3> QED  BY <1>2, <3>1
  <2>3. /\ t \in Trades /\ t[1] = 1 /\ t = <<1, t[2]>> /\ inbox[1] = TradeBroadcast(<<1, t[2]>>)
        /\ t[2] \in 1 .. MaxTrades
    <3>1. Head(inbox) = inbox[1] /\ inbox[1] \in Messages /\ inbox[1].kind = "TradeBroadcast"
      BY <2>1, Taken DEF Truthful
    <3>2. t \in Trades /\ inbox[1] = TradeBroadcast(t)
      BY <3>1, MessageFields, Kinds
    <3>3. t[1] = 1
      BY <2>1, <2>2, <3>1, Taken DEF ResponseCame, Deletion, FirstTrade
    <3> HIDE DEF t
    <3>4. t = <<1, t[2]>> /\ t[2] \in 1 .. MaxTrades
      BY <3>2, <3>3 DEF Trades
    <3> QED  BY <3>2, <3>3, <3>4
  <2> HIDE DEF t
  <2>4. /\ t \in tradeRecord'
        /\ \A n : InFirst(n) => InFirst(n)'
    BY <2>1 DEF InFirst
  <2>5. \A j \in 1 .. Len(inbox') : Deletion(inbox'[j]) \/ FirstTrade(inbox'[j])
    BY <2>1, <2>2, Taken DEF ResponseCame
  <2>6. ASSUME NEW n \in begun.from .. made[1], n <= e, ~InFirst(n)', n \notin replay.next .. replay.end
        PROVE  \E i \in 1 .. Len(inbox') : inbox'[i] = TradeBroadcast(<<1, n>>)
    <3>1. PICK i \in 1 .. Len(inbox) : inbox[i] = TradeBroadcast(<<1, n>>)
      BY <1>2, <2>4, <2>6 DEF PartComes
    <3>2. i # 1
      <4>1. TradeBroadcast(<<1, n>>).trade = <<1, n>> /\ TradeBroadcast(<<1, t[2]>>).trade = <<1, t[2]>>
        BY Kinds
      <4>2. <<1, n>> \notin tradeRecord'
        BY <2>6 DEF InFirst
      <4>3. <<1, n>> # t
        BY <2>4, <4>2
      <4> QED  BY <2>3, <3>1, <4>1, <4>3
    <3>3. i - 1 \in 1 .. Len(inbox') /\ inbox'[i - 1] = TradeBroadcast(<<1, n>>)
      BY <2>1, <3>1, <3>2, Taken
    <3> QED  BY <3>3
  <2>7. CASE t[2] # endSeqNumber
    <3>1. UNCHANGED <<requests, partitionID>>
      BY <2>1, <2>7 DEF NextRequest
    <3>2. ResponseCame(e)'
      BY <2>1, <2>2, <2>5 DEF ResponseCame
    <3>3. ASSUME NEW i \in 1 .. Len(inbox'), inbox'[i] = TradeBroadcast(<<1, e>>)
          PROVE  NothingReplayed' /\ \A j \in 1 .. Len(inbox') : j > i => Deletion(inbox'[j])
      <4>1. i + 1 \in 1 .. Len(inbox) /\ inbox[i + 1] = TradeBroadcast(<<1, e>>)
        BY <2>1, <3>3, Taken
      <4>2. NothingReplayed /\ \A j \in 1 .. Len(inbox) : j > i + 1 => Deletion(inbox[j])
        BY <1>2, <4>1 DEF PartComes
      <4>3. \A j \in 1 .. Len(inbox') : j > i => Deletion(inbox'[j])
        BY <2>1, <4>2, Taken
      <4> QED  BY <2>1, <4>2, <4>3 DEF NothingReplayed
    <3>4. PartComes(e)'
      BY <1>2, <2>1, <2>6, <3>3 DEF PartComes, NothingReplayed
    <3> QED  BY <1>1, <1>6, <2>1, <3>1, <3>2, <3>4 DEF Early
\* The last trade of the part: all of it has been told.
  <2>8. CASE t[2] = endSeqNumber
    <3>1. t[2] = e /\ lastSeqNumber = made[1]
      BY <2>2, <2>8 DEF ResponseCame
    <3>2. NothingReplayed /\ \A j \in 1 .. Len(inbox) : j > 1 => Deletion(inbox[j])
      BY <1>2, <2>1, <2>3, <3>1, Taken DEF PartComes
    <3>3. \A j \in 1 .. Len(inbox') : Deletion(inbox'[j])
      BY <2>1, <3>2, Taken
    <3>4. \A n \in begun.from .. made[1] : n <= e => InFirst(n)'
      <4> SUFFICES ASSUME NEW n \in begun.from .. made[1], n <= e, ~InFirst(n)'  PROVE FALSE
        OBVIOUS
      <4>1. n \notin replay.next .. replay.end
        BY <1>1, <3>2 DEF NothingReplayed
      <4>2. PICK i \in 1 .. Len(inbox') : inbox'[i] = TradeBroadcast(<<1, n>>)
        BY <2>6, <4>1
      <4>3. inbox'[i].kind = "TradeBroadcast"
        BY <4>2, Kinds
      <4> QED  BY <3>3, <4>3 DEF Deletion
    <3>5. CASE e # lastSeqNumber
      <4>1. requests' = sendRetransmissionTrade(e + 1, 1) /\ partitionID' = partitionID
        BY <2>1, <2>3, <2>8, <3>1, <3>5 DEF NextRequest
      <4>2. requests' = <<Retransmit(1, e + 1)>> /\ e + 1 \in Nat
        BY <1>1, <4>1 DEF sendRetransmissionTrade, SeqNumbers
      <4>3. \A n \in begun'.from .. made'[1] : n < e + 1 => InFirst(n)'
        BY <1>1, <2>1, <3>4 DEF SeqNumbers
      <4>4. \E f \in Nat : /\ requests' = <<Retransmit(1, f)>>
                           /\ \A n \in begun'.from .. made'[1] : n < f => InFirst(n)'
        BY <4>2, <4>3
      <4> QED  BY <1>1, <2>1, <3>2, <3>3, <4>1, <4>4 DEF Asking, Early, NothingReplayed
    <3>6. CASE e = lastSeqNumber
      <4>1. requests' = sendRetransmissionTrade(1, 2) /\ partitionID' = 2
        BY <1>1, <2>1, <2>8, <3>1, <3>6 DEF NextRequest, Early
      <4>2. requests' = <<Retransmit(2, 1)>>
        BY <1>1, <4>1 DEF sendRetransmissionTrade
      <4>4. \A i \in 1 .. Len(requests') : requests'[i].kind = "Retransmit"
        BY <4>2, Kinds
      <4>5. \A i \in 1 .. Len(inbox') : inbox'[i].kind # "SubscribeResponse"
        BY <3>3, Kinds DEF Deletion
      <4>6. \A n \in begun'.from .. made'[1] : InFirst(n)'
        BY <1>1, <2>1, <3>1, <3>4, <3>6 DEF SeqNumbers
      <4> QED  BY <1>1, <2>1, <4>1, <4>4, <4>5, <4>6 DEF Recovered
    <3> QED  BY <3>5, <3>6
  <2> QED  BY <2>7, <2>8
<1>14. ~(sent < Done)
  BY <1>1, Subs
<1> QED
  BY <1>1, <1>4, <1>5, <1>8, <1>9, <1>11, <1>12, <1>13, <1>14, QuietSteps DEF Exchange, Handler

\* The connection is off: nothing is asked for and nothing comes.
LEMMA OfflineStep ==
  ASSUME FeedInv, StagesInv, Next, ~isLoggedOn'
  PROVE  /\ subscribed' = {} /\ requests' = <<>> /\ inbox' = <<>> /\ NothingReplayed'
         /\ ~cancelled'
<1>1. Idle.next > Idle.end
  BY DEF Idle
<1>2. CASE Disconnect \/ Restart
  BY <1>1, <1>2 DEF Disconnect, Restart, LoseConnection, NothingReplayed
<1>3. CASE ~Disconnect /\ ~Restart
  <2>1. \/ \E p \in Partitions : MakeTrade(p)
        \/ MassDelete \/ Exchange \/ LogOn \/ Order \/ Handler
    BY <1>3 DEF Next
  <2>2. ~LogOn /\ ~Order /\ ~Handler
    <3>1. ~UserLoginResponse
      BY DEF UserLoginResponse
    <3>2. ~SendSubscription /\ ~ReadNumber /\ ~WriteNumber
      BY DEF SendSubscription, ReadNumber, WriteNumber, subscribing, subscribingKeeps
    <3>3. ~Handler
      BY DEF Handler, ReceiveSubscribeResponse, ReceiveOrderExec, ReceiveTradeBroadcast,
         ReceiveRetransmitResponse, ReceiveDeleteAll, Receive, logonVars
    <3> QED  BY <3>1, <3>2, <3>3 DEF LogOn, Order
  <2>3. ~isLoggedOn
    BY <2>1, <2>2 DEF MakeTrade, MassDelete, Exchange, AcceptSubscription, AnswerRequest,
       ReplayTrade, gatewayKeeps, logonVars
  <2>4. subscribed = {} /\ requests = <<>> /\ inbox = <<>> /\ NothingReplayed /\ ~cancelled
    BY <2>3 DEF StagesInv
  <2>5. replay.next > replay.end /\ replay.next \in Int /\ replay.end \in Int
    BY <2>4, RecoveryAssumption DEF NothingReplayed, FeedInv, RecoveryTypeOK, SeqNumbers
  <2>6. ~MassDelete /\ ~Exchange
    <3>1. /\ AcceptSubscription => requests # <<>>
          /\ AnswerRequest => requests # <<>>
          /\ ReplayTrade => replay.next <= replay.end
          /\ MassDelete => 5 \in subscribed
      BY DEF AcceptSubscription, AnswerRequest, ReplayTrade, MassDelete
    <3> QED  BY <2>4, <2>5, <3>1 DEF Exchange
  <2>7. PICK p \in Partitions : MakeTrade(p)
    BY <2>1, <2>2, <2>6
  <2> QED  BY <2>4, <2>7 DEF MakeTrade, NothingReplayed, gatewayKeeps, logonVars
<1> QED  BY <1>2, <1>3

\* A session begins with the subscription.
LEMMA LogsOn ==
  ASSUME FeedInv, StagesInv, Next, ~isLoggedOn, isLoggedOn'
  PROVE  Subscribing'
<1>1. subscribed = {} /\ requests = <<>> /\ inbox = <<>> /\ NothingReplayed /\ ~cancelled
  BY DEF StagesInv
<1>2. UserLoginResponse
  BY DEF Next, LogOn, SendSubscription, Order, ReadNumber, WriteNumber, subscribing, MakeTrade, MassDelete, Exchange, AcceptSubscription, AnswerRequest, ReplayTrade,
     Handler, ReceiveSubscribeResponse, ReceiveOrderExec, ReceiveTradeBroadcast, ReceiveRetransmitResponse,
     ReceiveDeleteAll, Receive, Disconnect, Restart, LoseConnection, gatewayKeeps, logonVars
<1>3. /\ UNCHANGED <<subscribed, requests, replay, inbox, cancelled>>
      /\ ~isSendDeleteBroadCastMsg' /\ partitionID' = 1
      /\ sent' = 0 /\ seqNu' = UserLoginNumber
  BY <1>2 DEF UserLoginResponse, exchangeVars
<1>4. seqNu' = UserLoginNumber + sent'
  BY <1>3 DEF UserLoginNumber
<1> QED  BY <1>1, <1>3, <1>4 DEF Subscribing, Early, NothingReplayed

LEMMA StagesStutter == StagesInv /\ UNCHANGED vars => StagesInv'
<1> SUFFICES ASSUME StagesInv, UNCHANGED vars  PROVE StagesInv'
  OBVIOUS
<1>1. /\ UNCHANGED <<made, sent, seqNu, orderly, subscribed, requests, replay, inbox, isLoggedOn>>
      /\ UNCHANGED <<partitionID, endSeqNumber, lastSeqNumber, isSendDeleteBroadCastMsg>>
      /\ UNCHANGED <<tradeRecord, begun, quiet, cancelled>>
  BY DEF vars, exchangeVars, logonVars, recoveryVars, historyVars
<1>2. /\ Subscribing' = Subscribing /\ Accepting' = Accepting /\ Answering' = Answering
  BY <1>1 DEF Subscribing, Accepting, Answering, Early, NothingReplayed, Idles, Sub
<1>3. /\ Asking' = Asking /\ Receiving' = Receiving /\ Recovered' = Recovered
  BY <1>1 DEF Asking, Receiving, Recovered, Early, NothingReplayed, InFirst,
     PartComes, ResponseComes, ResponseCame
<1> QED  BY <1>1, <1>2, <1>3 DEF StagesInv, NothingReplayed, Stage

LEMMA StagesStep == FeedInv /\ StagesInv /\ [Next]_vars => StagesInv'
<1>1. ASSUME FeedInv, StagesInv, Next
      PROVE  StagesInv'
  <2>1. CASE ~isLoggedOn'
    BY <1>1, <2>1, OfflineStep DEF StagesInv
  <2>2. CASE isLoggedOn' /\ ~isLoggedOn
    BY <1>1, <2>2, LogsOn DEF StagesInv, Stage
  <2>3. CASE isLoggedOn' /\ isLoggedOn /\ quiet' /\ orderly'
    <3>1. Stage
      BY <1>1, <2>3, QuietSteps DEF StagesInv
    <3>2. Stage'
      BY <1>1, <2>3, <3>1, SubscribingStep, AcceptingStep, AnsweringStep, AskingStep, ReceivingStep,
         RecoveredStep DEF Stage
    <3> QED  BY <2>3, <3>2 DEF StagesInv
  <2>4. CASE isLoggedOn' /\ (~quiet' \/ ~orderly')
    BY <2>4 DEF StagesInv
  <2> QED  BY <2>1, <2>2, <2>3, <2>4
<1> QED  BY <1>1, StagesStutter

\* What the stages say of a deletion that was told.
LEMMA StagesSuffice == FeedInv /\ StagesInv => Partition1BeforeDeletion
<1> SUFFICES ASSUME FeedInv, StagesInv, cancelled, quiet, orderly,
                    NEW n \in 1 .. made[1], begun.from <= n
             PROVE  told[<<1, n>>] > 0
  BY DEF Partition1BeforeDeletion
<1>1. Recovered
  BY DEF StagesInv, Stage, Subscribing, Accepting, Answering, Asking, Receiving, Early
<1>2. made[1] \in SeqNumbers /\ begun.from \in Nat
  BY RecoveryAssumption DEF FeedInv, RecoveryTypeOK, SeqNumbers, Partitions
<1>3. n \in begun.from .. made[1] /\ n \in 1 .. MaxTrades
  BY <1>2, RecoveryAssumption DEF SeqNumbers
<1>4. <<1, n>> \in tradeRecord /\ <<1, n>> \in Trades
  BY <1>1, <1>3 DEF Recovered, InFirst, Trades, Partitions
<1> QED  BY <1>4 DEF FeedInv

\* For any number of trades, any length of a part, any margin and any contents
\* of the uninitialised numbers: when the OMS is told that its orders are
\* deleted it has been told of every trade of partition 1 from the number
\* recovery began with, unless a trade was made meanwhile or an order took a
\* number between the subscriptions
\* (onMessage(RetransmitResponseT*), onMessage(TradeBroadcastT*)).
THEOREM Partition1First == Spec => []Partition1BeforeDeletion
<1>1. Init => FeedInv /\ StagesInv
  <2>1. Init => FeedInv
    BY InitFeed
  <2>2. Init => StagesInv
    BY DEF Init, StagesInv, NothingReplayed, Idle
  <2> QED  BY <2>1, <2>2
<1>2. FeedInv /\ StagesInv /\ [Next]_vars => FeedInv' /\ StagesInv'
  BY FeedStep, StagesStep
<1>3. Spec => [](FeedInv /\ StagesInv)
  BY <1>1, <1>2, PTL DEF Spec
<1> QED  BY <1>3, StagesSuffice, PTL
=============================================================================
