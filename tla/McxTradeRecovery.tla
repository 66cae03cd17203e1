-------------------------- MODULE McxTradeRecovery --------------------------
(***************************************************************************)
(* How the MCX gateway learns of the trades it missed.                     *)
(*                                                                         *)
(* The exchange numbers the trades of each of its two partitions.  While   *)
(* the gateway is subscribed it is sent every trade as it is made, twice:  *)
(* as an execution and as a numbered broadcast.  After a logon the gateway *)
(* subscribes three times.  When the subscription with message number 5 is *)
(* answered it asks for the trades of partition 1 again, from a number it  *)
(* kept in a file, then for those of partition 2; the exchange answers a   *)
(* request with a response and a part of the trades, and the trade with    *)
(* the last number of a part makes the gateway ask for the next.  Trades   *)
(* replayed and trades live come on the same connection, one among the     *)
(* other.                                                                  *)
(*                                                                         *)
(* A trade goes to the OMS unless tradeRecord holds it.  A mass deletion   *)
(* of orders that the exchange broadcasts is dropped until the gateway     *)
(* takes recovery to be complete; then it tells the OMS of one by itself,  *)
(* and forwards those that follow.                                         *)
(*                                                                         *)
(* The exchange is known from how Exchange_Processor.cpp uses it.  The     *)
(* messages before the answer to the user login are one step.              *)
(***************************************************************************)
EXTENDS Integers, Sequences, SequencesExt

CONSTANTS
  Part,         \* trades the exchange replays for one request
  Garbage,      \* what an uninitialised number may hold
  Rewind,       \* how far before the number in the file recovery starts (100)
  MaxTrades,    \* bound: trades of a partition
  MaxMade,      \* bound: trades of both
  MaxSessions   \* bound: sessions, the last of which does not break

ASSUME RecoveryAssumption ==
  /\ Part \in Nat \ {0}
  /\ Rewind \in Nat
  /\ MaxTrades \in Nat \ {0}
  /\ MaxMade \in Nat
  /\ Garbage \subseteq 0 .. MaxTrades
  /\ MaxSessions \in Nat \ {0}

Partitions == {1, 2}
SeqNumbers == 0 .. MaxTrades
Trades     == Partitions \X (1 .. MaxTrades)   \* a trade is its partition and number

UserLoginNumber == 2                    \* after logon and user login
StartNumber     == 5                    \* the message whose answer starts recovery
Numbers         == 0 .. StartNumber + 1 \* the last stands for every greater number
Following(n)    == IF n > StartNumber THEN n ELSE n + 1

RefApplID == <<1, 2, 5>>                \* what the gateway subscribes to: 1 is trades
Done      == Len(RefApplID)
NoOrder   == -1

VARIABLES
  made,          \* trades of each partition
  subscribed,    \* the subscriptions the exchange has accepted
  requests,      \* requests on their way to the exchange
  replay,        \* the part the exchange is sending: partition, next number, last number
  inbox,         \* messages of the exchange not yet handled
  isLoggedOn,
  sent,          \* subscriptions sent in this session
  seqNu,         \* _seqNu, until the last subscription has taken its number
  order,         \* the number the OMS thread has read for an order and not yet written
  orderly,       \* history: no order took a number between the subscriptions
  partitionID, endSeqNumber, lastSeqNumber, isSendDeleteBroadCastMsg,
  tradeRecord,
  ApllSeq,
  saved,         \* the numbers the file may hold, the queue before it being a thread's
  sessions,      \* history: sessions begun
  told,          \* history: how often this process forwarded each trade
  begun,         \* history: the request recovery started with in this session
  quiet,         \* history: no trade was made since the session was subscribed to
  cancelled      \* history: the OMS was told of a mass deletion in this session

exchangeVars == <<made, subscribed, requests, replay, inbox>>
recoveryVars == <<partitionID, endSeqNumber, lastSeqNumber, isSendDeleteBroadCastMsg>>
fileVars     == <<ApllSeq, saved>>
logonVars    == <<isLoggedOn, sent, seqNu, order, orderly>>
historyVars  == <<sessions, told, begun, quiet, cancelled>>
vars         == <<exchangeVars, logonVars, recoveryVars, tradeRecord, fileVars, historyVars>>

\* Of the number of a subscription it matters whether it is StartNumber.
Subscribe(a, n)  ==
  [kind |-> "Subscribe", appl |-> a, number |-> IF n = StartNumber THEN n ELSE 0]
Retransmit(p, n) == [kind |-> "Retransmit", p |-> p, from |-> n]
NotBegun         == Retransmit(0, 0)
Idle             == [p |-> 0, next |-> 1, end |-> 0]

Requests == {Subscribe(a, n) : a \in Range(RefApplID), n \in Numbers}
              \cup {Retransmit(p, n) : p \in Partitions, n \in 1 .. MaxTrades + 1}

SubscribeResponse(n)      == [kind |-> "SubscribeResponse", number |-> n]
RetransmitResponse(e, l, t) == [kind |-> "RetransmitResponse", end |-> e, last |-> l, total |-> t]
TradeBroadcast(t)         == [kind |-> "TradeBroadcast", trade |-> t]
OrderExec(t)              == [kind |-> "OrderExec", trade |-> t]
DeleteAll                 == [kind |-> "DeleteAllOrderBroadcast"]

Messages ==
  {DeleteAll} \cup {SubscribeResponse(n) : n \in Numbers}
    \cup {RetransmitResponse(e, l, t) : e \in SeqNumbers, l \in SeqNumbers, t \in SeqNumbers}
    \cup {TradeBroadcast(t) : t \in Trades} \cup {OrderExec(t) : t \in Trades}

\* A new Exchange_Processor.  isLoggedOn, endSeqNumber and lastSeqNumber are
\* not initialised; the first is written before the others are read.
NewProcess ==
  /\ partitionID' = 1 /\ isSendDeleteBroadCastMsg' = FALSE
  /\ endSeqNumber' \in Garbage /\ lastSeqNumber' \in Garbage
  /\ tradeRecord' = {} /\ told' = [t \in Trades |-> 0]

\* ReadFileForApllSeq takes the number in the file, and when the file is of
\* an earlier day writes 0 to the file but keeps the number.
Init ==
  /\ made = [p \in Partitions |-> 0]
  /\ subscribed = {} /\ requests = <<>> /\ replay = Idle /\ inbox = <<>>
  /\ isLoggedOn = FALSE /\ sent = 0 /\ seqNu = 0 /\ order = NoOrder /\ orderly = TRUE
  /\ partitionID = 1 /\ isSendDeleteBroadCastMsg = FALSE
  /\ endSeqNumber \in Garbage /\ lastSeqNumber \in Garbage
  /\ tradeRecord = {} /\ told = [t \in Trades |-> 0]
  /\ ApllSeq \in SeqNumbers /\ saved = {0, ApllSeq}
  /\ sessions = 0 /\ begun = NotBegun /\ quiet = TRUE /\ cancelled = FALSE
-----------------------------------------------------------------------------
(* The exchange.                                                           *)

gatewayKeeps == <<logonVars, recoveryVars, tradeRecord, fileVars, sessions, told, begun,
                  cancelled>>

\* Bound: in a session with an order between the subscriptions one trade less.
MakeTrade(p) ==
  /\ made[p] < MaxTrades
  /\ made[1] + made[2] < IF orderly THEN MaxMade ELSE MaxMade - 1
  /\ made' = [made EXCEPT ![p] = @ + 1]
  /\ LET t == <<p, made[p] + 1>> IN
       IF 1 \in subscribed
       THEN /\ inbox' \in {inbox \o <<OrderExec(t), TradeBroadcast(t)>>,
                           inbox \o <<TradeBroadcast(t), OrderExec(t)>>}
            /\ quiet' = FALSE
       ELSE UNCHANGED <<inbox, quiet>>
  /\ UNCHANGED <<subscribed, requests, replay, gatewayKeeps>>

\* Bound: in the last session.  Of a deletion nothing outlives a session.
MassDelete ==
  /\ sessions = MaxSessions
  /\ 5 \in subscribed /\ DeleteAll \notin Range(inbox) /\ ~cancelled
  /\ inbox' = Append(inbox, DeleteAll)
  /\ UNCHANGED <<made, subscribed, requests, replay, quiet, gatewayKeeps>>

\* From the first subscription on the exchange may send trades.  The gateway
\* reads nothing before it has sent the third, so none is accepted before.
AcceptSubscription ==
  /\ sent = Done /\ requests # <<>> /\ Head(requests).kind = "Subscribe"
  /\ requests' = Tail(requests)
  /\ subscribed' = subscribed \cup {Head(requests).appl}
  /\ inbox' = Append(inbox, SubscribeResponse(Head(requests).number))
  /\ UNCHANGED <<made, replay, quiet, gatewayKeeps>>

\* The response to a request names the last number of the part that follows
\* and the last number there is.  When nothing follows the two are the same:
\* the code tests for that, and goes on to partition 2 only then.
AnswerRequest ==
  /\ requests # <<>> /\ Head(requests).kind = "Retransmit"
  /\ replay.next > replay.end
  /\ requests' = Tail(requests)
  /\ LET r    == Head(requests)
         last == made[r.p]
         stop == IF r.from + Part - 1 < last THEN r.from + Part - 1 ELSE last
     IN  IF r.from <= last
         THEN /\ inbox' = Append(inbox, RetransmitResponse(stop, last, stop - r.from + 1))
              /\ replay' = [p |-> r.p, next |-> r.from, end |-> stop]
         ELSE /\ inbox' = Append(inbox, RetransmitResponse(last, last, 0))
              /\ replay' = Idle
  /\ UNCHANGED <<made, subscribed, quiet, gatewayKeeps>>

ReplayTrade ==
  /\ replay.next <= replay.end
  /\ inbox' = Append(inbox, TradeBroadcast(<<replay.p, replay.next>>))
  /\ replay' = [replay EXCEPT !.next = @ + 1]
  /\ UNCHANGED <<made, subscribed, requests, quiet, gatewayKeeps>>
-----------------------------------------------------------------------------
(* The gateway: login and subscriptions.                                   *)
(*                                                                         *)
(* The exchange thread and the OMS thread number their messages with one   *)
(* counter, without a lock, and orders are taken from the moment           *)
(* isLoggedOn is set.  An order reads the counter and writes it in two     *)
(* steps.  A subscription takes its number in one: where its increment     *)
(* overwrites an order's, the order might as well have come before and     *)
(* have been overwritten.                                                  *)

\* Mutant of UserLoginResponse: a second session goes on from the first's number.
UserLoginResponseLate ==
  /\ ~isLoggedOn /\ sessions < MaxSessions
  /\ isLoggedOn' = TRUE /\ sent' = 0 /\ orderly' = TRUE
  /\ seqNu' = IF sessions = 0 THEN UserLoginNumber ELSE StartNumber
  /\ isSendDeleteBroadCastMsg' = FALSE /\ partitionID' = 1
  /\ sessions' = sessions + 1
  /\ UNCHANGED <<exchangeVars, order, endSeqNumber, lastSeqNumber, tradeRecord, fileVars, told,
                 begun, quiet, cancelled>>

\* onMessage(UserLoginResponseT*), up to the subscriptions.  sendLogonRequest
\* has reset the counter, and logon and user login have taken a number each.
UserLoginResponse ==
  /\ ~isLoggedOn /\ sessions < MaxSessions
  /\ isLoggedOn' = TRUE /\ sent' = 0 /\ seqNu' = UserLoginNumber /\ orderly' = TRUE
  /\ isSendDeleteBroadCastMsg' = FALSE /\ partitionID' = 1
  /\ sessions' = sessions + 1
  /\ UNCHANGED <<exchangeVars, order, endSeqNumber, lastSeqNumber, tradeRecord, fileVars, told,
                 begun, quiet, cancelled>>

subscribing == isLoggedOn /\ sent < Done
subscribingKeeps == <<made, subscribed, replay, inbox, isLoggedOn, recoveryVars, tradeRecord,
                      fileVars, historyVars>>

\* onMessage(UserLoginResponseT*), sendSubscriptionRequest.  After the last the
\* numbers are no longer followed: no later one is compared with anything.
SendSubscription ==
  /\ subscribing
  /\ sent' = sent + 1
  /\ requests' = Append(requests, Subscribe(RefApplID[sent'], Following(seqNu)))
  /\ IF sent' < Done THEN seqNu' = Following(seqNu) /\ UNCHANGED order
                     ELSE seqNu' = 0 /\ order' = NoOrder
  /\ UNCHANGED <<orderly, subscribingKeeps>>

\* sendNewOrder, sendModifyOrder, sendCancelOrder: the number is read ...
\* Bound: in the first session.
ReadNumber ==
  /\ subscribing /\ sessions = 1 /\ order = NoOrder
  /\ order' = Following(seqNu)
  /\ UNCHANGED <<sent, seqNu, requests, orderly, subscribingKeeps>>

\* ... and written.
WriteNumber ==
  /\ subscribing /\ order # NoOrder
  /\ seqNu' = order /\ order' = NoOrder /\ orderly' = FALSE
  /\ UNCHANGED <<sent, requests, subscribingKeeps>>
-----------------------------------------------------------------------------
(* The gateway: what its exchange thread receives.                         *)

exchangeKeeps == <<made, subscribed, replay>>

Receive(kind) ==
  /\ isLoggedOn /\ sent = Done /\ inbox # <<>> /\ Head(inbox).kind = kind
  /\ inbox' = Tail(inbox)

sendRetransmissionTrade(start_seq, pID) ==
  Append(requests, Retransmit(pID, IF start_seq = 0 THEN 1 ELSE start_seq))

\* Mutant of StartRecovery: the margin is taken off without a test.
StartRecoveryUntested ==
  /\ ApllSeq' = ApllSeq - Rewind
  /\ requests' = sendRetransmissionTrade(ApllSeq', partitionID)
  /\ begun' = Retransmit(partitionID, ApllSeq')

\* sendRetransmittOrderEvent.  A live trade may have moved partitionID.
StartRecovery ==
  /\ ApllSeq' = IF ApllSeq > Rewind THEN ApllSeq - Rewind ELSE 1
  /\ requests' = sendRetransmissionTrade(ApllSeq', partitionID)
  /\ begun' = Retransmit(partitionID, ApllSeq')

\* onMessage(SubscribeResponseT*).
ReceiveSubscribeResponse ==
  /\ Receive("SubscribeResponse")
  /\ \/ Head(inbox).number = StartNumber /\ StartRecovery
     \/ Head(inbox).number # StartNumber /\ UNCHANGED <<ApllSeq, requests, begun>>
  /\ UNCHANGED <<exchangeKeeps, logonVars, recoveryVars, tradeRecord, saved, sessions, told,
                 quiet, cancelled>>

\* Mutant of Forward: a trade of an order that has none yet is not recorded.
ForwardUnrecorded(t) ==
  /\ UNCHANGED tradeRecord
  /\ told' = IF t \in tradeRecord THEN told ELSE [told EXCEPT ![t] = @ + 1]

\* TradeHandler::IsEligibleToSend, and what its callers do with the answer.
Forward(t) ==
  /\ tradeRecord' = tradeRecord \cup {t}
  /\ told' = IF t \in tradeRecord THEN told ELSE [told EXCEPT ![t] = @ + 1]

\* onMessage(OrderExecNotificationT*), onMessage(OrderExecResponseT*).
ReceiveOrderExec ==
  /\ Receive("OrderExec")
  /\ Forward(Head(inbox).trade)
  /\ UNCHANGED <<exchangeKeeps, requests, logonVars, recoveryVars, fileVars, sessions, begun,
                 quiet, cancelled>>

\* Mutant of NextRequest: the end of a part is taken for the end of the partition.
NextRequestAnyEnd(p, n) ==
  IF n = endSeqNumber /\ partitionID < 2
  THEN /\ requests' = sendRetransmissionTrade(1, partitionID + 1)
       /\ partitionID' = partitionID + 1
  ELSE UNCHANGED <<requests, partitionID>>

\* What the trade with number n of partition p makes the gateway ask for.
NextRequest(p, n) ==
  IF n # endSeqNumber THEN UNCHANGED <<requests, partitionID>>
  ELSE \/ /\ n # lastSeqNumber
          /\ requests' = sendRetransmissionTrade(n + 1, p)
          /\ UNCHANGED partitionID
       \/ /\ n = lastSeqNumber /\ partitionID < 2
          /\ requests' = sendRetransmissionTrade(1, partitionID + 1)
          /\ partitionID' = partitionID + 1
       \/ /\ n = lastSeqNumber /\ partitionID >= 2
          /\ UNCHANGED <<requests, partitionID>>

\* onMessage(TradeBroadcastT*).  A write to the file truncates it first.
ReceiveTradeBroadcast ==
  /\ Receive("TradeBroadcast")
  /\ LET t == Head(inbox).trade IN
       /\ Forward(t)
       /\ saved' = saved \cup {0, t[2]}
       /\ NextRequest(t[1], t[2])
  /\ UNCHANGED <<exchangeKeeps, logonVars, endSeqNumber, lastSeqNumber,
                 isSendDeleteBroadCastMsg, ApllSeq, sessions, begun, quiet, cancelled>>

\* Mutant of ReceiveRetransmitResponse: the partition is not tested.
ResponseAnyPartition ==
  /\ Receive("RetransmitResponse")
  /\ LET m == Head(inbox) IN
       /\ endSeqNumber' = m.end /\ lastSeqNumber' = m.last
       /\ IF m.end = m.last /\ ~isSendDeleteBroadCastMsg
          THEN /\ isSendDeleteBroadCastMsg' = TRUE /\ cancelled' = TRUE
               /\ UNCHANGED <<requests, partitionID>>
          ELSE IF m.total = 0 /\ m.end = m.last /\ partitionID < 2
          THEN /\ requests' = sendRetransmissionTrade(1, partitionID + 1)
               /\ partitionID' = partitionID + 1
               /\ UNCHANGED <<isSendDeleteBroadCastMsg, cancelled>>
          ELSE UNCHANGED <<requests, partitionID, isSendDeleteBroadCastMsg, cancelled>>
  /\ UNCHANGED <<exchangeKeeps, logonVars, tradeRecord, fileVars, sessions, told, begun, quiet>>

\* Mutant of ReceiveRetransmitResponse: the OMS is told of no deletion.
ResponseSilent ==
  /\ Receive("RetransmitResponse")
  /\ LET m == Head(inbox) IN
       /\ endSeqNumber' = m.end /\ lastSeqNumber' = m.last
       /\ IF m.end = m.last /\ partitionID = 2 /\ ~isSendDeleteBroadCastMsg
          THEN /\ isSendDeleteBroadCastMsg' = TRUE /\ cancelled' = cancelled
               /\ UNCHANGED <<requests, partitionID>>
          ELSE IF m.total = 0 /\ m.end = m.last /\ partitionID < 2
          THEN /\ requests' = sendRetransmissionTrade(1, partitionID + 1)
               /\ partitionID' = partitionID + 1
               /\ UNCHANGED <<isSendDeleteBroadCastMsg, cancelled>>
          ELSE UNCHANGED <<requests, partitionID, isSendDeleteBroadCastMsg, cancelled>>
  /\ UNCHANGED <<exchangeKeeps, logonVars, tradeRecord, fileVars, sessions, told, begun, quiet>>

\* Mutant of ReceiveRetransmitResponse: an empty partition 1 ends recovery.
ResponseEmptyIgnored ==
  /\ Receive("RetransmitResponse")
  /\ LET m == Head(inbox) IN
       /\ endSeqNumber' = m.end /\ lastSeqNumber' = m.last
       /\ IF m.end = m.last /\ partitionID = 2 /\ ~isSendDeleteBroadCastMsg
          THEN /\ isSendDeleteBroadCastMsg' = TRUE /\ cancelled' = TRUE
               /\ UNCHANGED <<requests, partitionID>>
          ELSE IF FALSE
          THEN /\ requests' = sendRetransmissionTrade(1, partitionID + 1)
               /\ partitionID' = partitionID + 1
               /\ UNCHANGED <<isSendDeleteBroadCastMsg, cancelled>>
          ELSE UNCHANGED <<requests, partitionID, isSendDeleteBroadCastMsg, cancelled>>
  /\ UNCHANGED <<exchangeKeeps, logonVars, tradeRecord, fileVars, sessions, told, begun, quiet>>

\* onMessage(RetransmitResponseT*), with sendDeleteAllBroadcastMsg.
ReceiveRetransmitResponse ==
  /\ Receive("RetransmitResponse")
  /\ LET m == Head(inbox) IN
       /\ endSeqNumber' = m.end /\ lastSeqNumber' = m.last
       /\ \/ /\ m.end = m.last /\ partitionID = 2 /\ ~isSendDeleteBroadCastMsg
             /\ isSendDeleteBroadCastMsg' = TRUE /\ cancelled' = TRUE
             /\ UNCHANGED <<requests, partitionID>>
          \/ /\ m.total = 0 /\ m.end = m.last /\ partitionID < 2
             /\ requests' = sendRetransmissionTrade(1, partitionID + 1)
             /\ partitionID' = partitionID + 1
             /\ UNCHANGED <<isSendDeleteBroadCastMsg, cancelled>>
          \/ /\ ~(m.end = m.last /\ partitionID = 2 /\ ~isSendDeleteBroadCastMsg)
             /\ ~(m.total = 0 /\ m.end = m.last /\ partitionID < 2)
             /\ UNCHANGED <<requests, partitionID, isSendDeleteBroadCastMsg, cancelled>>
  /\ UNCHANGED <<exchangeKeeps, logonVars, tradeRecord, fileVars, sessions, told, begun, quiet>>

\* onMessage(DeleteAllOrderBroadcastT*).
ReceiveDeleteAll ==
  /\ Receive("DeleteAllOrderBroadcast")
  /\ cancelled' = (cancelled \/ isSendDeleteBroadCastMsg)
  /\ UNCHANGED <<exchangeKeeps, requests, logonVars, recoveryVars, tradeRecord, fileVars,
                 sessions, told, begun, quiet>>
-----------------------------------------------------------------------------
(* Failures.                                                               *)

\* What was on its way is lost.
LoseConnection ==
  /\ isLoggedOn /\ sessions < MaxSessions
  /\ isLoggedOn' = FALSE
  /\ sent' = 0 /\ seqNu' = 0 /\ order' = NoOrder /\ orderly' = TRUE
  /\ subscribed' = {} /\ requests' = <<>> /\ replay' = Idle /\ inbox' = <<>>
  /\ begun' = NotBegun /\ quiet' = TRUE /\ cancelled' = FALSE
  /\ UNCHANGED <<made, sessions>>

\* startExchangeConnection after the receive loop, so after the handler of the
\* user login, even if what that sent is lost.
Disconnect ==
  /\ LoseConnection /\ sent = Done
  /\ UNCHANGED <<recoveryVars, tradeRecord, fileVars, told>>

\* The process ends and another is started on the file it left.
Restart ==
  /\ LoseConnection
  /\ NewProcess
  /\ ApllSeq' \in saved /\ saved' = {ApllSeq'}
-----------------------------------------------------------------------------
Exchange == AcceptSubscription \/ AnswerRequest \/ ReplayTrade
LogOn    == UserLoginResponse \/ SendSubscription
Order    == ReadNumber \/ WriteNumber
Handler  == \/ ReceiveSubscribeResponse \/ ReceiveOrderExec \/ ReceiveTradeBroadcast
            \/ ReceiveRetransmitResponse \/ ReceiveDeleteAll

Next ==
  \/ \E p \in Partitions : MakeTrade(p)
  \/ MassDelete \/ Exchange
  \/ LogOn \/ Order \/ Handler
  \/ Disconnect \/ Restart

Spec == Init /\ [][Next]_vars

\* The gateway logs on again and handles what it receives, and the exchange
\* answers.  No trade or order need be made and no connection break.
FairSpec == Spec /\ WF_vars(Exchange) /\ WF_vars(Handler) /\ WF_vars(LogOn)
-----------------------------------------------------------------------------
\* The state of the gateway and of its connection is well typed.
RecoveryTypeOK ==
  /\ made \in [Partitions -> SeqNumbers]
  /\ {isLoggedOn, isSendDeleteBroadCastMsg, quiet, orderly, cancelled} \subseteq BOOLEAN
  /\ subscribed \subseteq Range(RefApplID)
  /\ requests \in Seq(Requests)
  /\ replay \in [p : 0 .. 2, next : 1 .. MaxTrades + 1, end : SeqNumbers]
  /\ inbox \in Seq(Messages)
  /\ sent \in 0 .. Done
  /\ seqNu \in Numbers /\ order \in {NoOrder} \cup Numbers
  /\ partitionID \in Partitions
  /\ {endSeqNumber, lastSeqNumber, ApllSeq} \subseteq SeqNumbers
  /\ begun \in [kind : {"Retransmit"}, p : 0 .. 2, from : SeqNumbers]
  /\ saved \subseteq SeqNumbers
  /\ tradeRecord \subseteq Trades
  /\ told \in [Trades -> Nat]
  /\ sessions \in 0 .. MaxSessions

\* To the OMS the gateway is a feed that tells of a trade after it was made,
\* and tells of it once however often and in whatever order the exchange sent
\* it (execution, broadcast, replay), across sessions; only a new process
\* tells of it again.
Feed == INSTANCE TradeFeed
ImplementsTradeFeed == Feed!Spec

\* Recovery starts, on the answer to the third subscription, in every session
\* in which no order took a number between the subscriptions: no number of the
\* session before is left in the counter (sendLogonRequest).
RecoveryStarts == sent = Done /\ orderly ~> begun # NotBegun \/ ~isLoggedOn

\* In such a session, if it lasts, the OMS hears of every trade: those of
\* partition 2, and those of partition 1 from the number recovery started at,
\* whether they were made before the session, during recovery or after it
\* (onMessage(TradeBroadcastT*) and onMessage(RetransmitResponseT*) chain the
\* requests).  A live trade before the answer to the third subscription may
\* make recovery start with partition 2, and then no trade of partition 1 made
\* before the session is owed.
Owed(t) ==
  /\ sessions = MaxSessions /\ sent = Done /\ orderly
  /\ t[2] <= made[t[1]]
  /\ t[1] = 2 \/ \E n \in 1 .. t[2] : begun = Retransmit(1, n)
EveryTradeTold == \A t \in Trades : Owed(t) ~> told[t] > 0

\* Recovery that began ends, with its verdict or with the connection: the
\* chain of requests does not break, whatever trades come between and however
\* the subscriptions were numbered.
RecoveryEnds == begun # NotBegun ~> isSendDeleteBroadCastMsg \/ ~isLoggedOn

\* A mass deletion the exchange sent before recovery was complete is dropped
\* (onMessage(DeleteAllOrderBroadcastT*)), but the OMS hears of one in the end,
\* if no order took a number between the subscriptions.
DeletionTold == DeleteAll \in Range(inbox) /\ orderly ~> cancelled \/ ~isLoggedOn

\* The comment at Exchange_Processor.cpp:195 has deletions held back until the
\* first recovery is complete, and one sent then: in any session.
EveryDeletionTold == DeleteAll \in Range(inbox) ~> cancelled \/ ~isLoggedOn

\* When the OMS is told that its orders are deleted it has the trades of
\* partition 1 that recovery was to bring, if none was made meanwhile (a live
\* trade whose number is the end of a part asks for the next part too early)
\* and no order took a number between the subscriptions (two of them may then
\* have number 5, and recovery starts twice).
Partition1BeforeDeletion ==
  cancelled /\ quiet /\ orderly =>
    \A n \in 1 .. made[1] : begun.from <= n => told[<<1, n>>] > 0

\* The log at Exchange_Processor.cpp:514, written when the OMS is told of the
\* deletion, has recovery completed in both partitions.
RecoveredBeforeDeletion ==
  cancelled /\ quiet /\ orderly =>
    \A t \in Trades : t[2] <= made[t[1]] /\ (t[1] = 2 \/ begun.from <= t[2]) => told[t] > 0
=============================================================================
