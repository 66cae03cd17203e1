----------------------- MODULE NseOrderGatewayProofs -----------------------
(***************************************************************************)
(* The gateway uses its order history as OrderHistory says, for any number *)
(* of orders, streams and sessions and any capacity; what is proved of the *)
(* history then holds in the gateway.  A refused order is done with, a     *)
(* download settles what was open when it began, and an order reported as  *)
(* unknown was not answered.                                               *)
(***************************************************************************)
EXTENDS NseOrderGateway, OrderHistoryProofs

\* The ids the OMS thread has tried to track: only these are ever sent.
sent == tracked \cup dropped

Refused == Verdict("exchange down")

AnswersToSent == {m \in Messages : m.kind # "trailer" /\ m.id \in sent}

\* What is on the network is about orders that were tracked.
NetworkInv ==
  /\ currStream \in 0 .. Streams
  /\ wire \in Seq(sent)
  /\ inbox \in Seq(AnswersToSent \cup {Trailer})
  /\ exchangeLog \in [1 .. Streams -> Seq(AnswersToSent)]

\* The order the OMS thread works on: new until it is tracked, or refused.
OmsInv ==
  /\ cur \in Ids \cup {NoId}
  /\ omsPc \in {"throttle", "reject", "send", "write"} => cur \in Ids
  /\ omsPc = "throttle" => Fresh(cur)
  /\ omsPc \in {"send", "write"} => cur \in sent
  /\ omsPc = "reject" => removeValue[oms] = cur /\ cur \notin sent
  /\ omsPc \notin {"reject", "terminated"} => phase[oms] = "idle"
  /\ phase[oms] = "idle" => removeValue[oms] = NoId

\* What the OMS was told, by which thread about which orders.
VerdictInv ==
  /\ removeValue[exch] \in sent \cup {NoId}
  /\ Refused \subseteq reported \ sent
  /\ Verdict("answer") \cup Verdict("unknown order") \subseteq sent

HistoryInv == HistoryTypeOK /\ HeldTracked /\ HeldOnce

GatewayInv == HistoryInv /\ NetworkInv /\ OmsInv /\ VerdictInv

LEMMA SeqMonotone ==
  ASSUME NEW A, NEW B, A \subseteq B
  PROVE  Seq(A) \subseteq Seq(B)
OBVIOUS

-----------------------------------------------------------------------------
(* Every step of the gateway is a step of the history, or none of it.      *)

\* The steps that leave the history, the OMS thread and the verdicts alone.
Aside ==
  /\ UNCHANGED <<historyVars, cur, verdicts>>
  /\ omsPc' \in {omsPc, "terminated"}

LEMMA AsideSteps ==
  ASSUME \/ Connect \/ SecureBoxOut \/ SignOnOut \/ SystemInformationOut \/ MessageDownload
         \/ ReceiveErrorCode \/ TrailerOfStream \/ TrailerOfLast \/ OrderHistoryIsEmpty
         \/ ExchangeUp \/ ReceiveFails \/ ResetConnection \/ ExchangeDown \/ DisconnectOms
         \/ ExchangeAnswers \/ LinkBreaks
  PROVE  Aside
BY DEF Aside, Connect, SecureBoxOut, SignOnOut, SystemInformationOut, MessageDownload,
       ReceiveErrorCode, TrailerOfStream, TrailerOfLast, OrderHistoryIsEmpty, ExchangeUp,
       ReceiveFails, ResetConnection, ExchangeDown, DisconnectOms, ExchangeAnswers,
       LinkBreaks, networkKeeps

LEMMA GatewayStep ==
  ASSUME GatewayInv, [Next]_allVars
  PROVE  [HistoryNext]_historyVars
<1> USE HistoryAssumption, GatewayAssumption
<1>1. ASSUME NEW id \in tracked \cup dropped \cup {NoId}, StartRemove(exch, id)
      PROVE  HistoryNext
  BY <1>1 DEF HistoryNext, Answer
<1>2. ASSUME NEW t \in Threads, ThreadStep(t)  PROVE  HistoryNext
  BY <1>2 DEF HistoryNext
<1>3. CASE ReceiveAnswer
  <2>1. Head(inbox) \in AnswersToSent \cup {Trailer} /\ Head(inbox).kind = "answer"
    BY <1>3 DEF ReceiveAnswer, CanReceive, GatewayInv, NetworkInv
  <2>2. Head(inbox).id \in sent
    BY <2>1 DEF AnswersToSent, Trailer
  <2> QED  BY <1>1, <1>3, <2>2 DEF ReceiveAnswer, sent
<1>4. CASE RejectUnknown
  <2>1. CASE orderHistory # <<>> /\ StartRemove(exch, Head(orderHistory))
    <3>1. Head(orderHistory) \in Elements(orderHistory)
      BY <2>1, TailElements DEF GatewayInv, HistoryInv, HistoryTypeOK
    <3>2. Head(orderHistory) \in tracked
      BY <3>1 DEF GatewayInv, HistoryInv, HeldTracked, Held
    <3> QED  BY <1>1, <2>1, <3>2
  <2>2. CASE \E id \in tracked \cup {NoId} : StartRemove(exch, id)
    BY <1>1, <2>2
  <2> QED  BY <1>4, <2>1, <2>2 DEF RejectUnknown
<1>5. CASE ReportAnswer \/ ReportUnknown
  BY <1>2, <1>5 DEF ReportAnswer, ReportUnknown, ThreadStep
<1>6. CASE ReportDown
  BY <1>2, <1>6 DEF ReportDown, ThreadStep
<1>7. CASE Removing(exch) \/ Removing(oms)
  BY <1>2, <1>7 DEF Removing, ThreadStep
<1>8. CASE TakeOrderFromOms
  <2>1. PICK id \in Ids : /\ Fresh(id)
                          /\ StartRemove(oms, id) \/ UNCHANGED historyVars
    BY <1>8 DEF TakeOrderFromOms, Unknown
  <2> QED  BY <2>1 DEF HistoryNext, RejectOrder
<1>9. CASE Track
  <2>1. cur \in Ids /\ Fresh(cur) /\ phase[oms] = "idle" /\ setClOrderId(cur)
    BY <1>9 DEF Track, GatewayInv, OmsInv
  <2> QED  BY <2>1 DEF HistoryNext, TakeOrder
<1>10. CASE StartOms \/ OmsAccepted \/ CheckSend \/ WriteOrder \/ TakeHeartbeat \/ WriteHeartbeat
  BY <1>10 DEF StartOms, OmsAccepted, CheckSend, WriteOrder, TakeHeartbeat, WriteHeartbeat
<1>11. CASE Aside
  BY <1>11 DEF Aside
<1>12. CASE UNCHANGED allVars
  BY <1>12 DEF allVars
<1> QED
  BY <1>3, <1>4, <1>5, <1>6, <1>7, <1>8, <1>9, <1>10, <1>11, <1>12, AsideSteps
  DEF Next, ExchangeThread, OmsThread

LEMMA SentGrows ==
  ASSUME [HistoryNext]_historyVars
  PROVE  sent \subseteq sent' /\ reported \subseteq reported'
BY DEF HistoryNext, TakeOrder, RejectOrder, Answer, ThreadStep, setClOrderId, StartRemove,
       PopOne, PopNone, PushBack, EndRemove, Report, historyVars, sent

-----------------------------------------------------------------------------
(* The network.                                                            *)

LEMMA NetworkStep ==
  ASSUME GatewayInv, [Next]_allVars, sent \subseteq sent'
  PROVE  NetworkInv'
<1> USE HistoryAssumption, GatewayAssumption
<1> DEFINE In  == AnswersToSent \cup {Trailer}
           In2 == AnswersToSent' \cup {Trailer}
<1>1. /\ wire \in Seq(sent) /\ inbox \in Seq(In) /\ currStream \in 0 .. Streams
      /\ exchangeLog \in [1 .. Streams -> Seq(AnswersToSent)]
  BY DEF GatewayInv, NetworkInv
<1>2. AnswersToSent \subseteq AnswersToSent'
  BY DEF AnswersToSent, Messages, AnswerKinds
<1>3. /\ Seq(sent) \subseteq Seq(sent') /\ Seq(In) \subseteq Seq(In2)
      /\ Seq(AnswersToSent) \subseteq Seq(AnswersToSent')
  BY <1>2, SeqMonotone
<1>4. /\ wire \in Seq(sent') /\ inbox \in Seq(In2)
      /\ exchangeLog \in [1 .. Streams -> Seq(AnswersToSent')]
  <2>1. \A s \in 1 .. Streams : exchangeLog[s] \in Seq(AnswersToSent')
    BY <1>1, <1>3
  <2> QED  BY <1>1, <1>3, <2>1
<1>5. SUFFICES /\ currStream' \in 0 .. Streams
               /\ wire' \in Seq(sent') /\ inbox' \in Seq(In2)
               /\ exchangeLog' \in [1 .. Streams -> Seq(AnswersToSent')]
  BY DEF NetworkInv, Trailer
<1>6. ASSUME UNCHANGED <<currStream, network>>  PROVE  NetworkInv'
  BY <1>1, <1>4, <1>6 DEF network, NetworkInv, Trailer
<1>7. CASE \/ SecureBoxOut \/ SignOnOut \/ SystemInformationOut \/ ReportAnswer
           \/ OrderHistoryIsEmpty \/ RejectUnknown \/ ReportUnknown \/ ExchangeUp
           \/ ReceiveFails \/ ResetConnection \/ ExchangeDown \/ DisconnectOms
  BY <1>6, <1>7 DEF SecureBoxOut, SignOnOut, SystemInformationOut, ReportAnswer,
     OrderHistoryIsEmpty, RejectUnknown, ReportUnknown, ExchangeUp, ReceiveFails,
     ResetConnection, ExchangeDown, DisconnectOms, network, NetworkInv, Trailer
<1>8. CASE \/ StartOms \/ OmsAccepted \/ ReportDown \/ Track \/ CheckSend \/ WriteHeartbeat
           \/ TakeOrderFromOms \/ TakeHeartbeat \/ Removing(exch) \/ Removing(oms)
           \/ UNCHANGED allVars
  <2>1. UNCHANGED <<currStream, network>>
    BY <1>8 DEF StartOms, OmsAccepted, ReportDown, Track, CheckSend, WriteHeartbeat,
       TakeOrderFromOms, TakeHeartbeat, Removing, omsKeeps, gatewayVars, allVars, network
  <2> QED  BY <1>6, <2>1 DEF NetworkInv, Trailer
<1>9. CASE Connect
  BY <1>1, <1>4, <1>9 DEF Connect
<1>10. ASSUME NEW stream \in 1 .. Streams, NEW unread \in Seq(In2), RequestStream(stream, unread)
       PROVE  NetworkInv'
  <2>1. exchangeLog[stream] \in Seq(In2) /\ Trailer \in In2
    BY <1>4, SeqMonotone
  <2>2. Replay(stream) \in Seq(In2)
    BY <2>1 DEF Replay
  <2>3. unread \o Replay(stream) \in Seq(In2)
    BY <2>2
  <2>4. <<>> \in Seq(In2)
    OBVIOUS
  <2>5. /\ inbox' \in {unread \o Replay(stream), unread, <<>>}
        /\ currStream' = stream /\ wire' = wire /\ exchangeLog' = exchangeLog
    BY <1>10 DEF RequestStream
  <2>6. inbox' \in Seq(In2)
    BY <2>3, <2>4, <2>5
  <2> QED  BY <1>4, <2>5, <2>6 DEF NetworkInv, Trailer
<1>11. CASE MessageDownload
  BY <1>4, <1>10, <1>11 DEF MessageDownload, NetworkInv, Trailer
<1>12. CASE TrailerOfStream
  <2>1. currStream + 1 \in 1 .. Streams /\ Tail(inbox) \in Seq(In2)
    BY <1>1, <1>4, <1>12 DEF TrailerOfStream, NextStream, CanReceive
  <2> QED  BY <1>10, <1>12, <2>1 DEF TrailerOfStream, NetworkInv, Trailer
<1>13. CASE ReceiveAnswer \/ ReceiveErrorCode \/ TrailerOfLast
  <2>1. inbox # <<>> /\ inbox' = Tail(inbox) /\ UNCHANGED <<currStream, wire, exchangeLog>>
    BY <1>13 DEF ReceiveAnswer, ReceiveErrorCode, TrailerOfLast, CanReceive
  <2>2. inbox' \in Seq(In2)
    BY <1>4, <2>1
  <2> QED  BY <1>1, <1>4, <2>1, <2>2
<1>14. CASE WriteOrder
  <2>1. cur \in sent'
    BY <1>14 DEF WriteOrder, GatewayInv, OmsInv
  <2>2. wire' \in Seq(sent')
    BY <1>4, <1>14, <2>1 DEF WriteOrder
  <2> QED  BY <1>1, <1>4, <1>14, <2>2 DEF WriteOrder, omsKeeps
<1>15. CASE ExchangeAnswers
  <2>1. /\ wire # <<>> /\ wire' = Tail(wire) /\ currStream' = currStream
        /\ \/ UNCHANGED <<exchangeLog, inbox>>
           \/ \E kind \in AnswerKinds, stream \in 1 .. Streams :
                LET a == [kind |-> kind, id |-> Head(wire)]
                IN  /\ exchangeLog' = [exchangeLog EXCEPT ![stream] = Append(@, a)]
                    /\ inbox' = Append(inbox, a)
    BY <1>15 DEF ExchangeAnswers, networkKeeps
  <2>2. Head(wire) \in sent' /\ wire' \in Seq(sent')
    BY <1>4, <2>1
  <2>3. CASE UNCHANGED <<exchangeLog, inbox>>
    BY <1>1, <1>4, <2>1, <2>2, <2>3
  <2>4. CASE \E kind \in AnswerKinds, stream \in 1 .. Streams :
               LET a == [kind |-> kind, id |-> Head(wire)]
               IN  /\ exchangeLog' = [exchangeLog EXCEPT ![stream] = Append(@, a)]
                   /\ inbox' = Append(inbox, a)
    <3>1. PICK kind \in AnswerKinds, stream \in 1 .. Streams :
            /\ exchangeLog' = [exchangeLog EXCEPT
                 ![stream] = Append(@, [kind |-> kind, id |-> Head(wire)])]
            /\ inbox' = Append(inbox, [kind |-> kind, id |-> Head(wire)])
      BY <2>4
    <3> DEFINE a == [kind |-> kind, id |-> Head(wire)]
    <3>2. Head(wire) \in Ids
      BY <1>1, <2>1 DEF GatewayInv, HistoryInv, HistoryTypeOK, sent
    <3>3. a \in AnswersToSent'
      BY <2>2, <3>2 DEF AnswersToSent, Messages, AnswerKinds
    <3>4. inbox' \in Seq(In2)
      BY <1>4, <3>1, <3>3
    <3>5. Append(exchangeLog[stream], a) \in Seq(AnswersToSent')
      BY <1>4, <3>3
    <3>6. exchangeLog' \in [1 .. Streams -> Seq(AnswersToSent')]
      BY <1>4, <3>1, <3>5
    <3> QED  BY <1>1, <2>1, <2>2, <3>4, <3>6
  <2> QED  BY <2>1, <2>3, <2>4
<1>16. CASE LinkBreaks
  <2>1. PICK n \in 0 .. Len(inbox) : inbox' = SubSeq(inbox, 1, n)
    BY <1>16 DEF LinkBreaks
  <2>2. inbox' \in Seq(In2)
    BY <1>4, <2>1
  <2> QED  BY <1>1, <1>4, <1>16, <2>2 DEF LinkBreaks, networkKeeps
<1> QED
  BY <1>7, <1>8, <1>9, <1>11, <1>12, <1>13, <1>14, <1>15, <1>16
  DEF Next, ExchangeThread, OmsThread, NetworkInv, Trailer

-----------------------------------------------------------------------------
(* The OMS thread.                                                         *)

LEMMA OmsStep ==
  ASSUME GatewayInv, [Next]_allVars, sent \subseteq sent', HistoryTypeOK'
  PROVE  OmsInv'
<1> USE HistoryAssumption, GatewayAssumption
<1>1. OmsInv /\ HistoryTypeOK
  BY DEF GatewayInv, HistoryInv
<1>2. phase \in [Threads -> Phases] /\ removeValue \in [Threads -> Ids \cup {NoId}]
  BY <1>1 DEF HistoryTypeOK
<1>3. CASE Aside \/ UNCHANGED allVars
  <2>1. UNCHANGED <<historyVars, cur>> /\ omsPc' \in {omsPc, "terminated"}
    BY <1>3 DEF Aside, allVars, gatewayVars
  <2> QED  BY <1>1, <2>1 DEF OmsInv, historyVars, Fresh, sent
<1>4. ASSUME UNCHANGED <<tracked, dropped, cur, omsPc>>,
             phase'[oms] = phase[oms], removeValue'[oms] = removeValue[oms],
             reported' \subseteq reported \cup sent \cup {NoId}
      PROVE  OmsInv'
  <2>1. sent' = sent
    BY <1>4 DEF sent
  <2>2. ASSUME omsPc = "throttle"  PROVE  Fresh(cur)'
    BY <1>1, <1>4, <2>2 DEF OmsInv, Fresh, sent
  <2> QED  BY <1>1, <1>4, <2>1, <2>2 DEF OmsInv
<1>5. ASSUME NEW id, StartRemove(exch, id), UNCHANGED <<cur, omsPc>>  PROVE  OmsInv'
  BY <1>2, <1>4, <1>5 DEF StartRemove
<1>6. ASSUME Report(exch), UNCHANGED <<cur, omsPc>>  PROVE  OmsInv'
  <2>1. removeValue[exch] \in sent \cup {NoId}
    BY DEF GatewayInv, VerdictInv
  <2>2. reported' = reported \cup {removeValue[exch]}
    BY <1>6 DEF Report
  <2>3. /\ phase'[oms] = phase[oms] /\ removeValue'[oms] = removeValue[oms]
        /\ UNCHANGED <<tracked, dropped>>
    BY <1>2, <1>6 DEF Report
  <2> QED  BY <1>4, <1>6, <2>1, <2>2, <2>3
<1>7. CASE ReceiveAnswer \/ RejectUnknown
  BY <1>5, <1>7 DEF ReceiveAnswer, RejectUnknown
<1>8. CASE ReportAnswer \/ ReportUnknown
  BY <1>6, <1>8 DEF ReportAnswer, ReportUnknown
<1>9. CASE Removing(exch)
  <2>1. /\ phase'[oms] = phase[oms] /\ removeValue' = removeValue
        /\ UNCHANGED <<tracked, dropped, reported, cur, omsPc>>
    BY <1>2, <1>9 DEF Removing, PopOne, PopNone, PushBack, EndRemove, gatewayVars
  <2> QED  BY <1>4, <2>1
<1>10. CASE Removing(oms)
  <2>1. phase[oms] # "idle" /\ phase'[oms] # "idle"
    BY <1>2, <1>10 DEF Removing, PopOne, PopNone, PushBack, EndRemove
  <2>2. UNCHANGED <<removeValue, tracked, dropped, reported, cur, omsPc>>
    BY <1>10 DEF Removing, PopOne, PopNone, PushBack, EndRemove, gatewayVars
  <2>3. omsPc \in {"reject", "terminated"}
    BY <1>1, <2>1 DEF OmsInv
  <2> QED  BY <1>1, <2>1, <2>2, <2>3 DEF OmsInv, sent
<1>11. CASE ReportDown
  <2>1. phase'[oms] = "idle" /\ removeValue'[oms] = NoId /\ omsPc' = "consume" /\ cur' = NoId
    BY <1>2, <1>11 DEF ReportDown, Report
  <2> QED  BY <2>1 DEF OmsInv
<1>12. CASE TakeOrderFromOms
  <2>1. PICK id \in Ids :
          /\ omsPc = "consume" /\ Fresh(id) /\ cur' = id
          /\ \/ omsPc' = "throttle" /\ UNCHANGED historyVars
             \/ omsPc' = "reject" /\ StartRemove(oms, id)
    BY <1>12 DEF TakeOrderFromOms, Unknown
  <2>2. phase[oms] = "idle" /\ removeValue[oms] = NoId
    BY <1>1, <2>1 DEF OmsInv
  <2>3. CASE omsPc' = "throttle" /\ UNCHANGED historyVars
    BY <2>1, <2>2, <2>3 DEF OmsInv, historyVars, Fresh
  <2>4. CASE omsPc' = "reject" /\ StartRemove(oms, id)
    <3>1. /\ removeValue'[oms] = id /\ phase'[oms] # "idle"
          /\ UNCHANGED <<tracked, dropped>>
      BY <1>2, <2>4 DEF StartRemove
    <3>2. id \notin sent'
      BY <2>1, <3>1 DEF Fresh, sent
    <3> QED  BY <2>1, <2>4, <3>1, <3>2 DEF OmsInv
  <2> QED  BY <2>1, <2>3, <2>4
<1>13. CASE Track
  <2>1. /\ omsPc = "throttle" /\ omsPc' = "send" /\ cur' = cur
        /\ UNCHANGED <<phase, removeValue>> /\ cur \in tracked' \cup dropped'
    BY <1>13 DEF Track, setClOrderId
  <2> QED  BY <1>1, <2>1 DEF OmsInv, sent
<1>14. CASE CheckSend \/ WriteOrder
  <2>1. /\ UNCHANGED historyVars
        /\ omsPc \in {"send", "write"}
        /\ \/ omsPc' = "write" /\ cur' = cur
           \/ omsPc' = "consume" /\ cur' = NoId
    BY <1>14 DEF CheckSend, WriteOrder
  <2> QED  BY <1>1, <2>1 DEF OmsInv, historyVars, sent
<1>15. CASE StartOms \/ OmsAccepted \/ TakeHeartbeat \/ WriteHeartbeat
  <2>1. /\ UNCHANGED <<historyVars, cur>>
        /\ omsPc \in {"login", "accept", "consume", "beat"}
        /\ omsPc' \in {"accept", "consume", "beat"}
    BY <1>15 DEF StartOms, OmsAccepted, TakeHeartbeat, WriteHeartbeat
  <2> QED  BY <1>1, <2>1 DEF OmsInv, historyVars
<1> QED
  BY <1>3, <1>7, <1>8, <1>9, <1>10, <1>11, <1>12, <1>13, <1>14, <1>15, AsideSteps
  DEF Next, ExchangeThread, OmsThread

-----------------------------------------------------------------------------
(* The verdicts.                                                           *)

LEMMA VerdictStep ==
  ASSUME GatewayInv, [Next]_allVars, sent \subseteq sent', reported \subseteq reported'
  PROVE  VerdictInv'
<1> USE HistoryAssumption, GatewayAssumption
<1>1. VerdictInv /\ OmsInv /\ HistoryTypeOK
  BY DEF GatewayInv, HistoryInv
<1>2. phase \in [Threads -> Phases] /\ removeValue \in [Threads -> Ids \cup {NoId}]
  BY <1>1 DEF HistoryTypeOK
<1>3. ASSUME UNCHANGED <<tracked, dropped, verdicts>>, removeValue'[exch] \in sent \cup {NoId}
      PROVE  VerdictInv'
  <2>1. sent' = sent /\ \A v : Verdict(v)' = Verdict(v)
    BY <1>3 DEF sent, Verdict
  <2> QED  BY <1>1, <1>3, <2>1 DEF VerdictInv, Refused
<1>4. CASE Aside \/ UNCHANGED allVars \/ StartOms \/ OmsAccepted \/ CheckSend \/ WriteOrder
           \/ TakeHeartbeat \/ WriteHeartbeat
  <2>1. UNCHANGED <<historyVars, verdicts>>
    BY <1>4 DEF Aside, allVars, gatewayVars, StartOms, OmsAccepted, CheckSend, WriteOrder,
       TakeHeartbeat, WriteHeartbeat
  <2> QED  BY <1>1, <1>3, <2>1 DEF historyVars, VerdictInv
<1>5. ASSUME NEW id \in sent \cup {NoId}, StartRemove(exch, id), UNCHANGED verdicts
      PROVE  VerdictInv'
  <2>1. removeValue'[exch] = id /\ UNCHANGED <<tracked, dropped>>
    BY <1>2, <1>5 DEF StartRemove
  <2> QED  BY <1>3, <1>5, <2>1
<1>6. CASE ReceiveAnswer
  <2>1. Head(inbox) \in AnswersToSent \cup {Trailer} /\ Head(inbox).kind = "answer"
    BY <1>6 DEF ReceiveAnswer, CanReceive, GatewayInv, NetworkInv
  <2>2. Head(inbox).id \in sent
    BY <2>1 DEF AnswersToSent, Trailer
  <2> QED  BY <1>5, <1>6, <2>2 DEF ReceiveAnswer
<1>7. CASE RejectUnknown
  <2>1. CASE orderHistory # <<>> /\ StartRemove(exch, Head(orderHistory))
    <3>1. Head(orderHistory) \in Elements(orderHistory)
      BY <2>1, TailElements DEF GatewayInv, HistoryInv, HistoryTypeOK
    <3>2. Head(orderHistory) \in sent
      BY <3>1 DEF GatewayInv, HistoryInv, HeldTracked, Held, sent
    <3> QED  BY <1>5, <1>7, <2>1, <3>2 DEF RejectUnknown
  <2>2. CASE \E id \in tracked \cup {NoId} : StartRemove(exch, id)
    BY <1>5, <1>7, <2>2 DEF RejectUnknown, sent
  <2> QED  BY <1>7, <2>1, <2>2 DEF RejectUnknown
<1>8. CASE ReportAnswer \/ ReportUnknown
  <2>1. /\ Report(exch)
        /\ \E v \in {"answer", "unknown order"} :
             verdicts' = verdicts \cup {<<removeValue[exch], v>>}
    BY <1>8 DEF ReportAnswer, ReportUnknown
  <2>2. removeValue'[exch] = NoId /\ UNCHANGED <<tracked, dropped>>
    BY <1>2, <2>1 DEF Report
  <2>3. sent' = sent
    BY <2>2 DEF sent
  <2>4. Refused' = Refused
    BY <2>1 DEF Refused, Verdict
  <2>5. \A v : Verdict(v)' \subseteq Verdict(v) \cup sent
    BY <1>1, <2>1 DEF Verdict, VerdictInv
  <2> QED  BY <1>1, <2>2, <2>3, <2>4, <2>5 DEF VerdictInv
<1>9. CASE ReportDown
  <2>1. /\ removeValue[oms] = cur /\ cur \in Ids /\ cur \notin sent
        /\ Report(oms) /\ verdicts' = verdicts \cup {<<cur, "exchange down">>}
    BY <1>1, <1>9 DEF ReportDown, OmsInv
  <2>2. /\ removeValue'[exch] = removeValue[exch] /\ UNCHANGED <<tracked, dropped>>
        /\ cur \in reported'
    BY <1>2, <2>1 DEF Report
  <2>3. sent' = sent
    BY <2>2 DEF sent
  <2>4. Refused' \subseteq Refused \cup {cur}
    BY <2>1 DEF Refused, Verdict
  <2>5. Verdict("answer")' = Verdict("answer") /\ Verdict("unknown order")' = Verdict("unknown order")
    BY <2>1 DEF Verdict
  <2> QED  BY <1>1, <2>1, <2>2, <2>3, <2>4, <2>5 DEF VerdictInv
<1>10. CASE TakeOrderFromOms
  <2>1. /\ verdicts' = verdicts
        /\ UNCHANGED historyVars \/ \E id : StartRemove(oms, id)
    BY <1>10 DEF TakeOrderFromOms
  <2>2. removeValue'[exch] = removeValue[exch] /\ UNCHANGED <<tracked, dropped>>
    BY <1>2, <2>1 DEF StartRemove, historyVars
  <2> QED  BY <1>1, <1>3, <2>1, <2>2 DEF VerdictInv
<1>11. CASE Track
  <2>1. cur \in Ids /\ Fresh(cur) /\ setClOrderId(cur) /\ verdicts' = verdicts
    BY <1>1, <1>11 DEF Track, OmsInv
  <2>2. sent' = sent \cup {cur} /\ UNCHANGED <<removeValue, reported>>
    BY <2>1 DEF setClOrderId, sent
  <2>3. \A v : Verdict(v)' = Verdict(v)
    BY <2>1 DEF Verdict
  <2>4. cur \notin Refused
    BY <1>1, <2>1 DEF VerdictInv, Fresh
  <2> QED  BY <1>1, <2>2, <2>3, <2>4 DEF VerdictInv, Refused
<1>12. CASE Removing(exch) \/ Removing(oms)
  <2>1. UNCHANGED <<removeValue, tracked, dropped, verdicts>>
    BY <1>12 DEF Removing, PopOne, PopNone, PushBack, EndRemove, gatewayVars
  <2> QED  BY <1>1, <1>3, <2>1 DEF VerdictInv
<1> QED
  BY <1>4, <1>6, <1>7, <1>8, <1>9, <1>10, <1>11, <1>12, AsideSteps
  DEF Next, ExchangeThread, OmsThread
-----------------------------------------------------------------------------
(* The invariant, and what follows from it.                                *)

LEMMA GatewayInit ==
  ASSUME Init
  PROVE  GatewayInv
<1> USE HistoryAssumption, GatewayAssumption
<1>1. HistoryInit
  BY DEF Init
<1>2. HistoryInv
  BY <1>1, HistoryTypeInit DEF HistoryInv, HistoryInit, HeldTracked, HeldOnce, Held, Elements,
     Distinct
<1>3. /\ wire = <<>> /\ inbox = <<>> /\ exchangeLog = [s \in 1 .. Streams |-> <<>>]
      /\ currStream = 0
  BY DEF Init
<1>4. <<>> \in Seq(AnswersToSent)
  OBVIOUS
<1>5. NetworkInv
  BY <1>3, <1>4 DEF NetworkInv
<1>6. OmsInv /\ VerdictInv
  BY <1>1 DEF Init, HistoryInit, OmsInv, VerdictInv, Refused, Verdict
<1> QED  BY <1>2, <1>5, <1>6 DEF GatewayInv

LEMMA GatewayInvStep ==
  ASSUME GatewayInv, [Next]_allVars
  PROVE  GatewayInv'
<1>1. [HistoryNext]_historyVars
  BY GatewayStep
<1>2. HistoryInv'
  BY <1>1, HistoryTypeStep, HeldOnceStep DEF GatewayInv, HistoryInv
<1>3. sent \subseteq sent' /\ reported \subseteq reported'
  BY <1>1, SentGrows
<1>4. NetworkInv'
  BY <1>3, NetworkStep
<1>5. OmsInv'
  BY <1>2, <1>3, OmsStep DEF HistoryInv
<1>6. VerdictInv'
  BY <1>3, VerdictStep
<1> QED  BY <1>2, <1>4, <1>5, <1>6 DEF GatewayInv

LEMMA GatewayInvariant == Spec => []GatewayInv
<1>1. Init => GatewayInv
  BY GatewayInit
<1>2. GatewayInv /\ [Next]_allVars => GatewayInv'
  BY GatewayInvStep
<1> QED  BY <1>1, <1>2, PTL DEF Spec

\* The gateway uses its order history as OrderHistory says: every step of
\* the exchange thread, the OMS thread and the network is a step of the
\* history or leaves it alone.
THEOREM GatewayUsesHistory == Spec => UsesOrderHistory
<1>1. Init => HistoryInit
  BY DEF Init
<1>2. GatewayInv /\ [Next]_allVars => [HistoryNext]_historyVars
  BY GatewayStep
<1> QED  BY <1>1, <1>2, GatewayInvariant, PTL DEF Spec, UsesOrderHistory, HistorySpec

\* So the gateway forgets no order the history has taken: it is reported to
\* the OMS, about to be, or still held.
THEOREM GatewayForgetsNoOrder == Spec => []Accounted
BY GatewayUsesHistory, NoOrderForgotten, PTL DEF UsesOrderHistory

\* An order refused because the exchange is down never reaches the exchange,
\* and no other verdict on it is ever given.
THEOREM RefusedOrderIsFinal == Spec => []RefusedIsFinal
<1>1. GatewayInv => RefusedIsFinal
  <2> SUFFICES ASSUME GatewayInv  PROVE RefusedIsFinal
    OBVIOUS
  <2> SUFFICES ASSUME NEW id \in Refused
               PROVE  /\ id \notin Elements(wire)
                      /\ \A a \in InBooks : a.id # id
                      /\ id \notin Verdict("answer") \cup Verdict("unknown order")
    BY DEF RefusedIsFinal, Refused
  <2>1. id \notin sent /\ id \notin Verdict("answer") \cup Verdict("unknown order")
    BY DEF GatewayInv, VerdictInv
  <2>2. Elements(wire) \subseteq sent
    BY DEF GatewayInv, NetworkInv, Elements
  <2>3. ASSUME NEW a \in InBooks  PROVE a.id \in sent
    <3>1. PICK s \in 1 .. Streams : a \in Elements(exchangeLog[s])
      BY <2>3 DEF InBooks
    <3>2. exchangeLog[s] \in Seq(AnswersToSent)
      BY DEF GatewayInv, NetworkInv
    <3>3. a \in AnswersToSent
      BY <3>1, <3>2 DEF Elements
    <3> QED  BY <3>3 DEF AnswersToSent
  <2> QED  BY <2>1, <2>2, <2>3
<1> QED  BY <1>1, GatewayInvariant, PTL

-----------------------------------------------------------------------------
(* Types.  What the invariant above does not say.                          *)

ControlInv ==
  /\ exchPc \in {"connect", "handshake", "secureBox", "signedOn", "waitForOms", "download",
                 "trailer", "front", "reject", "settled", "live", "reset", "exchangeDown",
                 "disconnectOms", "terminated"}
  /\ omsPc \in {"login", "accept", "consume", "throttle", "reject", "send", "write", "beat",
                "terminated"}
  /\ {isSecureBoxDone, _connected, _nowExchangeLive, _loggedIn, _process} \subseteq BOOLEAN
  /\ omsSocket \in {"none", "listening", "connected", "closed"}
  /\ link \in {"up", "broken"}
  /\ session \in 0 .. MaxSessions
  /\ owed \subseteq tracked
  /\ verdicts \subseteq (Ids \cup {NoId}) \X {"answer", "unknown order", "exchange down"}

LEMMA ControlStep ==
  ASSUME GatewayInv, ControlInv, [Next]_allVars, tracked \subseteq tracked'
  PROVE  ControlInv'
<1> USE HistoryAssumption, GatewayAssumption
<1> DEFINE Told == (Ids \cup {NoId}) \X {"answer", "unknown order", "exchange down"}
<1>1. /\ removeValue[exch] \in Ids \cup {NoId} /\ cur \in Ids \cup {NoId}
      /\ verdicts \subseteq Told /\ owed \subseteq tracked'
  BY DEF GatewayInv, HistoryInv, HistoryTypeOK, OmsInv, ControlInv
<1>2. CASE \/ SecureBoxOut \/ SignOnOut \/ SystemInformationOut \/ OrderHistoryIsEmpty
           \/ ExchangeUp \/ ReceiveFails \/ ResetConnection \/ ExchangeDown \/ DisconnectOms
  BY <1>1, <1>2 DEF ControlInv, SecureBoxOut, SignOnOut, SystemInformationOut,
     OrderHistoryIsEmpty, ExchangeUp, ReceiveFails, ResetConnection, ExchangeDown,
     DisconnectOms, flags, network
<1>3. CASE \/ MessageDownload \/ TrailerOfStream
  BY <1>1, <1>3 DEF ControlInv, MessageDownload, TrailerOfStream, RequestStream, flags
<1>4. CASE \/ ReceiveAnswer \/ ReceiveErrorCode \/ TrailerOfLast \/ RejectUnknown
  <2>1. exchPc' \in {exchPc, "trailer", "reject"}
    BY <1>4 DEF ReceiveAnswer, ReceiveErrorCode, TrailerOfLast, RejectUnknown
  <2>2. UNCHANGED <<omsPc, flags, _process, omsSocket, link, session, owed, verdicts>>
    BY <1>4 DEF ReceiveAnswer, ReceiveErrorCode, TrailerOfLast, RejectUnknown, network
  <2> QED  BY <1>1, <2>1, <2>2 DEF ControlInv, flags
<1>5. CASE ReportAnswer \/ ReportUnknown
  <2>1. \A v \in {"answer", "unknown order"} : <<removeValue[exch], v>> \in Told
    BY <1>1
  <2>2. \E v \in {"answer", "unknown order"} : verdicts' = verdicts \cup {<<removeValue[exch], v>>}
    BY <1>5 DEF ReportAnswer, ReportUnknown
  <2>3. verdicts' \subseteq Told
    <3> HIDE DEF Told
    <3> QED  BY <1>1, <2>1, <2>2
  <2> QED  BY <1>1, <1>5, <2>3 DEF ControlInv, ReportAnswer, ReportUnknown, flags, network
<1>6. CASE ReportDown
  <2>1. <<cur, "exchange down">> \in Told /\ verdicts' = verdicts \cup {<<cur, "exchange down">>}
    BY <1>1, <1>6 DEF ReportDown
  <2>2. verdicts' \subseteq Told
    <3> HIDE DEF Told
    <3> QED  BY <1>1, <2>1
  <2> QED  BY <1>1, <1>6, <2>2 DEF ControlInv, ReportDown, omsKeeps, flags
<1>7. CASE \/ StartOms \/ OmsAccepted \/ Track \/ CheckSend \/ WriteOrder \/ WriteHeartbeat
           \/ TakeOrderFromOms \/ TakeHeartbeat
  <2>1. UNCHANGED <<exchPc, flags, link, session, owed, verdicts>>
    BY <1>7 DEF StartOms, OmsAccepted, Track, CheckSend, WriteOrder, WriteHeartbeat,
       TakeOrderFromOms, TakeHeartbeat, omsKeeps
  <2>2. omsPc' \in {"accept", "consume", "throttle", "send", "reject", "write", "beat"}
    BY <1>7 DEF StartOms, OmsAccepted, Track, CheckSend, WriteOrder, WriteHeartbeat,
       TakeOrderFromOms, TakeHeartbeat
  <2>3. _process' \in {_process, TRUE} /\ omsSocket' \in {omsSocket, "listening", "connected"}
    BY <1>7 DEF StartOms, OmsAccepted, Track, CheckSend, WriteOrder, WriteHeartbeat,
       TakeOrderFromOms, TakeHeartbeat
  <2> QED  BY <1>1, <2>1, <2>2, <2>3 DEF ControlInv, flags
<1>8. CASE Removing(exch) \/ Removing(oms) \/ UNCHANGED allVars
  <2>1. UNCHANGED <<exchPc, omsPc, flags, _process, omsSocket, link, session, owed, verdicts>>
    BY <1>8 DEF Removing, gatewayVars, allVars, flags
  <2> QED  BY <1>1, <2>1 DEF ControlInv, flags
<1>9. CASE ExchangeAnswers \/ LinkBreaks
  <2>1. UNCHANGED <<exchPc, omsPc, flags, _process, omsSocket, session, owed, verdicts>>
    BY <1>9 DEF ExchangeAnswers, LinkBreaks, networkKeeps
  <2>2. link' \in {link, "broken"}
    BY <1>9 DEF ExchangeAnswers, LinkBreaks
  <2> QED  BY <1>1, <2>1, <2>2 DEF ControlInv, flags
<1>10. CASE Connect
  <2>1. session' \in 0 .. MaxSessions
    <3>1. session' = session + 1 /\ session < MaxSessions
      BY <1>10 DEF Connect
    <3>2. session \in 0 .. MaxSessions
      BY DEF ControlInv
    <3>3. MaxSessions \in Nat
      BY GatewayAssumption
    <3> QED  BY <3>1, <3>2, <3>3
  <2>2. owed' \subseteq tracked'
    BY <1>10 DEF Connect, historyVars
  <2> QED  BY <1>1, <1>10, <2>1, <2>2 DEF ControlInv, Connect
<1> QED
  BY <1>2, <1>3, <1>4, <1>5, <1>6, <1>7, <1>8, <1>9, <1>10 DEF Next, ExchangeThread, OmsThread

\* The state of the gateway is well typed, whatever the two threads and the
\* network do.
THEOREM GatewayTypeCorrect == Spec => []GatewayTypeOK
<1>1. Init => ControlInv
  <2> SUFFICES ASSUME Init  PROVE ControlInv
    OBVIOUS
  <2>1. session \in 0 .. MaxSessions
    BY GatewayAssumption DEF Init
  <2>2. owed = {} /\ verdicts = {} /\ link = "broken" /\ omsSocket = "none"
    BY DEF Init
  <2>3. {isSecureBoxDone, _connected, _nowExchangeLive, _loggedIn, _process} = {FALSE}
    BY DEF Init
  <2> QED  BY <2>1, <2>2, <2>3 DEF Init, ControlInv
<1>2. GatewayInv /\ ControlInv /\ [Next]_allVars => ControlInv'
  <2> SUFFICES ASSUME GatewayInv, ControlInv, [Next]_allVars  PROVE ControlInv'
    OBVIOUS
  <2>1. [HistoryNext]_historyVars
    BY GatewayStep
  <2>2. tracked \subseteq tracked'
    BY <2>1 DEF HistoryNext, TakeOrder, RejectOrder, Answer, ThreadStep, setClOrderId,
       StartRemove, PopOne, PopNone, PushBack, EndRemove, Report, historyVars
  <2> QED  BY <2>2, ControlStep
<1>3. GatewayInv /\ ControlInv => GatewayTypeOK
  <2> SUFFICES ASSUME GatewayInv, ControlInv  PROVE GatewayTypeOK
    OBVIOUS
  <2>1. HistoryTypeOK /\ NetworkInv /\ cur \in Ids \cup {NoId}
    BY DEF GatewayInv, HistoryInv, OmsInv
  <2>2. sent \subseteq Ids
    BY <2>1 DEF HistoryTypeOK, sent
  <2>3. AnswersToSent \subseteq Messages /\ AnswersToSent \cup {Trailer} \subseteq Messages
    BY DEF AnswersToSent, Trailer, Messages
  <2>4. wire \in Seq(Ids) /\ inbox \in Seq(Messages)
    BY <2>1, <2>2, <2>3, SeqMonotone DEF NetworkInv
  <2>5. exchangeLog \in [1 .. Streams -> Seq(Messages)]
    BY <2>1, <2>3, SeqMonotone DEF NetworkInv
  <2>6. currStream \in 0 .. Streams
    BY <2>1 DEF NetworkInv
  <2> QED  BY <2>1, <2>4, <2>5, <2>6 DEF ControlInv, GatewayTypeOK
<1> QED  BY <1>1, <1>2, <1>3, GatewayInvariant, PTL DEF Spec
-----------------------------------------------------------------------------
(* What a download settles.  The proof rests on who may send: an order the *)
(* OMS thread wrote into the new session could be answered behind the      *)
(* replay, but then the OMS is not connected and the download waits.       *)

Starting    == {"handshake", "secureBox", "signedOn", "waitForOms"}
Settling    == {"trailer", "front", "reject", "settled"}
Downloading == {"download"} \cup Settling

\* Where the threads can be in removeIdFromOrderHistory.
ThreadsInv ==
  /\ \A t \in Threads : phase[t] \in {"idle", "done"} => tempContainer[t] = <<>>
  /\ phase[exch] # "idle" => exchPc \in {"download", "live", "reject"}
  /\ omsPc = "terminated" <=> exchPc = "terminated"

\* The OMS thread is not in the middle of a send.
OmsRests == _process \/ omsPc \in {"login", "accept"}

\* Until the gateway is live no order is sent, or else the download waits.
SendInv ==
  /\ exchPc \in {"reset", "exchangeDown", "disconnectOms", "connect"} => link = "broken"
  /\ exchPc \in {"disconnectOms", "connect"} \cup Starting \cup Downloading => ~_nowExchangeLive
  /\ exchPc \in {"connect"} \cup Starting \cup Downloading /\ _process
       => omsPc \notin {"throttle", "send", "write"}
  /\ exchPc \in Downloading => _process
  /\ link = "broken" => wire = <<>>
  /\ exchPc \in Starting \cup Downloading /\ OmsRests => wire = <<>>

\* So nothing follows the trailer of a stream, and no other trailer comes.
TrailerInv ==
  /\ exchPc \in Starting /\ OmsRests /\ link = "up" => inbox = <<>>
  /\ exchPc \in Starting \cup Settling \cup {"live"} => Trailer \notin Elements(inbox)
  /\ exchPc = "download" => \A i \in 1 .. Len(inbox) : inbox[i] = Trailer => i = Len(inbox)

\* The OMS thread has not drained the history yet.
Calm == Refused = {} /\ omsPc # "reject" /\ exchPc # "terminated"

\* An answer the download brings again has taken its id out, or is about to.
Settled(a) ==
  \/ a.id \notin Held
  \/ a \in Elements(inbox)
  \/ phase[exch] = "pop" /\ removeValue[exch] = a.id /\ a.id \notin Elements(tempContainer[exch])

\* While the trailer of a stream can still come, the streams so far are
\* settled but for what comes before it.
StreamsSettled ==
  \A s \in 1 .. currStream : \A a \in Elements(exchangeLog[s]) :
    a.kind = "answer" /\ a.id \in owed => Settled(a)

SettleInv ==
  Calm =>
    /\ exchPc = "download" /\ Trailer \in Elements(inbox) => StreamsSettled
    /\ exchPc = "front" => orderHistory # <<>>
    /\ exchPc = "reject" => removeValue[exch] \notin owed \cap Answered
    /\ exchPc \in Settling => owed \cap Answered \cap Held = {}

LEMMA ThreadsStep ==
  ASSUME GatewayInv, ThreadsInv, [Next]_allVars
  PROVE  ThreadsInv'
<1> USE HistoryAssumption, GatewayAssumption
<1>1. phase \in [Threads -> Phases] /\ tempContainer \in [Threads -> Seq(Ids)]
  BY DEF GatewayInv, HistoryInv, HistoryTypeOK
<1>2. ASSUME NEW t \in Threads, phase'[t] \in {"idle", "done"}  PROVE tempContainer'[t] = <<>>
  <2>1. [HistoryNext]_historyVars
    BY GatewayStep
  <2>2. CASE \E id : setClOrderId(id)
    BY <1>2, <2>2 DEF setClOrderId, ThreadsInv
  <2>3. ASSUME NEW u \in Threads, NEW id, StartRemove(u, id)  PROVE tempContainer'[t] = <<>>
    BY <1>1, <1>2, <2>3 DEF StartRemove, ThreadsInv
  <2>4. ASSUME NEW u \in Threads, ThreadStep(u)  PROVE tempContainer'[t] = <<>>
    <3>1. CASE PopOne(u) \/ PopNone(u) \/ PushBack(u)
      <4>1. phase'[u] \in {"pop", "back"}
        BY <1>1, <3>1 DEF PopOne, PopNone, PushBack
      <4>2. t # u
        BY <1>2, <4>1
      <4> QED  BY <1>1, <1>2, <3>1, <4>2 DEF PopOne, PopNone, PushBack, ThreadsInv
    <3>2. CASE EndRemove(u) \/ Report(u)
      BY <1>1, <1>2, <3>2 DEF EndRemove, Report, ThreadsInv
    <3> QED  BY <2>4, <3>1, <3>2 DEF ThreadStep
  <2>5. CASE UNCHANGED historyVars
    BY <1>2, <2>5 DEF historyVars, ThreadsInv
  <2> QED
    BY <2>1, <2>2, <2>3, <2>4, <2>5 DEF HistoryNext, TakeOrder, RejectOrder, Answer
<1>3. phase'[exch] # "idle" => exchPc' \in {"download", "live", "reject"}
  <2>1. CASE \/ Connect \/ SecureBoxOut \/ SignOnOut \/ SystemInformationOut
             \/ MessageDownload \/ OrderHistoryIsEmpty \/ ExchangeUp \/ ResetConnection
             \/ ExchangeDown \/ DisconnectOms
    <3>1. exchPc \notin {"download", "live", "reject"} /\ phase' = phase
      BY <2>1 DEF Connect, SecureBoxOut, SignOnOut, SystemInformationOut, MessageDownload,
         OrderHistoryIsEmpty, ExchangeUp, ResetConnection, ExchangeDown, DisconnectOms,
         historyVars
    <3> QED  BY <3>1 DEF ThreadsInv
  <2>2. CASE TrailerOfStream \/ TrailerOfLast \/ ReceiveFails
    BY <2>2 DEF TrailerOfStream, TrailerOfLast, ReceiveFails, CanReceive, historyVars
  <2>3. CASE ReceiveAnswer \/ ReceiveErrorCode \/ ReportAnswer
    BY <2>3 DEF ReceiveAnswer, ReceiveErrorCode, ReportAnswer, CanReceive
  <2>4. CASE RejectUnknown
    BY <2>4 DEF RejectUnknown
  <2>5. CASE ReportUnknown
    BY <1>1, <2>5 DEF ReportUnknown, Report
  <2>6. CASE Removing(exch) \/ Removing(oms)
    <3>1. exchPc' = exchPc /\ (phase'[exch] # "idle" => phase[exch] # "idle")
      BY <1>1, <2>6 DEF Removing, PopOne, PopNone, PushBack, EndRemove, gatewayVars
    <3> QED  BY <3>1 DEF ThreadsInv
  <2>7. CASE \/ StartOms \/ OmsAccepted \/ ReportDown \/ Track \/ CheckSend \/ WriteOrder
             \/ WriteHeartbeat \/ TakeOrderFromOms \/ TakeHeartbeat
             \/ ExchangeAnswers \/ LinkBreaks \/ UNCHANGED allVars
    <3>1. exchPc' = exchPc /\ phase'[exch] = phase[exch]
      BY <1>1, <2>7 DEF StartOms, OmsAccepted, ReportDown, Track, CheckSend, WriteOrder,
         WriteHeartbeat, TakeOrderFromOms, TakeHeartbeat, ExchangeAnswers, LinkBreaks,
         allVars, gatewayVars, omsKeeps, networkKeeps, historyVars, setClOrderId,
         StartRemove, Report
    <3> QED  BY <3>1 DEF ThreadsInv
  <2> QED
    BY <2>1, <2>2, <2>3, <2>4, <2>5, <2>6, <2>7 DEF Next, ExchangeThread, OmsThread
<1>4. omsPc' = "terminated" <=> exchPc' = "terminated"
  <2>1. CASE DisconnectOms
    BY <2>1 DEF DisconnectOms, ThreadsInv
  <2>2. CASE MessageDownload \/ TrailerOfStream
    BY <2>2 DEF MessageDownload, TrailerOfStream, CanReceive, RequestStream, ThreadsInv
  <2>3. CASE \/ Connect \/ SecureBoxOut \/ SignOnOut \/ SystemInformationOut
             \/ ReceiveAnswer \/ ReportAnswer \/ ReceiveErrorCode \/ TrailerOfLast
             \/ OrderHistoryIsEmpty \/ RejectUnknown \/ ReportUnknown \/ ExchangeUp
             \/ ReceiveFails \/ ResetConnection \/ ExchangeDown
    <3>1. exchPc # "terminated" /\ exchPc' # "terminated" /\ omsPc' = omsPc
      BY <2>3 DEF Connect, SecureBoxOut, SignOnOut, SystemInformationOut, ReceiveAnswer,
         ReportAnswer, ReceiveErrorCode, CanReceive, TrailerOfLast, OrderHistoryIsEmpty,
         RejectUnknown, ReportUnknown, ExchangeUp, ReceiveFails, ResetConnection,
         ExchangeDown
    <3> QED  BY <3>1 DEF ThreadsInv
  <2>4. CASE \/ StartOms \/ OmsAccepted \/ ReportDown \/ Track \/ CheckSend \/ WriteOrder
             \/ WriteHeartbeat \/ TakeOrderFromOms \/ TakeHeartbeat
    <3>1. omsPc # "terminated" /\ omsPc' # "terminated" /\ exchPc' = exchPc
      BY <2>4 DEF StartOms, OmsAccepted, ReportDown, Track, CheckSend, WriteOrder,
         WriteHeartbeat, TakeOrderFromOms, TakeHeartbeat, omsKeeps
    <3> QED  BY <3>1 DEF ThreadsInv
  <2>5. CASE Removing(exch) \/ Removing(oms) \/ ExchangeAnswers \/ LinkBreaks \/ UNCHANGED allVars
    <3>1. UNCHANGED <<exchPc, omsPc>>
      BY <2>5 DEF Removing, ExchangeAnswers, LinkBreaks, networkKeeps, gatewayVars, allVars
    <3> QED  BY <3>1 DEF ThreadsInv
  <2> QED
    BY <2>1, <2>2, <2>3, <2>4, <2>5 DEF Next, ExchangeThread, OmsThread
<1> QED  BY <1>2, <1>3, <1>4 DEF ThreadsInv

LEMMA NoneLeft ==
  ASSUME NEW S, NEW s \in Seq(S), Len(s) = 0
  PROVE  s = <<>>
OBVIOUS

\* A trailer the gateway receives ends a download, and nothing follows it.
LEMMA TrailerReceived ==
  ASSUME NetworkInv, TrailerInv, CanReceive({"trailer"})
  PROVE  /\ exchPc = "download" /\ Trailer \in Elements(inbox)
         /\ Tail(inbox) = <<>> /\ Elements(inbox) = {Trailer}
<1>1. inbox # <<>> /\ Head(inbox).kind = "trailer" /\ inbox \in Seq(AnswersToSent \cup {Trailer})
  BY DEF CanReceive, NetworkInv
<1>2. Head(inbox) = Trailer
  BY <1>1 DEF AnswersToSent
<1>3. /\ Elements(inbox) = Elements(Tail(inbox)) \cup {Head(inbox)}
      /\ Tail(inbox) \in Seq(AnswersToSent \cup {Trailer})
  BY <1>1, TailElements
<1>4. exchPc = "download"
  BY <1>2, <1>3 DEF CanReceive, TrailerInv
<1>5. inbox[1] = Trailer /\ 1 \in 1 .. Len(inbox)
  BY <1>1, <1>2
<1>6. Len(inbox) = 1
  BY <1>4, <1>5 DEF TrailerInv
<1>7. Tail(inbox) = <<>>
  <2>1. Len(Tail(inbox)) = 0
    BY <1>1, <1>6
  <2> QED  BY <1>3, <2>1, NoneLeft
<1>8. Elements(<<>>) = {}
  BY DEF Elements
<1> QED  BY <1>2, <1>3, <1>4, <1>7, <1>8

LEMMA SendStep ==
  ASSUME SendInv, TrailerInv, NetworkInv, [Next]_allVars
  PROVE  SendInv'
<1>1. CASE Connect
  BY <1>1 DEF Connect, SendInv, Starting, Downloading, Settling, OmsRests
<1>2. CASE \/ SecureBoxOut \/ SignOnOut \/ SystemInformationOut
  <2>1. /\ exchPc \in Starting /\ exchPc' \in Starting
        /\ UNCHANGED <<omsPc, _process, _nowExchangeLive, link, wire>>
    BY <1>2 DEF SecureBoxOut, SignOnOut, SystemInformationOut, Starting, network, flags
  <2> QED  BY <2>1 DEF SendInv, Starting, Downloading, Settling, OmsRests
<1>3. CASE MessageDownload \/ TrailerOfStream
  <2>1. TrailerOfStream => exchPc = "download"
    BY TrailerReceived DEF TrailerOfStream
  <2>2. /\ exchPc \in Starting \cup Downloading /\ exchPc' \in {"download", "reset"}
        /\ exchPc' = "reset" => link = "broken"
        /\ UNCHANGED <<omsPc, _process, _nowExchangeLive, link, wire>>
        /\ exchPc \in Downloading \/ _process
    BY <1>3, <2>1 DEF MessageDownload, TrailerOfStream, RequestStream, flags, Starting, Downloading
  <2> QED  BY <2>2 DEF SendInv, Starting, Downloading, Settling, OmsRests
<1>4. CASE ReceiveAnswer \/ ReportAnswer \/ ReceiveErrorCode
  <2>1. UNCHANGED <<exchPc, omsPc, _process, _nowExchangeLive, link, wire>>
    BY <1>4 DEF ReceiveAnswer, ReportAnswer, ReceiveErrorCode, network, flags
  <2> QED  BY <2>1 DEF SendInv, OmsRests
<1>5. CASE TrailerOfLast
  <2>1. exchPc = "download"
    BY <1>5, TrailerReceived DEF TrailerOfLast
  <2>2. exchPc' = "trailer" /\ UNCHANGED <<omsPc, _process, _nowExchangeLive, link, wire>>
    BY <1>5 DEF TrailerOfLast, flags
  <2> QED  BY <2>1, <2>2 DEF SendInv, Starting, Downloading, Settling, OmsRests
<1>6. CASE OrderHistoryIsEmpty \/ RejectUnknown \/ ReportUnknown
  <2>1. /\ exchPc \in Settling /\ exchPc' \in Settling
        /\ UNCHANGED <<omsPc, _process, _nowExchangeLive, link, wire>>
    BY <1>6 DEF OrderHistoryIsEmpty, RejectUnknown, ReportUnknown, Settling, network, flags
  <2> QED  BY <2>1 DEF SendInv, Starting, Downloading, Settling, OmsRests
<1>7. CASE ExchangeUp
  BY <1>7 DEF ExchangeUp, SendInv, Starting, Downloading, Settling, OmsRests, network
<1>8. CASE ReceiveFails \/ ResetConnection \/ ExchangeDown
  BY <1>8 DEF ReceiveFails, ResetConnection, ExchangeDown, SendInv, Starting, Downloading,
     Settling, OmsRests, network, flags
<1>9. CASE DisconnectOms
  BY <1>9 DEF DisconnectOms, SendInv, Starting, Downloading, Settling, OmsRests, network, flags
<1>10. CASE StartOms \/ OmsAccepted \/ ReportDown \/ CheckSend \/ TakeHeartbeat
  <2>1. /\ UNCHANGED <<exchPc, _nowExchangeLive, link, wire>>
        /\ \/ omsPc \in {"login", "accept"} /\ omsPc' \in {"accept", "consume"}
           \/ omsPc = "send" /\ omsPc' \in {"write", "consume"} /\ UNCHANGED _process
           \/ omsPc' \in {"consume", "beat"} /\ omsPc \notin {"login", "accept"} /\ UNCHANGED _process
    BY <1>10 DEF StartOms, OmsAccepted, ReportDown, CheckSend, TakeHeartbeat, omsKeeps, flags
  <2>2. _process => _process'
    BY <1>10 DEF StartOms, OmsAccepted, ReportDown, CheckSend, TakeHeartbeat
  <2> QED  BY <2>1, <2>2 DEF SendInv, Starting, Downloading, Settling, OmsRests
<1>11. CASE Track
  BY <1>11 DEF Track, omsKeeps, flags, SendInv, Starting, Downloading, Settling, OmsRests
<1>12. CASE WriteOrder
  BY <1>12 DEF WriteOrder, omsKeeps, flags, SendInv, Starting, Downloading, Settling, OmsRests
<1>13. CASE WriteHeartbeat
  BY <1>13 DEF WriteHeartbeat, omsKeeps, flags, SendInv, Starting, Downloading, Settling, OmsRests
<1>14. CASE TakeOrderFromOms
  <2>1. UNCHANGED <<exchPc, _nowExchangeLive, link, wire, _process>>
    BY <1>14 DEF TakeOrderFromOms, omsKeeps, flags
  <2>2. /\ omsPc = "consume"
        /\ omsPc' = "reject" \/ (omsPc' = "throttle" /\ _nowExchangeLive)
    BY <1>14 DEF TakeOrderFromOms
  <2> QED  BY <2>1, <2>2 DEF SendInv, Starting, Downloading, Settling, OmsRests
<1>15. CASE Removing(exch) \/ Removing(oms) \/ UNCHANGED allVars
  BY <1>15 DEF Removing, gatewayVars, allVars, SendInv, OmsRests
<1>16. CASE ExchangeAnswers
  BY <1>16 DEF ExchangeAnswers, networkKeeps, flags, SendInv, OmsRests
<1>17. CASE LinkBreaks
  BY <1>17 DEF LinkBreaks, networkKeeps, flags, SendInv, OmsRests
<1> QED
  BY <1>1, <1>2, <1>3, <1>4, <1>5, <1>6, <1>7, <1>8, <1>9, <1>10, <1>11, <1>12, <1>13, <1>14,
     <1>15, <1>16, <1>17 DEF Next, ExchangeThread, OmsThread

LEMMA PrefixElements ==
  ASSUME NEW S, NEW s \in Seq(S), NEW n \in 0 .. Len(s)
  PROVE  /\ SubSeq(s, 1, n) \in Seq(S) /\ Len(SubSeq(s, 1, n)) = n
         /\ \A i \in 1 .. n : SubSeq(s, 1, n)[i] = s[i]
         /\ Elements(SubSeq(s, 1, n)) \subseteq Elements(s)
<1>1. /\ SubSeq(s, 1, n) \in Seq(S) /\ Len(SubSeq(s, 1, n)) = n
      /\ \A i \in 1 .. n : SubSeq(s, 1, n)[i] = s[i]
  OBVIOUS
<1>2. \A i \in 1 .. n : i \in 1 .. Len(s)
  OBVIOUS
<1> QED  BY <1>1, <1>2 DEF Elements

LEMMA ReplayEnds ==
  ASSUME NetworkInv, NEW s \in 1 .. Streams
  PROVE  /\ Elements(Replay(s)) = Elements(exchangeLog[s]) \cup {Trailer}
         /\ \A i \in 1 .. Len(Replay(s)) : Replay(s)[i] = Trailer => i = Len(Replay(s))
<1>1. exchangeLog[s] \in Seq(AnswersToSent)
  BY DEF NetworkInv
<1>2. Elements(Replay(s)) = Elements(exchangeLog[s]) \cup {Trailer}
  BY <1>1, AppendElements DEF Replay
<1>3. Trailer \notin AnswersToSent
  BY DEF Trailer, AnswersToSent
<1> HIDE DEF Trailer
<1>4. /\ Len(Replay(s)) = Len(exchangeLog[s]) + 1
      /\ \A i \in 1 .. Len(exchangeLog[s]) : Replay(s)[i] = exchangeLog[s][i]
      /\ \A i \in 1 .. Len(exchangeLog[s]) : exchangeLog[s][i] \in AnswersToSent
  BY <1>1 DEF Replay
<1> QED  BY <1>1, <1>2, <1>3, <1>4

LEMMA TrailerStep ==
  ASSUME SendInv, TrailerInv, NetworkInv, [Next]_allVars
  PROVE  TrailerInv'
<1> USE GatewayAssumption
<1> DEFINE In == AnswersToSent \cup {Trailer}
<1>1. inbox \in Seq(In) /\ Elements(<<>>) = {}
  BY DEF NetworkInv, Elements
<1>2. CASE Connect \/ TrailerOfLast
  <2>1. inbox' = <<>>
    BY <1>2, TrailerReceived DEF Connect, TrailerOfLast
  <2> QED  BY <1>1, <2>1 DEF TrailerInv, Elements
<1>3. ASSUME NEW s \in 1 .. Streams, NEW unread, RequestStream(s, unread),
             link = "up" => unread = <<>>,
             \A i \in 1 .. Len(unread) : unread[i] # Trailer
      PROVE  TrailerInv'
  <2>1. exchPc' # "download" \/ (inbox' = unread \o Replay(s) /\ link = "up") \/ inbox' = unread
    BY <1>3 DEF RequestStream
  <2>2. exchPc' \in {"download", "reset"}
    BY <1>3 DEF RequestStream
  <2>3. Replay(s) \in Seq(In)
    <3>1. exchangeLog[s] \in Seq(In)
      BY SeqMonotone DEF NetworkInv
    <3> QED  BY <3>1 DEF Replay
  <2>4. unread = <<>> => unread \o Replay(s) = Replay(s)
    BY <2>3
  <2>5. inbox' = Replay(s) \/ inbox' = unread \/ exchPc' # "download"
    BY <1>3, <2>1, <2>4
  <2>6. exchPc' = "download" => \A i \in 1 .. Len(inbox') : inbox'[i] = Trailer => i = Len(inbox')
    BY <1>3, <2>5, ReplayEnds
  <2> QED  BY <2>2, <2>6 DEF TrailerInv, Starting, Settling, Trailer
<1>4. CASE MessageDownload
  <2>1. \A i \in 1 .. Len(inbox) : inbox[i] # Trailer
    BY <1>4 DEF MessageDownload, TrailerInv, Starting, Elements
  <2>2. link = "up" => inbox = <<>>
    BY <1>4 DEF MessageDownload, TrailerInv, Starting, OmsRests
  <2> QED  BY <1>3, <1>4, <2>1, <2>2 DEF MessageDownload
<1>5. CASE TrailerOfStream
  <2>1. Tail(inbox) = <<>>
    BY <1>5, TrailerReceived DEF TrailerOfStream
  <2>2. currStream + 1 \in 1 .. Streams
    BY <1>5 DEF TrailerOfStream, NextStream, NetworkInv
  <2>3. RequestStream(currStream + 1, <<>>)
    BY <1>5, <2>1 DEF TrailerOfStream
  <2> QED  BY <1>3, <2>2, <2>3
<1>6. CASE ReceiveAnswer \/ ReceiveErrorCode
  <2>1. exchPc' = exchPc /\ exchPc \in {"download", "live"} /\ inbox # <<>> /\ inbox' = Tail(inbox)
    BY <1>6 DEF ReceiveAnswer, ReceiveErrorCode, CanReceive
  <2>2. /\ Elements(inbox') \subseteq Elements(inbox)
        /\ Len(inbox') = Len(inbox) - 1 /\ \A i \in 1 .. Len(inbox') : inbox'[i] = inbox[i + 1]
    BY <1>1, <2>1, TailElements
  <2>3. \A i \in 1 .. Len(inbox') : i + 1 \in 1 .. Len(inbox)
    BY <1>1, <2>1, <2>2
  <2>4. ASSUME exchPc = "download", NEW i \in 1 .. Len(inbox'), inbox'[i] = Trailer
        PROVE  i = Len(inbox')
    <3>1. i + 1 = Len(inbox)
      BY <2>2, <2>3, <2>4 DEF TrailerInv
    <3> QED  BY <1>1, <2>2, <3>1
  <2> QED  BY <2>1, <2>2, <2>4 DEF TrailerInv, Starting, Settling, Trailer
<1>7. ASSUME inbox' = inbox,
             \/ exchPc' \notin Starting \cup {"download", "live"} \cup Settling
             \/ /\ exchPc' = exchPc \/ {exchPc, exchPc'} \subseteq Starting
                /\ OmsRests' /\ link' = "up" => OmsRests /\ link = "up"
             \/ exchPc \in Settling /\ exchPc' \in Settling \cup {"live"}
      PROVE  TrailerInv'
  BY <1>7 DEF TrailerInv, Starting, Settling, Elements, Trailer
<1>8. CASE \/ SecureBoxOut \/ SignOnOut \/ SystemInformationOut \/ ReportAnswer
  BY <1>7, <1>8 DEF SecureBoxOut, SignOnOut, SystemInformationOut, ReportAnswer, Starting,
     network, OmsRests
<1>9. CASE OrderHistoryIsEmpty \/ RejectUnknown \/ ReportUnknown \/ ExchangeUp
  BY <1>7, <1>9 DEF OrderHistoryIsEmpty, RejectUnknown, ReportUnknown, ExchangeUp, Settling,
     network
<1>10. CASE ReceiveFails \/ ResetConnection \/ ExchangeDown \/ DisconnectOms
  BY <1>7, <1>10 DEF ReceiveFails, ResetConnection, ExchangeDown, DisconnectOms, Starting,
     Settling, network
<1>11. CASE \/ StartOms \/ OmsAccepted \/ ReportDown \/ Track \/ CheckSend \/ WriteOrder
            \/ WriteHeartbeat \/ TakeOrderFromOms \/ TakeHeartbeat \/ Removing(exch)
            \/ Removing(oms) \/ UNCHANGED allVars
  <2>1. UNCHANGED <<exchPc, inbox, link>>
    BY <1>11 DEF StartOms, OmsAccepted, ReportDown, Track, CheckSend, WriteOrder,
       WriteHeartbeat, TakeOrderFromOms, TakeHeartbeat, Removing, gatewayVars, allVars,
       omsKeeps
  <2>2. OmsRests' => OmsRests \/ link = "broken"
    BY <1>11 DEF StartOms, OmsAccepted, ReportDown, Track, CheckSend, WriteOrder,
       WriteHeartbeat, TakeOrderFromOms, TakeHeartbeat, Removing, gatewayVars, allVars,
       OmsRests
  <2> QED  BY <1>7, <2>1, <2>2
<1>12. CASE ExchangeAnswers
  <2>1. /\ wire # <<>> /\ UNCHANGED <<exchPc, omsPc, _process, link>>
        /\ inbox' = inbox \/ \E a : a.kind \in AnswerKinds /\ inbox' = Append(inbox, a)
    <3>1. \A kind \in AnswerKinds : \A id : [kind |-> kind, id |-> id].kind \in AnswerKinds
      OBVIOUS
    <3> QED  BY <1>12, <3>1 DEF ExchangeAnswers, networkKeeps
  <2>2. exchPc # "download" /\ ~(exchPc \in Starting /\ OmsRests)
    BY <2>1 DEF SendInv, Downloading, OmsRests
  <2>3. Trailer \notin Elements(inbox) => Trailer \notin Elements(inbox')
    <3>1. ASSUME NEW a, a.kind \in AnswerKinds, inbox' = Append(inbox, a)
          PROVE  Elements(inbox') = Elements(inbox) \cup {a} /\ a # Trailer
      BY <1>1, <3>1, AppendElements DEF AnswerKinds, Trailer
    <3> QED  BY <2>1, <3>1
  <2> QED  BY <2>1, <2>2, <2>3 DEF TrailerInv, OmsRests, Trailer
<1>13. CASE LinkBreaks
  <2>1. PICK n \in 0 .. Len(inbox) : inbox' = SubSeq(inbox, 1, n)
    BY <1>13 DEF LinkBreaks
  <2>2. /\ Len(inbox') = n /\ \A i \in 1 .. n : inbox'[i] = inbox[i]
        /\ Elements(inbox') \subseteq Elements(inbox)
    BY <1>1, <2>1, PrefixElements
  <2>3. exchPc' = exchPc /\ link' = "broken"
    BY <1>13 DEF LinkBreaks, networkKeeps
  <2>4. ASSUME exchPc = "download", NEW i \in 1 .. n, inbox'[i] = Trailer
        PROVE  i = n
    <3>1. i \in 1 .. Len(inbox) /\ inbox[i] = Trailer
      BY <1>1, <2>2, <2>4
    <3> QED  BY <1>1, <3>1, <2>4 DEF TrailerInv
  <2> QED  BY <2>2, <2>3, <2>4 DEF TrailerInv, Trailer
<1> QED
  BY <1>2, <1>4, <1>5, <1>6, <1>8, <1>9, <1>10, <1>11, <1>12, <1>13
  DEF Next, ExchangeThread, OmsThread

-----------------------------------------------------------------------------
(* What a download settles.                                                *)

\* Inside removeIdFromOrderHistory ids leave the history, none comes.
LEMMA HeldShrinks ==
  ASSUME HistoryTypeOK, NEW t \in Threads, PopOne(t) \/ PopNone(t) \/ PushBack(t) \/ EndRemove(t)
  PROVE  Held' \subseteq Held
<1>1. orderHistory \in Seq(Ids) /\ tempContainer \in [Threads -> Seq(Ids)]
  BY DEF HistoryTypeOK
<1>2. ASSUME Elements(orderHistory') \subseteq Held,
             \A u \in Threads : Elements(tempContainer'[u]) \subseteq Held
      PROVE  Held' \subseteq Held
  BY <1>2 DEF Held, Elements
<1>3. CASE PopOne(t)
  <2>1. /\ Elements(orderHistory) = Elements(Tail(orderHistory)) \cup {Head(orderHistory)}
        /\ Head(orderHistory) \in Ids /\ orderHistory' = Tail(orderHistory)
    BY <1>1, <1>3, TailElements DEF PopOne
  <2>2. ASSUME NEW u \in Threads  PROVE Elements(tempContainer'[u]) \subseteq Held
    <3>1. tempContainer'[u] \in {tempContainer[u], Append(tempContainer[u], Head(orderHistory))}
      BY <1>1, <1>3 DEF PopOne
    <3>2. Elements(Append(tempContainer[u], Head(orderHistory)))
            = Elements(tempContainer[u]) \cup {Head(orderHistory)}
      BY <1>1, <2>1, AppendElements
    <3>3. Elements(tempContainer[u]) \cup {Head(orderHistory)} \subseteq Held
      BY <2>1 DEF Held
    <3> QED  BY <3>1, <3>2, <3>3
  <2>3. Elements(orderHistory') \subseteq Held
    BY <2>1 DEF Held
  <2> QED  BY <1>2, <2>2, <2>3
<1>4. CASE PushBack(t)
  <2>1. /\ tempContainer[t] \in Seq(Ids) /\ tempContainer[t] # <<>>
        /\ orderHistory' = Append(orderHistory, Head(tempContainer[t]))
    BY <1>1, <1>4 DEF PushBack
  <2>2. Elements(tempContainer[t]) = Elements(Tail(tempContainer[t])) \cup {Head(tempContainer[t])}
    BY <2>1, TailElements
  <2>3. Elements(orderHistory') = Elements(orderHistory) \cup {Head(tempContainer[t])}
    BY <1>1, <2>1, AppendElements
  <2>4. Elements(orderHistory') \subseteq Held
    BY <2>2, <2>3 DEF Held
  <2>5. ASSUME NEW u \in Threads  PROVE Elements(tempContainer'[u]) \subseteq Held
    <3>1. tempContainer'[u] = IF u = t THEN Tail(tempContainer[t]) ELSE tempContainer[u]
      BY <1>1, <1>4 DEF PushBack
    <3> QED  BY <2>2, <3>1 DEF Held
  <2> QED  BY <1>2, <2>4, <2>5
<1>5. CASE PopNone(t) \/ EndRemove(t)
  <2>1. UNCHANGED <<orderHistory, tempContainer>>
    BY <1>5 DEF PopNone, EndRemove
  <2> QED  BY <2>1 DEF Held, Elements
<1> QED  BY <1>3, <1>4, <1>5

\* While it downloads and settles, and the OMS thread does not drain, only
\* the exchange thread touches the history, and the exchange answers nothing.
LEMMA CalmSteps ==
  ASSUME GatewayInv, ThreadsInv, SendInv, TrailerInv, Calm', [Next]_allVars,
         exchPc' \in Downloading
  PROVE  /\ Calm /\ owed' = owed /\ exchangeLog' = exchangeLog /\ phase[oms] = "idle"
         /\ \/ MessageDownload \/ ReceiveAnswer \/ ReportAnswer \/ ReceiveErrorCode
            \/ TrailerOfStream \/ TrailerOfLast \/ OrderHistoryIsEmpty \/ RejectUnknown
            \/ ReportUnknown \/ Removing(exch) \/ LinkBreaks
            \/ UNCHANGED <<historyVars, exchPc, currStream, inbox>>
<1> USE HistoryAssumption, GatewayAssumption DEF Downloading, Settling
<1>1. phase \in [Threads -> Phases]
  BY DEF GatewayInv, HistoryInv, HistoryTypeOK
<1>2. Refused' = {} /\ omsPc' # "reject" /\ exchPc' # "terminated"
  BY DEF Calm
<1>3. exchPc # "terminated"
  <2>1. exchPc = "terminated" => exchPc' = "terminated"
    BY DEF Next, ExchangeThread, Connect, SecureBoxOut, SignOnOut, SystemInformationOut,
       MessageDownload, ReceiveAnswer, ReportAnswer, ReceiveErrorCode, TrailerOfStream,
       TrailerOfLast, CanReceive, OrderHistoryIsEmpty, RejectUnknown, ReportUnknown,
       ExchangeUp, ReceiveFails, ResetConnection, ExchangeDown, DisconnectOms, OmsThread,
       StartOms, OmsAccepted, ReportDown, Track, CheckSend, WriteOrder, WriteHeartbeat,
       TakeOrderFromOms, TakeHeartbeat, Removing, gatewayVars, allVars, omsKeeps,
       ExchangeAnswers, LinkBreaks, networkKeeps
  <2> QED  BY <1>2, <2>1
<1>4. ~ReportDown
  <2>1. SUFFICES ASSUME ReportDown  PROVE FALSE
    OBVIOUS
  <2>2. cur \in Ids /\ verdicts' = verdicts \cup {<<cur, "exchange down">>}
    BY <2>1 DEF ReportDown, GatewayInv, OmsInv
  <2>3. cur \in Refused'
    BY <2>2 DEF Refused, Verdict
  <2> QED  BY <1>2, <2>3
<1>5. omsPc # "reject"
  <2>1. CASE OmsThread \/ TakeOrderFromOms \/ TakeHeartbeat
    BY <1>4, <2>1 DEF OmsThread, StartOms, OmsAccepted, Track, CheckSend, WriteOrder,
       WriteHeartbeat, TakeOrderFromOms, TakeHeartbeat
  <2>2. CASE DisconnectOms
    BY <2>2 DEF DisconnectOms
  <2>3. CASE \/ Removing(exch) \/ Removing(oms) \/ ExchangeAnswers \/ LinkBreaks
             \/ UNCHANGED allVars
    BY <1>2, <2>3 DEF Removing, gatewayVars, ExchangeAnswers, LinkBreaks, networkKeeps, allVars
  <2>4. CASE ExchangeThread /\ ~DisconnectOms
    BY <1>2, <2>4 DEF ExchangeThread, Connect, SecureBoxOut, SignOnOut, SystemInformationOut,
       MessageDownload, ReceiveAnswer, ReportAnswer, ReceiveErrorCode, TrailerOfStream,
       TrailerOfLast, OrderHistoryIsEmpty, RejectUnknown, ReportUnknown, ExchangeUp,
       ReceiveFails, ResetConnection, ExchangeDown
  <2> QED  BY <2>1, <2>2, <2>3, <2>4 DEF Next
<1>6. Refused = {}
  <2>1. verdicts \subseteq verdicts'
    BY DEF Next, ExchangeThread, Connect, SecureBoxOut, SignOnOut, SystemInformationOut,
       MessageDownload, ReceiveAnswer, ReportAnswer, ReceiveErrorCode, TrailerOfStream,
       TrailerOfLast, OrderHistoryIsEmpty, RejectUnknown, ReportUnknown,
       ExchangeUp, ReceiveFails, ResetConnection, ExchangeDown, DisconnectOms, OmsThread,
       StartOms, OmsAccepted, ReportDown, Track, CheckSend, WriteOrder, WriteHeartbeat,
       TakeOrderFromOms, TakeHeartbeat, Removing, gatewayVars, allVars,
       ExchangeAnswers, LinkBreaks, networkKeeps
  <2> QED  BY <1>2, <2>1 DEF Refused, Verdict
<1>7. Calm
  BY <1>3, <1>5, <1>6 DEF Calm
<1>8. phase[oms] = "idle" /\ ~Removing(oms)
  <2>1. omsPc # "terminated"
    BY <1>3 DEF ThreadsInv
  <2>2. phase[oms] = "idle"
    BY <1>5, <2>1 DEF GatewayInv, OmsInv
  <2> QED  BY <2>2 DEF Removing, PopOne, PopNone, PushBack, EndRemove
<1>9. CASE MessageDownload
  BY <1>7, <1>8, <1>9 DEF MessageDownload, RequestStream
<1>10. CASE \/ ReceiveAnswer \/ ReportAnswer \/ ReceiveErrorCode \/ TrailerOfStream
            \/ TrailerOfLast \/ OrderHistoryIsEmpty \/ RejectUnknown \/ ReportUnknown
  BY <1>7, <1>8, <1>10 DEF ReceiveAnswer, ReportAnswer, ReceiveErrorCode, TrailerOfStream,
     RequestStream, TrailerOfLast, OrderHistoryIsEmpty, RejectUnknown, ReportUnknown, network
<1>11. CASE LinkBreaks \/ Removing(exch)
  BY <1>7, <1>8, <1>11 DEF LinkBreaks, networkKeeps, Removing, gatewayVars
<1>12. CASE UNCHANGED allVars
  BY <1>7, <1>8, <1>12 DEF allVars, gatewayVars
<1>13. CASE \/ Connect \/ SecureBoxOut \/ SignOnOut \/ SystemInformationOut \/ ExchangeUp
            \/ ReceiveFails \/ ResetConnection \/ ExchangeDown \/ DisconnectOms
  BY <1>13 DEF Connect, SecureBoxOut, SignOnOut, SystemInformationOut, ExchangeUp,
     ReceiveFails, ResetConnection, ExchangeDown, DisconnectOms
<1>14. CASE \/ StartOms \/ OmsAccepted \/ Track \/ CheckSend \/ WriteOrder
            \/ WriteHeartbeat \/ TakeOrderFromOms \/ TakeHeartbeat
  <2>1. UNCHANGED <<exchPc, currStream, inbox, exchangeLog, owed>>
    BY <1>14 DEF StartOms, OmsAccepted, Track, CheckSend, WriteOrder, WriteHeartbeat,
       TakeOrderFromOms, TakeHeartbeat, omsKeeps
  <2>2. ~Track
    BY <2>1 DEF SendInv, Track
  <2>3. TakeOrderFromOms => UNCHANGED historyVars
    BY <1>2 DEF TakeOrderFromOms
  <2>4. UNCHANGED historyVars
    BY <1>14, <2>2, <2>3 DEF StartOms, OmsAccepted, CheckSend, WriteOrder, WriteHeartbeat,
       TakeHeartbeat
  <2> QED  BY <1>7, <1>8, <2>1, <2>4
<1>15. CASE ExchangeAnswers
  <2>1. wire # <<>> /\ exchPc' = exchPc
    BY <1>15 DEF ExchangeAnswers, networkKeeps
  <2> QED  BY <2>1 DEF SendInv, OmsRests
<1> QED
  BY <1>4, <1>8, <1>9, <1>10, <1>11, <1>12, <1>13, <1>14, <1>15
  DEF Next, ExchangeThread, OmsThread

LEMMA SettleStep ==
  ASSUME GatewayInv, ThreadsInv, SendInv, TrailerInv, SettleInv, [Next]_allVars
  PROVE  SettleInv'
<1> USE HistoryAssumption, GatewayAssumption
<1> SUFFICES ASSUME Calm', exchPc' \in Downloading  PROVE SettleInv'
  BY DEF SettleInv, Downloading, Settling
<1>1. /\ Calm /\ owed' = owed /\ exchangeLog' = exchangeLog /\ phase[oms] = "idle"
      /\ \/ MessageDownload \/ ReceiveAnswer \/ ReportAnswer \/ ReceiveErrorCode
         \/ TrailerOfStream \/ TrailerOfLast \/ OrderHistoryIsEmpty \/ RejectUnknown
         \/ ReportUnknown \/ Removing(exch) \/ LinkBreaks
         \/ UNCHANGED <<historyVars, exchPc, currStream, inbox>>
  BY CalmSteps
<1>2. /\ orderHistory \in Seq(Ids) /\ tempContainer \in [Threads -> Seq(Ids)]
      /\ phase \in [Threads -> Phases] /\ removeValue \in [Threads -> Ids \cup {NoId}]
      /\ HistoryTypeOK
  BY DEF GatewayInv, HistoryInv, HistoryTypeOK
<1>3. Answered' = Answered
  BY <1>1 DEF Answered, InBooks, Elements
<1>4. tempContainer[oms] = <<>> /\ Elements(<<>>) = {}
  BY <1>1 DEF ThreadsInv, Elements
<1>5. Held = Elements(orderHistory) \cup Elements(tempContainer[exch])
  BY <1>4 DEF Held
<1>6. phase[exch] = "idle" => tempContainer[exch] = <<>>
  BY DEF ThreadsInv
<1>7. /\ exchPc = "download" /\ Trailer \in Elements(inbox) => StreamsSettled
      /\ exchPc = "front" => orderHistory # <<>>
      /\ exchPc = "reject" => removeValue[exch] \notin owed \cap Answered
      /\ exchPc \in Settling => owed \cap Answered \cap Held = {}
  BY <1>1 DEF SettleInv
<1>8. SUFFICES /\ exchPc' = "download" /\ Trailer \in Elements(inbox') => StreamsSettled'
               /\ exchPc' = "front" => orderHistory' # <<>>
               /\ exchPc' = "reject" => removeValue'[exch] \notin owed \cap Answered
               /\ exchPc' \in Settling => owed \cap Answered \cap Held' = {}
  BY <1>1, <1>3 DEF SettleInv, Trailer
<1>9. inbox \in Seq(AnswersToSent \cup {Trailer})
  BY DEF GatewayInv, NetworkInv
<1>10. ASSUME UNCHANGED <<orderHistory, tempContainer>>  PROVE Held' = Held
  BY <1>10 DEF Held, Elements
\* Of a step that stays in the download it is enough to look at one answer.
<1>11. ASSUME exchPc = "download", exchPc' = "download", UNCHANGED currStream,
              Trailer \in Elements(inbox') => Trailer \in Elements(inbox),
              \A a : a.kind = "answer" /\ Settled(a) /\ Trailer \in Elements(inbox') => Settled(a)'
       PROVE  /\ exchPc' = "download" /\ Trailer \in Elements(inbox') => StreamsSettled'
              /\ exchPc' \notin {"front", "reject"} \cup Settling
  BY <1>1, <1>7, <1>11 DEF StreamsSettled, Settling
\* A step to the next stream: the answers of it are yet to come.
<1>12. ASSUME NEW s \in 1 .. Streams, RequestStream(s, <<>>), UNCHANGED historyVars,
              \A r \in 1 .. s - 1 : \A a \in Elements(exchangeLog[r]) :
                a.kind = "answer" /\ a.id \in owed => a.id \notin Held
       PROVE  Trailer \in Elements(inbox') => StreamsSettled'
  <2> SUFFICES ASSUME Trailer \in Elements(inbox'),
                      NEW r \in 1 .. s, NEW a \in Elements(exchangeLog[r]),
                      a.kind = "answer", a.id \in owed
               PROVE  Settled(a)'
    BY <1>1, <1>12 DEF StreamsSettled, RequestStream
  <2>1. Held' = Held
    BY <1>10, <1>12 DEF historyVars
  <2>2. CASE r # s
    <3>1. r \in 1 .. s - 1
      BY <2>2
    <3> QED  BY <1>12, <2>1, <3>1 DEF Settled
  <2>3. CASE r = s
    <3>1. inbox' # <<>>
      BY <1>4
    <3>2. inbox' = <<>> \o Replay(s)
      BY <1>12, <3>1 DEF RequestStream
    <3>3. Replay(s) \in Seq(AnswersToSent \cup {Trailer})
      <4>1. exchangeLog[s] \in Seq(AnswersToSent \cup {Trailer})
        BY SeqMonotone DEF GatewayInv, NetworkInv
      <4> QED  BY <4>1 DEF Replay
    <3>4. inbox' = Replay(s)
      BY <3>2, <3>3
    <3>5. a \in Elements(inbox')
      BY <2>3, <3>4, ReplayEnds DEF GatewayInv
    <3> QED  BY <3>5 DEF Settled
  <2> QED  BY <2>2, <2>3
<1>13. CASE MessageDownload
  <2>1. exchPc' = "download" /\ UNCHANGED historyVars
    BY <1>13 DEF MessageDownload, RequestStream, Downloading, Settling
  <2>2. CASE link = "up"
    <3>1. inbox = <<>>
      BY <1>13, <2>2 DEF MessageDownload, TrailerInv, Starting, OmsRests
    <3>2. RequestStream(1, <<>>) /\ 1 \in 1 .. Streams
      BY <1>13, <3>1 DEF MessageDownload
    <3> QED  BY <1>12, <2>1, <3>2 DEF Settling
  <2>3. CASE link # "up"
    <3>1. inbox' = inbox
      BY <1>13, <2>1, <2>3 DEF MessageDownload, RequestStream
    <3>2. Trailer \notin Elements(inbox')
      BY <1>13, <3>1 DEF MessageDownload, TrailerInv, Starting, Elements
    <3> QED  BY <2>1, <3>2 DEF Settling
  <2> QED  BY <2>2, <2>3
<1>14. CASE TrailerOfStream
  <2>1. /\ exchPc = "download" /\ Trailer \in Elements(inbox)
        /\ Tail(inbox) = <<>> /\ Elements(inbox) = {Trailer}
    BY <1>14, TrailerReceived DEF TrailerOfStream, GatewayInv
  <2>2. /\ exchPc' = "download" /\ UNCHANGED historyVars /\ phase[exch] = "idle"
        /\ RequestStream(currStream + 1, <<>>)
    BY <1>14, <2>1 DEF TrailerOfStream, CanReceive, RequestStream, Downloading, Settling
  <2>3. currStream \in Nat /\ currStream + 1 \in 1 .. Streams
    BY <1>14 DEF TrailerOfStream, NextStream, GatewayInv, NetworkInv
  <2>4. \A r \in 1 .. currStream : \A a \in Elements(exchangeLog[r]) :
          a.kind = "answer" /\ a.id \in owed => a.id \notin Held
    BY <1>7, <2>1, <2>2 DEF StreamsSettled, Settled, Trailer
  <2>5. (currStream + 1) - 1 = currStream
    BY <2>3
  <2> QED  BY <1>12, <2>2, <2>3, <2>4, <2>5 DEF Settling
<1>15. CASE TrailerOfLast
  <2>1. /\ exchPc = "download" /\ Trailer \in Elements(inbox) /\ Elements(inbox) = {Trailer}
    BY <1>15, TrailerReceived DEF TrailerOfLast, GatewayInv
  <2>2. /\ exchPc' = "trailer" /\ UNCHANGED historyVars /\ phase[exch] = "idle"
    BY <1>15 DEF TrailerOfLast, CanReceive
  <2>3. currStream = Streams
    BY <1>15 DEF TrailerOfLast, NextStream, GatewayInv, NetworkInv
  <2>4. ASSUME NEW id \in owed \cap Answered  PROVE id \notin Held
    <3>1. PICK a \in InBooks : a.kind = "answer" /\ a.id = id
      BY <2>4 DEF Answered
    <3>2. PICK s \in 1 .. Streams : a \in Elements(exchangeLog[s])
      BY DEF InBooks
    <3>3. Settled(a)
      BY <1>7, <2>1, <2>3, <3>1, <3>2 DEF StreamsSettled
    <3> QED  BY <2>1, <2>2, <3>1, <3>3 DEF Settled, Trailer
  <2>5. Held' = Held
    BY <1>10, <2>2 DEF historyVars
  <2> QED  BY <2>2, <2>4, <2>5
<1>16. CASE ReceiveAnswer \/ ReceiveErrorCode
  <2>1. /\ exchPc = "download" /\ exchPc' = "download" /\ UNCHANGED currStream
        /\ inbox # <<>> /\ inbox' = Tail(inbox) /\ phase[exch] = "idle"
    BY <1>16 DEF ReceiveAnswer, ReceiveErrorCode, CanReceive, Downloading, Settling
  <2>2. Elements(inbox) = Elements(inbox') \cup {Head(inbox)}
    BY <1>9, <2>1, TailElements
  <2>3. Held' = Held
    BY <1>10, <1>16 DEF ReceiveAnswer, ReceiveErrorCode, StartRemove, historyVars
  <2>4. ASSUME NEW a, a.kind = "answer", a = Head(inbox)  PROVE Settled(a)'
    <3>1. ReceiveAnswer
      BY <1>16, <2>4 DEF ReceiveErrorCode, CanReceive
    <3>2. StartRemove(exch, a.id)
      BY <2>4, <3>1 DEF ReceiveAnswer
    <3>3. CASE orderHistory = <<>>
      <4>1. Held = {}
        BY <1>4, <1>5, <1>6, <2>1, <3>3
      <4> QED  BY <2>3, <4>1 DEF Settled
    <3>4. CASE orderHistory # <<>>
      <4>1. phase'[exch] = "pop" /\ removeValue'[exch] = a.id /\ tempContainer' = tempContainer
        BY <1>2, <3>2, <3>4 DEF StartRemove
      <4>2. a.id \notin Elements(tempContainer'[exch])
        BY <1>4, <1>6, <2>1, <4>1
      <4> QED  BY <4>1, <4>2 DEF Settled
    <3> QED  BY <3>3, <3>4
  <2>5. ASSUME NEW a, a.kind = "answer", Settled(a)  PROVE Settled(a)'
    BY <2>1, <2>2, <2>3, <2>4, <2>5 DEF Settled
  <2> QED  BY <1>11, <2>1, <2>2, <2>5
<1>17. CASE ReportAnswer
  <2>1. /\ exchPc = "download" /\ exchPc' = "download" /\ UNCHANGED <<currStream, inbox>>
        /\ phase[exch] = "done" /\ UNCHANGED <<orderHistory, tempContainer>>
    BY <1>17 DEF ReportAnswer, Report, network, Downloading, Settling
  <2>2. \A a : Settled(a) => Settled(a)'
    BY <1>10, <2>1 DEF Settled, Elements
  <2> QED  BY <1>11, <2>1, <2>2 DEF Elements
<1>18. CASE OrderHistoryIsEmpty
  <2>1. /\ exchPc = "trailer" /\ UNCHANGED historyVars
        /\ exchPc' = IF orderHistory = <<>> THEN "settled" ELSE "front"
    BY <1>18 DEF OrderHistoryIsEmpty
  <2> QED  BY <1>7, <1>10, <2>1 DEF historyVars, Settling
<1>19. CASE RejectUnknown
  <2>1. exchPc = "front" /\ orderHistory # <<>> /\ StartRemove(exch, Head(orderHistory)) /\ exchPc' = "reject"
    BY <1>7, <1>19 DEF RejectUnknown
  <2>2. Head(orderHistory) \in Held
    BY <1>2, <1>5, <2>1, TailElements
  <2>3. removeValue'[exch] = Head(orderHistory) /\ Held' = Held
    BY <1>2, <1>10, <2>1 DEF StartRemove
  <2> QED  BY <1>7, <2>1, <2>2, <2>3 DEF Settling
<1>20. CASE ReportUnknown
  <2>1. exchPc = "reject" /\ exchPc' = "trailer" /\ UNCHANGED <<orderHistory, tempContainer>>
    BY <1>20 DEF ReportUnknown, Report
  <2> QED  BY <1>7, <1>10, <2>1 DEF Settling
<1>21. CASE Removing(exch)
  <2>1. /\ UNCHANGED <<exchPc, currStream, inbox, removeValue>> /\ phase[exch] # "idle"
        /\ PopOne(exch) \/ PopNone(exch) \/ PushBack(exch) \/ EndRemove(exch)
    BY <1>21 DEF Removing, PopOne, PopNone, PushBack, EndRemove, gatewayVars
  <2>2. Held' \subseteq Held
    BY <1>2, <2>1, HeldShrinks
  <2>3. exchPc \in {"download", "reject"}
    BY <2>1 DEF ThreadsInv, Downloading, Settling
  <2>4. CASE exchPc = "reject"
    BY <1>7, <2>1, <2>2, <2>4 DEF Settling
  <2>5. CASE exchPc = "download"
    <3>1. ASSUME NEW a, Settled(a)  PROVE Settled(a)'
      <4>1. CASE a.id \notin Held \/ a \in Elements(inbox)
        BY <2>1, <2>2, <4>1 DEF Settled, Elements
      <4>2. CASE phase[exch] = "pop" /\ removeValue[exch] = a.id
                 /\ a.id \notin Elements(tempContainer[exch])
        <5>1. CASE PopOne(exch)
          <6>1. /\ phase'[exch] = "pop" /\ removeValue'[exch] = a.id
                /\ tempContainer'[exch] = IF Head(orderHistory) # a.id
                     THEN Append(tempContainer[exch], Head(orderHistory))
                     ELSE tempContainer[exch]
            BY <1>2, <4>2, <5>1 DEF PopOne
          <6>2. Elements(Append(tempContainer[exch], Head(orderHistory)))
                  = Elements(tempContainer[exch]) \cup {Head(orderHistory)}
            BY <1>2, AppendElements
          <6>3. a.id \notin Elements(tempContainer'[exch])
            BY <4>2, <6>1, <6>2
          <6> QED  BY <6>1, <6>3 DEF Settled
        <5>2. CASE PopNone(exch)
          <6>1. a.id \notin Held
            BY <1>4, <1>5, <4>2, <5>2 DEF PopNone
          <6> QED  BY <2>2, <6>1 DEF Settled
        <5> QED  BY <2>1, <4>2, <5>1, <5>2 DEF PushBack, EndRemove
      <4> QED  BY <3>1, <4>1, <4>2 DEF Settled
    <3>2. Elements(inbox') = Elements(inbox)
      BY <2>1
    <3> QED  BY <1>11, <2>1, <2>5, <3>1, <3>2
  <2> QED  BY <2>3, <2>4, <2>5
<1>22. CASE LinkBreaks
  <2>1. UNCHANGED <<historyVars, exchPc, currStream>>
    BY <1>22 DEF LinkBreaks, networkKeeps
  <2>2. ASSUME exchPc = "download", Trailer \in Elements(inbox')  PROVE inbox' = inbox
    <3>1. PICK n \in 0 .. Len(inbox) : inbox' = SubSeq(inbox, 1, n)
      BY <1>22 DEF LinkBreaks
    <3>2. /\ Len(inbox') = n /\ \A i \in 1 .. n : inbox'[i] = inbox[i]
      BY <1>9, <3>1, PrefixElements
    <3>3. PICK i \in 1 .. n : inbox[i] = Trailer
      BY <2>2, <3>2 DEF Elements
    <3>4. i = Len(inbox)
      BY <1>9, <2>2, <3>3 DEF TrailerInv
    <3>5. n = Len(inbox)
      BY <1>9, <3>3, <3>4
    <3> QED  BY <1>9, <3>1, <3>5
  <2>3. Held' = Held
    BY <1>10, <2>1 DEF historyVars
  <2>4. CASE exchPc = "download"
    <3>1. \A a : Settled(a) /\ Trailer \in Elements(inbox') => Settled(a)'
      BY <2>1, <2>2, <2>3, <2>4 DEF Settled, historyVars, Elements
    <3>2. Trailer \in Elements(inbox') => Trailer \in Elements(inbox)
      BY <2>2, <2>4
    <3> QED  BY <1>11, <2>1, <2>4, <3>1, <3>2
  <2>5. CASE exchPc # "download"
    BY <1>7, <2>1, <2>3, <2>5 DEF historyVars, Settling
  <2> QED  BY <2>4, <2>5
<1>23. CASE UNCHANGED <<historyVars, exchPc, currStream, inbox>>
  <2>1. Held' = Held
    BY <1>10, <1>23 DEF historyVars
  <2>2. \A a : Settled(a) => Settled(a)'
    BY <1>23, <2>1 DEF Settled, historyVars, Elements
  <2>3. Elements(inbox') = Elements(inbox)
    BY <1>23
  <2>4. CASE exchPc = "download"
    BY <1>11, <1>23, <2>2, <2>3, <2>4
  <2>5. CASE exchPc # "download"
    BY <1>7, <1>23, <2>1, <2>5 DEF historyVars, Settling
  <2> QED  BY <2>4, <2>5
<1> QED
  BY <1>1, <1>13, <1>14, <1>15, <1>16, <1>17, <1>18, <1>19, <1>20, <1>21, <1>22, <1>23

SettledInv == ThreadsInv /\ SendInv /\ TrailerInv /\ SettleInv

LEMMA SettledInvariant == Spec => []SettledInv
<1>1. Init => SettledInv
  <2> SUFFICES ASSUME Init  PROVE SettledInv
    OBVIOUS
  <2>1. /\ exchPc = "connect" /\ omsPc = "login" /\ ~_nowExchangeLive
        /\ link = "broken" /\ wire = <<>>
        /\ phase = [t \in Threads |-> "idle"] /\ tempContainer = [t \in Threads |-> <<>>]
    BY DEF Init, HistoryInit
  <2>2. phase[exch] = "idle" /\ \A t \in Threads : tempContainer[t] = <<>>
    BY <2>1, GatewayAssumption
  <2> QED
    BY <2>1, <2>2 DEF SettledInv, ThreadsInv, SendInv, TrailerInv, SettleInv, Starting, Settling,
       Downloading
<1>2. GatewayInv /\ SettledInv /\ [Next]_allVars => SettledInv'
  <2> SUFFICES ASSUME GatewayInv, SettledInv, [Next]_allVars  PROVE SettledInv'
    OBVIOUS
  <2> QED
    BY ThreadsStep, SendStep, TrailerStep, SettleStep DEF SettledInv, GatewayInv
<1> QED  BY <1>1, <1>2, GatewayInvariant, PTL DEF Spec

\* When the download has ended, every order that was open when the session
\* began has been reported on, but for those the OMS thread holds in a drain
\* of its own: the loop of the trailer ends on an empty history, the history
\* forgets nothing, and the only handler left is a refusal, of a new order.
THEOREM EveryDownloadSettles == Spec => DownloadSettles
<1>1. Accounted /\ GatewayTypeOK /\ GatewayInv /\ SettledInv /\ [Next]_allVars
        => [exchPc # "settled" /\ exchPc' = "settled"
             => owed \subseteq reported \cup Elements(tempContainer[oms])]_allVars
  <2> SUFFICES ASSUME Accounted, GatewayTypeOK, GatewayInv, SettledInv, [Next]_allVars,
                      exchPc # "settled", exchPc' = "settled",
                      NEW id \in owed, id \notin reported
               PROVE  id \in Elements(tempContainer[oms])
    OBVIOUS
  <2>1. OrderHistoryIsEmpty
    BY DEF Next, ExchangeThread, Connect, SecureBoxOut, SignOnOut, SystemInformationOut,
       MessageDownload, RequestStream, ReceiveAnswer, ReportAnswer, ReceiveErrorCode,
       TrailerOfStream, TrailerOfLast, RejectUnknown, ReportUnknown, ExchangeUp, ReceiveFails,
       ResetConnection, ExchangeDown, DisconnectOms, OmsThread, StartOms, OmsAccepted,
       ReportDown, Track, CheckSend, WriteOrder, WriteHeartbeat, TakeOrderFromOms,
       TakeHeartbeat, Removing, gatewayVars, allVars, omsKeeps, ExchangeAnswers, LinkBreaks,
       networkKeeps
  <2>2. exchPc = "trailer" /\ orderHistory = <<>>
    BY <2>1 DEF OrderHistoryIsEmpty
  <2>3. phase[exch] = "idle" /\ tempContainer[exch] = <<>> /\ omsPc # "terminated"
    BY <2>2, GatewayAssumption DEF SettledInv, ThreadsInv
  <2>4. id \in tracked
    BY DEF GatewayTypeOK
  <2>5. ASSUME NEW t \in Threads, phase[t] # "idle"  PROVE removeValue[t] # id
    <3>1. t = oms
      BY <2>3, <2>5, GatewayAssumption
    <3>2. omsPc = "reject"
      BY <2>3, <2>5, <3>1 DEF GatewayInv, OmsInv
    <3>3. removeValue[oms] \notin tracked
      BY <3>2 DEF GatewayInv, OmsInv, sent
    <3> QED  BY <2>4, <3>1, <3>3
  <2>6. id \in Held
    BY <2>4, <2>5 DEF Accounted, InHandler
  <2>7. Elements(<<>>) = {}
    BY DEF Elements
  <2> QED  BY <2>2, <2>3, <2>6, <2>7, GatewayAssumption DEF Held
<1> QED
  BY <1>1, GatewayForgetsNoOrder, GatewayTypeCorrect, GatewayInvariant, SettledInvariant, PTL
  DEF Spec, DownloadSettles

\* An order that was open when the session began and is then reported as
\* unknown has no answer in the books of the exchange, unless the OMS thread
\* has refused an order: the answers of every stream have been received before
\* the loop of the trailer looks at the history, and no order is sent before
\* the loop ends.
THEOREM UnknownHasNoAnswer == Spec => UnknownAtExchange
<1> DEFINE Step == \A id \in owed :
             id \in Verdict("unknown order")' \ Verdict("unknown order")
               => id \notin Answered \/ Verdict("exchange down") # {} \/ omsPc = "reject"
<1>1. SettledInv /\ [Next]_allVars => [Step]_allVars
  <2> SUFFICES ASSUME SettledInv, [Next]_allVars, NEW id \in owed,
                      id \in Verdict("unknown order")', id \notin Verdict("unknown order"),
                      Verdict("exchange down") = {}, omsPc # "reject"
               PROVE  id \notin Answered
    OBVIOUS
  <2>1. verdicts' # verdicts
    BY DEF Verdict
  <2>2. CASE ReportUnknown
    <3>1. exchPc = "reject" /\ verdicts' = verdicts \cup {<<removeValue[exch], "unknown order">>}
      BY <2>2 DEF ReportUnknown
    <3>2. id = removeValue[exch]
      BY <3>1 DEF Verdict
    <3>3. Calm
      BY <3>1 DEF Calm, Refused
    <3> QED  BY <3>1, <3>2, <3>3 DEF SettledInv, SettleInv
  <2>3. CASE ReportAnswer \/ ReportDown
    <3>1. \E told, v : v \in {"answer", "exchange down"} /\ verdicts' = verdicts \cup {<<told, v>>}
      BY <2>3 DEF ReportAnswer, ReportDown
    <3> QED  BY <3>1 DEF Verdict
  <2> QED
    BY <2>1, <2>2, <2>3 DEF Next, ExchangeThread, Connect, SecureBoxOut, SignOnOut,
       SystemInformationOut, MessageDownload, ReceiveAnswer, ReceiveErrorCode,
       TrailerOfStream, TrailerOfLast, OrderHistoryIsEmpty, RejectUnknown, ExchangeUp,
       ReceiveFails, ResetConnection, ExchangeDown, DisconnectOms, OmsThread, StartOms,
       OmsAccepted, Track, CheckSend, WriteOrder, WriteHeartbeat, TakeOrderFromOms,
       TakeHeartbeat, Removing, gatewayVars, allVars, ExchangeAnswers, LinkBreaks,
       networkKeeps
<1> QED
  BY <1>1, SettledInvariant, PTL DEF Spec, UnknownAtExchange
=============================================================================
