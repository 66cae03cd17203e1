-------------------------- MODULE NseOrderGateway --------------------------
(***************************************************************************)
(* The NSE FO order gateway: the exchange thread (Connection::start), the  *)
(* OMS thread (Adapter::startOmsRcv), the order history they share, and    *)
(* around them an exchange that may break the connection and an OMS.       *)
(*                                                                         *)
(* A session is one run of the receive loop of Connection::start.  After   *)
(* the sign-on the gateway downloads, stream by stream, what the exchange  *)
(* answered so far, and reports every answer again; what is then left in   *)
(* the order history is rejected as unknown, and the gateway is live.      *)
(*                                                                         *)
(* Not here: the TLS exchange with the gateway router that precedes a      *)
(* session, trades (they do not touch the history), the contents of        *)
(* orders and reports, and the throttle, which is only the time an order   *)
(* may spend between the check of the exchange status and its send.        *)
(***************************************************************************)
EXTENDS OrderHistory

CONSTANTS
  exch,         \* the exchange thread
  Streams,      \* number of download streams the exchange announces
  MaxSessions   \* bound: sessions, the last of which does not break

ASSUME GatewayAssumption ==
  /\ exch # oms /\ Threads = {oms, exch}
  /\ Streams \in Nat \ {0}
  /\ MaxSessions \in Nat \ {0}

VARIABLES
  exchPc, omsPc,       \* where the two threads are
  cur,                 \* the order receiveFromOMS works on
  isSecureBoxDone, _connected, _nowExchangeLive, _loggedIn, _process,
  currStream,
  omsSocket,           \* the socket of _omsSender: "none", "listening", "connected", "closed"
  link,                \* the socket to the exchange: "up" or "broken"
  inbox,               \* bytes of the exchange not yet received
  wire,                \* orders on their way to the exchange
  exchangeLog,         \* per stream, what the exchange answered
  session,             \* history: number of sessions begun
  owed,                \* history: orders unanswered when the session began
  verdicts             \* history: what the OMS was told, as <<id, verdict>>

flags       == <<isSecureBoxDone, _connected, _nowExchangeLive, _loggedIn>>
network     == <<link, inbox, wire, exchangeLog>>
gatewayVars == <<exchPc, omsPc, cur, isSecureBoxDone, _connected, _nowExchangeLive,
                 _loggedIn, _process, currStream, omsSocket, link, inbox, wire,
                 exchangeLog, session, owed, verdicts>>
allVars     == <<historyVars, gatewayVars>>

\* An answer takes the id out of the history, unless it is a confirmation
\* with an error code, on which its handler returns at once.
AnswerKinds == {"answer", "errorCode"}
Messages    == [kind : AnswerKinds \cup {"trailer"}, id : Ids \cup {NoId}]
Trailer     == [kind |-> "trailer", id |-> NoId]

Replay(stream) == Append(exchangeLog[stream], Trailer)

Init ==
  /\ HistoryInit
  /\ exchPc = "connect" /\ omsPc = "login" /\ cur = NoId
  /\ isSecureBoxDone = FALSE /\ _connected = FALSE /\ _nowExchangeLive = FALSE
  /\ _loggedIn = FALSE /\ _process = FALSE
  /\ currStream = 0
  /\ omsSocket = "none"
  /\ link = "broken" /\ inbox = <<>> /\ wire = <<>>
  /\ exchangeLog = [s \in 1 .. Streams |-> <<>>]
  /\ session = 0 /\ owed = {} /\ verdicts = {}
-----------------------------------------------------------------------------
(* The exchange thread.                                                    *)

\* Connection::start connects; the router exchange that follows leads to the
\* socket of the session.
Connect ==
  /\ exchPc = "connect" /\ session < MaxSessions
  /\ session' = session + 1
  /\ link' = "up" /\ inbox' = <<>> /\ wire' = <<>>
  /\ _connected' = TRUE
  /\ owed' = tracked \ reported
  /\ exchPc' = "handshake"
  /\ UNCHANGED <<historyVars, omsPc, cur, isSecureBoxDone, _nowExchangeLive, _loggedIn,
                 _process, currStream, omsSocket, exchangeLog, verdicts>>

SecureBoxOut ==
  /\ exchPc = "handshake" /\ link = "up"
  /\ isSecureBoxDone' = TRUE
  /\ exchPc' = "secureBox"
  /\ UNCHANGED <<historyVars, omsPc, cur, _connected, _nowExchangeLive, _loggedIn,
                 _process, currStream, omsSocket, network, session, owed, verdicts>>

\* The box sign-on, then the sign-on: onLogon.  _loggedIn is never reset.
SignOnOut ==
  /\ exchPc = "secureBox" /\ link = "up"
  /\ _loggedIn' = TRUE
  /\ exchPc' = "signedOn"
  /\ UNCHANGED <<historyVars, omsPc, cur, isSecureBoxDone, _connected, _nowExchangeLive,
                 _process, currStream, omsSocket, network, session, owed, verdicts>>

SystemInformationOut ==
  /\ exchPc = "signedOn" /\ link = "up"
  /\ exchPc' = "waitForOms"
  /\ UNCHANGED <<historyVars, omsPc, cur, flags, _process, currStream, omsSocket,
                 network, session, owed, verdicts>>

\* The request for a stream, and what the exchange replays.  On a broken
\* link the write fails, or its bytes are lost.
RequestStream(stream, unread) ==
  /\ currStream' = stream
  /\ \/ link = "up"     /\ exchPc' = "download" /\ inbox' = unread \o Replay(stream)
     \/ link = "broken" /\ exchPc' = "download" /\ inbox' = unread
     \/ link = "broken" /\ exchPc' = "reset"    /\ inbox' = <<>>
  /\ UNCHANGED <<link, wire, exchangeLog>>

\* ... once the OMS is connected, for which the handler polls.
MessageDownload ==
  /\ exchPc = "waitForOms" /\ _process
  /\ RequestStream(1, inbox)
  /\ UNCHANGED <<historyVars, omsPc, cur, flags, _process, omsSocket, session, owed, verdicts>>

CanReceive(kinds) ==
  /\ exchPc \in {"download", "live"} /\ phase[exch] = "idle"
  /\ inbox # <<>> /\ Head(inbox).kind \in kinds

\* onMessage of an answer begins by taking the id out of the history.
ReceiveAnswer ==
  /\ CanReceive({"answer"})
  /\ inbox' = Tail(inbox)
  /\ StartRemove(exch, Head(inbox).id)
  /\ UNCHANGED <<exchPc, omsPc, cur, flags, _process, currStream, omsSocket, link, wire,
                 exchangeLog, session, owed, verdicts>>

\* ... and ends by reporting it.
ReportAnswer ==
  /\ exchPc \in {"download", "live"}
  /\ Report(exch)
  /\ verdicts' = verdicts \cup {<<removeValue[exch], "answer">>}
  /\ UNCHANGED <<exchPc, omsPc, cur, flags, _process, currStream, omsSocket, network,
                 session, owed>>

ReceiveErrorCode ==
  /\ CanReceive({"errorCode"})
  /\ inbox' = Tail(inbox)
  /\ UNCHANGED <<historyVars, exchPc, omsPc, cur, flags, _process, currStream, omsSocket,
                 link, wire, exchangeLog, session, owed, verdicts>>

\* Mutant of NextStream: the last stream is not asked for.
NextStreamEarly == currStream + 1 < Streams

NextStream == currStream < Streams

\* The trailer of a stream: on to the next one.
TrailerOfStream ==
  /\ CanReceive({"trailer"}) /\ NextStream
  /\ RequestStream(currStream + 1, Tail(inbox))
  /\ UNCHANGED <<historyVars, omsPc, cur, flags, _process, omsSocket, session, owed, verdicts>>

\* Mutant of TrailerOfLast: the stream is counted before the test.
TrailerOfLastCounts ==
  /\ CanReceive({"trailer"}) /\ ~NextStream
  /\ inbox' = Tail(inbox)
  /\ currStream' = currStream + 1
  /\ exchPc' = "trailer"
  /\ UNCHANGED <<historyVars, omsPc, cur, flags, _process, omsSocket, link, wire,
                 exchangeLog, session, owed, verdicts>>

\* The trailer of the last stream.
TrailerOfLast ==
  /\ CanReceive({"trailer"}) /\ ~NextStream
  /\ inbox' = Tail(inbox)
  /\ exchPc' = "trailer"
  /\ UNCHANGED <<historyVars, omsPc, cur, flags, _process, currStream, omsSocket, link,
                 wire, exchangeLog, session, owed, verdicts>>

\* while (!orderHistoryIsEmpty()): the test, ...
OrderHistoryIsEmpty ==
  /\ exchPc = "trailer"
  /\ exchPc' = IF orderHistory = <<>> THEN "settled" ELSE "front"
  /\ UNCHANGED <<historyVars, omsPc, cur, flags, _process, currStream, omsSocket, network,
                 session, owed, verdicts>>

\* Mutant of RejectUnknown: the front is popped (removeClOrdId), where the
\* code calls removeIdFromOrderHistory.
RejectUnknownPop ==
  /\ exchPc = "front" /\ orderHistory # <<>> /\ phase[exch] = "idle"
  /\ orderHistory' = Tail(orderHistory)
  /\ phase' = [phase EXCEPT ![exch] = "done"]
  /\ removeValue' = [removeValue EXCEPT ![exch] = Head(orderHistory)]
  /\ exchPc' = "reject"
  /\ UNCHANGED <<tempContainer, tracked, dropped, reported, omsPc, cur, flags, _process,
                 currStream, omsSocket, network, session, owed, verdicts>>

\* Mutant of RejectUnknown: the id stays in the history.
RejectUnknownKeeps ==
  /\ exchPc = "front" /\ orderHistory # <<>> /\ phase[exch] = "idle"
  /\ phase' = [phase EXCEPT ![exch] = "done"]
  /\ removeValue' = [removeValue EXCEPT ![exch] = Head(orderHistory)]
  /\ exchPc' = "reject"
  /\ UNCHANGED <<orderHistory, tempContainer, tracked, dropped, reported, omsPc, cur, flags,
                 _process, currStream, omsSocket, network, session, owed, verdicts>>

\* ... rejectMessage(getClOrderid(), "unknown order").  The front of a queue
\* the OMS thread has just emptied is what an old cell holds.
RejectUnknown ==
  /\ exchPc = "front"
  /\ \/ orderHistory # <<>> /\ StartRemove(exch, Head(orderHistory))
     \/ orderHistory = <<>> /\ \E id \in tracked \cup {NoId} : StartRemove(exch, id)
  /\ exchPc' = "reject"
  /\ UNCHANGED <<omsPc, cur, flags, _process, currStream, omsSocket, network, session,
                 owed, verdicts>>

\* Mutant of ReportUnknown: an if in place of the while.
ReportUnknownOnce ==
  /\ exchPc = "reject"
  /\ Report(exch)
  /\ verdicts' = verdicts \cup {<<removeValue[exch], "unknown order">>}
  /\ exchPc' = "settled"
  /\ UNCHANGED <<omsPc, cur, flags, _process, currStream, omsSocket, network, session, owed>>

ReportUnknown ==
  /\ exchPc = "reject"
  /\ Report(exch)
  /\ verdicts' = verdicts \cup {<<removeValue[exch], "unknown order">>}
  /\ exchPc' = "trailer"
  /\ UNCHANGED <<omsPc, cur, flags, _process, currStream, omsSocket, network, session, owed>>

ExchangeUp ==
  /\ exchPc = "settled"
  /\ _nowExchangeLive' = TRUE
  /\ exchPc' = "live"
  /\ UNCHANGED <<historyVars, omsPc, cur, isSecureBoxDone, _connected, _loggedIn, _process,
                 currStream, omsSocket, network, session, owed, verdicts>>

\* The receive loop ends by an exception once the socket has nothing left.
ReceiveFails ==
  /\ exchPc \in {"handshake", "secureBox", "signedOn", "download", "live"}
  /\ phase[exch] = "idle"
  /\ link = "broken" /\ inbox = <<>>
  /\ exchPc' = "reset"
  /\ UNCHANGED <<historyVars, omsPc, cur, flags, _process, currStream, omsSocket, network,
                 session, owed, verdicts>>

ResetConnection ==
  /\ exchPc = "reset"
  /\ isSecureBoxDone' = FALSE /\ _connected' = FALSE
  /\ exchPc' = "exchangeDown"
  /\ UNCHANGED <<historyVars, omsPc, cur, _nowExchangeLive, _loggedIn, _process, currStream,
                 omsSocket, network, session, owed, verdicts>>

ExchangeDown ==
  /\ exchPc = "exchangeDown"
  /\ _nowExchangeLive' = FALSE
  /\ exchPc' = "disconnectOms"
  /\ UNCHANGED <<historyVars, omsPc, cur, isSecureBoxDone, _connected, _loggedIn, _process,
                 currStream, omsSocket, network, session, owed, verdicts>>

\* sendRequestDisconnectOmsConn writes to the socket of the OMS.  Outside of
\* any try block: with no OMS connected the process ends.
DisconnectOms ==
  /\ exchPc = "disconnectOms"
  /\ \/ /\ omsSocket = "connected"
        /\ _process' = FALSE /\ omsSocket' = "closed"
        /\ exchPc' = "connect"
        /\ UNCHANGED omsPc
     \/ /\ omsSocket # "connected"
        /\ exchPc' = "terminated" /\ omsPc' = "terminated"
        /\ UNCHANGED <<_process, omsSocket>>
  /\ UNCHANGED <<historyVars, cur, flags, currStream, network, session, owed, verdicts>>
-----------------------------------------------------------------------------
(* The OMS thread.                                                         *)

omsKeeps == <<exchPc, flags, currStream, link, inbox, exchangeLog, session, owed>>

\* startOmsRcv has polled _loggedIn; doOMSConnect.
StartOms ==
  /\ omsPc = "login" /\ _loggedIn
  /\ omsPc' = "accept" /\ omsSocket' = "listening"
  /\ UNCHANGED <<historyVars, cur, _process, wire, verdicts, omsKeeps>>

\* The OMS connects to whoever listens.
OmsAccepted ==
  /\ omsPc = "accept"
  /\ omsPc' = "consume" /\ omsSocket' = "connected" /\ _process' = TRUE
  /\ UNCHANGED <<historyVars, cur, wire, verdicts, omsKeeps>>

Unknown(id) == Fresh(id) /\ id # cur

\* Mutant of TakeOrderFromOms: an order that comes while the exchange is
\* down is refused and sent all the same.
TakeOrderNoReturn ==
  \E id \in Ids :
    /\ omsPc = "consume" /\ Unknown(id)
    /\ omsPc' = "throttle"
    /\ cur' = id
    /\ verdicts' = IF _nowExchangeLive THEN verdicts ELSE verdicts \cup {<<id, "exchange down">>}
    /\ UNCHANGED <<historyVars, _process, omsSocket, wire, omsKeeps>>

\* receiveFromOMS: while the exchange is down an order is rejected, else it
\* goes on to the throttle.
TakeOrderFromOms ==
  \E id \in Ids :
    /\ omsPc = "consume" /\ Unknown(id)
    /\ \/ _nowExchangeLive /\ omsPc' = "throttle" /\ UNCHANGED historyVars
       \/ ~_nowExchangeLive /\ omsPc' = "reject" /\ StartRemove(oms, id)
    /\ cur' = id
    /\ UNCHANGED <<_process, omsSocket, wire, verdicts, omsKeeps>>

ReportDown ==
  /\ omsPc = "reject"
  /\ Report(oms)
  /\ verdicts' = verdicts \cup {<<cur, "exchange down">>}
  /\ omsPc' = "consume" /\ cur' = NoId
  /\ UNCHANGED <<_process, omsSocket, wire, omsKeeps>>

\* The throttle lets the order pass; setClOrderId.
Track ==
  /\ omsPc = "throttle"
  /\ setClOrderId(cur)
  /\ omsPc' = "send"
  /\ UNCHANGED <<cur, _process, omsSocket, wire, verdicts, omsKeeps>>

\* sendToTarget_Encrypt: the tests, ...
MaySend == isSecureBoxDone /\ _connected

CheckSend ==
  /\ omsPc = "send"
  /\ \/ MaySend /\ omsPc' = "write" /\ UNCHANGED cur
     \/ ~MaySend /\ omsPc' = "consume" /\ cur' = NoId
  /\ UNCHANGED <<historyVars, _process, omsSocket, wire, verdicts, omsKeeps>>

\* ... and the write, to whatever the socket is by now.  receiveFromOMS
\* swallows the exception of a write that fails.
WriteOrder ==
  /\ omsPc = "write"
  /\ wire' = IF link = "up" THEN Append(wire, cur) ELSE wire
  /\ omsPc' = "consume" /\ cur' = NoId
  /\ UNCHANGED <<historyVars, _process, omsSocket, verdicts, omsKeeps>>

\* A heartbeat of the OMS, or of processHeartbeat by way of the same queue.
TakeHeartbeat ==
  /\ omsPc = "consume" /\ MaySend
  /\ omsPc' = "beat"
  /\ UNCHANGED <<historyVars, cur, _process, omsSocket, wire, verdicts, omsKeeps>>

\* Its write is outside the try block of receiveFromOMS: when it fails
\* startOmsRcv restarts the connections of the OMS.
WriteHeartbeat ==
  /\ omsPc = "beat"
  /\ \/ omsPc' = "consume" /\ UNCHANGED omsSocket
     \/ link = "broken" /\ omsPc' = "accept" /\ omsSocket' = "listening"
  /\ UNCHANGED <<historyVars, cur, _process, wire, verdicts, omsKeeps>>
-----------------------------------------------------------------------------
(* The exchange and the network.                                           *)

networkKeeps == <<historyVars, exchPc, omsPc, cur, flags, _process, currStream, omsSocket,
                  session, owed, verdicts>>

\* Orders that come before the sign-on are not answered.
SignedOn == exchPc \in {"signedOn", "waitForOms", "download", "trailer", "front", "reject",
                        "settled", "live"}

ExchangeAnswers ==
  /\ link = "up" /\ wire # <<>>
  /\ wire' = Tail(wire)
  /\ \/ /\ SignedOn
        /\ \E kind \in AnswerKinds, stream \in 1 .. Streams :
             LET a == [kind |-> kind, id |-> Head(wire)]
             IN  /\ exchangeLog' = [exchangeLog EXCEPT ![stream] = Append(@, a)]
                 /\ inbox' = Append(inbox, a)
     \/ ~SignedOn /\ UNCHANGED <<exchangeLog, inbox>>
  /\ UNCHANGED <<link, networkKeeps>>

\* The connection breaks: what was on its way is lost, from some byte on.
LinkBreaks ==
  /\ link = "up" /\ session < MaxSessions
  /\ link' = "broken" /\ wire' = <<>>
  /\ \E n \in 0 .. Len(inbox) : inbox' = SubSeq(inbox, 1, n)
  /\ UNCHANGED <<exchangeLog, networkKeeps>>
-----------------------------------------------------------------------------
ExchangeThread ==
  \/ Connect \/ SecureBoxOut \/ SignOnOut \/ SystemInformationOut \/ MessageDownload
  \/ ReceiveAnswer \/ ReportAnswer \/ ReceiveErrorCode \/ TrailerOfStream \/ TrailerOfLast
  \/ OrderHistoryIsEmpty \/ RejectUnknown \/ ReportUnknown \/ ExchangeUp
  \/ ReceiveFails \/ ResetConnection \/ ExchangeDown \/ DisconnectOms

\* The steps of the OMS thread that do not wait for a message of the OMS.
OmsThread ==
  \/ StartOms \/ OmsAccepted \/ ReportDown \/ Track \/ CheckSend \/ WriteOrder
  \/ WriteHeartbeat

\* A step inside removeIdFromOrderHistory.
Removing(t) ==
  /\ exchPc # "terminated"
  /\ PopOne(t) \/ PopNone(t) \/ PushBack(t) \/ EndRemove(t)
  /\ UNCHANGED gatewayVars

Next ==
  \/ ExchangeThread \/ Removing(exch)
  \/ OmsThread \/ TakeOrderFromOms \/ TakeHeartbeat \/ Removing(oms)
  \/ ExchangeAnswers \/ LinkBreaks

Spec == Init /\ [][Next]_allVars

\* Both threads keep running, the exchange answers what it receives and
\* the OMS connects where it can.  processHeartbeat sends every 20 seconds.  No
\* order need come, and the connection need not break.
FairSpec ==
  /\ Spec
  /\ WF_allVars(ExchangeThread \/ Removing(exch))
  /\ WF_allVars(OmsThread \/ Removing(oms))
  /\ WF_allVars(TakeHeartbeat)
  /\ WF_allVars(ExchangeAnswers)
-----------------------------------------------------------------------------
(* The properties.                                                         *)

GatewayTypeOK ==
  /\ HistoryTypeOK
  /\ exchPc \in {"connect", "handshake", "secureBox", "signedOn", "waitForOms", "download",
                 "trailer", "front", "reject", "settled", "live", "reset", "exchangeDown",
                 "disconnectOms", "terminated"}
  /\ omsPc \in {"login", "accept", "consume", "throttle", "reject", "send", "write", "beat",
                "terminated"}
  /\ cur \in Ids \cup {NoId}
  /\ {isSecureBoxDone, _connected, _nowExchangeLive, _loggedIn, _process} \subseteq BOOLEAN
  /\ currStream \in 0 .. Streams
  /\ omsSocket \in {"none", "listening", "connected", "closed"}
  /\ link \in {"up", "broken"}
  /\ inbox \in Seq(Messages)
  /\ wire \in Seq(Ids)
  /\ exchangeLog \in [1 .. Streams -> Seq(Messages)]
  /\ session \in 0 .. MaxSessions
  /\ owed \subseteq tracked
  /\ verdicts \subseteq (Ids \cup {NoId}) \X {"answer", "unknown order", "exchange down"}

\* The gateway uses the order history as OrderHistory says: what is proved
\* there of the history holds here.
UsesOrderHistory == HistorySpec

\* What the exchange has in its books, and the ids of it.
InBooks  == UNION {Elements(exchangeLog[s]) : s \in 1 .. Streams}
Answered == {a.id : a \in {m \in InBooks : m.kind = "answer"}}

Verdict(v) == {id \in Ids : <<id, v>> \in verdicts}

\* When the download has ended, every order that was open when the session
\* began has been reported on, but for those the OMS thread holds at that
\* moment in a drain of its own.
DownloadSettles ==
  [][exchPc # "settled" /\ exchPc' = "settled"
       => owed \subseteq reported \cup Elements(tempContainer[oms])]_allVars

\* An order that was open when the session began and is then reported as
\* unknown has no answer in the books of the exchange (ExchangeProcess.cpp:280),
\* unless the OMS thread refused an order before: its drain may hold an id
\* while the answer takes the id out, and bring it back.
UnknownAtExchange ==
  [][\A id \in owed :
       id \in Verdict("unknown order")' \ Verdict("unknown order")
         => id \notin Answered \/ Verdict("exchange down") # {} \/ omsPc = "reject"]_allVars

\* An order refused because the exchange is down is done with: the exchange
\* never sees it, in this session or a later one, and the OMS is told
\* nothing else about it.
RefusedIsFinal ==
  \A id \in Verdict("exchange down") :
    /\ id \notin Elements(wire)
    /\ \A a \in InBooks : a.id # id
    /\ id \notin Verdict("answer") \cup Verdict("unknown order")

\* A call of removeIdFromOrderHistory returns, while the queue has room for
\* what was popped from it (adapter.cpp:182: "Ensure capacity").
DrainEnds ==
  \A t \in Threads : phase[t] = "pop" ~> phase[t] = "idle" \/ exchPc = "terminated"

\* A download that has begun ends, live or with the connection.
DownloadEnds == exchPc = "download" ~> exchPc \in {"live", "reset"}

\* The gateway reconnects after it was disconnected (connection.cpp:60:
\* "Reconnecting after 10 Seconds"), or else the process ends.
Reconnects == exchPc = "connect" ~> (_nowExchangeLive \/ exchPc = "terminated")
=============================================================================
