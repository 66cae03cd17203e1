-------------------------- MODULE BseSessionProofs --------------------------
(* Theorems about the sessions of the BSE gateway, for any orders and any    *)
(* number of sessions.                                                       *)
EXTENDS BseSession, TLAPS

\* Where in the key stream of a session each request goes.
PosOf == [registration |-> 0, logon |-> 0, user_login |-> 1]

Sent(h, p) == [header |-> h, key |-> session, pos |-> p, body |-> h]

At(p) == read = p /\ written = p

\* In the first session the gateway decrypts where the exchange has written.
Boxed(done, p) == session = 1 => (isSecureBoxDone <=> done) /\ decrypted = p

\* Before the login one request or its answer is under way, and nothing else.
Connecting ==
  /\ exchPc \in {"keyed", "register"}
  /\ toExchange = <<>> /\ toGateway = <<>>
  /\ stage = "none" /\ encrypted = 0 /\ At(0) /\ Boxed(FALSE, 0)

Asked(r) ==
  /\ exchPc = "receive"
  /\ toExchange = <<Sent(r, PosOf[r])>> /\ toGateway = <<>>
  /\ stage = Needs[r] /\ encrypted = PosOf[r] + Advance(r) /\ At(PosOf[r])
  /\ Boxed(r # "registration", PosOf[r])

Answered(r) ==
  /\ exchPc = "receive"
  /\ toExchange = <<>> /\ toGateway = <<[kind |-> r, pos |-> PosOf[r]]>>
  /\ stage = Gives[r]
  /\ encrypted = PosOf[r] + Advance(r) /\ At(PosOf[r] + Advance(r))
  /\ Boxed(r # "registration", PosOf[r])

Asking(r) ==
  /\ exchPc \in {"encrypt", "write"} /\ request = r
  /\ toExchange = <<>> /\ toGateway = <<>>
  /\ stage = Needs[r] /\ At(PosOf[r]) /\ Boxed(r = "user_login", PosOf[r])
  /\ exchPc = "encrypt" => encrypted = PosOf[r]
  /\ exchPc = "write" =>
       /\ encrypted = PosOf[r] + 1
       /\ ciphertext = [key |-> session, pos |-> PosOf[r], body |-> r]

\* The throttle could not be made: nothing more is sent.
Silent ==
  /\ exchPc = "receive" /\ toExchange = <<>> /\ toGateway = <<>>

Handshake ==
  \/ Connecting \/ Silent
  \/ \E r \in Requests : Asked(r) \/ Answered(r)
  \/ \E r \in {"logon", "user_login"} : Asking(r)

\* After it the orders on the connection follow each other in the key stream.
Open ==
  /\ exchPc = "receive" /\ stage = "user"
  /\ \A i \in 1 .. Len(toExchange) :
       \E o \in Orders : toExchange[i] = Sent(o, read + i - 1)
  /\ encrypted = read + Len(toExchange) + (IF omsPc = "write" THEN 1 ELSE 0)
  /\ omsPc = "write" =>
       ciphertext = [key |-> session, pos |-> read + Len(toExchange), body |-> order]
  /\ \A i \in 1 .. Len(toGateway) : toGateway[i].kind \in Orders
  /\ session = 1 =>
       /\ isSecureBoxDone /\ written = decrypted + Len(toGateway)
       /\ \A i \in 1 .. Len(toGateway) : toGateway[i].pos = decrypted + i - 1

\* Without a connection nothing is on it.
Down ==
  /\ ~loggedIn /\ ~socketOpen /\ toExchange = <<>> /\ toGateway = <<>>
  /\ stage = "none" /\ At(0)

Session ==
  /\ exchPc # "dead"
  /\ exchPc # "keyed" => socketOpen
  /\ loggedIn => Open
  /\ ~loggedIn => Handshake /\ omsPc \in {"wait", "idle"}

\* The OMS thread has not started before the first login.
First ==
  /\ session <= 1 => misread = {}
  /\ session = 0 => exchPc = "start" /\ ~isSecureBoxDone
  /\ session = 1 /\ exchPc # "start" => ~early
  /\ session <= 1 /\ ~loggedIn /\ (session = 0 \/ exchPc # "start") => omsPc = "wait"

SessionInv ==
  /\ BseTypeOK
  /\ exchPc = "start" => Down
  /\ ~early => ignored = {}
  /\ ~early /\ exchPc # "start" => Session
  /\ First

-----------------------------------------------------------------------------
\* One message sent to an empty connection, and one taken from it.
LEMMA OneMessage ==
  ASSUME NEW m
  PROVE  /\ Append(<<>>, m) = <<m>> /\ Head(<<m>>) = m /\ Tail(<<m>>) = <<>>
         /\ <<m>> # <<>> /\ Len(<<m>>) = 1 /\ <<m>>[1] = m
  OBVIOUS

LEMMA HeadAndTail ==
  ASSUME NEW S, NEW s \in Seq(S), s # <<>>
  PROVE  Head(s) \in S /\ Tail(s) \in Seq(S)
  OBVIOUS

\* A request is not an order, and knows its place in the handshake.
LEMMA RequestFacts ==
  ASSUME NEW r \in Requests
  PROVE  /\ r \notin Orders
         /\ Needs[r] \in {"none", "registered", "on"}
         /\ Gives[r] \in {"registered", "on", "user"}
         /\ PosOf[r] \in Nat /\ Advance(r) \in Nat
  BY BseAssumption DEF BseAssumption, Requests, Needs, Gives, PosOf, Advance

LEMMA OrderFacts ==
  ASSUME NEW o \in Orders
  PROVE  o \notin Requests /\ Advance(o) = 1 /\ o # "registration"
  BY BseAssumption DEF BseAssumption, Requests, Advance

-----------------------------------------------------------------------------
\* The types, by themselves inductive.
LEMMA TypeStep ==
  ASSUME BseTypeOK, [Next]_vars
  PROVE  BseTypeOK'
<1> USE BseAssumption DEF BseAssumption, BseTypeOK, Names, Requests
<1>1. CASE readFromSSL
  BY <1>1 DEF readFromSSL, oms, exchange
<1>2. CASE createSocket
  BY <1>2 DEF createSocket, oms, exchange, history
<1>3. CASE SendSessionRegistrationRequest
  <2>1. toExchange' \in Seq(Sendings)
    BY <1>3 DEF SendSessionRegistrationRequest, Sendings
  <2> QED
    BY <1>3, <2>1 DEF SendSessionRegistrationRequest, oms, exchange, history
<1>4. CASE ReceiveRegistration \/ ReceiveLogon \/ ReceiveUserLogin
  <2>1. PICK kind : HandleData(kind)
    BY <1>4 DEF ReceiveRegistration, ReceiveLogon, ReceiveUserLogin
  <2>2. toGateway' \in Seq(Answers) /\ decrypted' \in Nat
    BY <2>1, HeadAndTail DEF HandleData
  <2>3. UNCHANGED <<session, encrypted, ciphertext, isSecureBoxDone, socketOpen,
                    oms, toExchange, exchange, history>>
    BY <1>4 DEF ReceiveRegistration, ReceiveLogon, ReceiveUserLogin
  <2>4. /\ exchPc' \in {"receive", "encrypt"} /\ exchPc = "receive"
        /\ request' \in Requests /\ loggedIn' \in BOOLEAN
    BY <1>4 DEF ReceiveRegistration, ReceiveLogon, ReceiveUserLogin, HandleData
  <2> QED
    BY <2>2, <2>3, <2>4 DEF oms, exchange, history
<1>5. CASE ReceiveAnswer
  BY <1>5 DEF ReceiveAnswer, HandleData, oms, exchange
<1>6. CASE EncryptRequest
  <2>1. ciphertext' \in Ciphertexts
    BY <1>6 DEF EncryptRequest, performEncrypt, Ciphertexts
  <2> QED
    BY <1>6, <2>1 DEF EncryptRequest, performEncrypt, oms, exchange, history
<1>7. CASE WriteRequest
  <2> DEFINE m == [header |-> request, key |-> ciphertext.key,
                   pos |-> ciphertext.pos, body |-> ciphertext.body]
  <2>a. m \in Sendings
    BY <1>7 DEF WriteRequest, Sendings, Ciphertexts
  <2>b. toExchange' = Append(toExchange, m) \/ toExchange' = toExchange
    BY <1>7 DEF WriteRequest, sendToTarget
  <2>1. toExchange' \in Seq(Sendings)
    BY <2>a, <2>b
  <2> QED
    BY <1>7, <2>1 DEF WriteRequest, oms, exchange, history
<1>8. CASE SocketRace
  BY <1>8 DEF SocketRace, exchange, history
<1>9. CASE Disconnect
  <2>1. toExchange' \in Seq(Sendings) /\ toGateway' \in Seq(Answers)
    BY <1>9 DEF Disconnect
  <2> QED
    BY <1>9, <2>1 DEF Disconnect, oms, history
<1>10. CASE startOmsRcv
  BY <1>10 DEF startOmsRcv, gateway, exchange, history
<1>11. CASE \E o \in Orders : TakeOrder(o)
  BY <1>11 DEF TakeOrder, gateway, exchange
<1>12. CASE EncryptOrder
  <2>1. ciphertext' \in Ciphertexts
    BY <1>12 DEF EncryptOrder, performEncrypt, Ciphertexts
  <2> QED
    BY <1>12, <2>1 DEF EncryptOrder, performEncrypt, exchange, history
<1>13. CASE WriteOrder
  <2> DEFINE m == [header |-> order, key |-> ciphertext.key,
                   pos |-> ciphertext.pos, body |-> ciphertext.body]
  <2>a. m \in Sendings
    BY <1>13 DEF WriteOrder, Sendings, Ciphertexts
  <2>b. toExchange' = Append(toExchange, m) \/ toExchange' = toExchange
    BY <1>13 DEF WriteOrder, sendToTarget
  <2>1. toExchange' \in Seq(Sendings)
    BY <2>a, <2>b
  <2> QED
    BY <1>13, <2>1 DEF WriteOrder, gateway, exchange, history
<1>14. CASE ExchangeAnswers
  <2>a. Head(toExchange) \in Sendings /\ toExchange' \in Seq(Sendings)
    BY <1>14, HeadAndTail DEF ExchangeAnswers
  <2>1. Head(toExchange).header \in Names
    BY <2>a DEF Sendings
  <2>2. Advance(Head(toExchange).header) \in Nat
    BY DEF Advance
  <2>3. toGateway' \in Seq(Answers)
    BY <1>14, <2>1 DEF ExchangeAnswers, Answers
  <2>4. stage' \in {"none", "registered", "on", "user"}
    BY <1>14, <2>1 DEF ExchangeAnswers, Gives
  <2> QED
    BY <1>14, <2>a, <2>1, <2>2, <2>3, <2>4 DEF ExchangeAnswers, gateway, oms, history
<1>15. CASE ExchangeIgnores
  <2>1. toExchange' \in Seq(Sendings)
    BY <1>15 DEF ExchangeIgnores
  <2>2. Advance(Head(toExchange).header) \in Nat
    BY DEF Advance
  <2> QED
    BY <1>15, <2>1, <2>2 DEF ExchangeIgnores, gateway, oms
<1>16. CASE UNCHANGED vars
  BY <1>16 DEF vars, gateway, oms, exchange, history
<1> QED
  BY <1>1, <1>2, <1>3, <1>4, <1>5, <1>6, <1>7, <1>8, <1>9, <1>10, <1>11, <1>12,
     <1>13, <1>14, <1>15, <1>16
  DEF Next, ExchangeThread, OmsSends, Exchange

LEMMA TypeInit ==
  Init => BseTypeOK
<1> SUFFICES ASSUME Init PROVE BseTypeOK
  OBVIOUS
<1> USE BseAssumption DEF BseAssumption, Init
<1>1. ciphertext \in Ciphertexts
  BY DEF Ciphertexts, Names, Requests
<1>2. toExchange \in Seq(Sendings) /\ toGateway \in Seq(Answers)
  OBVIOUS
<1>3. order \in Names /\ 0 \in 0 .. MaxSession
  BY DEF Names, Requests
<1> QED
  BY <1>1, <1>2, <1>3 DEF BseTypeOK, Requests

\* The state of both sides is well typed, and the threads end together.
THEOREM BseTypeCorrect == Spec => []BseTypeOK
  BY TypeInit, TypeStep, PTL DEF Spec

-----------------------------------------------------------------------------
\* The invariant, conjunct by conjunct; the types are done.
Rest ==
  /\ exchPc = "start" => Down
  /\ ~early => ignored = {}
  /\ ~early /\ exchPc # "start" => Session
  /\ First

LEMMA SessionInit ==
  Init => SessionInv
<1> SUFFICES ASSUME Init PROVE SessionInv
  OBVIOUS
<1>1. BseTypeOK
  BY TypeInit
<1>2. Rest
  BY DEF Init, Rest, Down, At, First
<1> QED
  BY <1>1, <1>2 DEF SessionInv, Rest

\* While the gateway connects, what is under way tells where it is.
LEMMA UnderWay ==
  ASSUME SessionInv, ~early, exchPc # "start"
  PROVE  /\ loggedIn => Open
         /\ exchPc \in {"keyed", "register"} => ~loggedIn /\ Connecting
         /\ exchPc \in {"encrypt", "write"} =>
              /\ ~loggedIn /\ request \in {"logon", "user_login"} /\ Asking(request)
         /\ toExchange # <<>> /\ ~loggedIn => \E r \in Requests : Asked(r)
         /\ toGateway # <<>> /\ ~loggedIn => \E r \in Requests : Answered(r)
         /\ omsPc \in {"encrypt", "write"} => loggedIn
  BY DEF SessionInv, Session, Handshake, Open, Connecting, Silent, Asked, Answered, Asking

LEMMA Connects ==
  ASSUME SessionInv, readFromSSL \/ createSocket \/ SendSessionRegistrationRequest
  PROVE  Rest'
<1>1. CASE readFromSSL
  <2>1. Down /\ exchPc' = "keyed" /\ session' = session + 1 /\ session \in Nat
    BY <1>1, BseAssumption DEF readFromSSL, SessionInv, BseTypeOK, BseAssumption
  <2>2. omsPc # "dead" /\ (session = 0 => ~isSecureBoxDone /\ omsPc = "wait")
    BY <1>1, <2>1 DEF readFromSSL, SessionInv, BseTypeOK, First, Down
  <2>3. Connecting'
    BY <1>1, <2>1, <2>2 DEF readFromSSL, Connecting, Down, At, Boxed, exchange
  <2>4. ~early' => Session'
    BY <1>1, <2>1, <2>2, <2>3
    DEF readFromSSL, Session, Handshake, Down, oms, SessionInv, BseTypeOK
  <2>a. session = 0 => ~early'
    BY <1>1, <2>2 DEF readFromSSL
  <2>5. First'
    BY <1>1, <2>1, <2>2, <2>a DEF readFromSSL, SessionInv, First, oms
  <2> QED
    BY <1>1, <2>1, <2>4, <2>5 DEF readFromSSL, Rest
<1>2. CASE createSocket
  <2>1. ~early => ~loggedIn /\ Connecting /\ omsPc \in {"wait", "idle"}
    BY <1>2, UnderWay DEF createSocket, SessionInv, Session
  <2>2. ~early => Connecting'
    BY <1>2, <2>1 DEF createSocket, Connecting, At, Boxed, exchange
  <2>3. ~early' => Session'
    BY <1>2, <2>1, <2>2 DEF createSocket, Session, Handshake, oms, history
  <2>4. First'
    BY <1>2 DEF createSocket, SessionInv, First, oms, history
  <2> QED
    BY <1>2, <2>3, <2>4 DEF createSocket, Rest, SessionInv, history
<1>3. CASE SendSessionRegistrationRequest
  <2>1. ~early => ~loggedIn /\ Connecting /\ socketOpen /\ omsPc \in {"wait", "idle"}
    BY <1>3, UnderWay DEF SendSessionRegistrationRequest, SessionInv, Session
  <2>2. ~early => toExchange' = <<Sent("registration", 0)>>'
    BY <1>3, <2>1, OneMessage
    DEF SendSessionRegistrationRequest, Connecting, Sent
  <2>3. ~early => Asked("registration")'
    BY <1>3, <2>1, <2>2
    DEF SendSessionRegistrationRequest, Connecting, Asked, At, Boxed, PosOf,
        Needs, Advance, exchange
  <2>4. ~early' => Session'
    BY <1>3, <2>1, <2>3
    DEF SendSessionRegistrationRequest, Session, Handshake, oms, history, Requests
  <2>5. First'
    BY <1>3 DEF SendSessionRegistrationRequest, SessionInv, First, oms, history
  <2> QED
    BY <1>3, <2>4, <2>5 DEF SendSessionRegistrationRequest, Rest, SessionInv, history
<1> QED
  BY <1>1, <1>2, <1>3

\* Of a message that is not an order the gateway makes the next request.
LEMMA ReceivesRequest ==
  ASSUME SessionInv, NEW r \in Requests, HandleData(r), ~early
  PROVE  /\ ~loggedIn /\ Answered(r) /\ toGateway' = <<>> /\ socketOpen
         /\ omsPc \in {"wait", "idle"} /\ exchPc = "receive"
<1>1. exchPc = "receive" /\ toGateway # <<>> /\ Head(toGateway).kind = r
  BY DEF HandleData
<1>2. ~loggedIn
  <2>1. SUFFICES ASSUME loggedIn PROVE FALSE
    OBVIOUS
  <2>2. Head(toGateway).kind \in Orders
    BY <1>1, <2>1, UnderWay DEF Open, SessionInv, BseTypeOK
  <2> QED
    BY <1>1, <2>2, RequestFacts
<1>3. PICK q \in Requests : Answered(q)
  BY <1>1, <1>2, UnderWay
<1>4. toGateway = <<[kind |-> q, pos |-> PosOf[q]]>>
  BY <1>3 DEF Answered
<1>5. q = r /\ toGateway' = <<>>
  BY <1>1, <1>4, OneMessage DEF HandleData
<1> QED
  BY <1>1, <1>2, <1>3, <1>5 DEF SessionInv, Session

LEMMA Receives ==
  ASSUME SessionInv, ReceiveRegistration \/ ReceiveLogon \/ ReceiveUserLogin
  PROVE  Rest'
<1>1. CASE ReceiveRegistration
  <2>1. ~early => Asking("logon")' /\ socketOpen /\ ~loggedIn
                  /\ omsPc \in {"wait", "idle"}
    BY <1>1, ReceivesRequest
    DEF ReceiveRegistration, HandleData, Answered, Asking, At, Boxed, PosOf,
        Needs, Gives, Advance, Requests, exchange
  <2>2. ~early' => Session'
    BY <1>1, <2>1 DEF ReceiveRegistration, Session, Handshake, oms, history
  <2>3. First'
    BY <1>1 DEF ReceiveRegistration, HandleData, SessionInv, First, oms, history
  <2> QED
    BY <1>1, <2>2, <2>3 DEF ReceiveRegistration, Rest, SessionInv, history
<1>2. CASE ReceiveLogon
  <2>a. ~early => /\ Answered("logon") /\ toGateway' = <<>> /\ socketOpen /\ ~loggedIn
                  /\ omsPc \in {"wait", "idle"} /\ exchPc = "receive"
    BY <1>2, ReceivesRequest DEF ReceiveLogon, Requests
  <2>1. ~early => Asking("user_login")' \/ Silent'
    <3>1. CASE exchPc' = "encrypt" /\ request' = "user_login"
      BY <1>2, <2>a, <3>1
      DEF ReceiveLogon, HandleData, Answered, Asking, At, Boxed, PosOf,
          Needs, Gives, Advance, exchange
    <3>2. CASE exchPc' = exchPc
      BY <1>2, <2>a, <3>2 DEF ReceiveLogon, Answered, Silent
    <3> QED
      BY <1>2, <3>1, <3>2 DEF ReceiveLogon
  <2>2. ~early' => Session'
    BY <1>2, <2>a, <2>1 DEF ReceiveLogon, HandleData, Session, Handshake, oms, history
  <2>3. First'
    BY <1>2 DEF ReceiveLogon, HandleData, SessionInv, First, oms, history
  <2> QED
    BY <1>2, <2>2, <2>3 DEF ReceiveLogon, HandleData, Rest, SessionInv, history
<1>3. CASE ReceiveUserLogin
  <2>1. ~early => /\ Answered("user_login") /\ toGateway' = <<>> /\ socketOpen
                  /\ omsPc \in {"wait", "idle"}
    BY <1>3, ReceivesRequest DEF ReceiveUserLogin, Requests
  <2>2. ~early => Open'
    BY <1>3, <2>1
    DEF ReceiveUserLogin, HandleData, Answered, Open, At, Boxed, PosOf, Gives,
        Advance, oms, exchange
  <2>3. ~early' => Session'
    BY <1>3, <2>1, <2>2 DEF ReceiveUserLogin, HandleData, Session, history
  <2>4. First'
    BY <1>3 DEF ReceiveUserLogin, HandleData, SessionInv, First, oms, history
  <2> QED
    BY <1>3, <2>3, <2>4 DEF ReceiveUserLogin, HandleData, Rest, SessionInv, history
<1> QED
  BY <1>1, <1>2, <1>3

\* In the first session an answer is read as it was written.
LEMMA ReceivesAnswer ==
  ASSUME SessionInv, ReceiveAnswer
  PROVE  Rest'
<1>1. PICK o \in Orders :
        /\ HandleData(o)
        /\ misread' = IF isSecureBoxDone /\ Head(toGateway).pos = decrypted
                      THEN misread ELSE misread \cup {o}
  BY DEF ReceiveAnswer, ReadRight
<1>2. /\ exchPc = "receive" /\ exchPc' = exchPc /\ UNCHANGED <<oms, exchange>>
      /\ UNCHANGED <<request, session, encrypted, ciphertext, isSecureBoxDone,
                     loggedIn, socketOpen, toExchange, early, ignored>>
  BY DEF ReceiveAnswer, HandleData
<1>3. /\ toGateway # <<>> /\ Head(toGateway).kind = o
      /\ toGateway' = Tail(toGateway) /\ toGateway \in Seq(Answers)
      /\ isSecureBoxDone => decrypted' = decrypted + 1
  BY <1>1 DEF HandleData, SessionInv, BseTypeOK
<1>4. ~early => loggedIn /\ Open /\ socketOpen
  <2>1. SUFFICES ASSUME ~early PROVE loggedIn
    BY <1>2, UnderWay DEF SessionInv, Session
  <2>2. SUFFICES ASSUME ~loggedIn PROVE FALSE
    OBVIOUS
  <2>3. PICK r \in Requests : Answered(r)
    BY <1>2, <1>3, <2>1, <2>2, UnderWay
  <2>4. o = r
    BY <1>3, <2>3, OneMessage DEF Answered
  <2> QED
    BY <2>4, RequestFacts
<1>5. /\ Len(toGateway) \in Nat \ {0} /\ Len(toGateway') = Len(toGateway) - 1
      /\ \A i \in 1 .. Len(toGateway') :
           i + 1 \in 1 .. Len(toGateway) /\ toGateway'[i] = toGateway[i + 1]
      /\ Head(toGateway) = toGateway[1]
  BY <1>3
<1>6. session = 1 /\ Open =>
        /\ isSecureBoxDone /\ Head(toGateway).pos = decrypted
        /\ written = decrypted' + Len(toGateway')
        /\ \A i \in 1 .. Len(toGateway') : toGateway'[i].pos = decrypted' + i - 1
  <2> SUFFICES ASSUME session = 1, Open
      PROVE  /\ isSecureBoxDone /\ Head(toGateway).pos = decrypted
             /\ written = decrypted' + Len(toGateway')
             /\ \A i \in 1 .. Len(toGateway') : toGateway'[i].pos = decrypted' + i - 1
    OBVIOUS
  <2>1. decrypted \in Nat
    BY DEF SessionInv, BseTypeOK
  <2>2. /\ isSecureBoxDone /\ written = decrypted + Len(toGateway)
        /\ \A i \in 1 .. Len(toGateway) : toGateway[i].pos = decrypted + i - 1
    BY DEF Open
  <2>3. decrypted' = decrypted + 1
    BY <1>3, <2>2
  <2>4. toGateway[1].pos = decrypted
    BY <1>5, <2>1, <2>2
  <2>5. ASSUME NEW i \in 1 .. Len(toGateway')
        PROVE  toGateway'[i].pos = decrypted' + i - 1
    <3>1. i \in Nat /\ toGateway'[i].pos = decrypted + (i + 1) - 1
      BY <1>5, <2>2
    <3> QED
      BY <2>1, <2>3, <3>1
  <2> QED
    BY <1>5, <2>1, <2>2, <2>3, <2>4, <2>5
<1>7. ~early => Open'
  BY <1>2, <1>4, <1>5, <1>6 DEF Open, Sent, oms, exchange
<1>8. session <= 1 => session = 1 /\ ~early
  BY <1>2, BseAssumption DEF SessionInv, First, BseTypeOK, BseAssumption
<1>9. session <= 1 => misread' = misread
  BY <1>1, <1>4, <1>6, <1>8
<1> QED
  BY <1>2, <1>4, <1>7, <1>9 DEF Rest, Session, SessionInv, First, oms

LEMMA Asks ==
  ASSUME SessionInv, EncryptRequest \/ WriteRequest
  PROVE  Rest'
<1>0. ~early => /\ ~loggedIn /\ request \in {"logon", "user_login"}
                /\ Asking(request) /\ socketOpen /\ omsPc \in {"wait", "idle"}
  BY UnderWay DEF EncryptRequest, WriteRequest, SessionInv, Session
<1>1. CASE EncryptRequest
  <2>1. ~early => Asking(request)'
    BY <1>0, <1>1, RequestFacts
    DEF EncryptRequest, performEncrypt, Asking, At, Boxed, exchange
  <2>2. ~early' => Session'
    BY <1>0, <1>1, <2>1 DEF EncryptRequest, Session, Handshake, oms, history
  <2>3. First'
    BY <1>1 DEF EncryptRequest, SessionInv, First, oms, history
  <2> QED
    BY <1>1, <2>2, <2>3 DEF EncryptRequest, Rest, SessionInv, history
<1>2. CASE WriteRequest
  <2>1. ~early => toExchange' = <<Sent(request, PosOf[request])>>'
    BY <1>0, <1>2, OneMessage DEF WriteRequest, sendToTarget, Asking, Sent
  <2>2. ~early => Asked(request)'
    BY <1>0, <1>2, <2>1
    DEF WriteRequest, Asking, Asked, At, Boxed, PosOf, Needs, Advance, exchange
  <2>3. ~early' => Session'
    BY <1>0, <1>2, <2>2
    DEF WriteRequest, Session, Handshake, oms, history, Requests
  <2>4. First'
    BY <1>2 DEF WriteRequest, SessionInv, First, oms, history
  <2> QED
    BY <1>2, <2>3, <2>4 DEF WriteRequest, Rest, SessionInv, history
<1> QED
  BY <1>1, <1>2

LEMMA Breaks ==
  ASSUME SessionInv, SocketRace \/ Disconnect
  PROVE  Rest'
<1>1. CASE SocketRace
  <2>1. early
    BY <1>1, UnderWay DEF SocketRace
  <2>2. session \notin {0, 1} /\ session \in Nat
    BY <1>1, <2>1, BseAssumption
    DEF SocketRace, SessionInv, First, BseTypeOK, BseAssumption
  <2> QED
    BY <1>1, <2>1, <2>2 DEF SocketRace, Rest, First, history
<1>2. CASE Disconnect
  <2>1. session # 0
    BY <1>2 DEF Disconnect, SessionInv, First
  <2> QED
    BY <1>2, <2>1 DEF Disconnect, Rest, Down, At, SessionInv, First, history
<1> QED
  BY <1>1, <1>2

\* The first order comes after the first login.
LEMMA OmsStarted ==
  ASSUME SessionInv, session <= 1, exchPc # "start", omsPc # "wait"
  PROVE  loggedIn
  BY DEF SessionInv, First

LEMMA OmsSteps ==
  ASSUME SessionInv,
         startOmsRcv \/ (\E o \in Orders : TakeOrder(o)) \/ EncryptOrder \/ WriteOrder
  PROVE  Rest'
<1>0. /\ session \in Nat
      /\ exchPc = "start" => ~loggedIn
      /\ session = 0 => omsPc = "wait" /\ ~loggedIn
  BY BseAssumption DEF SessionInv, BseTypeOK, BseAssumption, First, Down
<1>1. CASE startOmsRcv
  <2>1. ~early => Open
    BY <1>0, <1>1, UnderWay DEF startOmsRcv
  <2>2. ~early => Open'
    BY <1>1, <2>1 DEF startOmsRcv, Open, Sent, gateway, exchange
  <2>3. ~early' => Session'
    BY <1>0, <1>1, <2>2 DEF startOmsRcv, SessionInv, Session, gateway, history
  <2> QED
    BY <1>0, <1>1, <2>3
    DEF startOmsRcv, Rest, SessionInv, First, Down, At, gateway, exchange, history
<1>2. CASE \E o \in Orders : TakeOrder(o)
  <2>1. PICK o \in Orders : TakeOrder(o)
    BY <1>2
  <2>2. ~early' => ~early /\ loggedIn
    BY <2>1 DEF TakeOrder
  <2>3. ~early' => Open
    BY <1>0, <2>1, <2>2, UnderWay DEF TakeOrder
  <2>4. ~early' => Open'
    BY <2>1, <2>3 DEF TakeOrder, Open, Sent, gateway, exchange
  <2>5. ~early' => Session'
    BY <1>0, <2>1, <2>2, <2>4 DEF TakeOrder, SessionInv, Session, gateway
  <2>6. session <= 1 /\ exchPc # "start" => loggedIn /\ ~early
    BY <1>0, <2>1, OmsStarted DEF TakeOrder, SessionInv, First
  <2>a. session = 0 => FALSE
    BY <1>0, <2>1 DEF TakeOrder
  <2>b. session <= 1 /\ exchPc # "start" => ~early'
    BY <2>1, <2>6 DEF TakeOrder
  <2>c. UNCHANGED <<session, exchPc, loggedIn, isSecureBoxDone, misread>>
    BY <2>1 DEF TakeOrder, gateway
  <2>7. First'
    BY <1>0, <2>6, <2>a, <2>b, <2>c DEF SessionInv, First
  <2> QED
    BY <2>1, <2>2, <2>5, <2>7
    DEF TakeOrder, Rest, SessionInv, Down, At, gateway, exchange
<1>3. CASE EncryptOrder
  <2>1. ~early /\ exchPc # "start" => loggedIn /\ Open
    BY <1>3, UnderWay DEF EncryptOrder
  <2>a. Len(toExchange) \in Nat /\ read \in Nat
    BY DEF SessionInv, BseTypeOK
  <2>b. /\ omsPc = "encrypt" /\ omsPc' = "write"
        /\ ciphertext' = [key |-> session, pos |-> encrypted, body |-> order]
        /\ encrypted' = encrypted + 1
        /\ UNCHANGED <<exchPc, session, decrypted, isSecureBoxDone, order,
                       toExchange, toGateway, stage, read, written>>
    BY <1>3 DEF EncryptOrder, performEncrypt, exchange
  <2>c. Open => encrypted = read + Len(toExchange)
    BY <2>a, <2>b DEF Open
  <2>2. ~early /\ exchPc # "start" => Open'
    BY <2>1, <2>a, <2>b, <2>c DEF Open, Sent
  <2>3. ~early' /\ exchPc' # "start" => Session'
    BY <1>3, <2>1, <2>2 DEF EncryptOrder, SessionInv, Session, history
  <2>4. session <= 1 /\ exchPc # "start" => loggedIn
    BY <1>3, OmsStarted DEF EncryptOrder
  <2>5. First'
    BY <1>0, <1>3, <2>4 DEF EncryptOrder, SessionInv, First, history
  <2> QED
    BY <1>3, <2>3, <2>5
    DEF EncryptOrder, Rest, SessionInv, Down, At, exchange, history
<1>4. CASE WriteOrder
  <2>1. ~early /\ exchPc # "start" => loggedIn /\ Open /\ socketOpen
    BY <1>4, UnderWay DEF WriteOrder, SessionInv, Session, Open
  <2>2. ~early /\ exchPc # "start" =>
          toExchange' = Append(toExchange, Sent(order, read + Len(toExchange)))
    BY <1>4, <2>1 DEF WriteOrder, sendToTarget, Open, Sent
  <2>3. /\ toExchange \in Seq(Sendings) /\ order \in Orders
        /\ Len(toExchange) \in Nat /\ read \in Nat
    BY <1>4 DEF WriteOrder, SessionInv, BseTypeOK
  <2>4. ~early /\ exchPc # "start" =>
          /\ Len(toExchange') = Len(toExchange) + 1
          /\ \A i \in 1 .. Len(toExchange') :
               \E o \in Orders : toExchange'[i] = Sent(o, read + i - 1)
    BY <2>1, <2>2, <2>3 DEF Open
  <2>a. /\ omsPc = "write" /\ omsPc' = "idle"
        /\ UNCHANGED <<exchPc, session, encrypted, decrypted, isSecureBoxDone,
                       toGateway, stage, read, written>>
    BY <1>4 DEF WriteOrder, gateway, exchange
  <2>b. Open => encrypted = read + Len(toExchange) + 1
    BY <2>3, <2>a DEF Open
  <2>c. ~early /\ exchPc # "start" =>
          \A i \in 1 .. Len(toExchange') :
            \E o \in Orders : toExchange'[i] = Sent(o, read + i - 1)'
    BY <2>4, <2>a DEF Sent
  <2>5. ~early /\ exchPc # "start" => Open'
    BY <2>1, <2>3, <2>4, <2>a, <2>b, <2>c DEF Open
  <2>6. ~early' /\ exchPc' # "start" => Session'
    BY <1>4, <2>1, <2>5 DEF WriteOrder, SessionInv, Session, gateway, history
  <2>7. session <= 1 /\ exchPc # "start" => loggedIn
    BY <1>4, OmsStarted DEF WriteOrder
  <2>8. First'
    BY <1>0, <1>4, <2>7 DEF WriteOrder, SessionInv, First, gateway, history
  <2>9. Down => Down'
    BY <1>4 DEF WriteOrder, sendToTarget, Down, At, gateway, exchange
  <2> QED
    BY <1>4, <2>6, <2>8, <2>9 DEF WriteOrder, Rest, SessionInv, gateway, history
<1> QED
  BY <1>1, <1>2, <1>3, <1>4

\* What reaches the exchange first is the request it awaits or the next order,
\* and it can read it.
LEMMA NextMessage ==
  ASSUME SessionInv, toExchange # <<>>, ~early
  PROVE  /\ exchPc # "start" /\ Accepts(Head(toExchange)) /\ socketOpen
         /\ \/ /\ loggedIn /\ Open
               /\ \E o \in Orders : Head(toExchange) = Sent(o, read)
            \/ /\ ~loggedIn /\ omsPc \in {"wait", "idle"}
               /\ \E r \in Requests :
                    Asked(r) /\ Head(toExchange) = Sent(r, PosOf[r])
<1>1. exchPc # "start"
  BY DEF SessionInv, Down
<1>2. socketOpen /\ (~loggedIn => omsPc \in {"wait", "idle"})
  <2>1. exchPc # "keyed"
    BY <1>1, UnderWay DEF Connecting
  <2> QED
    BY <1>1, <2>1 DEF SessionInv, Session
<1>3. CASE loggedIn
  <2>1. Open
    BY <1>1, <1>3, UnderWay
  <2>2. 1 \in 1 .. Len(toExchange) /\ Head(toExchange) = toExchange[1] /\ read \in Nat
    BY DEF SessionInv, BseTypeOK
  <2>3. PICK o \in Orders : Head(toExchange) = Sent(o, read + 1 - 1)
    BY <2>1, <2>2 DEF Open
  <2>4. Head(toExchange) = Sent(o, read)
    BY <2>2, <2>3
  <2>5. Accepts(Head(toExchange))
    BY <2>1, <2>4 DEF Accepts, Readable, Awaited, Sent, Open
  <2> QED
    BY <1>1, <1>2, <1>3, <2>1, <2>4, <2>5
<1>4. CASE ~loggedIn
  <2>1. PICK r \in Requests : Asked(r)
    BY <1>1, <1>4, UnderWay
  <2>2. Head(toExchange) = Sent(r, PosOf[r])
    BY <2>1, OneMessage DEF Asked
  <2>3. read = PosOf[r] /\ stage = Needs[r] /\ r \notin Orders
    BY <2>1, RequestFacts DEF Asked, At
  <2>4. Accepts(Head(toExchange))
    BY <2>2, <2>3 DEF Accepts, Readable, Awaited, Sent
  <2> QED
    BY <1>1, <1>2, <1>4, <2>1, <2>2, <2>4
<1> QED
  BY <1>3, <1>4

LEMMA Ignores ==
  ASSUME SessionInv, ExchangeIgnores
  PROVE  Rest'
<1>1. early /\ exchPc # "start"
  BY NextMessage DEF ExchangeIgnores, SessionInv, Down
<1> QED
  BY <1>1 DEF ExchangeIgnores, Rest, SessionInv, First, gateway, oms

\* An answer to an order moves both positions of the exchange by one.
LEMMA AnswersOrder ==
  ASSUME SessionInv, ExchangeAnswers, Open, NEW o \in Orders,
         Head(toExchange) = Sent(o, read)
  PROVE  Open'
<1>1. /\ toExchange # <<>> /\ toExchange' = Tail(toExchange)
      /\ read' = read + 1 /\ stage' = stage /\ written' = written + 1
      /\ toGateway' = Append(toGateway, [kind |-> o, pos |-> written])
  BY OrderFacts DEF ExchangeAnswers, Sent
<1>2. UNCHANGED <<exchPc, session, encrypted, decrypted, ciphertext,
                  isSecureBoxDone, omsPc, order>>
  BY DEF ExchangeAnswers, gateway, oms
<1>3. /\ toExchange \in Seq(Sendings) /\ toGateway \in Seq(Answers)
      /\ read \in Nat /\ written \in Nat /\ decrypted \in Nat
  BY DEF SessionInv, BseTypeOK
<1>4. /\ Len(toExchange) \in Nat /\ Len(toExchange') = Len(toExchange) - 1
      /\ \A i \in 1 .. Len(toExchange') :
           i \in Nat /\ i + 1 \in 1 .. Len(toExchange)
           /\ toExchange'[i] = toExchange[i + 1]
  BY <1>1, <1>3
<1>5. ASSUME NEW i \in 1 .. Len(toExchange')
      PROVE  \E q \in Orders : toExchange'[i] = Sent(q, read + i - 1)'
  <2>1. PICK q \in Orders : toExchange[i + 1] = Sent(q, read + (i + 1) - 1)
    BY <1>4 DEF Open
  <2>2. read' + i - 1 = read + (i + 1) - 1
    BY <1>1, <1>3, <1>4
  <2> QED
    BY <1>2, <1>4, <2>1, <2>2 DEF Sent
<1>6. read' + Len(toExchange') = read + Len(toExchange)
  BY <1>1, <1>3, <1>4
<1>7. /\ Len(toGateway) \in Nat /\ Len(toGateway') = Len(toGateway) + 1
      /\ \A i \in 1 .. Len(toGateway) : toGateway'[i] = toGateway[i]
      /\ toGateway'[Len(toGateway) + 1] = [kind |-> o, pos |-> written]
  BY <1>1, <1>3
<1>8. \A i \in 1 .. Len(toGateway') :
        i \in 1 .. Len(toGateway) \/ i = Len(toGateway) + 1
  BY <1>7
<1>9. \A i \in 1 .. Len(toGateway') : toGateway'[i].kind \in Orders
  BY <1>7, <1>8 DEF Open
<1>10. session' = 1 =>
         /\ isSecureBoxDone' /\ written' = decrypted' + Len(toGateway')
         /\ \A i \in 1 .. Len(toGateway') : toGateway'[i].pos = decrypted' + i - 1
  <2> SUFFICES ASSUME session = 1
      PROVE  /\ isSecureBoxDone' /\ written' = decrypted' + Len(toGateway')
             /\ \A i \in 1 .. Len(toGateway') : toGateway'[i].pos = decrypted' + i - 1
    BY <1>2
  <2>1. /\ isSecureBoxDone /\ written = decrypted + Len(toGateway)
        /\ \A i \in 1 .. Len(toGateway) : toGateway[i].pos = decrypted + i - 1
    BY DEF Open
  <2>2. written' = decrypted' + Len(toGateway')
    BY <1>1, <1>2, <1>3, <1>7, <2>1
  <2>3. toGateway'[Len(toGateway) + 1].pos = decrypted + (Len(toGateway) + 1) - 1
    BY <1>3, <1>7, <2>1
  <2> QED
    BY <1>2, <1>7, <1>8, <2>1, <2>2, <2>3
<1>11. exchPc' = "receive" /\ stage' = "user"
  BY <1>1, <1>2 DEF Open
<1>12. /\ encrypted' = read' + Len(toExchange') + (IF omsPc' = "write" THEN 1 ELSE 0)
       /\ omsPc' = "write" =>
            ciphertext' = [key |-> session', pos |-> read' + Len(toExchange'),
                           body |-> order']
  BY <1>2, <1>6 DEF Open
<1> QED
  BY <1>5, <1>9, <1>10, <1>11, <1>12 DEF Open

LEMMA AnswersRequest ==
  ASSUME SessionInv, ExchangeAnswers, NEW r \in Requests, Asked(r),
         Head(toExchange) = Sent(r, PosOf[r])
  PROVE  Answered(r)'
<1>1. /\ toExchange' = <<>> /\ stage' = Gives[r]
      /\ read' = PosOf[r] + Advance(r) /\ written' = PosOf[r] + Advance(r)
      /\ toGateway' = <<[kind |-> r, pos |-> PosOf[r]]>>
  BY OneMessage, RequestFacts DEF ExchangeAnswers, Asked, At, Sent
<1>2. UNCHANGED <<exchPc, session, encrypted, decrypted, isSecureBoxDone>>
  BY DEF ExchangeAnswers, gateway
<1> QED
  BY <1>1, <1>2 DEF Asked, Answered, At, Boxed

LEMMA ExchangeSteps ==
  ASSUME SessionInv, ExchangeAnswers
  PROVE  Rest'
<1>1. toExchange # <<>> /\ exchPc # "start"
  BY DEF ExchangeAnswers, SessionInv, Down
<1>2. UNCHANGED <<exchPc, session, isSecureBoxDone, loggedIn, socketOpen, omsPc,
                  early, ignored, misread>>
  BY DEF ExchangeAnswers, gateway, oms, history
<1>3. ASSUME ~early PROVE Session'
  <2>1. CASE loggedIn
    <3>1. Open'
      BY <1>1, <1>3, <2>1, NextMessage, AnswersOrder
    <3> QED
      BY <1>1, <1>2, <1>3, <2>1, <3>1 DEF SessionInv, Session
  <2>2. CASE ~loggedIn
    <3>1. \E r \in Requests : Answered(r)'
      BY <1>1, <1>3, <2>2, NextMessage, AnswersRequest
    <3> QED
      BY <1>1, <1>2, <1>3, <2>2, <3>1 DEF SessionInv, Session, Handshake
  <2> QED
    BY <2>1, <2>2
<1> QED
  BY <1>1, <1>2, <1>3 DEF Rest, SessionInv, First

-----------------------------------------------------------------------------
LEMMA SessionStep ==
  ASSUME SessionInv, [Next]_vars
  PROVE  SessionInv'
<1>1. BseTypeOK'
  BY TypeStep DEF SessionInv
<1>2. CASE UNCHANGED vars
  <2>1. Rest'
    BY <1>2
    DEF Rest, SessionInv, First, Session, Handshake, Connecting, Silent, Asked, Answered,
        Asking, Open, Down, At, Boxed, Sent, vars, gateway, oms, exchange, history
  <2> QED
    BY <1>1, <2>1 DEF SessionInv, Rest
<1>3. CASE Next
  <2>1. Rest'
    BY <1>3, Connects, Receives, ReceivesAnswer, Asks, Breaks, OmsSteps,
       ExchangeSteps, Ignores
    DEF Next, ExchangeThread, OmsSends, Exchange
  <2> QED
    BY <1>1, <2>1 DEF SessionInv, Rest
<1> QED
  BY <1>2, <1>3

\* If no order was in the hands of the OMS thread before a session was logged
\* in, the exchange can decrypt every order of the session: the two threads and
\* the one buffer and context of sendToExchange do not get in each other's way.
THEOREM NoOrderIsIgnored == Spec => []NoOrderIgnored
<1>1. SessionInv => NoOrderIgnored
  BY DEF SessionInv, NoOrderIgnored
<1> QED
  BY <1>1, SessionInit, SessionStep, PTL DEF Spec

\* In the first session HandleData decrypts every answer where the exchange
\* encrypted it. (In a later session it does not: AnswersRead is refuted.)
THEOREM FirstSessionIsRead == Spec => []FirstSessionRead
<1>1. SessionInv => FirstSessionRead
  BY DEF SessionInv, First, FirstSessionRead
<1> QED
  BY <1>1, SessionInit, SessionStep, PTL DEF Spec
=============================================================================
