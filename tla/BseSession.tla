----------------------------- MODULE BseSession -----------------------------
(* The sessions of the BSE ETI order gateway (BSE/Order/ETI/BSEEDORDER):     *)
(* TradeApplication with its base classes RequestProcess, ExchangeConnection.*)
(*                                                                           *)
(* The exchange thread asks the gateway router for a key and an address over *)
(* TLS, connects there, registers in the clear, logs on and logs its user in *)
(* encrypted, and handles answers. The OMS thread starts when the first      *)
(* login is answered and then sends every order it is given: nothing tells   *)
(* it that the connection broke. Both send through sendToExchange, which     *)
(* encrypts into one buffer with one context and writes the buffer. The      *)
(* cipher is AES-256-GCM used as a stream: what is encrypted at one position *)
(* of the key stream can be read only at the same position.                  *)
(*                                                                           *)
(* A position is the number of messages encrypted or decrypted before, which *)
(* stands for the number of their bytes. Heartbeats have a header only and   *)
(* take no position; they are left out, as are the contents of orders and    *)
(* answers, sequence numbers, how long an order waits in the throttle, and   *)
(* the change of passwords, which a configuration asks for (changePassword = *)
(* 0 here). The gateway response and the key of session n are n.             *)
EXTENDS Naturals, Sequences

CONSTANTS
  Orders,      \* ids of the orders the OMS may send
  MaxSession   \* bound: sessions; the last one does not break

Requests == {"registration", "logon", "user_login"}

ASSUME BseAssumption == MaxSession \in Nat /\ Orders \cap Requests = {}

VARIABLES
  exchPc,           \* where the exchange thread is
  request,          \* the request it sends
  session,          \* keys received so far; the contexts have the last one
  encrypted,        \* position of the context that encrypts
  decrypted,        \* position of the context that decrypts
  ciphertext,       \* the buffer both threads encrypt into
  isSecureBoxDone,  \* answers are decrypted
  loggedIn,         \* _loggedIn
  socketOpen,       \* m_socket->is_open()
  omsPc,            \* where the OMS thread is
  order,            \* the order it has taken last
  taken,            \* history: orders it has taken
  toExchange,       \* on the connection, to the exchange
  toGateway,        \* on the connection, to the gateway
  stage,            \* the exchange: how far this session has come
  read,             \* the exchange: position of what it reads
  written,          \* the exchange: position of what it writes
  early,            \* history: this session, an order was taken before the login
  ignored,          \* history: orders the exchange could not accept, this session
  misread           \* history: orders whose answer was read as something else

gateway == <<exchPc, request, session, encrypted, decrypted, ciphertext,
             isSecureBoxDone, loggedIn, socketOpen>>
oms == <<omsPc, order, taken>>
exchange == <<stage, read, written>>
history == <<early, ignored, misread>>
vars == <<gateway, oms, toExchange, toGateway, exchange, history>>

Init ==
  /\ exchPc = "start" /\ request = "registration" /\ session = 0
  /\ encrypted = 0 /\ decrypted = 0
  /\ ciphertext = [key |-> 0, pos |-> 0, body |-> "registration"]
  /\ isSecureBoxDone = FALSE /\ loggedIn = FALSE /\ socketOpen = FALSE
  /\ omsPc = "wait" /\ order = "registration" /\ taken = {}
  /\ toExchange = <<>> /\ toGateway = <<>>
  /\ stage = "none" /\ read = 0 /\ written = 0
  /\ early = FALSE /\ ignored = {} /\ misread = {}

-----------------------------------------------------------------------------
(* sendToExchange: performEncrypt, then sendToTarget. *)

\* (mutant) Every message begins the key stream anew.
performEncryptAnew(m) ==
  /\ ciphertext' = [key |-> session, pos |-> 0, body |-> m]
  /\ encrypted' = 1

\* performEncrypt: the next position of the key stream, into the one buffer.
performEncrypt(m) ==
  /\ ciphertext' = [key |-> session, pos |-> encrypted, body |-> m]
  /\ encrypted' = encrypted + 1

\* The header of m before whatever the buffer holds by now. If the socket is
\* closed the message is lost, and its position with it.
sendToTarget(m) ==
  toExchange' =
    IF socketOpen
    THEN Append(toExchange, [header |-> m, key |-> ciphertext.key,
                             pos |-> ciphertext.pos, body |-> ciphertext.body])
    ELSE toExchange

-----------------------------------------------------------------------------
(* The exchange thread: connectToBSEExchange. *)

\* The gateway response: new contexts with the new key. A try that fails before
\* leaves everything as it is, and is made again after ten seconds.
readFromSSL ==
  /\ exchPc = "start" /\ session < MaxSession
  /\ exchPc' = "keyed"
  /\ session' = session + 1
  /\ encrypted' = 0 /\ decrypted' = 0
  /\ early' = (omsPc \in {"encrypt", "write"})
  /\ ignored' = {}
  /\ UNCHANGED <<request, ciphertext, isSecureBoxDone, loggedIn, socketOpen,
                 oms, toExchange, toGateway, exchange, misread>>

\* createSocket and SendSessionRegistrationRequest, which is not encrypted.
createSocket ==
  /\ exchPc = "keyed"
  /\ exchPc' = "register"
  /\ socketOpen' = TRUE
  /\ UNCHANGED <<request, session, encrypted, decrypted, ciphertext,
                 isSecureBoxDone, loggedIn, oms, toExchange, toGateway,
                 exchange, history>>

\* (mutant) Only the OMS thread ends.
SocketRaceOms ==
  /\ exchPc = "keyed" /\ omsPc = "write"
  /\ omsPc' = "dead"
  /\ UNCHANGED <<gateway, order, taken, toExchange, toGateway, exchange, history>>

\* createSocket resets m_socket before it makes the new one: an OMS thread that
\* tests m_socket->is_open() then may end the process.
SocketRace ==
  /\ exchPc = "keyed" /\ omsPc = "write"
  /\ exchPc' = "dead" /\ omsPc' = "dead"
  /\ UNCHANGED <<request, session, encrypted, decrypted, ciphertext,
                 isSecureBoxDone, loggedIn, socketOpen, order, taken,
                 toExchange, toGateway, exchange, history>>

SendSessionRegistrationRequest ==
  /\ exchPc = "register"
  /\ exchPc' = "receive"
  /\ toExchange' = Append(toExchange, [header |-> "registration", key |-> session,
                                       pos |-> 0, body |-> "registration"])
  /\ UNCHANGED <<request, session, encrypted, decrypted, ciphertext,
                 isSecureBoxDone, loggedIn, socketOpen, oms, toGateway,
                 exchange, history>>

\* (mutant) disableConnectionVariable leaves _loggedIn.
DisconnectLoggedIn ==
  /\ exchPc \in {"keyed", "register", "receive"} /\ session < MaxSession
  /\ exchPc' = "start"
  /\ socketOpen' = FALSE
  /\ toExchange' = <<>> /\ toGateway' = <<>>
  /\ stage' = "none" /\ read' = 0 /\ written' = 0
  /\ UNCHANGED <<request, session, encrypted, decrypted, ciphertext, loggedIn,
                 isSecureBoxDone, oms, history>>

\* The connection is not made or breaks: closeConnectionSocket,
\* disableConnectionVariable. The OMS thread, the contexts and isSecureBoxDone
\* stay as they are.
Disconnect ==
  /\ exchPc \in {"keyed", "register", "receive"} /\ session < MaxSession
  /\ exchPc' = "start"
  /\ socketOpen' = FALSE /\ loggedIn' = FALSE
  /\ toExchange' = <<>> /\ toGateway' = <<>>
  /\ stage' = "none" /\ read' = 0 /\ written' = 0
  /\ UNCHANGED <<request, session, encrypted, decrypted, ciphertext,
                 isSecureBoxDone, oms, history>>

\* (mutant) The answer to a login is not decrypted.
HandleDataNotLogin(kind) ==
  /\ exchPc = "receive" /\ toGateway # <<>>
  /\ kind = Head(toGateway).kind
  /\ toGateway' = Tail(toGateway)
  /\ decrypted' = IF isSecureBoxDone /\ kind # "user_login"
                  THEN decrypted + 1 ELSE decrypted

\* HandleData up to the switch: once isSecureBoxDone is set every message goes
\* through the context, also the answer to a registration, which is in the clear.
HandleData(kind) ==
  /\ exchPc = "receive" /\ toGateway # <<>>
  /\ kind = Head(toGateway).kind
  /\ toGateway' = Tail(toGateway)
  /\ decrypted' = IF isSecureBoxDone THEN decrypted + 1 ELSE decrypted

\* What HandleData decrypted is what the exchange encrypted.
ReadRight == isSecureBoxDone /\ Head(toGateway).pos = decrypted

\* onMessage(SessionRegistrationResponseT*): the logon.
ReceiveRegistration ==
  /\ HandleData("registration")
  /\ exchPc' = "encrypt" /\ request' = "logon"
  /\ UNCHANGED <<session, encrypted, ciphertext, isSecureBoxDone, loggedIn,
                 socketOpen, oms, toExchange, exchange, history>>

\* onMessage(LogonResponseT*): a new throttle of the size the answer gives, then
\* userLogon. If the answer was misread its size is any number: new may throw,
\* which HandleData catches, and nothing is sent.
ReceiveLogon ==
  /\ HandleData("logon")
  /\ \/ exchPc' = "encrypt" /\ request' = "user_login"
     \/ ~ReadRight /\ UNCHANGED <<exchPc, request>>
  /\ UNCHANGED <<session, encrypted, ciphertext, isSecureBoxDone, loggedIn,
                 socketOpen, oms, toExchange, exchange, history>>

\* onMessage(UserLoginResponseT*).
ReceiveUserLogin ==
  /\ HandleData("user_login")
  /\ loggedIn' = TRUE
  /\ UNCHANGED <<exchPc, request, session, encrypted, ciphertext, isSecureBoxDone,
                 socketOpen, oms, toExchange, exchange, history>>

\* The handlers of the answers to orders. What they handle is the answer only
\* if it was decrypted where it was encrypted.
ReceiveAnswer ==
  \E o \in Orders :
    /\ HandleData(o)
    /\ misread' = IF ReadRight THEN misread ELSE misread \cup {o}
    /\ UNCHANGED <<exchPc, request, session, encrypted, ciphertext,
                   isSecureBoxDone, loggedIn, socketOpen, oms, toExchange,
                   exchange, early, ignored>>

\* sendToExchange of the logon and of the login of the user.
EncryptRequest ==
  /\ exchPc = "encrypt"
  /\ performEncrypt(request)
  /\ exchPc' = "write"
  /\ UNCHANGED <<request, session, decrypted, isSecureBoxDone, loggedIn,
                 socketOpen, oms, toExchange, toGateway, exchange, history>>

\* The logon sent, the handler of the registration sets isSecureBoxDone.
WriteRequest ==
  /\ exchPc = "write"
  /\ sendToTarget(request)
  /\ exchPc' = "receive"
  /\ isSecureBoxDone' = TRUE
  /\ UNCHANGED <<request, session, encrypted, decrypted, ciphertext, loggedIn,
                 socketOpen, oms, toGateway, exchange, history>>

-----------------------------------------------------------------------------
(* The OMS thread: startOmsRcv, receiveFromOMS. *)

\* The first login lets the thread into StartReceiving, which does not return.
startOmsRcv ==
  /\ omsPc = "wait" /\ loggedIn
  /\ omsPc' = "idle"
  /\ UNCHANGED <<gateway, order, taken, toExchange, toGateway, exchange, history>>

\* An order comes and waits in the throttle.
TakeOrder(o) ==
  /\ omsPc = "idle" /\ o \notin taken
  /\ omsPc' = "encrypt" /\ order' = o /\ taken' = taken \cup {o}
  /\ early' = (early \/ ~loggedIn)
  /\ UNCHANGED <<gateway, toExchange, toGateway, exchange, ignored, misread>>

EncryptOrder ==
  /\ omsPc = "encrypt"
  /\ performEncrypt(order)
  /\ omsPc' = "write"
  /\ UNCHANGED <<exchPc, request, session, decrypted, isSecureBoxDone, loggedIn,
                 socketOpen, order, taken, toExchange, toGateway, exchange, history>>

WriteOrder ==
  /\ omsPc = "write"
  /\ sendToTarget(order)
  /\ omsPc' = "idle"
  /\ UNCHANGED <<gateway, order, taken, toGateway, exchange, history>>

-----------------------------------------------------------------------------
(* The exchange. It answers what it can read when its turn has come, and *)
(* nothing else.                                                          *)

Needs == [registration |-> "none", logon |-> "registered", user_login |-> "on"]
Gives == [registration |-> "registered", logon |-> "on", user_login |-> "user"]

Readable(m) ==
  \/ m.header = "registration"
  \/ m.key = session /\ m.pos = read /\ m.body = m.header

Awaited(h) == stage = IF h \in Orders THEN "user" ELSE Needs[h]

Accepts(m) == Readable(m) /\ Awaited(m.header)

Advance(h) == IF h = "registration" THEN 0 ELSE 1

ExchangeAnswers ==
  /\ toExchange # <<>>
  /\ LET m == Head(toExchange) IN
       /\ Accepts(m)
       /\ read' = read + Advance(m.header)
       /\ stage' = IF m.header \in Orders THEN stage ELSE Gives[m.header]
       /\ toGateway' = Append(toGateway, [kind |-> m.header, pos |-> written])
       /\ written' = written + Advance(m.header)
  /\ toExchange' = Tail(toExchange)
  /\ UNCHANGED <<gateway, oms, history>>

ExchangeIgnores ==
  /\ toExchange # <<>>
  /\ LET m == Head(toExchange) IN
       /\ ~Accepts(m)
       /\ read' = read + Advance(m.header)
       /\ ignored' = ignored \cup ({m.header} \cap Orders)
  /\ toExchange' = Tail(toExchange)
  /\ UNCHANGED <<gateway, oms, toGateway, stage, written, early, misread>>

-----------------------------------------------------------------------------
ExchangeThread ==
  \/ readFromSSL \/ createSocket \/ SendSessionRegistrationRequest
  \/ ReceiveRegistration \/ ReceiveLogon \/ ReceiveUserLogin \/ ReceiveAnswer
  \/ EncryptRequest \/ WriteRequest

OmsSends == EncryptOrder \/ WriteOrder

Exchange == ExchangeAnswers \/ ExchangeIgnores

Next ==
  \/ ExchangeThread \/ SocketRace \/ Disconnect
  \/ startOmsRcv \/ (\E o \in Orders : TakeOrder(o)) \/ OmsSends
  \/ Exchange

Spec == Init /\ [][Next]_vars

\* The exchange thread runs, and the exchange handles what it receives. An order
\* may wait in the throttle for ever, if that was made from a misread answer.
FairSpec == Spec /\ WF_vars(ExchangeThread) /\ WF_vars(Exchange)

-----------------------------------------------------------------------------
Names == Requests \cup Orders

Ciphertexts == [key : 0 .. MaxSession, pos : Nat, body : Names]
Sendings == [header : Names, key : 0 .. MaxSession, pos : Nat, body : Names]
Answers == [kind : Names, pos : Nat]

BseTypeOK ==
  /\ exchPc \in {"start", "keyed", "register", "receive", "encrypt", "write", "dead"}
  /\ request \in Requests
  /\ session \in 0 .. MaxSession
  /\ encrypted \in Nat /\ decrypted \in Nat /\ read \in Nat /\ written \in Nat
  /\ ciphertext \in Ciphertexts
  /\ isSecureBoxDone \in BOOLEAN /\ loggedIn \in BOOLEAN
  /\ socketOpen \in BOOLEAN /\ early \in BOOLEAN
  /\ omsPc \in {"wait", "idle", "encrypt", "write", "dead"}
  /\ order \in Names
  /\ omsPc \in {"encrypt", "write"} => order \in Orders
  /\ exchPc = "dead" <=> omsPc = "dead"
  /\ toExchange \in Seq(Sendings)
  /\ toGateway \in Seq(Answers)
  /\ stage \in {"none", "registered", "on", "user"}
  /\ taken \subseteq Orders /\ ignored \subseteq Orders /\ misread \subseteq Orders

\* In a session before whose login no order was in the hands of the OMS thread
\* the exchange can decrypt every order that reaches it, and none comes before
\* it takes the user for logged in. (Its sequence numbers are another matter.)
NoOrderIgnored == ~early => ignored = {}

\* In the first session every answer is read as the exchange wrote it.
FirstSessionRead == session <= 1 => misread = {}

\* Every connection lost is made again, and its user is logged in, but for two
\* cases: an order came first, and the exchange may read nothing of the session;
\* or the exchange accepted the logon and the gateway, having decrypted more than
\* was encrypted, misread the answer and may not have sent the login of the user.
LogonMisread == stage = "on" /\ decrypted > written
LogsIn == <>[](loggedIn \/ early \/ LogonMisread)

\* What is decrypted is what the exchange wrote (TradeApplication.cpp:191,
\* "decrypt msg"). Refuted: the next session decrypts the answer to its
\* registration, which is in the clear, and reads from then on one message late.
AnswersRead == misread = {}
=============================================================================
