# Finsol trading gateways: TLA+ specifications

Finsol's programs connect an order management system (OMS) and market data
consumers to Indian exchanges and to cTrader. Each program is a Windows
process of a few threads, written in C++; there are no tests and no documents
beside the code, so everything here is read from the source, under `src/`.

## 1. Inventory

| Component | Where | State | Operations | What makes it correct |
|---|---|---|---|---|
| Order throttle | `throttling.h` of each order gateway | a ring (NSE FO, IIBX, MCX, BSE) or a deque (NSE COM) of clock readings | `checkThrottleLimit`; renewal on logon and throttle update (MCX, BSE) | never more messages in a window than the exchange allows |
| Order history | NSE FO `adapter.cpp:158-199`, `Adapter.h:135` | queue of the ids not yet answered | `setClOrderId`, `removeIdFromOrderHistory`, `getClOrderid`, `orderHistoryIsEmpty` | every id taken is reported, about to be, or still held, once |
| NSE FO gateway | `adapter.cpp`, `ExchangeProcess.cpp`, `connection.cpp` | connection flags, download stream, exchange status, history | session set-up, message download, answers, order intake, refusal, reconnection | a refused order never goes out; after a download no order is left without a report; the gateway comes back |
| OMS link | `omsSocketHandler.h`, `omsUdpSocketHandler.h`, `rabbitmq*.cpp` | sockets, queues, `_process` | accept, health check, send, receive | reports arrive once and in order |
| NSE COM gateway | `NSE/Order/COM` | as NSE FO, but the history is an `unordered_set` without a lock | as NSE FO | as NSE FO |
| MCX ETI gateway | `MCX/Order/ETI` | session flags, sequence number, `_orderSequence`, `tradeRecord`, the file of `ApplSeq` | logon, subscription, retransmission per partition, answers, rejects | a trade is forwarded once, and in the end; recovery ends, and only then orders are taken for deleted |
| BSE ETI gateway | `BSE/Order/ETI` | session flags, cipher contexts, one ciphertext buffer, the socket | gateway request over TLS, registration, logon, user login, orders, answers, reconnection | both sides encrypt and decrypt at the same place of the key stream; a lost session is made again |
| IIBX gateway | `IIBX/Order/FUT` | as NSE, without a download | as NSE | as NSE |
| CTrade gateway | `CTrade/Order` | FIX session (QuickFIX), subscriptions | FIX handlers | as QuickFIX |
| Market data | `*/Market/*`; MDI of MCX: `Snapshot_MDI.cpp`, `Broadcast_Snapshot.cpp`, `marketDataMessage.cpp` | per security two ladders of 5 levels, the last numbers of snapshot and increment | snapshot, increment (new, update, delete, delete thru and from, overlay), publish | the ladders are ordered; the depth is the book of the exchange, or comes to be it again; what is published is current |
| Drop copies | `*/Dropcopy/*` | sequence file, output files | logon, trade, write | every trade written once |

The threads of an order gateway: the **exchange thread** connects and runs the
receive loop, in which every handler runs; the **OMS thread** takes orders
from a queue or from RabbitMQ, throttles and sends them; a heartbeat thread and
sender threads. They share the history, the flags, the sequence number, the
encryption buffer and the report builder, without locks.

Vendored and generated code (Nanolog, rabbitmq-c, mFAST, QuickFIX, OpenSSL,
FAST templates, exchange message layouts) is left out.

What is hard here: threads that interleave in code written as if it ran alone,
connections that break at any step, status that is tested and used later,
queues at their capacity, and the order in which live and replayed messages
arrive. `PROJECT.json` lists each such place with its line.

## 2. Modules

| Module | Models |
|---|---|
| `RateLimit` | what a throttle promises: the abstract specification |
| `SlidingWindow` | the ring throttle; `Slack` is 0 for NSE FO and IIBX, 2 for MCX and BSE |
| `SlidingWindowProofs` | its theorems |
| `SlidingWindowDeque` | the throttle of NSE COM |
| `OrderHistory` | the history with atomic push and pop, drained by any number of threads |
| `OrderHistoryProofs` | its theorems |
| `OrderHistorySpsc` | the history on the ring the code declares, each queue operation a load and a store |
| `NseOrderGateway` | the NSE FO gateway around its history (it extends `OrderHistory`), with the exchange, the connection and the OMS |
| `NseOrderGatewayProofs` | its theorems, which use those of the history |
| `LeastNumber` | a lemma: a set of numbers that is not empty has a least one |
| `TradeFeed` | what the OMS is promised about trades: the abstract specification |
| `McxTradeRecovery` | the recovery of trades of the MCX gateway, with the exchange, disconnections and restarts |
| `McxTradeRecoveryProofs` | its theorems, among them the refinement of `TradeFeed` |
| `MdiDepth` | the depth of one security in the MCX MDI feed, with the exchange's book and a multicast network that loses, repeats and reorders |
| `MdiDepthProofs` | its theorems |
| `BseSession` | the sessions of the BSE gateway: two threads, one cipher, the exchange |
| `BseSessionProofs` | its theorems |
| `MC...` | instances for TLC that need definitions of their own; the other modules are run as they are, with the constants of their `.cfg` files |

### How state and actions correspond to the code

*Throttle.* `ptr`, `frontIndex`, `writeIndex`, `fullOnce` are the members of
`CircularArray`; `now` is `system_clock`, which `Tick` advances and `SetClock`
sets back. A call is `Enter` and then the pass of its loop that returns; a pass
that does not return changes nothing. `sent` and `epoch` are history: the
readings stored and how many of them an earlier throttle stored. `Renew` is the
new object of a logon response or a throttle update.

*History.* `phase[t]` is where thread `t` is in `removeIdFromOrderHistory`,
`removeValue[t]` and `tempContainer[t]` are its locals. Every turn of its two
loops is a step. `Report` is the end of the handler that called it. `tracked`,
`dropped` and `reported` are history: ids the queue took, ids whose push
failed, ids the OMS was told about.

*Gateway.* `exchPc` and `omsPc` say where the two threads are; the flags have
the code's names. One action stands for one message handled, but where a
handler can be interrupted in a way that matters it is split: an answer takes
its id out (`ReceiveAnswer`, then the turns of the drain) and is reported
(`ReportAnswer`); the trailer tests, takes the front, drains and reports; the
OMS thread tests the status, is in the throttle, tracks, tests the connection
and writes. `link`, `inbox` and `wire` are the connection; `exchangeLog` is
what the exchange replays on a download. `session`, `owed`, `verdicts` are
history. Answers are of two kinds, those that take the id out and a
confirmation with an error code, on which the code returns at once
(`ReceiveErrorCode`): the OMS hears nothing, and the id stays for the next
download.

*Trade recovery.* The variables have the names of the members of
`Exchange_Processor`, `TradeHandler` and `ApplSeq`. One action is one handler
with everything it calls; `NextRequest` is the end of the handler of a trade,
`sendRetransmissionTrade` the request it makes. A trade is its partition and
number. The exchange is modelled from what the code expects of it: it answers
a request with a response (last number of the part, last number there is,
count) and then the part, while live trades come between. `saved` is what the
file may hold, since a thread behind a queue writes it and truncates it first;
`Restart` begins with any of that. `told`, `begun`, `quiet`, `cancelled` and
`sessions` are history.
What comes before the answer to the user login is one step
(`UserLoginResponse`, with the counter as `sendLogonRequest` and two messages
leave it). From then on `isLoggedOn` is set and the OMS thread sends: the three
subscriptions (`SendSubscription`) and the orders between them number their
messages with one counter, `seqNu`, that no lock protects, so an order reads it
(`ReadNumber`) and writes it (`WriteNumber`) in two steps and `order` holds the
number in between. `sent` counts the subscriptions. The answer to each is
handled by `ReceiveSubscribeResponse`, which starts recovery only if the
message had number 5; from the first accepted subscription on live trades may
come before the other answers. `orderly` is history: no order has taken a
number among the subscriptions.

*Market depth.* `depth` is `_buyDepth` and `_sellDepth`, arrays indexed from
0; `insertDepth`, `updateDepth`, `deleteDepth`, `deleteBest` and
`overlayDepth` are the functions of `MarketData`, one operator for both sides.
Taking a packet, each of its entries, and its end are steps, because the depth
is published after each entry. `book` and `seq` are the exchange, `wire` the
network and the queue of the receiver. `published`, `top`, `exact` and
`overlaid` are history: they say when the numbers can tell that the depth is
the book. The faults are named actions (`LosePacket`, `RepeatPacket`,
`Overtake`, `DecodeFails`).

*BSE sessions.* `exchPc` and `omsPc` say where the threads are. A call of
`sendToExchange` is two steps, `performEncrypt` into the buffer and
`sendToTarget` of what the buffer then holds. A position of the key stream is
the number of messages before it; the exchange reads a message only with the
session's key and at its own position. `ReadRight` says whether an answer is
decrypted where it was encrypted. The answer to the logon sizes a new throttle
before the login of the user is sent; read wrong it gives any size, and
`ReceiveLogon` then has a second outcome: `new` throws, `HandleData` catches,
nothing is sent. `early`, `ignored` and `misread` are history, the first two of
one session.

## 3. Runs

| Run | Question | Result |
|---|---|---|
| `throttle` | does the ring decide as if it remembered everything, keep every window within the limit, and implement `RateLimit`, also when the clock is set back? | holds |
| `deque_limit` | does the deque of NSE COM keep the limit? | **violated** |
| `spsc_race` | is the ring the code declares fit for two threads that both push and pop? | **violated** |
| `gateway_safe` | is every id accounted for and held once, is a refused order final, is an unknown order unknown to the exchange, does a download settle what it owes, up to a drain of the OMS thread? | holds |
| `gateway_live` | does every drain return, and every download end? | holds |
| `gateway_reconnect` | does the gateway come back? | **violated** |
| `mcx_recovery` | does the OMS hear of a trade once per process; where no order came between the subscriptions, does recovery start, does the OMS hear of every trade and of a mass deletion; does recovery that began end? | holds |
| `mcx_deletion` | is recovery complete when the OMS is told that its orders are deleted? | **violated** |
| `mcx_number` | does the OMS hear of a mass deletion in every session? | **violated** |
| `mdi_depth` | are the ladders ordered, is what is published current, is the depth the book where the numbers can tell, and does it become the book again after any fault? | holds |
| `bse_session` | can the exchange decrypt every order of a session, is the first session read right, is a lost session logged in again (unless an order came first, or the logon answer was misread)? | holds |
| `bse_answers` | is every answer decrypted where it was encrypted? | **violated** |

### What the violations show

* `deque_limit`: a call that finds the window full sleeps until its oldest
  entry expires and returns. The call that would look again is commented out
  (`NSE/Order/COM/NSE_COM/throttling.h:193`) and the message is not recorded.
* `spsc_race`: `boost::lockfree::spsc_queue` allows one producer and one
  consumer; both threads are both.
* `gateway_reconnect`: after a disconnection the gateway closes the socket of
  the OMS; `accept` is next called when a heartbeat of the OMS thread cannot be
  written, or by the health thread, whose start is commented out
  (`adapter.cpp:725`). If no heartbeat falls between the break and the next
  connection, none fails afterwards, and the next session polls for the OMS for
  ever (`ExchangeProcess.cpp:224`).
* `mcx_deletion`: `onMessage(RetransmitResponseT*)` takes recovery to be
  complete when the response announces the last part of partition 2
  (`Exchange_Processor.cpp:511`); the trades of that part come after it. For
  partition 1 the order is right, which is `Partition1BeforeDeletion`.
* `mcx_number`: recovery starts on the answer to message number 5
  (`Exchange_Processor.cpp:1126`), which is the third subscription if the
  exchange thread alone takes numbers. An order taken after `isLoggedOn` is set
  (`:194`) may be number 5. Recovery then never starts in that session, nothing
  is replayed, and every mass deletion is dropped, because only recovery sets
  `isSendDeleteBroadCastMsg`.
* `bse_answers`: `isSecureBoxDone` is set once and never reset
  (`TradeApplication.cpp:192`). From the second session on the answer to the
  registration, which is in the clear, goes through the new decryption context
  and moves it one message on.

What the properties that hold except by name is as telling. `DownloadSettles`
and `UnknownAtExchange` except an order the OMS thread holds in a drain of its
own, made when it refuses an order: an answer, or the last trailer, does not
find the id then. `RecoveryStarts`, `EveryTradeTold`, `DeletionTold` and
`Partition1BeforeDeletion` except sessions in which an order took a number
between the subscriptions; two messages may then have number 5 and recovery
start twice, or none. `Partition1BeforeDeletion` also excepts sessions in which
a trade was made during recovery: a live trade whose number is the end of a
part asks for the next part early. `EveryTradeTold` owes the trades of
partition 1 only if recovery starts with it: a live trade before the third
response that has the last number of the session before moves `partitionID` to
2, and partition 1 is not asked for. `NoOrderIgnored` and `LogsIn` except
sessions in which the OMS thread had an order before the login: it goes on
sending while the other thread connects, takes the first place of the new key
stream, and the exchange may then read nothing of the session. `LogsIn` also
excepts sessions whose logon the exchange accepted and whose answer the gateway
misread, which is every one after the first that wrote a logon: the throttle made from it may
throw, and the login of the user is then never sent. `NoOrderIgnored` is about
places in the key stream; the exchange's own test of sequence numbers is not
modelled. The window bounds of the throttle are about the messages of one
throttle: a burst across a renewal is bounded by neither `WindowBound` nor
`NoBurst`, and `RateLimit` renews as the code does. `DepthIsBook` names what
spoils the depth until the next snapshot: a lost increment (a gap is not
noticed), a snapshot or an increment older than what was applied, overlays
(their level, counted from 1, is used as an index) and `DeleteFrom` (which
removes the best levels, and of the bids whatever the side).

Two limits of the history are in the model and in no run. The push of
`setClOrderId` fails silently when 2000 ids are held, and such an order is not
tracked (`dropped`); every property is about tracked orders. And
`while (!orderHistory.push(v));` (`adapter.cpp:182`) spins while the queue is
full, for ever if new orders took the room of the popped ids; `DrainEnds` is
checked with room for every order.

### Bounds, and why they are enough

* Throttle: a ring of 2 slots, so that the indices wrap more than once in 6
  admissions; clocks up to 6 (8 for the deque) with windows of 2 units, so that
  windows overlap, expire and are entered again; renewals below 3 admissions.
  The code of the ring sees `MsgLimit` and `Slack` only through their
  difference, so that the run stands for MCX and BSE (`Slack` = 2) too, whose
  `NoBurst` asks for less.
* The ring of `OrderHistorySpsc`: 3 ids and capacity 3 (4 cells), which is
  enough for two pushes to meet.
* Gateway: 3 orders, capacity 2, 2 streams, 3 sessions: an order can be
  tracked in one session, answered in the next, and the last session sees the
  leftovers of both; the history can be full. The last session does not break.
  Liveness and the violation use smaller instances, named in each cfg.
  Ids are interchangeable, so the safety run uses symmetry; liveness runs do not.
* Trade recovery: parts of one trade and two trades of a partition, so that a
  partition takes two requests; three trades in all, so that both partitions
  have some; two sessions, with a disconnection or a restart between them, on
  a file with any number. `Rewind` is 1 where the code has 100, so that the
  difference is a number, 1, or above a trade that is there. Orders come
  between the subscriptions of the first session only, with one trade fewer
  then, and mass deletions in the last session: neither leaves anything behind
  for another session, but for what recovery has told. The numbers are followed
  from the answer to the user login to the third subscription, since no later
  one is compared with anything, and those above 6 are one. A subscription
  takes its number in one step: where its increment overwrites that of an
  order, the order might as well have come before it. Heartbeats take no number
  (`sendHeartbeat` does not touch the counter).
* Market depth: ladders of two levels, three prices and two quantities, so that
  levels are inserted before, between and after others, shifted out of a full
  ladder, and changed; three increments and two packets on the network, so that
  a packet can be overtaken, repeated or lost between two others; one fault,
  and any number of snapshots.
* BSE sessions: three orders and three sessions: an order in the hands of the
  OMS thread when the first session breaks, one in the second session and one
  in the third. Orders differ only in their places in the key stream.
* `CHECK_DEADLOCK FALSE` but for `mdi_depth`: clock, orders, trades and
  sessions are bounded and a gateway may end its process. The depth feed never
  stops, since snapshots go on.

### Fairness

`FairSpec`: each of the two threads keeps running (weak fairness on the
disjunction of its steps; that of the OMS thread leaves out taking an order,
since none need come), heartbeats come, because a thread of the process sends
one every 20 seconds, and the exchange answers what it receives. Nothing says
that the connection breaks, or that the OMS sends. The threads are operating
system threads without priorities, and use no locks on these paths.

`McxTradeRecovery`: the handlers run (one thread, a receive loop), the logon
succeeds in the end (`startExchangeConnection` tries for ever), and the
exchange answers and sends the part it announced. `MdiDepth`: the feed thread
runs (`processData` loops for ever) and the exchange goes on sending
snapshots, without which the feed could not begin. `BseSession`: the exchange
thread runs and tries again for ever, and the exchange handles what it
receives; the OMS thread need not go on, since an order may wait for ever in a
throttle made from a misread answer. Nothing there says that a connection
breaks, that a trade is made, an order comes or a packet is lost.

## 4. Proofs

All of them for any values of the constants that satisfy the named assumptions
(`ThrottleAssumption`, `HistoryAssumption`, `GatewayAssumption`,
`RecoveryAssumption`, `DepthAssumption`, `BseAssumption`): ids, threads,
capacity, streams, sessions, limits, parts, levels, prices.

* **Throttle.** `RingIsExact` is not inductive: it says nothing of the slots
  between the indices. The invariant of `SlidingWindowProofs` says which reading
  every written slot holds. From it follow `WindowBound` and each step of the
  refinement of `RateLimit`. `NeverBursts` follows from `WindowBound`: a
  stretch of `MsgLimit` admissions and one more holds two that are `maxSize`
  apart, and where no reading is below the one before, the readings ascend from
  end to end, which `Ascending` proves from the least place where they would
  not (`LeastNumber`).
* **History.** `Accounted` is inductive by itself over the types, one case per
  action: an id leaves a place only for another one or for a report.
  `HeldOnce` needs `HeldTracked`, that what is held was tracked, since an order
  enters the queue only when its id is fresh.
* **Gateway.** `GatewayInv` joins the invariants of the history with
  `NetworkInv` (what is on the network is about orders that were tracked),
  `OmsInv` (the order the OMS thread works on is new until it is tracked or
  refused) and `VerdictInv` (refused orders were never tracked, and every other
  verdict is about one that was). They need each other: a step of the gateway
  is a step of the history because answers are about tracked orders, and a
  refused order stays off the network because its id is never fresh again.
  Then `Spec => HistorySpec` (`GatewayUsesHistory`), and with it what was
  proved of the history holds in the gateway (`GatewayForgetsNoOrder`);
  `RefusedOrderIsFinal` and `GatewayTypeCorrect` follow from the invariant.
* **Download.** `EveryDownloadSettles` follows from what `Accounted` says of the
  moment the loop of the trailer ends: the history is empty, the exchange thread
  is in no drain, and the only id in a handler is one the OMS thread refuses,
  which was never tracked. `UnknownHasNoAnswer` needs more (`SettledInv`): until
  the gateway is live no order is sent, or the download waits for the OMS, so
  that nothing comes behind the trailer of a stream (`SendInv`, `TrailerInv`);
  and while that trailer is on its way every answer in the books of the streams
  so far is settled, which is to say before it in the inbox, in a handler, or
  out of the history (`SettleInv`).
* **Trade recovery.** `FeedInv` adds to the types that every message on its
  way, and the part being replayed, speak of trades that were made, and that
  `told` is 1 exactly for the trades in `tradeRecord`. Then each step is a step
  of `TradeFeed` or leaves it alone (`TellsOnce`): a trade is told only out of
  a message, and told again only by a new process, whose record is empty.
  `Partition1First` needs the order of events. `StagesInv` says that a session
  in which no trade is made meanwhile and no order takes a number among the
  subscriptions goes through stages (`Subscribing`, `Accepting`, `Answering`,
  `Asking`, `Receiving`, `Recovered`): the subscriptions get the numbers 3, 4
  and 5, so that recovery starts once and with partition 1; and it says which trades of partition 1 have been
  told in each: those before the number asked for; those of the part, but for
  the ones still to come, of which the last comes last. It is the last trade of
  a part that makes the next request, so when it is handled the part is told,
  and until the last part is, mass deletions are dropped.
* **Market depth.** Lemmas about the ladder operators, for ladders of any
  size, say that each keeps a ladder ordered; the search position exists
  because a set of numbers has a least one. `DepthInv` adds the types of the
  packets (no number is above the exchange's) and says where the published
  depth may differ from the depth. `LaddersStayCorrect` and
  `PublishedStaysCurrent` follow.
* **The depth is the book** (`DepthStaysBook`). No variable tells what the book
  was when an increment was sent, so `BookInv` says that there is a history: a
  function `B` from numbers to books such that every packet on its way is true
  of it (`History`), and the feed is where its numbers say (`Follows`). An
  increment is true if its entries bring any ordered ladders that show
  `B[n - 1]` to ordered ladders that show `B[n]`; that each event of the
  exchange sends such entries is a lemma, from what each ladder operator does to
  the set of levels (`InsertRoom`, `InsertFull`, `UpdateLevels`,
  `DeleteLevels1`, `DeleteThruLevels`). The feed then is in order, with all
  later increments still to come; or one is late: it was overtaken, its number
  is between the snapshot's and the last taken, and when it comes the feed waits
  for the next snapshot. So nothing is late when the wire is empty. Increments
  that were lost or ignored are at most `top`, which is why a snapshot counts
  only from there. TLC checked `BookInv`, with `B` kept in a variable of its
  own, before it was proved.
* **BSE sessions.** `NoOrderIgnored` says nothing of how far the two sides are.
  `SessionInv` does: before the login exactly one request or its answer is
  under way, with the position it must have, and no order is in the hands of
  the OMS thread, or nothing is under way because the login of the user was not
  sent (`Silent`); after it the orders on the connection, and the one in the
  buffer, follow each other in the key stream. So the two threads do not meet
  in the buffer, and the exchange can read each message (`NoOrderIsIgnored`).
  The same for the answers of the first session (`FirstSessionIsRead`).

Every safety property and action property of the passing runs is a theorem.
Only model-checked, because liveness under fairness is out of the prover's
reach: `DrainEnds`, `DownloadEnds`, `RecoveryStarts`, `EveryTradeTold`,
`RecoveryEnds`, `DeletionTold`, `Heals`, `LogsIn`. The properties of the runs that find a
violation are false of the code and are not proved of it.

## 5. What is not modelled

* Of the NSE FO gateway: the TLS exchange with the gateway router before a
  session, encryption and sequence numbers (`connection.cpp:205-258`), the
  framing of received bytes; contents of orders and reports, and the maps of
  exchange times; trades and batch cancellations, which are about orders that
  were confirmed before and do not settle a request. A message record of a
  download is one inner message. A report is told to the OMS in one step.
* Two threads inside one C++ object at the same time (the report builder, the
  `unordered_set` of NSE COM, the map of subscribed securities), beyond the
  ring of `OrderHistorySpsc` and the buffer of `BseSession`: undefined
  behaviour without a promise it could break.
* Of the MCX gateway: the handshake before the user login and its encryption,
  sequence numbers after the subscriptions, `_orderSequence`, by
  which a reject finds its order, and the contents of orders and reports. The
  retransmission of order events, whose answers are logged.
* Of the BSE gateway: sequence numbers, the change of passwords, heartbeats,
  logouts, which do nothing, and reports: they are written through a pointer
  that is never initialised, and the bytes of the pointer are sent.
* Of the feeds: last trades, volumes, OHLC and price limits, subscriptions, and
  the feeds other than MDI of MCX. BSE's MDI is a near copy whose test for a
  snapshot is commented out. NFCAST, IIBX and CTrade translate one message at a
  time.
* IIBX and CTrade order gateways and the drop copies: field by field
  translation, output to files, and for CTrade the FIX engine of a library.
* `omsSocketHandler.h` declares a sender thread with a queue that no program
  starts, and CTrade has a lock-free queue that no file includes.
* Vendored and generated code, which is most of the repository: headers of
  QuickFIX, boost and mFAST, generated FAST templates, message layouts, the
  logging library. Of the programs' own code large parts are copies: the
  throttle, the configuration, the senders and the message builders exist once
  per gateway. A definition is mapped to one copy, so that the mapped lines stay
  a small share of the repository.

## 6. What remains

What would add most next: the correlation of MCX rejects with orders over
sessions (`_orderSequence` is keyed by a number that restarts); the sequence
number and cipher buffer of NSE FO under three writers, along the lines of
`BseSession`.
