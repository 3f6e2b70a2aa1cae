------------------------------ MODULE Producer ------------------------------
(***************************************************************************)
(* HareCpp::Producer: the application's threads (senders and controllers),  *)
(* the publishing thread, and the ConnectionBase between them and the       *)
(* broker.                                                                  *)
(*                                                                         *)
(* A step is what one thread does while it holds m_producerMutex, or one    *)
(* call on m_connection, or one access the code makes without the lock.     *)
(* Only connectChannels() keeps the mutex over several calls, so the mutex  *)
(* is free unless the thread is in that loop (ProducerMutexFree).           *)
(***************************************************************************)
EXTENDS ConnectionBase, Sequences, FiniteSets

CONSTANTS
  Senders,      \* application threads that call Send and DeclareExchange
  Controllers,  \* application threads that call Start, Stop, Restart, ...
  NoExchange,   \* "no Send in progress"
  Operations,   \* the calls the controllers make
  MaxSends,     \* bound on calls of Send
  InitFirst,    \* does the application call Initialize before Stop?
  DeclareFirst  \* does it declare all its exchanges before Start?

ASSUME NoExchangeAssumption == NoExchange \notin Exchanges
ASSUME OperationsAssumption ==
         Operations \subseteq {"Start", "Stop", "Restart", "Destroy"}
ASSUME MaxSendsAssumption == MaxSends \in Nat
ASSUME DisciplineAssumption == InitFirst \in BOOLEAN /\ DeclareFirst \in BOOLEAN

VARIABLES
  m_isInitialized,      \* also: m_connection is not null
  m_threadRunning,
  m_channelsConnected,
  m_curChannelNumber,
  m_exchangeList,       \* exchange name -> ExchangeProperties
  m_sendQueue,
  pc,         \* where thread() is; "none" before Start and after join
  joinable,   \* m_producerThread.joinable()
  todo,       \* connectChannels: exchanges the loop has still to visit
  cur,        \* connectChannels: the exchange it is declaring
  allGood,    \* connectChannels: its local of that name
  ctl,        \* controller -> the call it is in and how far it is
  snd,        \* sender -> exchange of the Send between addExchange and push
  destroyed,  \* ~Producer() has been entered
  accepted,   \* messages queued so far; the number is the message's id
  wire,       \* messages amqp_basic_publish took, oldest first
  fault       \* undefined behaviour or std::terminate has hit the process

listVars == <<m_exchangeList, m_curChannelNumber>>
loopVars == <<todo, cur, allGood>>
msgVars  == <<m_sendQueue, accepted, wire>>
lifeVars == <<m_isInitialized, joinable, destroyed>>

vars == <<connVars, listVars, loopVars, msgVars, lifeVars, m_threadRunning,
          m_channelsConnected, pc, ctl, snd, fault>>

(* ExchangeProperties.  m_connected is left out: the code assigns it only   *)
(* in copies of the list's elements (for (auto it : m_exchangeList)), so in *)
(* the list it is always false.  m_type is data nobody tests.               *)
ExchangeProperties == [m_channel : Nat \ {0}, m_isDeclare : BOOLEAN]

(* helper::RawMessage; the payload is the message's id. *)
RawMessage == [id : Nat \ {0}, exchange : Exchanges, channel : Nat \ {0}]

ThreadPoints ==
  {"none", "while", "connect", "chanCheck", "ccGuard", "ccLock", "ccOpen",
   "ccDeclare", "ccClose", "ccClear", "publish", "pubSend", "pop", "close",
   "clear", "done"}

CallPoints ==
  {"idle", "startCheck", "setRunning", "spawn", "stopCheck", "clearRunning",
   "join", "closeConn", "clear", "destroyCheck", "destruct", "gone"}

(* ok is Stop's return code inside Restart: was there no error? *)
Call == [at : CallPoints,
         op : {"none", "Start", "Stop", "Restart", "Destroy"},
         ok : BOOLEAN]

Idle == [at |-> "idle", op |-> "none", ok |-> TRUE]

FlagTypeOK ==
  /\ m_isInitialized \in BOOLEAN
  /\ m_threadRunning \in BOOLEAN
  /\ m_channelsConnected \in BOOLEAN
  /\ joinable \in BOOLEAN
  /\ allGood \in BOOLEAN
  /\ destroyed \in BOOLEAN
  /\ fault \in {"none", "terminate", "nullptr", "emptyQueue"}

(* The loop of connectChannels and a Send in progress only ever refer to    *)
(* exchanges that are in the list.                                          *)
ListTypeOK ==
  /\ m_curChannelNumber \in Nat \ {0}
  /\ DOMAIN m_exchangeList \subseteq Exchanges
  /\ m_exchangeList \in [DOMAIN m_exchangeList -> ExchangeProperties]
  /\ pc \in ThreadPoints
  /\ todo \subseteq DOMAIN m_exchangeList
  /\ cur \in Exchanges \cup {NoExchange}
  /\ pc = "ccDeclare" => cur \in todo
  /\ snd \in [Senders -> Exchanges \cup {NoExchange}]
  /\ \A s \in Senders : snd[s] # NoExchange => snd[s] \in DOMAIN m_exchangeList

MsgTypeOK ==
  /\ m_sendQueue \in Seq(RawMessage)
  /\ accepted \in Nat
  /\ wire \in Seq(RawMessage)

CtlTypeOK == ctl \in [Controllers -> Call]

TypeOK == ConnTypeOK /\ FlagTypeOK /\ ListTypeOK /\ MsgTypeOK /\ CtlTypeOK

(* The first channel number; channel 0 is AMQP's own. *)
FirstChannelZero == 0
FirstChannel == 1

(* The constructor. *)
Init ==
  /\ ConnInit
  /\ m_isInitialized = FALSE
  /\ m_threadRunning = FALSE
  /\ m_channelsConnected = FALSE
  /\ m_curChannelNumber = FirstChannel
  /\ m_exchangeList = [e \in {} |-> [m_channel |-> FirstChannel, m_isDeclare |-> FALSE]]
  /\ m_sendQueue = <<>>
  /\ pc = "none"
  /\ joinable = FALSE
  /\ todo = {}
  /\ cur = NoExchange
  /\ allGood = TRUE
  /\ ctl = [c \in Controllers |-> Idle]
  /\ snd = [s \in Senders |-> NoExchange]
  /\ destroyed = FALSE
  /\ accepted = 0
  /\ wire = <<>>
  /\ fault = "none"

ProducerMutexFree == pc \notin {"ccOpen", "ccDeclare"}

-----------------------------------------------------------------------------
(* Senders                                                                  *)

NewExchangeSameNumber(exchange, isDeclare) ==
  /\ m_exchangeList' =
       [e \in DOMAIN m_exchangeList \cup {exchange} |->
          IF e = exchange
          THEN [m_channel |-> m_curChannelNumber, m_isDeclare |-> isDeclare]
          ELSE m_exchangeList[e]]
  /\ m_channelsConnected' = FALSE
  /\ UNCHANGED m_curChannelNumber

NewExchange(exchange, isDeclare) ==
  /\ m_exchangeList' =
       [e \in DOMAIN m_exchangeList \cup {exchange} |->
          IF e = exchange
          THEN [m_channel |-> m_curChannelNumber, m_isDeclare |-> isDeclare]
          ELSE m_exchangeList[e]]
  /\ m_curChannelNumber' = m_curChannelNumber + 1
  /\ m_channelsConnected' = FALSE

(* addExchange(exchange), as Send calls it. *)
addExchange(exchange) ==
  IF exchange \in DOMAIN m_exchangeList
  THEN UNCHANGED <<listVars, m_channelsConnected>>
  ELSE NewExchange(exchange, FALSE)

(* addExchange(exchange, type), as DeclareExchange calls it. *)
addExchangeOfType(exchange) ==
  IF exchange \in DOMAIN m_exchangeList
  THEN /\ m_exchangeList' =
            [m_exchangeList EXCEPT ![exchange].m_isDeclare = TRUE]
       /\ m_channelsConnected' = FALSE
       /\ UNCHANGED m_curChannelNumber
  ELSE NewExchange(exchange, TRUE)

AppMayCall == fault = "none" /\ ~destroyed /\ ProducerMutexFree

Declare(exchange) ==
  /\ AppMayCall
  /\ DeclareFirst => pc = "none" /\ \A c \in Controllers : ctl[c] = Idle
  /\ addExchangeOfType(exchange)
  /\ UNCHANGED <<connVars, loopVars, msgVars, lifeVars, m_threadRunning, pc,
                 ctl, snd, fault>>

SendsInProgress == {s \in Senders : snd[s] # NoExchange}

(* Send takes the lock twice: in addExchange ... *)
SendAdd(s, exchange) ==
  /\ AppMayCall
  /\ snd[s] = NoExchange
  /\ accepted + Cardinality(SendsInProgress) < MaxSends
  /\ DeclareFirst => exchange \in DOMAIN m_exchangeList
  /\ addExchange(exchange)
  /\ snd' = [snd EXCEPT ![s] = exchange]
  /\ UNCHANGED <<connVars, loopVars, msgVars, lifeVars, m_threadRunning, pc,
                 ctl, fault>>

(* ... and again to build the message and queue it. *)
SendPush(s) ==
  /\ fault = "none"
  /\ ProducerMutexFree
  /\ snd[s] # NoExchange
  /\ m_sendQueue' =
       Append(m_sendQueue,
              [id |-> accepted + 1, exchange |-> snd[s],
               channel |-> m_exchangeList[snd[s]].m_channel])
  /\ accepted' = accepted + 1
  /\ snd' = [snd EXCEPT ![s] = NoExchange]
  /\ UNCHANGED <<connVars, listVars, loopVars, lifeVars, wire,
                 m_threadRunning, m_channelsConnected, pc, ctl, fault>>

-----------------------------------------------------------------------------
(* Producer::thread                                                         *)

(* A thread step from one point to another that only moves the thread. *)
Goto(point) ==
  /\ pc' = point
  /\ UNCHANGED <<connVars, listVars, loopVars, msgVars, lifeVars,
                 m_threadRunning, m_channelsConnected, ctl, snd, fault>>

At(point) == fault = "none" /\ pc = point

ThreadWhileForever == At("while") /\ Goto("connect")

ThreadWhile ==
  /\ At("while")
  /\ Goto(IF m_threadRunning THEN "connect" ELSE "done")

(* isConnected() and Connect(): nobody but this thread connects, so the     *)
(* check and the call are one step.  A failed Connect sleeps and continues. *)
ThreadConnect ==
  /\ At("connect")
  /\ IF m_isConnected
     THEN pc' = "chanCheck" /\ UNCHANGED connVars
     ELSE \E ret \in HARE_ERROR_E :
            /\ Connect(ret)
            /\ pc' = IF noError(ret) THEN "chanCheck" ELSE "while"
  /\ UNCHANGED <<listVars, loopVars, msgVars, lifeVars, m_threadRunning,
                 m_channelsConnected, ctl, snd, fault>>

ThreadChanCheck ==
  /\ At("chanCheck")
  /\ Goto(IF m_channelsConnected THEN "publish" ELSE "ccGuard")

(* connectChannels() *)
ConnectChannelsGuard ==
  /\ At("ccGuard")
  /\ Goto(IF m_isConnected /\ m_threadRunning THEN "ccLock" ELSE "publish")

ConnectChannelsLock ==
  /\ At("ccLock")
  /\ pc' = "ccOpen"
  /\ todo' = DOMAIN m_exchangeList
  /\ allGood' = TRUE
  /\ UNCHANGED <<connVars, listVars, msgVars, lifeVars, cur, m_threadRunning,
                 m_channelsConnected, ctl, snd, fault>>

LeaveLoop == todo' = {} /\ cur' = NoExchange /\ allGood' = TRUE

(* allGood after OpenChannel returned ret. *)
StillGoodAlways(ret) == allGood
StillGood(ret) == allGood /\ noError(ret)

(* One turn of the loop up to OpenChannel; the order of an unordered_map is *)
(* any order.                                                               *)
ConnectChannelsOpen(exchange) ==
  /\ At("ccOpen")
  /\ exchange \in todo
  /\ \E ret \in HARE_ERROR_E :
       /\ OpenChannel(m_exchangeList[exchange].m_channel, ret)
       /\ IF serverFailure(ret)
          THEN pc' = "ccClose" /\ LeaveLoop
          ELSE IF noError(ret) /\ m_exchangeList[exchange].m_isDeclare
          THEN /\ pc' = "ccDeclare"
               /\ cur' = exchange
               /\ UNCHANGED <<todo, allGood>>
          ELSE /\ todo' = todo \ {exchange}
               /\ allGood' = StillGood(ret)
               /\ UNCHANGED <<pc, cur>>
  /\ UNCHANGED <<listVars, msgVars, lifeVars, m_threadRunning,
                 m_channelsConnected, ctl, snd, fault>>

(* A declare that fails without a server failure leaves allGood alone. *)
ConnectChannelsDeclare ==
  /\ At("ccDeclare")
  /\ \E ret \in HARE_ERROR_E :
       /\ DeclareExchange(m_exchangeList[cur].m_channel, cur, ret)
       /\ IF serverFailure(ret)
          THEN pc' = "ccClose" /\ LeaveLoop
          ELSE /\ pc' = "ccOpen"
               /\ todo' = todo \ {cur}
               /\ cur' = NoExchange
               /\ UNCHANGED allGood
  /\ UNCHANGED <<listVars, msgVars, lifeVars, m_threadRunning,
                 m_channelsConnected, ctl, snd, fault>>

ConnectChannelsDone ==
  /\ At("ccOpen")
  /\ todo = {}
  /\ m_channelsConnected' = (m_channelsConnected \/ allGood)
  /\ LeaveLoop
  /\ pc' = "publish"
  /\ UNCHANGED <<connVars, listVars, msgVars, lifeVars, m_threadRunning, ctl,
                 snd, fault>>

(* publishNextInQueue(): the size is read without the lock. *)
PublishCheckLastOne ==
  /\ At("publish")
  /\ Goto(IF m_isConnected /\ Len(m_sendQueue) > 1 THEN "pubSend" ELSE "while")

PublishCheckUnconnected ==
  /\ At("publish")
  /\ Goto(IF m_sendQueue # <<>> THEN "pubSend" ELSE "while")

PublishCheck ==
  /\ At("publish")
  /\ Goto(IF m_isConnected /\ m_sendQueue # <<>> THEN "pubSend" ELSE "while")

PublishSend ==
  /\ At("pubSend")
  /\ IF m_sendQueue = <<>>
     THEN fault' = "emptyQueue" /\ UNCHANGED <<connVars, wire, pc>>
     ELSE \E ret \in HARE_ERROR_E :
            /\ PublishMessage(Head(m_sendQueue), ret)
            /\ wire' = IF noError(ret) THEN Append(wire, Head(m_sendQueue))
                                       ELSE wire
            /\ pc' = IF serverFailure(ret) THEN "close"
                     ELSE IF noError(ret) THEN "pop" ELSE "while"
            /\ UNCHANGED fault
  /\ UNCHANGED <<listVars, loopVars, m_sendQueue, accepted, lifeVars,
                 m_threadRunning, m_channelsConnected, ctl, snd>>

PublishPopForgotten == At("pop") /\ Goto("while")

PublishPop ==
  /\ At("pop")
  /\ IF m_sendQueue = <<>>
     THEN fault' = "emptyQueue" /\ UNCHANGED <<m_sendQueue, pc>>
     ELSE /\ m_sendQueue' = Tail(m_sendQueue)
          /\ pc' = "while"
          /\ UNCHANGED fault
  /\ UNCHANGED <<connVars, listVars, loopVars, accepted, wire, lifeVars,
                 m_threadRunning, m_channelsConnected, ctl, snd>>

(* closeConnection(), after a server failure in connectChannels or in       *)
(* publishNextInQueue; it leaves m_channelsConnected alone.                 *)
ClosePostponed(point, next) == At(point) /\ Goto(next)

closeConnection(point, next) ==
  /\ At(point)
  /\ \E ret \in HARE_ERROR_E : CloseConnection(ret)
  /\ pc' = next
  /\ UNCHANGED <<listVars, loopVars, msgVars, lifeVars, m_threadRunning,
                 m_channelsConnected, ctl, snd, fault>>

(* It pops without the lock, one message at a time. *)
clearActiveSendQueue(point, next) ==
  /\ At(point)
  /\ IF m_sendQueue = <<>>
     THEN pc' = next /\ UNCHANGED m_sendQueue
     ELSE m_sendQueue' = Tail(m_sendQueue) /\ UNCHANGED pc
  /\ UNCHANGED <<connVars, listVars, loopVars, accepted, wire, lifeVars,
                 m_threadRunning, m_channelsConnected, ctl, snd, fault>>

Thread ==
  \/ ThreadWhile \/ ThreadConnect \/ ThreadChanCheck
  \/ ConnectChannelsGuard \/ ConnectChannelsLock
  \/ \E e \in Exchanges : ConnectChannelsOpen(e)
  \/ ConnectChannelsDeclare \/ ConnectChannelsDone
  \/ PublishCheck \/ PublishSend \/ PublishPop
  \/ closeConnection("ccClose", "ccClear")
  \/ clearActiveSendQueue("ccClear", "publish")
  \/ closeConnection("close", "clear")
  \/ clearActiveSendQueue("clear", "while")

-----------------------------------------------------------------------------
(* Controllers                                                              *)

(* Initialize() while the producer is stopped.  The new ConnectionBase      *)
(* replaces the old one, which is not connected; a handle it still holds    *)
(* from a failed Connect is never destroyed.                                *)
Initialize ==
  /\ fault = "none" /\ ~destroyed
  /\ pc = "none"
  /\ \A c \in Controllers : ctl[c] = Idle
  /\ m_isInitialized' = TRUE
  /\ m_threadRunning' = FALSE
  /\ m_isConnected' = FALSE
  /\ leaked' = IF m_conn = "live" THEN leaked + 1 ELSE leaked
  /\ m_conn' = "none"
  /\ UNCHANGED <<session, openCh, closingCh, exchanges, faults, listVars,
                 loopVars, msgVars, joinable, destroyed, m_channelsConnected,
                 pc, ctl, snd, fault>>

CtlAt(c, point) == fault = "none" /\ ctl[c].at = point

MoveTo(c, point) == ctl' = [ctl EXCEPT ![c].at = point]
Return(c) == ctl' = [ctl EXCEPT ![c] = Idle]

Entry == [Start |-> "startCheck", Stop |-> "stopCheck",
          Restart |-> "stopCheck", Destroy |-> "destroyCheck"]

(* A controller makes a call.  The destructor runs when no other call is in *)
(* progress.                                                                *)
Enter(c, op) ==
  /\ fault = "none" /\ ~destroyed
  /\ ctl[c] = Idle
  /\ op = "Stop" /\ InitFirst => m_isInitialized
  /\ op = "Destroy" => /\ SendsInProgress = {}
                       /\ \A d \in Controllers : ctl[d] = Idle
  /\ ctl' = [ctl EXCEPT ![c] = [at |-> Entry[op], op |-> op, ok |-> TRUE]]
  /\ destroyed' = (op = "Destroy")
  /\ UNCHANGED <<connVars, listVars, loopVars, msgVars, m_isInitialized,
                 joinable, m_threadRunning, m_channelsConnected, pc, snd,
                 fault>>

(* Start()'s two tests. *)
StartAllowedTwice == m_isInitialized
StartAllowed == m_isInitialized /\ ~m_threadRunning

(* Start(): IsRunning() and setRunning(true) lock separately. *)
StartCheck(c) ==
  /\ CtlAt(c, "startCheck")
  /\ ProducerMutexFree
  /\ IF StartAllowed THEN MoveTo(c, "setRunning") ELSE Return(c)
  /\ UNCHANGED <<connVars, listVars, loopVars, msgVars, lifeVars,
                 m_threadRunning, m_channelsConnected, pc, snd, fault>>

StartSetRunning(c) ==
  /\ CtlAt(c, "setRunning")
  /\ ProducerMutexFree
  /\ m_threadRunning' = TRUE
  /\ MoveTo(c, "spawn")
  /\ UNCHANGED <<connVars, listVars, loopVars, msgVars, lifeVars,
                 m_channelsConnected, pc, snd, fault>>

(* Assigning to a joinable std::thread terminates the process. *)
StartSpawn(c) ==
  /\ CtlAt(c, "spawn")
  /\ ProducerMutexFree
  /\ IF joinable
     THEN fault' = "terminate" /\ UNCHANGED <<joinable, pc>>
     ELSE joinable' = TRUE /\ pc' = "while" /\ UNCHANGED fault
  /\ Return(c)
  /\ UNCHANGED <<connVars, listVars, loopVars, msgVars, m_isInitialized,
                 destroyed, m_threadRunning, m_channelsConnected, snd>>

(* Stop(): neither early test leaves the function, so a producer that is    *)
(* not running is closed and purged too.  Restart() tests IsInitialized     *)
(* before it calls Stop.                                                    *)
StopCheck(c) ==
  /\ CtlAt(c, "stopCheck")
  /\ ProducerMutexFree
  /\ IF ctl[c].op = "Restart" /\ ~m_isInitialized
     THEN Return(c)
     ELSE IF m_isInitialized /\ m_threadRunning
     THEN MoveTo(c, "clearRunning")
     ELSE ctl' = [ctl EXCEPT ![c].at = "closeConn", ![c].ok = FALSE]
  /\ UNCHANGED <<connVars, listVars, loopVars, msgVars, lifeVars,
                 m_threadRunning, m_channelsConnected, pc, snd, fault>>

StopWithoutJoin(c) ==
  /\ CtlAt(c, "clearRunning")
  /\ ProducerMutexFree
  /\ m_threadRunning' = FALSE
  /\ MoveTo(c, "closeConn")
  /\ UNCHANGED <<connVars, listVars, loopVars, msgVars, lifeVars,
                 m_channelsConnected, pc, snd, fault>>

StopClearRunning(c) ==
  /\ CtlAt(c, "clearRunning")
  /\ ProducerMutexFree
  /\ m_threadRunning' = FALSE
  /\ MoveTo(c, "join")
  /\ UNCHANGED <<connVars, listVars, loopVars, msgVars, lifeVars,
                 m_channelsConnected, pc, snd, fault>>

(* m_channelsConnected once Stop has joined the thread. *)
FlagKeptAfterJoin == m_channelsConnected
FlagAfterJoin == FALSE

(* join() blocks until thread() has returned; joining no thread throws. *)
StopJoin(c) ==
  /\ CtlAt(c, "join")
  /\ joinable => pc = "done"
  /\ IF joinable
     THEN /\ joinable' = FALSE
          /\ pc' = "none"
          /\ m_channelsConnected' = FlagAfterJoin
          /\ MoveTo(c, "closeConn")
          /\ UNCHANGED fault
     ELSE /\ fault' = "terminate"
          /\ UNCHANGED <<joinable, pc, m_channelsConnected, ctl>>
  /\ UNCHANGED <<connVars, listVars, loopVars, msgVars, m_isInitialized,
                 destroyed, m_threadRunning, snd>>

StopCloseConnection(c) ==
  /\ CtlAt(c, "closeConn")
  /\ IF m_isInitialized
     THEN /\ \E ret \in HARE_ERROR_E : CloseConnection(ret)
          /\ MoveTo(c, "clear")
          /\ UNCHANGED fault
     ELSE fault' = "nullptr" /\ UNCHANGED <<connVars, ctl>>
  /\ UNCHANGED <<listVars, loopVars, msgVars, lifeVars, m_threadRunning,
                 m_channelsConnected, pc, snd>>

(* clearActiveSendQueue(), then back to whoever called Stop. *)
StopClear(c) ==
  /\ CtlAt(c, "clear")
  /\ IF m_sendQueue # <<>>
     THEN m_sendQueue' = Tail(m_sendQueue) /\ UNCHANGED ctl
     ELSE /\ UNCHANGED m_sendQueue
          /\ CASE ctl[c].op = "Restart" /\ ctl[c].ok -> MoveTo(c, "startCheck")
               [] ctl[c].op = "Destroy"              -> MoveTo(c, "destruct")
               [] OTHER                              -> Return(c)
  /\ UNCHANGED <<connVars, listVars, loopVars, accepted, wire, lifeVars,
                 m_threadRunning, m_channelsConnected, pc, snd, fault>>

(* ~Producer() *)
DestroyCheck(c) ==
  /\ CtlAt(c, "destroyCheck")
  /\ ProducerMutexFree
  /\ MoveTo(c, IF m_isInitialized /\ m_threadRunning THEN "stopCheck"
                                                     ELSE "destruct")
  /\ UNCHANGED <<connVars, listVars, loopVars, msgVars, lifeVars,
                 m_threadRunning, m_channelsConnected, pc, snd, fault>>

(* CloseChannel on every channel and CloseConnection, then the members'     *)
(* destructors: a joinable std::thread terminates the process.  Closing the *)
(* connection ends its channels, so the two are one step.                   *)
Destruct(c) ==
  /\ CtlAt(c, "destruct")
  /\ IF m_isInitialized THEN \E ret \in HARE_ERROR_E : CloseConnection(ret)
                        ELSE UNCHANGED connVars
  /\ fault' = IF joinable THEN "terminate" ELSE fault
  /\ MoveTo(c, "gone")
  /\ UNCHANGED <<listVars, loopVars, msgVars, lifeVars, m_threadRunning,
                 m_channelsConnected, pc, snd>>

Controller(c) ==
  \/ StartCheck(c) \/ StartSetRunning(c) \/ StartSpawn(c)
  \/ StopCheck(c) \/ StopClearRunning(c) \/ StopJoin(c)
  \/ StopCloseConnection(c) \/ StopClear(c)
  \/ DestroyCheck(c) \/ Destruct(c)

-----------------------------------------------------------------------------
Environment ==
  /\ BrokerFault
  /\ UNCHANGED <<listVars, loopVars, msgVars, lifeVars, m_threadRunning,
                 m_channelsConnected, pc, ctl, snd, fault>>

(* The object is gone, or the process is. *)
Terminated ==
  /\ fault # "none" \/ \E c \in Controllers : ctl[c].at = "gone"
  /\ UNCHANGED vars

Next ==
  \/ \E e \in Exchanges : Declare(e)
  \/ \E s \in Senders, e \in Exchanges : SendAdd(s, e)
  \/ \E s \in Senders : SendPush(s)
  \/ Thread
  \/ Initialize
  \/ \E c \in Controllers, op \in Operations : Enter(c, op)
  \/ \E c \in Controllers : Controller(c)
  \/ Environment
  \/ Terminated

(* The operating system schedules the publishing thread and a controller    *)
(* that is inside a call; nobody has to make a call.  The thread's steps    *)
(* always find the mutex free.                                              *)
Fairness ==
  /\ WF_vars(Thread)
  /\ \A c \in Controllers : WF_vars(Controller(c))

Spec == Init /\ [][Next]_vars

FairSpec == Spec /\ Fairness

-----------------------------------------------------------------------------
(* Safety                                                                   *)

(* addExchange gives every exchange a channel of its own, and a message     *)
(* that Send queued, however its two critical sections were interleaved     *)
(* with others, carries the channel of its own exchange.                    *)
ChannelOwnership ==
  /\ \A e \in DOMAIN m_exchangeList :
       m_exchangeList[e].m_channel < m_curChannelNumber
  /\ \A e, f \in DOMAIN m_exchangeList :
       m_exchangeList[e].m_channel = m_exchangeList[f].m_channel => e = f
  /\ \A i \in 1..Len(m_sendQueue) :
       /\ m_sendQueue[i].exchange \in DOMAIN m_exchangeList
       /\ m_sendQueue[i].channel =
            m_exchangeList[m_sendQueue[i].exchange].m_channel

(* The thread calls OpenChannel, DeclareExchange and PublishMessage only    *)
(* while it is connected and its rabbitmq-c handle has not been destroyed,  *)
(* although it tested isConnected() long before.                            *)
ConnectionUsable ==
  pc \in {"ccOpen", "ccDeclare", "pubSend"} => m_isConnected /\ m_conn = "live"

(* No call sequence makes the code join a thread that is not there, assign  *)
(* to or destroy a thread that has not been joined, use the null            *)
(* m_connection, or take the front of an empty queue.                       *)
NoCrash == fault = "none"

(* CloseConnection() tests IsConnected() before it locks, so two callers at *)
(* once would both destroy the connection: a Stop or ~Producer that closes  *)
(* it has the thread behind it, also when it found the producer stopped and *)
(* did not join.                                                            *)
CloseExclusive ==
  \A c \in Controllers : ctl[c].at \in {"closeConn", "destruct"} => pc = "none"

(* When every Stop has returned nothing of the old connection is left: no   *)
(* thread, no session on the broker, no flag that would make the next Start *)
(* skip opening the channels.                                               *)
StoppedClean ==
  (pc = "none" /\ \A c \in Controllers : ctl[c] = Idle) =>
     /\ ~joinable
     /\ ~m_isConnected
     /\ ~session
     /\ ~m_channelsConnected

(* The messages still to be sent: while the thread is about to pop, the     *)
(* front has already been sent.                                             *)
Unsent ==
  IF pc = "pop" /\ m_sendQueue # <<>> THEN Tail(m_sendQueue) ELSE m_sendQueue

Increasing(messages) ==
  \A i, j \in 1..Len(messages) : i < j => messages[i].id < messages[j].id

(* Messages go out in the order Send queued them, each at most once, across *)
(* retries, failures, purges and restarts.                                  *)
InOrder ==
  /\ Increasing(wire)
  /\ Increasing(Unsent)
  /\ \A i \in 1..Len(wire), j \in 1..Len(Unsent) : wire[i].id < Unsent[j].id

(* connectChannels() raises m_channelsConnected only when the channel of    *)
(* every exchange in the list got an answer from this session: it is open,  *)
(* or the broker has since closed it, or the whole session is gone.         *)
FlagSound ==
  [][ ~m_channelsConnected /\ m_channelsConnected' /\ session =>
        \A e \in DOMAIN m_exchangeList :
          m_exchangeList[e].m_channel \in openCh \cup closingCh ]_vars

Abstraction == INSTANCE Outbox WITH queue <- Unsent, up <- m_isConnected

(* The producer implements the lossy FIFO of module Outbox: it sends only   *)
(* from the front and only while connected, and a message that is neither   *)
(* sent nor kept is dropped from the front, only while not connected.       *)
ImplementsOutbox == Abstraction!OutboxSpec

(* An application that declares its exchanges before Start and meets no     *)
(* fault never publishes into the void: until it calls Stop, each message   *)
(* goes out on an open channel, to an exchange the broker has.  (A thread   *)
(* that is told to stop between Connect and connectChannels still publishes *)
(* one message, on a channel it did not open.)                              *)
PublishDelivered ==
  [][ wire' # wire /\ m_threadRunning =>
        LET m == wire'[Len(wire')]
        IN  session /\ m.channel \in openCh /\ m.exchange \in exchanges ]_vars

-----------------------------------------------------------------------------
(* Liveness                                                                 *)

(* A Stop, Restart or ~Producer that waits for the thread gets through,     *)
(* whatever the thread was doing and whatever the broker does.              *)
StopReturns ==
  \A c \in Controllers :
    ctl[c].at = "join" ~> ctl[c].at \in {"idle", "startCheck", "destruct"}

Queued(n) == \E i \in 1..Len(m_sendQueue) : m_sendQueue[i].id = n

(* No message sits in the queue of a running producer for ever: it is sent, *)
(* or thrown away by a purge.                                               *)
Drained ==
  \A n \in 1..MaxSends :
    Queued(n) /\ m_threadRunning ~> ~Queued(n) \/ ~m_threadRunning

Sent(n) == \E i \in 1..Len(wire) : wire[i].id = n

(* Without faults and with the exchanges declared first, a message queued   *)
(* at a producer that keeps running is sent.                                *)
Delivered ==
  \A n \in 1..MaxSends :
    Queued(n) /\ m_threadRunning ~> Sent(n) \/ ~m_threadRunning

-----------------------------------------------------------------------------
(* What the documentation says and the code does not do                     *)

ChannelsOpen ==
  session /\ \A e \in DOMAIN m_exchangeList :
               m_exchangeList[e].m_channel \in openCh

(* "Closes the connection after a failure, to be retried by active producer *)
(* thread": a producer that has noticed a failure, and so is in             *)
(* closeConnection, gets a session with its channels open again unless it   *)
(* is stopped.  A lost link that no call has reported yet is not a failure  *)
(* in this sense.                                                           *)
Recovers ==
  pc \in {"close", "ccClose"} /\ m_threadRunning ~>
     ChannelsOpen \/ ~m_threadRunning
=============================================================================
