------------------------------ MODULE Consumer ------------------------------
(***************************************************************************)
(* HareCpp::Consumer: the application's threads (subscribers and            *)
(* controllers), the consuming thread, the ChannelHandler they share and    *)
(* the ConnectionBase that only the consuming thread and Stop use.          *)
(*                                                                         *)
(* Three mutexes matter.  m_consumerMutex is held over several calls only   *)
(* by startConsumption() (ConsumerMutexFree), m_handlerMutex only while a   *)
(* callback runs (HandlerMutexFree), m_pendingChannelMutex never.  Every    *)
(* other critical section, and every call on m_connection, is one step.     *)
(***************************************************************************)
EXTENDS ConsumeConnection, ChannelHandler, Sequences

CONSTANTS
  Subscribers,  \* application threads that call Subscribe
  Controllers,  \* application threads that call Start, Stop, Restart, ...
  Operations    \* the calls the controllers make

ASSUME BindingPairsAssumption ==
         \A pair \in BindingPairs : pair.m_exchangeName \in Exchanges
ASSUME ConsumerOperationsAssumption ==
         Operations \subseteq {"Start", "Stop", "Restart", "Destroy"}

VARIABLES
  m_isInitialized,    \* also: m_connection is not null
  m_threadRunning,
  m_pendingChannels,
  pc,         \* where thread() is; "none" before Start and after join
  joinable,   \* m_consumerThread.joinable()
  mode,       \* who called setupAndConsume: startConsumption ("start") or
              \* thread() with a pending channel ("pending")
  todo,       \* startConsumption: channels the loop has still to visit
  cur,        \* setupAndConsume: its channel; 0 outside
  queueName,  \* setupAndConsume: its local of that name
  retCode,    \* thread(): its local of that name
  ctl,        \* controller -> the call it is in and how far it is
  sub,        \* subscriber -> how far its Subscribe is, and its channel
  destroyed,  \* ~Consumer() has been entered
  fault       \* undefined behaviour or std::terminate has hit the process

setupVars == <<mode, todo, cur, queueName>>
lifeVars  == <<m_isInitialized, joinable, destroyed>>
appVars   == <<handlerVars, lifeVars, m_threadRunning, ctl, sub>>

vars == <<connVars, consumeVars, setupVars, appVars, m_pendingChannels,
          retCode, pc, fault>>

ThreadPoints ==
  {"none", "while", "connect", "scEmpty", "scList", "scNext", "open",
   "declare", "bind", "consume", "requeue", "scClose", "pull", "process",
   "pullFailed", "pendCheck", "pendPop", "done"}

CallPoints ==
  {"idle", "start", "stopEmpty", "stopCheck", "clearRunning", "join",
   "closeConn", "destroyCheck", "destruct", "gone"}

Call == [at : CallPoints, op : {"none", "Start", "Stop", "Restart", "Destroy"}]

Idle == [at |-> "idle", op |-> "none"]

NotSubscribing == [at |-> "idle", channel |-> 0]

(* The channels the consumer has in hand are channels of its handler. *)
TypeOK ==
  /\ ConnTypeOK
  /\ HandlerTypeOK
  /\ m_isInitialized \in BOOLEAN
  /\ m_threadRunning \in BOOLEAN
  /\ joinable \in BOOLEAN
  /\ destroyed \in BOOLEAN
  /\ pc \in ThreadPoints
  /\ mode \in {"start", "pending"}
  /\ m_pendingChannels \in Seq(GetChannelList)
  /\ queues \subseteq GetChannelList
  /\ consuming \subseteq GetChannelList
  /\ todo \subseteq GetChannelList
  /\ cur \in GetChannelList \cup {0}
  /\ queueName \in {"named", "empty", "garbage"}
  /\ retCode \in HARE_ERROR_E
  /\ ctl \in [Controllers -> Call]
  /\ sub \in [Subscribers -> [at : {"idle", "props", "running", "push"},
                              channel : GetChannelList \cup {0}]]
  /\ fault \in {"none", "terminate", "emptyPending", "badName", "badEnvelope"}

(* The constructor. *)
Init ==
  /\ ConnInit
  /\ HandlerInit
  /\ queues = {} /\ consuming = {}
  /\ m_isInitialized = FALSE
  /\ m_threadRunning = FALSE
  /\ m_pendingChannels = <<>>
  /\ pc = "none"
  /\ joinable = FALSE
  /\ mode = "pending"
  /\ todo = {}
  /\ cur = 0
  /\ queueName = "empty"
  /\ retCode = "ALL_GOOD"
  /\ ctl = [c \in Controllers |-> Idle]
  /\ sub = [s \in Subscribers |-> NotSubscribing]
  /\ destroyed = FALSE
  /\ fault = "none"

SetupPoints == {"open", "declare", "bind", "consume", "requeue"}

ConsumerMutexFree ==
  ~ (mode = "start" /\ pc \in {"scList", "scNext"} \cup SetupPoints)

HandlerMutexFree == pc # "process"

-----------------------------------------------------------------------------
(* Subscribe                                                                *)

AppFrame == <<connVars, consumeVars, setupVars, lifeVars, m_threadRunning,
              retCode, pc, ctl, fault>>

(* A binding pair the handler has already gets its new callback, and the    *)
(* caller UNABLE_TO_SUBSCRIBE.  IsInitialized() and AddChannelProcessor     *)
(* take a lock each; as nothing makes an initialized consumer uninitialized *)
(* again, whatever happens between the two happens as well before both.     *)
Subscribe(s, bindingPair) ==
  /\ fault = "none" /\ ~destroyed
  /\ sub[s] = NotSubscribing
  /\ ConsumerMutexFree /\ HandlerMutexFree
  /\ m_isInitialized
  /\ AddChannelProcessor(bindingPair)
  /\ sub' = IF HasProcessor(bindingPair) THEN sub
            ELSE [sub EXCEPT ![s] = [at |-> "props",
                                     channel |-> m_nextAvailableChannel]]
  /\ UNCHANGED <<AppFrame, m_pendingChannels>>

SubscribeSetProperties(s) ==
  /\ fault = "none"
  /\ sub[s].at = "props"
  /\ HandlerMutexFree
  /\ SetQueueProperties(sub[s].channel)
  /\ sub' = [sub EXCEPT ![s].at = "running"]
  /\ UNCHANGED <<AppFrame, m_pendingChannels>>

pushIntoPendingChannels(channel) ==
  m_pendingChannels' = Append(m_pendingChannels, channel)

(* IsRunning() and the push lock separately. *)
SubscribeCheckRunning(s) ==
  /\ fault = "none"
  /\ sub[s].at = "running"
  /\ ConsumerMutexFree
  /\ sub' = [sub EXCEPT ![s] = IF m_threadRunning THEN [@ EXCEPT !.at = "push"]
                                                 ELSE NotSubscribing]
  /\ UNCHANGED <<AppFrame, handlerVars, m_pendingChannels>>

SubscribePush(s) ==
  /\ fault = "none"
  /\ sub[s].at = "push"
  /\ pushIntoPendingChannels(sub[s].channel)
  /\ sub' = [sub EXCEPT ![s] = NotSubscribing]
  /\ UNCHANGED <<AppFrame, handlerVars>>

-----------------------------------------------------------------------------
(* Consumer::thread                                                         *)

At(point) == fault = "none" /\ pc = point

ThreadWhileForever ==
  /\ At("while")
  /\ pc' = "connect"
  /\ retCode' = "ALL_GOOD"
  /\ UNCHANGED <<connVars, consumeVars, setupVars, appVars, m_pendingChannels,
                 fault>>

ThreadWhile ==
  /\ At("while")
  /\ pc' = IF m_threadRunning THEN "connect" ELSE "done"
  /\ retCode' = "ALL_GOOD"
  /\ UNCHANGED <<connVars, consumeVars, setupVars, appVars, m_pendingChannels,
                 fault>>

(* IsConnected() and Connect(); after a failure thread() sleeps. *)
ThreadConnect ==
  /\ At("connect")
  /\ IF m_isConnected
     THEN pc' = "pull" /\ UNCHANGED <<connVars, consumeVars, retCode>>
     ELSE \E ret \in HARE_ERROR_E :
            /\ ConnectSession(ret)
            /\ retCode' = ret
            /\ pc' = IF noError(ret) THEN "scEmpty" ELSE "pendCheck"
  /\ UNCHANGED <<setupVars, appVars, m_pendingChannels, fault>>

emptyPendingChannels == m_pendingChannels' = <<>>

(* startConsumption(): lock m_consumerMutex, empty, list. *)
StartConsumptionEmpty ==
  /\ At("scEmpty")
  /\ emptyPendingChannels
  /\ mode' = "start"
  /\ pc' = "scList"
  /\ UNCHANGED <<connVars, consumeVars, appVars, todo, cur, queueName,
                 retCode, fault>>

StartConsumptionList ==
  /\ At("scList")
  /\ todo' = GetChannelList
  /\ pc' = "scNext"
  /\ UNCHANGED <<connVars, consumeVars, appVars, m_pendingChannels, mode, cur,
                 queueName, retCode, fault>>

(* One turn of its loop; an unordered_map has any order. *)
StartConsumptionNext(channel) ==
  /\ At("scNext")
  /\ channel \in todo
  /\ todo' = todo \ {channel}
  /\ cur' = channel
  /\ pc' = "open"
  /\ UNCHANGED <<connVars, consumeVars, appVars, m_pendingChannels, mode,
                 queueName, retCode, fault>>

(* It returns the code of the last channel it set up. *)
StartConsumptionDone ==
  /\ At("scNext")
  /\ todo = {}
  /\ mode' = "pending"
  /\ pc' = IF noError(retCode) THEN "pull" ELSE "pendCheck"
  /\ UNCHANGED <<connVars, consumeVars, appVars, m_pendingChannels, todo, cur,
                 queueName, retCode, fault>>

(* connectAndStartConsumption() closes after a server failure. *)
StartConsumptionFailed ==
  /\ At("scClose")
  /\ \E ret \in HARE_ERROR_E : CloseSession(ret)
  /\ pc' = "pendCheck"
  /\ UNCHANGED <<setupVars, appVars, m_pendingChannels, retCode, fault>>

-----------------------------------------------------------------------------
(* setupAndConsume(cur): open, declare, bind, consume, and on an error back *)
(* into m_pendingChannels.                                                  *)

(* It returns: to the loop of startConsumption, out of that loop after a    *)
(* server failure, or to the thread's while.                                *)
LeaveSetup(ret) ==
  /\ cur' = 0
  /\ queueName' = "empty"
  /\ IF mode = "pending"
     THEN pc' = "while" /\ UNCHANGED <<mode, todo>>
     ELSE IF serverFailure(ret)
     THEN pc' = "scClose" /\ mode' = "pending" /\ todo' = {}
     ELSE pc' = "scNext" /\ UNCHANGED <<mode, todo>>

openChannelUnchecked ==
  /\ At("open")
  /\ \E ret \in HARE_ERROR_E : OpenChannel(cur, ret) /\ retCode' = ret
  /\ pc' = "declare"
  /\ UNCHANGED <<consumeVars, setupVars, appVars, m_pendingChannels, fault>>

openChannel ==
  /\ At("open")
  /\ \E ret \in HARE_ERROR_E :
       /\ OpenChannel(cur, ret)
       /\ retCode' = ret
       /\ pc' = IF noError(ret) THEN "declare" ELSE "requeue"
  /\ UNCHANGED <<consumeVars, setupVars, appVars, m_pendingChannels, fault>>

(* DeclareQueue always reports success.  declareQueue() then logs and       *)
(* stores the name: reading or freeing a garbage one is undefined.          *)
declareQueue ==
  /\ At("declare")
  /\ \E name \in {"named", "empty", "garbage"} :
       /\ DeclareQueue(cur, name)
       /\ queueName' = name
       /\ fault' = IF name = "garbage" THEN "badName" ELSE fault
  /\ pc' = "bind"
  /\ UNCHANGED <<mode, todo, cur, appVars, m_pendingChannels, retCode>>

bindQueue ==
  /\ At("bind")
  /\ \E ret \in HARE_ERROR_E :
       /\ BindQueue(cur, queueName, GetExchange(cur), ret)
       /\ retCode' = ret
       /\ pc' = IF noError(ret) THEN "consume" ELSE "requeue"
  /\ UNCHANGED <<setupVars, appVars, m_pendingChannels, fault>>

consume ==
  /\ At("consume")
  /\ \E ret \in HARE_ERROR_E :
       /\ StartConsumption(cur, ret)
       /\ retCode' = ret
       /\ IF noError(ret)
          THEN LeaveSetup(ret)
          ELSE pc' = "requeue" /\ UNCHANGED setupVars
  /\ UNCHANGED <<appVars, m_pendingChannels, fault>>

RequeueForgotten ==
  /\ At("requeue")
  /\ LeaveSetup(retCode)
  /\ UNCHANGED <<connVars, consumeVars, appVars, m_pendingChannels, retCode,
                 fault>>

Requeue ==
  /\ At("requeue")
  /\ pushIntoPendingChannels(cur)
  /\ LeaveSetup(retCode)
  /\ UNCHANGED <<connVars, consumeVars, appVars, retCode, fault>>

-----------------------------------------------------------------------------
(* pullNextMessage() and the pending channels                               *)

(* A message goes to Process(), or nowhere when its envelope names no       *)
(* exchange; a garbage envelope taken for a message is undefined behaviour. *)
pullNextMessage ==
  /\ At("pull")
  /\ IF m_isConnected
     THEN \E ret \in HARE_ERROR_E, envelope \in {"message", "malformed", "garbage"} :
            /\ ConsumeMessage(envelope, ret)
            /\ fault' = IF noError(ret) /\ envelope = "garbage"
                        THEN "badEnvelope" ELSE fault
            /\ pc' = CASE noError(ret) /\ envelope = "message" -> "process"
                       [] serverFailure(ret)                   -> "pullFailed"
                       [] OTHER                                -> "pendCheck"
     ELSE pc' = "pendCheck" /\ UNCHANGED <<connVars, consumeVars, fault>>
  /\ UNCHANGED <<setupVars, appVars, m_pendingChannels, retCode>>

(* The callback returns and with it ChannelHandler::Process; what the       *)
(* callback does is the application's business.                             *)
Process ==
  /\ At("process")
  /\ pc' = "pendCheck"
  /\ UNCHANGED <<connVars, consumeVars, setupVars, appVars, m_pendingChannels,
                 retCode, fault>>

PullFailedIgnored ==
  /\ At("pullFailed")
  /\ pc' = "pendCheck"
  /\ UNCHANGED <<connVars, consumeVars, setupVars, appVars, m_pendingChannels,
                 retCode, fault>>

PullFailed ==
  /\ At("pullFailed")
  /\ IF m_threadRunning THEN \E ret \in HARE_ERROR_E : CloseSession(ret)
                        ELSE UNCHANGED <<connVars, consumeVars>>
  /\ pc' = "pendCheck"
  /\ UNCHANGED <<setupVars, appVars, m_pendingChannels, retCode, fault>>

PendingCheckSkipped ==
  /\ At("pendCheck")
  /\ pc' = "pendPop"
  /\ UNCHANGED <<connVars, consumeVars, setupVars, appVars, m_pendingChannels,
                 retCode, fault>>

(* pendingChannelSize() ... *)
PendingCheck ==
  /\ At("pendCheck")
  /\ pc' = IF m_pendingChannels # <<>> THEN "pendPop" ELSE "while"
  /\ UNCHANGED <<connVars, consumeVars, setupVars, appVars, m_pendingChannels,
                 retCode, fault>>

(* ... and popNextPendingChannel() lock separately. *)
popNextPendingChannel ==
  /\ At("pendPop")
  /\ IF m_pendingChannels = <<>>
     THEN fault' = "emptyPending" /\ UNCHANGED <<m_pendingChannels, cur, pc>>
     ELSE /\ cur' = Head(m_pendingChannels)
          /\ m_pendingChannels' = Tail(m_pendingChannels)
          /\ pc' = "open"
          /\ UNCHANGED fault
  /\ UNCHANGED <<connVars, consumeVars, appVars, mode, todo, queueName, retCode>>

Thread ==
  \/ ThreadWhile \/ ThreadConnect
  \/ StartConsumptionEmpty \/ StartConsumptionList
  \/ \E channel \in GetChannelList : StartConsumptionNext(channel)
  \/ StartConsumptionDone \/ StartConsumptionFailed
  \/ openChannel \/ declareQueue \/ bindQueue \/ consume \/ Requeue
  \/ pullNextMessage \/ Process \/ PullFailed
  \/ PendingCheck \/ popNextPendingChannel

-----------------------------------------------------------------------------
(* Controllers                                                              *)

ThreadFrame == <<setupVars, handlerVars, retCode, sub>>

(* Initialize() while the consumer is stopped; see module Producer. *)
Initialize ==
  /\ fault = "none" /\ ~destroyed
  /\ pc = "none"
  /\ \A c \in Controllers : ctl[c] = Idle
  /\ m_isInitialized' = TRUE
  /\ m_threadRunning' = FALSE
  /\ m_isConnected' = FALSE
  /\ leaked' = IF m_conn = "live" THEN leaked + 1 ELSE leaked
  /\ m_conn' = "none"
  /\ UNCHANGED <<session, openCh, closingCh, exchanges, faults, consumeVars,
                 ThreadFrame, m_pendingChannels, joinable, destroyed, pc, ctl,
                 fault>>

CtlAt(c, point) == fault = "none" /\ ctl[c].at = point

MoveTo(c, point) == ctl' = [ctl EXCEPT ![c].at = point]
Return(c) == ctl' = [ctl EXCEPT ![c] = Idle]

Entry == [Start |-> "start", Stop |-> "stopEmpty", Restart |-> "stopEmpty",
          Destroy |-> "destroyCheck"]

(* A controller makes a call.  The destructor runs when no other call is in *)
(* progress.                                                                *)
Enter(c, op) ==
  /\ fault = "none" /\ ~destroyed
  /\ ctl[c] = Idle
  /\ op = "Destroy" => /\ \A s \in Subscribers : sub[s] = NotSubscribing
                       /\ \A d \in Controllers : ctl[d] = Idle
  /\ ctl' = [ctl EXCEPT ![c] = [at |-> Entry[op], op |-> op]]
  /\ destroyed' = (op = "Destroy")
  /\ UNCHANGED <<connVars, consumeVars, ThreadFrame, m_pendingChannels,
                 m_isInitialized, joinable, m_threadRunning, pc, fault>>

StartAllowedTwice == m_isInitialized
StartAllowed == m_isInitialized /\ ~m_threadRunning

(* Start() holds m_consumerMutex throughout.  Assigning to a joinable       *)
(* std::thread terminates the process.                                      *)
Start(c) ==
  /\ CtlAt(c, "start")
  /\ ConsumerMutexFree
  /\ IF ~StartAllowed
     THEN UNCHANGED <<m_threadRunning, joinable, pc, fault>>
     ELSE IF joinable
     THEN fault' = "terminate" /\ UNCHANGED <<m_threadRunning, joinable, pc>>
     ELSE /\ m_threadRunning' = TRUE
          /\ joinable' = TRUE
          /\ pc' = "while"
          /\ UNCHANGED fault
  /\ Return(c)
  /\ UNCHANGED <<connVars, consumeVars, ThreadFrame, m_pendingChannels,
                 m_isInitialized, destroyed>>

(* Stop() empties the queue before it looks at anything. *)
StopEmpty(c) ==
  /\ CtlAt(c, "stopEmpty")
  /\ emptyPendingChannels
  /\ MoveTo(c, "stopCheck")
  /\ UNCHANGED <<connVars, consumeVars, ThreadFrame, lifeVars,
                 m_threadRunning, pc, fault>>

StopCheck(c) ==
  /\ CtlAt(c, "stopCheck")
  /\ ConsumerMutexFree
  /\ IF m_isInitialized /\ m_threadRunning THEN MoveTo(c, "clearRunning")
     ELSE IF ctl[c].op = "Destroy"         THEN MoveTo(c, "destruct")
     ELSE Return(c)
  /\ UNCHANGED <<connVars, consumeVars, ThreadFrame, lifeVars,
                 m_pendingChannels, m_threadRunning, pc, fault>>

StopWithoutJoin(c) ==
  /\ CtlAt(c, "clearRunning")
  /\ ConsumerMutexFree
  /\ m_threadRunning' = FALSE
  /\ MoveTo(c, "closeConn")
  /\ UNCHANGED <<connVars, consumeVars, ThreadFrame, lifeVars,
                 m_pendingChannels, pc, fault>>

StopClearRunning(c) ==
  /\ CtlAt(c, "clearRunning")
  /\ ConsumerMutexFree
  /\ m_threadRunning' = FALSE
  /\ MoveTo(c, "join")
  /\ UNCHANGED <<connVars, consumeVars, ThreadFrame, lifeVars,
                 m_pendingChannels, pc, fault>>

(* join() blocks until thread() has returned; joining no thread throws. *)
StopJoin(c) ==
  /\ CtlAt(c, "join")
  /\ joinable => pc = "done"
  /\ IF joinable
     THEN joinable' = FALSE /\ pc' = "none" /\ MoveTo(c, "closeConn")
                           /\ UNCHANGED fault
     ELSE fault' = "terminate" /\ UNCHANGED <<joinable, pc, ctl>>
  /\ UNCHANGED <<connVars, consumeVars, ThreadFrame, m_pendingChannels,
                 m_isInitialized, destroyed, m_threadRunning>>

(* Stop() returns what CloseConnection() does, and Restart() goes on only   *)
(* when that is no error.                                                   *)
AfterStop(c, ret) ==
  CASE ctl[c].op = "Restart" /\ noError(ret) -> MoveTo(c, "start")
    [] ctl[c].op = "Destroy"                 -> MoveTo(c, "destruct")
    [] OTHER                                 -> Return(c)

StopWithoutClosing(c) ==
  /\ CtlAt(c, "closeConn")
  /\ AfterStop(c, "ALL_GOOD")
  /\ UNCHANGED <<connVars, consumeVars, ThreadFrame, lifeVars,
                 m_pendingChannels, m_threadRunning, pc, fault>>

StopCloseConnection(c) ==
  /\ CtlAt(c, "closeConn")
  /\ \E ret \in HARE_ERROR_E : CloseSession(ret) /\ AfterStop(c, ret)
  /\ UNCHANGED <<ThreadFrame, lifeVars, m_pendingChannels, m_threadRunning,
                 pc, fault>>

(* ~Consumer() *)
DestroyCheck(c) ==
  /\ CtlAt(c, "destroyCheck")
  /\ MoveTo(c, IF m_threadRunning THEN "stopEmpty" ELSE "destruct")
  /\ UNCHANGED <<connVars, consumeVars, ThreadFrame, lifeVars,
                 m_pendingChannels, m_threadRunning, pc, fault>>

Destruct(c) ==
  /\ CtlAt(c, "destruct")
  /\ IF m_isInitialized THEN \E ret \in HARE_ERROR_E : CloseSession(ret)
                        ELSE UNCHANGED <<connVars, consumeVars>>
  /\ m_isInitialized' = FALSE
  /\ fault' = IF joinable THEN "terminate" ELSE fault
  /\ MoveTo(c, "gone")
  /\ UNCHANGED <<ThreadFrame, m_pendingChannels, joinable, destroyed,
                 m_threadRunning, pc>>

Controller(c) ==
  \/ Start(c)
  \/ StopEmpty(c) \/ StopCheck(c) \/ StopClearRunning(c) \/ StopJoin(c)
  \/ StopCloseConnection(c)
  \/ DestroyCheck(c) \/ Destruct(c)

-----------------------------------------------------------------------------
(* A producer elsewhere declares an exchange. *)
ExchangeAppears(exchange) ==
  /\ exchange \notin exchanges
  /\ exchanges' = exchanges \cup {exchange}
  /\ UNCHANGED <<m_isConnected, m_conn, leaked, session, openCh, closingCh,
                 faults>>

Environment ==
  /\ fault = "none"
  /\ BrokerFault \/ \E exchange \in Exchanges : ExchangeAppears(exchange)
  /\ UNCHANGED <<consumeVars, setupVars, appVars, m_pendingChannels, retCode,
                 pc, fault>>

(* The object is gone, or the process is. *)
Terminated ==
  /\ fault # "none" \/ \E c \in Controllers : ctl[c].at = "gone"
  /\ UNCHANGED vars

Subscriber(s) ==
  \/ \E bindingPair \in BindingPairs : Subscribe(s, bindingPair)
  \/ SubscribeSetProperties(s) \/ SubscribeCheckRunning(s) \/ SubscribePush(s)

Next ==
  \/ \E s \in Subscribers : Subscriber(s)
  \/ Thread
  \/ Initialize
  \/ \E c \in Controllers, op \in Operations : Enter(c, op)
  \/ \E c \in Controllers : Controller(c)
  \/ Environment
  \/ Terminated

(* The operating system schedules the consuming thread and a controller     *)
(* that is inside a call.  Callbacks and RPCs return.  Subscribers owe      *)
(* nothing.                                                                 *)
Fairness ==
  /\ WF_vars(Thread)
  /\ \A c \in Controllers : WF_vars(Controller(c))

Spec == Init /\ [][Next]_vars

FairSpec == Spec /\ Fairness

-----------------------------------------------------------------------------
(* Safety                                                                   *)

(* However Subscribe calls race, AddChannelProcessor never gives one        *)
(* binding pair two channels, and the broker session has no channel that    *)
(* the handler does not know.                                               *)
OneChannelPerPair ==
  /\ \A c, d \in GetChannelList : m_channelLookup[c] = m_channelLookup[d] => c = d
  /\ openCh \cup closingCh \subseteq GetChannelList

(* DeclareQueue, BindQueue and StartConsumption do not test IsConnected():  *)
(* the thread reaches them only with a live rabbitmq-c handle, although a   *)
(* pending channel is also tried when there is no connection.               *)
HandleLive ==
  pc \in {"declare", "bind", "consume"} => m_isConnected /\ m_conn = "live"

(* No call sequence makes the code join a thread that is not there, or      *)
(* assign to or destroy one that has not been joined.                       *)
NoTerminate == fault # "terminate"

(* CloseConnection() tests IsConnected() before it locks, so two callers at *)
(* once would both destroy the connection: a Stop or ~Consumer that closes  *)
(* it has the thread behind it.                                             *)
CloseExclusive ==
  \A c \in Controllers : ctl[c].at \in {"closeConn", "destruct"} => pc = "none"

(* pendingChannelSize() and popNextPendingChannel() lock separately: that   *)
(* the queue is empty when the thread takes its front, which is undefined,  *)
(* happens only while a Stop that emptied it is under way.                  *)
OnlyStopEmpties ==
  pc = "pendPop" /\ m_pendingChannels = <<>> =>
     \E c \in Controllers : ctl[c].at \in {"stopCheck", "clearRunning", "join"}

(* When every Stop has returned, no thread and no connection is left, so    *)
(* the next Start sets up every channel again.                              *)
StoppedClean ==
  (pc = "none" /\ \A c \in Controllers : ctl[c] = Idle) =>
     ~joinable /\ ~m_isConnected /\ ~session

Pending(channel) ==
  \E i \in 1..Len(m_pendingChannels) : m_pendingChannels[i] = channel

BeingSubscribed(channel) == \E s \in Subscribers : sub[s].channel = channel

(* Subscribe publishes a channel before it sets its properties: a queue is  *)
(* declared with the default ones in place of the subscriber's only while   *)
(* that Subscribe is still under way.                                       *)
DefaultsOnlyWhileSubscribing ==
  pc = "declare" /\ cur \notin m_propertiesSet => BeingSubscribed(cur)

(* Once the thread has listed the channels of a connection, no subscription *)
(* falls through the cracks between Subscribe, the list and                 *)
(* m_pendingChannels: each channel is consumed, or waits for a retry, or is *)
(* in some thread's hands.                                                  *)
NoSubscriptionLost ==
  (/\ m_threadRunning /\ m_isConnected
   /\ pc \notin {"scEmpty", "scList", "scClose"}
   /\ \A c \in Controllers : ctl[c].at \notin {"stopCheck", "clearRunning"})
  => \A channel \in GetChannelList :
       \/ channel \in consuming \cup todo \cup {cur}
       \/ Pending(channel)
       \/ BeingSubscribed(channel)

-----------------------------------------------------------------------------
(* Liveness                                                                 *)

(* A Stop, Restart or ~Consumer that waits for the thread gets through,     *)
(* whatever the thread was doing, lost connections included, as long as     *)
(* every call of the thread is answered.  The exception is a broker that    *)
(* closes a channel over the declaration of its queue: DeclareQueue still   *)
(* returns ALL_GOOD, BindQueue is then called on a channel that answers no  *)
(* more, and the join waits with it.  The run leaves that reply out.        *)
StopReturns ==
  \A c \in Controllers :
    ctl[c].at = "join" ~> ctl[c].at \in {"idle", "start", "destruct"}
                          \/ fault # "none"

Subscribed(pair) ==
  \E channel \in GetChannelList :
     m_channelLookup[channel] = pair /\ ~BeingSubscribed(channel)

Consumed(pair) ==
  session /\ \E channel \in consuming : m_channelLookup[channel] = pair

(* A subscription whose Subscribe has returned, at a consumer that keeps    *)
(* running, to an exchange that exists, is consumed in the end: before      *)
(* Start or while running, after lost connections, and after the exchange   *)
(* appeared late.                                                           *)
ReachesConsumption ==
  \A pair \in BindingPairs :
    Subscribed(pair) /\ m_threadRunning /\ pair.m_exchangeName \in exchanges
    ~> \/ Consumed(pair)
       \/ ~m_threadRunning
       \/ pair.m_exchangeName \notin exchanges
       \/ fault # "none"

-----------------------------------------------------------------------------
(* What the documentation says and the code does not do                     *)

(* "to make sure that we don't lose connection if an exchange hasn't been   *)
(* declared": retrying a pending channel does not cost the session.         *)
KeepsConnection ==
  [][ pc = "open" /\ mode = "pending" /\ session /\ faults' = faults =>
        session' ]_vars
=============================================================================
