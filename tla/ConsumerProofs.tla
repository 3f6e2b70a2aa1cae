--------------------------- MODULE ConsumerProofs ---------------------------
(***************************************************************************)
(* Theorems about Consumer for every set of subscribers, binding pairs and  *)
(* exchanges and any number of faults.  The first ones also hold for any    *)
(* number of controllers; those about the life of the thread need the calls *)
(* of Start, Stop, Restart and ~Consumer to come from one application       *)
(* thread, because two Stops may both go on to join.                        *)
(***************************************************************************)
EXTENDS Consumer, ConnectionProofs, SequenceTheorems, TLAPS

-----------------------------------------------------------------------------
(* The calls of ConsumeConnection keep the connection's types and link      *)

(* A call of ConsumeConnection on a connection that is there. *)
ConsumeCall ==
  \/ \E channel, name : DeclareQueue(channel, name)
  \/ \E channel, name, exchange, ret : BindQueue(channel, name, exchange, ret)
  \/ \E channel, ret : StartConsumption(channel, ret)
  \/ \E envelope, ret : ConsumeMessage(envelope, ret)

(* What DeclareQueue, BindQueue, StartConsumption and ConsumeMessage do to  *)
(* the connection: channels come from those the session has, and neither    *)
(* the flag nor the handle changes.                                         *)
LEMMA ConsumeCallLink ==
  ASSUME ConsumeCall
  PROVE  /\ UNCHANGED <<m_isConnected, m_conn, leaked, exchanges>>
         /\ session' => session
         /\ (openCh \cup closingCh)' = openCh \cup closingCh
         /\ faults' = faults \/ Fault
<1>. USE DEF RpcFails, RpcOnDeadLink, RpcRefused, ChannelFault, RpcFault, Fault
<1>1. CASE \E channel, name : DeclareQueue(channel, name)
  BY <1>1 DEF DeclareQueue, amqp_queue_declare
<1>2. CASE \E channel, name, exchange, ret : BindQueue(channel, name, exchange, ret)
  BY <1>2 DEF BindQueue, amqp_queue_bind
<1>3. CASE \E channel, ret : StartConsumption(channel, ret)
  BY <1>3 DEF StartConsumption, amqp_basic_consume
<1>4. CASE \E envelope, ret : ConsumeMessage(envelope, ret)
  BY <1>4 DEF ConsumeMessage, amqp_consume_message
<1>. QED
  BY <1>1, <1>2, <1>3, <1>4 DEF ConsumeCall

(* So they keep the connection well typed. *)
LEMMA ConsumeCallType ==
  ASSUME ConnTypeOK, ConsumeCall
  PROVE  ConnTypeOK'
<1>. USE DEF ConnTypeOK
<1>1. faults' \in 0..MaxFaults
  BY ConsumeCallLink, MaxFaultsAssumption DEF Fault
<1>2. openCh' \subseteq Nat /\ closingCh' \subseteq Nat
  BY ConsumeCallLink
<1>3. session' \in BOOLEAN
  BY DEF ConsumeCall, DeclareQueue, amqp_queue_declare, BindQueue,
         amqp_queue_bind, StartConsumption, amqp_basic_consume, ConsumeMessage,
         amqp_consume_message, RpcFails, RpcOnDeadLink, RpcRefused,
         ChannelFault, RpcFault
<1>. QED
  BY <1>1, <1>2, <1>3, ConsumeCallLink

-----------------------------------------------------------------------------
(* Frames                                                                   *)

(* The consuming thread changes nothing the application owns. *)
LEMMA ThreadLeavesApp ==
  ASSUME Thread
  PROVE  UNCHANGED appVars
BY DEF Thread, ThreadWhile, ThreadConnect, StartConsumptionEmpty,
       StartConsumptionList, StartConsumptionNext, StartConsumptionDone,
       StartConsumptionFailed, openChannel, declareQueue, bindQueue, consume,
       Requeue, pullNextMessage, Process, PullFailed, PendingCheck,
       popNextPendingChannel

(* Subscribe changes the handler, its own progress and m_pendingChannels.   *)
LEMMA SubscriberLeaves ==
  ASSUME NEW s \in Subscribers, Subscriber(s)
  PROVE  UNCHANGED AppFrame
BY DEF Subscriber, Subscribe, SubscribeSetProperties, SubscribeCheckRunning, SubscribePush

(* Start, Stop, Restart and ~Consumer leave the thread's locals, the        *)
(* handler and the subscribers alone.                                       *)
LEMMA ControllerLeaves ==
  ASSUME NEW c \in Controllers, Controller(c)
  PROVE  UNCHANGED ThreadFrame
BY DEF Controller, Start, StopEmpty, StopCheck, StopClearRunning, StopJoin,
       StopCloseConnection, DestroyCheck, Destruct

-----------------------------------------------------------------------------
(* Type correctness                                                         *)

(* A channel that somebody holds is one of the handler's: setupAndConsume's *)
(* parameter while it runs, and the channel of a Subscribe under way.       *)
InHandInv ==
  /\ pc \in SetupPoints => cur \in GetChannelList
  /\ \A s \in Subscribers : sub[s].at # "idle" => sub[s].channel \in GetChannelList

TypeInv == TypeOK /\ InHandInv

(* The constructor leaves a well-typed consumer. *)
LEMMA InitType == ASSUME Init PROVE TypeInv
<1>1. ConnTypeOK
  <2>1. faults \in 0..MaxFaults /\ leaked \in Nat
    BY MaxFaultsAssumption DEF Init, ConnInit
  <2>. QED
    BY <2>1, PredeclaredAssumption DEF Init, ConnInit, ConnTypeOK
<1>2. HandlerTypeOK
  BY DEF Init, HandlerInit, HandlerTypeOK
<1>3. ctl \in [Controllers -> Call]
  BY DEF Init, Call, CallPoints, Idle
<1>4. /\ sub \in [Subscribers -> [at : {"idle", "props", "running", "push"},
                                  channel : GetChannelList \cup {0}]]
      /\ InHandInv
  BY DEF Init, NotSubscribing, InHandInv, SetupPoints
<1>5. m_pendingChannels \in Seq(GetChannelList) /\ retCode \in HARE_ERROR_E
  BY EmptySeq DEF Init, HARE_ERROR_E
<1>6. TypeOK
  BY <1>1, <1>2, <1>3, <1>4, <1>5 DEF Init, TypeOK, ThreadPoints
<1>. QED
  BY <1>4, <1>6 DEF TypeInv

(* Every step leaves the connection well typed. *)
LEMMA NextConnType ==
  ASSUME TypeInv, Next
  PROVE  ConnTypeOK'
<1>. USE DEF TypeInv, TypeOK
<1>1. ASSUME UNCHANGED connVars PROVE ConnTypeOK'
  BY <1>1 DEF connVars, ConnTypeOK
<1>2. ASSUME NEW ret, CloseSession(ret) PROVE ConnTypeOK'
  BY <1>2, CloseConnectionType DEF CloseSession
<1>3. CASE Thread
  <2>1. CASE ThreadConnect
    BY <1>1, <2>1, ConnectType DEF ThreadConnect, ConnectSession
  <2>2. CASE openChannel
    <3>1. cur \in Nat
      BY <2>2 DEF HandlerTypeOK, GetChannelList
    <3>. QED
      BY <2>2, <3>1, OpenChannelType DEF openChannel
  <2>3. CASE declareQueue \/ bindQueue \/ consume
    BY <2>3, ConsumeCallType DEF declareQueue, bindQueue, consume, ConsumeCall
  <2>4. CASE pullNextMessage
    BY <1>1, <2>4, ConsumeCallType DEF pullNextMessage, ConsumeCall
  <2>5. CASE StartConsumptionFailed \/ PullFailed
    BY <1>1, <1>2, <2>5 DEF StartConsumptionFailed, PullFailed
  <2>. QED
    BY <1>1, <1>3, <2>1, <2>2, <2>3, <2>4, <2>5
    DEF Thread, ThreadWhile, StartConsumptionEmpty, StartConsumptionList,
        StartConsumptionNext, StartConsumptionDone, Requeue, Process,
        PendingCheck, popNextPendingChannel
<1>4. CASE Initialize
  <2>1. leaked' \in Nat
    BY <1>4 DEF Initialize, ConnTypeOK
  <2>. QED
    BY <1>4, <2>1 DEF Initialize, ConnTypeOK
<1>5. ASSUME NEW c \in Controllers, Controller(c) PROVE ConnTypeOK'
  BY <1>1, <1>2, <1>5
  DEF Controller, Start, StopEmpty, StopCheck, StopClearRunning, StopJoin,
      StopCloseConnection, DestroyCheck, Destruct
<1>6. CASE Environment
  <2>1. ASSUME NEW exchange \in Exchanges, ExchangeAppears(exchange)
        PROVE  ConnTypeOK'
    BY <2>1 DEF ExchangeAppears, ConnTypeOK
  <2>. QED
    BY <1>6, <2>1, BrokerFaultType DEF Environment
<1>7. ASSUME NEW s \in Subscribers, Subscriber(s) PROVE ConnTypeOK'
  BY <1>1, <1>7, SubscriberLeaves DEF AppFrame
<1>. QED
  BY <1>1, <1>3, <1>4, <1>5, <1>6, <1>7 DEF Next, Enter, Terminated, vars

(* Channel numbers are handed out in order: a new subscription gets the     *)
(* next one, and no channel is ever taken from the handler.                 *)
LEMMA HandlerStep ==
  ASSUME TypeInv, Next
  PROVE  /\ HandlerTypeOK'
         /\ GetChannelList \subseteq GetChannelList'
         /\ \A c \in GetChannelList : m_channelLookup'[c] = m_channelLookup[c]
<1>. USE DEF TypeInv, TypeOK, GetChannelList
<1>1. ASSUME UNCHANGED handlerVars
      PROVE  /\ HandlerTypeOK'
             /\ GetChannelList \subseteq GetChannelList'
             /\ \A c \in GetChannelList : m_channelLookup'[c] = m_channelLookup[c]
  BY <1>1 DEF handlerVars, HandlerTypeOK
<1>2. ASSUME NEW s \in Subscribers, NEW pair \in BindingPairs, Subscribe(s, pair)
      PROVE  /\ HandlerTypeOK'
             /\ GetChannelList \subseteq GetChannelList'
             /\ \A c \in GetChannelList : m_channelLookup'[c] = m_channelLookup[c]
  <2>1. CASE HasProcessor(pair)
    BY <1>1, <1>2, <2>1 DEF Subscribe, AddChannelProcessor
  <2>2. CASE ~HasProcessor(pair)
    <3>1. /\ NewChannel(pair)
          /\ m_nextAvailableChannel' = m_nextAvailableChannel + 1
          /\ UNCHANGED m_propertiesSet
      BY <1>2, <2>2 DEF Subscribe, AddChannelProcessor
    <3>2. DOMAIN m_channelLookup' = 1..m_nextAvailableChannel
      BY <3>1 DEF NewChannel, HandlerTypeOK
    <3>. QED
      BY <3>1, <3>2 DEF NewChannel, HandlerTypeOK
  <2>. QED
    BY <2>1, <2>2
<1>3. ASSUME NEW s \in Subscribers, SubscribeSetProperties(s)
      PROVE  /\ HandlerTypeOK'
             /\ GetChannelList \subseteq GetChannelList'
             /\ \A c \in GetChannelList : m_channelLookup'[c] = m_channelLookup[c]
  BY <1>3
  DEF SubscribeSetProperties, SetQueueProperties, HandlerTypeOK, InHandInv
<1>4. ASSUME NEW s \in Subscribers, Subscriber(s)
      PROVE  /\ HandlerTypeOK'
             /\ GetChannelList \subseteq GetChannelList'
             /\ \A c \in GetChannelList : m_channelLookup'[c] = m_channelLookup[c]
  BY <1>1, <1>2, <1>3, <1>4 DEF Subscriber, SubscribeCheckRunning, SubscribePush
<1>. QED
  BY <1>1, <1>4, ThreadLeavesApp, ControllerLeaves
  DEF Next, appVars, ThreadFrame, Initialize, Enter, Environment, Terminated,
      vars

(* Every step leaves the flags and the thread's scalar locals well typed. *)
LEMMA NextFlagType ==
  ASSUME TypeInv, Next
  PROVE  (/\ m_isInitialized \in BOOLEAN /\ m_threadRunning \in BOOLEAN
          /\ joinable \in BOOLEAN /\ destroyed \in BOOLEAN
          /\ pc \in ThreadPoints
          /\ mode \in {"start", "pending"}
          /\ queueName \in {"named", "empty", "garbage"}
          /\ retCode \in HARE_ERROR_E
          /\ fault \in {"none", "terminate", "emptyPending", "badName",
                        "badEnvelope"})'
<1>. USE DEF TypeInv, TypeOK
<1>1. CASE Thread
  <2>1. UNCHANGED <<m_isInitialized, m_threadRunning, joinable, destroyed>>
    BY <1>1, ThreadLeavesApp DEF appVars, lifeVars
  <2>2. pc' \in ThreadPoints
    BY <1>1
    DEF ThreadPoints, LeaveSetup, Thread, ThreadWhile, ThreadConnect, StartConsumptionEmpty,
        StartConsumptionList, StartConsumptionNext, StartConsumptionDone,
        StartConsumptionFailed, openChannel, declareQueue, bindQueue, consume,
        Requeue, pullNextMessage, Process, PullFailed, PendingCheck,
        popNextPendingChannel
  <2>3. mode' \in {"start", "pending"} /\ queueName' \in {"named", "empty", "garbage"}
    BY <1>1
    DEF setupVars, LeaveSetup, Thread, ThreadWhile, ThreadConnect, StartConsumptionEmpty,
        StartConsumptionList, StartConsumptionNext, StartConsumptionDone,
        StartConsumptionFailed, openChannel, declareQueue, bindQueue, consume,
        Requeue, pullNextMessage, Process, PullFailed, PendingCheck,
        popNextPendingChannel
  <2>4. retCode' \in HARE_ERROR_E
    BY <1>1
    DEF HARE_ERROR_E, Thread, ThreadWhile, ThreadConnect, StartConsumptionEmpty,
        StartConsumptionList, StartConsumptionNext, StartConsumptionDone,
        StartConsumptionFailed, openChannel, declareQueue, bindQueue, consume,
        Requeue, pullNextMessage, Process, PullFailed, PendingCheck,
        popNextPendingChannel
  <2>5. fault' \in {"none", "terminate", "emptyPending", "badName", "badEnvelope"}
    BY <1>1
    DEF Thread, ThreadWhile, ThreadConnect, StartConsumptionEmpty,
        StartConsumptionList, StartConsumptionNext, StartConsumptionDone,
        StartConsumptionFailed, openChannel, declareQueue, bindQueue, consume,
        Requeue, pullNextMessage, Process, PullFailed, PendingCheck,
        popNextPendingChannel
  <2>. QED
    BY <2>1, <2>2, <2>3, <2>4, <2>5
<1>2. ASSUME NEW c \in Controllers, Controller(c)
      PROVE  (/\ m_isInitialized \in BOOLEAN /\ m_threadRunning \in BOOLEAN
              /\ joinable \in BOOLEAN /\ destroyed \in BOOLEAN
              /\ pc \in ThreadPoints
              /\ fault \in {"none", "terminate", "emptyPending", "badName",
                            "badEnvelope"})'
  <2>1. (m_isInitialized \in BOOLEAN /\ destroyed \in BOOLEAN)'
    BY <1>2
    DEF lifeVars, Controller, Start, StopEmpty, StopCheck, StopClearRunning, StopJoin,
        StopCloseConnection, DestroyCheck, Destruct
  <2>2. (m_threadRunning \in BOOLEAN /\ joinable \in BOOLEAN)'
    BY <1>2
    DEF lifeVars, Controller, Start, StopEmpty, StopCheck, StopClearRunning, StopJoin,
        StopCloseConnection, DestroyCheck, Destruct
  <2>3. pc' \in ThreadPoints
    BY <1>2
    DEF ThreadPoints, Controller, Start, StopEmpty, StopCheck, StopClearRunning, StopJoin,
        StopCloseConnection, DestroyCheck, Destruct
  <2>4. fault' \in {"none", "terminate", "emptyPending", "badName", "badEnvelope"}
    BY <1>2
    DEF Controller, Start, StopEmpty, StopCheck, StopClearRunning, StopJoin,
        StopCloseConnection, DestroyCheck, Destruct
  <2>. QED
    BY <2>1, <2>2, <2>3, <2>4
<1>3. ASSUME NEW c \in Controllers, Controller(c)
      PROVE  UNCHANGED <<mode, queueName, retCode>>
  BY <1>3, ControllerLeaves DEF ThreadFrame, setupVars
<1>4. ASSUME NEW s \in Subscribers, Subscriber(s)
      PROVE  UNCHANGED <<m_isInitialized, m_threadRunning, joinable, destroyed,
                         pc, mode, queueName, retCode, fault>>
  BY <1>4, SubscriberLeaves DEF AppFrame, setupVars, lifeVars
<1>5. CASE Initialize
  BY <1>5 DEF Initialize, ThreadFrame, setupVars
<1>6. ASSUME NEW c \in Controllers, NEW op \in Operations, Enter(c, op)
      PROVE  /\ UNCHANGED <<m_isInitialized, m_threadRunning, joinable, pc,
                            mode, queueName, retCode, fault>>
             /\ destroyed' \in BOOLEAN
  BY <1>6 DEF Enter, ThreadFrame, setupVars
<1>7. CASE Environment
  BY <1>7 DEF Environment, setupVars, appVars, lifeVars
<1>8. CASE Terminated
  BY <1>8 DEF Terminated, vars, setupVars, appVars, lifeVars
<1>. QED
  BY <1>1, <1>2, <1>3, <1>4, <1>5, <1>6, <1>7, <1>8 DEF Next

(* Every step leaves m_pendingChannels a sequence of the handler's channels. *)
LEMMA NextPendingType ==
  ASSUME TypeInv, Next
  PROVE  m_pendingChannels' \in Seq(GetChannelList')
<1>. USE DEF TypeInv, TypeOK
<1>1. GetChannelList \subseteq GetChannelList'
  BY HandlerStep
<1>. SUFFICES m_pendingChannels' \in Seq(GetChannelList)
  BY <1>1, SeqMonotonic
<1>2. ASSUME NEW s \in Subscribers, Subscriber(s)
      PROVE  m_pendingChannels' \in Seq(GetChannelList)
  <2>1. CASE SubscribePush(s)
    <3>1. sub[s].channel \in GetChannelList
      BY <2>1 DEF SubscribePush, InHandInv
    <3>2. m_pendingChannels' = Append(m_pendingChannels, sub[s].channel)
      BY <2>1 DEF SubscribePush, pushIntoPendingChannels
    <3>. QED
      BY <3>1, <3>2, AppendProperties
  <2>. QED
    BY <1>2, <2>1
    DEF Subscriber, Subscribe, SubscribeSetProperties, SubscribeCheckRunning
<1>3. CASE Requeue
  <2>1. cur \in GetChannelList
    BY <1>3 DEF Requeue, At, InHandInv, SetupPoints
  <2>2. m_pendingChannels' = Append(m_pendingChannels, cur)
    BY <1>3 DEF Requeue, pushIntoPendingChannels
  <2>. QED
    BY <2>1, <2>2, AppendProperties
<1>4. CASE popNextPendingChannel
  BY <1>4, HeadTailProperties DEF popNextPendingChannel
<1>5. CASE Thread /\ ~Requeue /\ ~popNextPendingChannel
  BY <1>5, EmptySeq
  DEF emptyPendingChannels, Thread, ThreadWhile, ThreadConnect,
      StartConsumptionEmpty, StartConsumptionList, StartConsumptionNext,
      StartConsumptionDone, StartConsumptionFailed, openChannel, declareQueue,
      bindQueue, consume, pullNextMessage, Process, PullFailed, PendingCheck
<1>6. ASSUME NEW c \in Controllers, Controller(c)
      PROVE  m_pendingChannels' \in Seq(GetChannelList)
  BY <1>6, EmptySeq
  DEF emptyPendingChannels, Controller, Start, StopEmpty, StopCheck, StopClearRunning, StopJoin,
      StopCloseConnection, DestroyCheck, Destruct
<1>. QED
  BY <1>2, <1>3, <1>4, <1>5, <1>6
  DEF Next, Initialize, Enter, Environment, Terminated, vars

(* What a thread step does to the session's queues and consumers, and to    *)
(* the channels it has in hand.                                             *)
LEMMA ThreadSets ==
  ASSUME TypeInv, Thread
  PROVE  /\ queues' \subseteq GetChannelList /\ consuming' \subseteq GetChannelList
         /\ todo' \subseteq GetChannelList /\ cur' \in GetChannelList \cup {0}
         /\ pc' \in SetupPoints => cur' \in GetChannelList
<1>. USE DEF TypeInv, TypeOK, InHandInv, SetupPoints
<1>1. queues' \subseteq GetChannelList
  BY DEF Thread, ThreadWhile, ThreadConnect, StartConsumptionEmpty,
         StartConsumptionList, StartConsumptionNext, StartConsumptionDone,
         StartConsumptionFailed, openChannel, declareQueue, bindQueue, consume,
         Requeue, pullNextMessage, Process, PullFailed, PendingCheck,
         popNextPendingChannel,
         consumeVars, ConnectSession, CloseSession, DropQueues, DeclareQueue,
         amqp_queue_declare, BindQueue, StartConsumption, ConsumeMessage, At
<1>2. consuming' \subseteq GetChannelList
  BY DEF Thread, ThreadWhile, ThreadConnect, StartConsumptionEmpty,
         StartConsumptionList, StartConsumptionNext, StartConsumptionDone,
         StartConsumptionFailed, openChannel, declareQueue, bindQueue, consume,
         Requeue, pullNextMessage, Process, PullFailed, PendingCheck,
         popNextPendingChannel,
         consumeVars, ConnectSession, CloseSession, DropQueues, DeclareQueue,
         BindQueue, StartConsumption, amqp_basic_consume, ConsumeMessage, At
<1>3. todo' \subseteq GetChannelList
  BY DEF Thread, ThreadWhile, ThreadConnect, StartConsumptionEmpty,
         StartConsumptionList, StartConsumptionNext, StartConsumptionDone,
         StartConsumptionFailed, openChannel, declareQueue, bindQueue, consume,
         Requeue, pullNextMessage, Process, PullFailed, PendingCheck,
         popNextPendingChannel,
         setupVars, LeaveSetup
<1>4. CASE popNextPendingChannel
  <2>1. pc' \in SetupPoints => m_pendingChannels # <<>> /\ cur' = Head(m_pendingChannels)
    BY <1>4 DEF popNextPendingChannel, At
  <2>2. cur' = cur \/ (m_pendingChannels # <<>> /\ cur' = Head(m_pendingChannels))
    BY <1>4 DEF popNextPendingChannel
  <2>3. m_pendingChannels # <<>> => Head(m_pendingChannels) \in GetChannelList
    BY HeadTailProperties
  <2>. QED
    BY <1>1, <1>2, <1>3, <2>1, <2>2, <2>3
<1>5. CASE ~popNextPendingChannel
  <2>1. cur' \in GetChannelList \cup {0} /\ (pc' \in SetupPoints => cur' \in GetChannelList)
    BY <1>5
    DEF Thread, ThreadWhile, ThreadConnect, StartConsumptionEmpty,
        StartConsumptionList, StartConsumptionNext, StartConsumptionDone,
        StartConsumptionFailed, openChannel, declareQueue, bindQueue, consume,
        Requeue, pullNextMessage, Process, PullFailed, PendingCheck,
        setupVars, LeaveSetup, At
  <2>. QED
    BY <1>1, <1>2, <1>3, <2>1
<1>. QED
  BY <1>4, <1>5

(* Every step leaves those sets the handler's. *)
LEMMA NextSetsType ==
  ASSUME TypeInv, Next
  PROVE  (/\ queues \subseteq GetChannelList /\ consuming \subseteq GetChannelList
          /\ todo \subseteq GetChannelList /\ cur \in GetChannelList \cup {0}
          /\ pc \in SetupPoints => cur \in GetChannelList)'
<1>. USE DEF TypeInv, TypeOK, InHandInv
<1>1. GetChannelList \subseteq GetChannelList'
  BY HandlerStep
<1>2. CASE Thread
  BY <1>1, <1>2, ThreadSets DEF SetupPoints
<1>3. ASSUME UNCHANGED setupVars,
             UNCHANGED consumeVars \/ DropQueues,
             pc' = pc \/ pc' \in {"none", "while"}
      PROVE  (/\ queues \subseteq GetChannelList /\ consuming \subseteq GetChannelList
              /\ todo \subseteq GetChannelList /\ cur \in GetChannelList \cup {0}
              /\ pc \in SetupPoints => cur \in GetChannelList)'
  BY <1>1, <1>3 DEF setupVars, consumeVars, DropQueues, SetupPoints
<1>4. ASSUME NEW c \in Controllers, Controller(c)
      PROVE  /\ UNCHANGED consumeVars \/ DropQueues
             /\ pc' = pc \/ pc' \in {"none", "while"}
  BY <1>4 DEF CloseSession, Controller, Start, StopEmpty, StopCheck, StopClearRunning, StopJoin,
              StopCloseConnection, DestroyCheck, Destruct
<1>5. CASE \E c \in Controllers : Controller(c)
  BY <1>3, <1>4, <1>5, ControllerLeaves DEF ThreadFrame
<1>6. CASE \E s \in Subscribers : Subscriber(s)
  BY <1>3, <1>6, SubscriberLeaves DEF AppFrame
<1>7. CASE Initialize \/ Environment \/ Terminated
  BY <1>3, <1>7 DEF Initialize, Environment, Terminated, vars, ThreadFrame
<1>8. ASSUME NEW c \in Controllers, NEW op \in Operations, Enter(c, op)
      PROVE  UNCHANGED setupVars /\ UNCHANGED consumeVars /\ pc' = pc
  BY <1>8 DEF Enter, ThreadFrame
<1>9. CASE \E c \in Controllers, op \in Operations : Enter(c, op)
  BY <1>3, <1>8, <1>9
<1>. QED
  BY <1>2, <1>5, <1>6, <1>7, <1>9 DEF Next

(* A controller that moves on is at the new point of the same call. *)
LEMMA Moved ==
  ASSUME ctl \in [Controllers -> Call], NEW c \in Controllers, NEW point,
         MoveTo(c, point)
  PROVE  /\ ctl'[c].at = point /\ ctl'[c].op = ctl[c].op
         /\ point \in CallPoints => ctl' \in [Controllers -> Call]
<1>1. /\ ctl'[c] = [ctl[c] EXCEPT !.at = point]
      /\ ctl' = [ctl EXCEPT ![c] = [ctl[c] EXCEPT !.at = point]]
  BY DEF MoveTo
<1>2. ctl[c] \in [at : CallPoints,
                  op : {"none", "Start", "Stop", "Restart", "Destroy"}]
  BY DEF Call
<1>. QED
  BY <1>1, <1>2 DEF Call

(* One that returns is idle. *)
LEMMA Returned ==
  ASSUME ctl \in [Controllers -> Call], NEW c \in Controllers, Return(c)
  PROVE  ctl'[c] = Idle /\ ctl' \in [Controllers -> Call]
<1>1. Idle \in Call
  BY DEF Idle, Call, CallPoints
<1>. QED
  BY <1>1 DEF Return

(* Where Stop goes after its tests and after closing the connection. *)
LEMMA StopMoves ==
  ASSUME NEW c \in Controllers
  PROVE  /\ StopCheck(c) =>
              \/ /\ m_isInitialized /\ m_threadRunning
                 /\ MoveTo(c, "clearRunning")
              \/ /\ ~(m_isInitialized /\ m_threadRunning)
                 /\ MoveTo(c, "destruct") \/ Return(c)
         /\ \A ret : AfterStop(c, ret) =>
              MoveTo(c, "start") \/ MoveTo(c, "destruct") \/ Return(c)
<1>1. StopCheck(c) =>
        \/ /\ m_isInitialized /\ m_threadRunning
           /\ MoveTo(c, "clearRunning")
        \/ /\ ~(m_isInitialized /\ m_threadRunning)
           /\ MoveTo(c, "destruct") \/ Return(c)
  BY DEF StopCheck
<1>2. ASSUME NEW ret, AfterStop(c, ret)
      PROVE  MoveTo(c, "start") \/ MoveTo(c, "destruct") \/ Return(c)
  <2>1. CASE ctl[c].op = "Restart" /\ noError(ret)
    BY <1>2, <2>1 DEF AfterStop
  <2>2. CASE ~(ctl[c].op = "Restart" /\ noError(ret)) /\ ctl[c].op = "Destroy"
    BY <1>2, <2>2 DEF AfterStop
  <2>3. CASE ~(ctl[c].op = "Restart" /\ noError(ret)) /\ ctl[c].op # "Destroy"
    BY <1>2, <2>3 DEF AfterStop
  <2>. QED
    BY <2>1, <2>2, <2>3
<1>. QED
  BY <1>1, <1>2

(* Every step leaves the controllers well typed. *)
LEMMA NextCtlType ==
  ASSUME TypeInv, Next
  PROVE  ctl' \in [Controllers -> Call]
<1>. USE DEF TypeInv, TypeOK
<1>1. ASSUME NEW c \in Controllers, NEW op \in Operations, Enter(c, op)
      PROVE  ctl' \in [Controllers -> Call]
  <2>1. [at |-> Entry[op], op |-> op] \in Call
    BY ConsumerOperationsAssumption DEF Entry, Call, CallPoints
  <2>. QED
    BY <1>1, <2>1 DEF Enter
<1>2. ASSUME NEW c \in Controllers, Controller(c)
      PROVE  ctl' \in [Controllers -> Call]
  <2>1. \/ UNCHANGED ctl \/ Return(c)
        \/ \E point \in CallPoints : MoveTo(c, point)
    BY <1>2, StopMoves
    DEF CallPoints, Controller, Start, StopEmpty, StopClearRunning, StopJoin,
        StopCloseConnection, DestroyCheck, Destruct
  <2>. QED
    BY <2>1, Moved, Returned
<1>. QED
  BY <1>1, <1>2, ThreadLeavesApp, SubscriberLeaves
  DEF Next, appVars, AppFrame, Initialize, Environment, Terminated, vars

(* A subscriber's step leaves its record well typed and its channel one of  *)
(* the handler's.                                                           *)
LEMMA SubscriberStep ==
  ASSUME TypeInv, NEW s \in Subscribers, Subscriber(s)
  PROVE  \/ sub' = sub
         \/ \E r \in [at : {"idle", "props", "running", "push"},
                      channel : GetChannelList' \cup {0}] :
              /\ sub' = [sub EXCEPT ![s] = r]
              /\ r.at # "idle" => r.channel \in GetChannelList'
<1>. USE DEF TypeInv, TypeOK, InHandInv
<1>0. sub[s] \in [at : {"idle", "props", "running", "push"},
                  channel : GetChannelList \cup {0}]
  OBVIOUS
<1>1. ASSUME sub' = [sub EXCEPT ![s] = NotSubscribing]
      PROVE  \E r \in [at : {"idle", "props", "running", "push"},
                       channel : GetChannelList' \cup {0}] :
               /\ sub' = [sub EXCEPT ![s] = r]
               /\ r.at # "idle" => r.channel \in GetChannelList'
  <2>1. /\ NotSubscribing \in [at : {"idle", "props", "running", "push"},
                               channel : GetChannelList' \cup {0}]
        /\ NotSubscribing.at = "idle"
    BY DEF NotSubscribing
  <2>. USE <2>1
  <2>. WITNESS NotSubscribing \in [at : {"idle", "props", "running", "push"},
                                   channel : GetChannelList' \cup {0}]
  <2>. QED
    BY <1>1
<1>2. ASSUME NEW pair \in BindingPairs, Subscribe(s, pair), ~HasProcessor(pair)
      PROVE  \E r \in [at : {"idle", "props", "running", "push"},
                       channel : GetChannelList' \cup {0}] :
               /\ sub' = [sub EXCEPT ![s] = r]
               /\ r.at # "idle" => r.channel \in GetChannelList'
  <2>1. m_nextAvailableChannel \in GetChannelList'
    BY <1>2 DEF Subscribe, AddChannelProcessor, NewChannel, GetChannelList
  <2>2. sub' = [sub EXCEPT ![s] = [at |-> "props",
                                   channel |-> m_nextAvailableChannel]]
    BY <1>2 DEF Subscribe
  <2>3. [at |-> "props", channel |-> m_nextAvailableChannel]
          \in [at : {"idle", "props", "running", "push"},
               channel : GetChannelList' \cup {0}]
    BY <2>1
  <2>. WITNESS [at |-> "props", channel |-> m_nextAvailableChannel]
                 \in [at : {"idle", "props", "running", "push"},
                      channel : GetChannelList' \cup {0}]
  <2>. QED
    BY <2>1, <2>2
<1>3. CASE SubscribeSetProperties(s)
  <2>1. /\ GetChannelList' = GetChannelList
        /\ sub' = [sub EXCEPT ![s] = [sub[s] EXCEPT !.at = "running"]]
        /\ sub[s].at = "props"
    BY <1>3 DEF SubscribeSetProperties, SetQueueProperties, GetChannelList
  <2>2. [sub[s] EXCEPT !.at = "running"] = [at |-> "running", channel |-> sub[s].channel]
    BY <1>0
  <2>. QED
    BY <1>0, <2>1, <2>2
<1>4. CASE SubscribeCheckRunning(s)
  <2>1. /\ GetChannelList' = GetChannelList
        /\ \/ sub' = [sub EXCEPT ![s] = [sub[s] EXCEPT !.at = "push"]]
           \/ sub' = [sub EXCEPT ![s] = NotSubscribing]
        /\ sub[s].at = "running"
    BY <1>4 DEF SubscribeCheckRunning, handlerVars, GetChannelList
  <2>2. [sub[s] EXCEPT !.at = "push"] = [at |-> "push", channel |-> sub[s].channel]
    BY <1>0
  <2>3. [at |-> "push", channel |-> sub[s].channel]
          \in [at : {"idle", "props", "running", "push"},
               channel : GetChannelList' \cup {0}]
    BY <1>0, <2>1
  <2>4. sub[s].channel \in GetChannelList'
    BY <2>1
  <2>5. CASE sub' = [sub EXCEPT ![s] = [sub[s] EXCEPT !.at = "push"]]
    BY <2>2, <2>3, <2>4, <2>5
  <2>6. CASE sub' = [sub EXCEPT ![s] = NotSubscribing]
    BY <1>1, <2>6
  <2>. QED
    BY <2>1, <2>5, <2>6
<1>5. CASE SubscribePush(s)
  BY <1>5, <1>1 DEF SubscribePush
<1>6. ASSUME NEW pair \in BindingPairs, Subscribe(s, pair), HasProcessor(pair)
      PROVE  sub' = sub
  BY <1>6 DEF Subscribe
<1>. QED
  BY <1>2, <1>3, <1>4, <1>5, <1>6 DEF Subscriber

(* Every step leaves the subscribers well typed. *)
LEMMA NextSubType ==
  ASSUME TypeInv, Next
  PROVE  (/\ sub \in [Subscribers -> [at : {"idle", "props", "running", "push"},
                                      channel : GetChannelList \cup {0}]]
          /\ \A s \in Subscribers : sub[s].at # "idle" => sub[s].channel \in GetChannelList)'
<1>. USE DEF TypeInv, TypeOK, InHandInv
<1>1. GetChannelList \subseteq GetChannelList'
  BY HandlerStep
<1>2. /\ sub \in [Subscribers -> [at : {"idle", "props", "running", "push"},
                                  channel : GetChannelList' \cup {0}]]
      /\ \A s \in Subscribers : sub[s].at # "idle" => sub[s].channel \in GetChannelList'
  BY <1>1
<1>3. CASE \E s \in Subscribers : Subscriber(s)
  BY <1>2, <1>3, SubscriberStep
<1>4. CASE sub' = sub
  BY <1>2, <1>4
<1>. QED
  BY <1>3, <1>4, ThreadLeavesApp, ControllerLeaves
  DEF Next, appVars, ThreadFrame, Initialize, Enter, Environment, Terminated, vars

(* The type invariant with the channels in hand is an invariant. *)
THEOREM TypeInvariant == Spec => []TypeInv
<1>1. Init => TypeInv
  BY InitType
<1>2. TypeInv /\ [Next]_vars => TypeInv'
  <2>1. ASSUME TypeInv, UNCHANGED vars PROVE TypeInv'
    BY <2>1
    DEF TypeInv, TypeOK, InHandInv, ConnTypeOK, HandlerTypeOK, GetChannelList,
        vars, connVars, consumeVars, setupVars, appVars, handlerVars, lifeVars
  <2>2. ASSUME TypeInv, Next PROVE TypeInv'
    BY <2>2, NextConnType, HandlerStep, NextFlagType, NextPendingType,
       NextSetsType, NextCtlType, NextSubType
    DEF TypeInv, TypeOK, InHandInv
  <2>. QED
    BY <2>1, <2>2
<1>. QED
  BY <1>1, <1>2, PTL DEF Spec

(* Every value is of its type in every state, for every set of subscribers, *)
(* controllers and binding pairs; in particular the pending channels, the   *)
(* queues and whatever the loop and the retries have in hand are channels   *)
(* the handler has handed out.                                              *)
THEOREM TypeCorrect == Spec => []TypeOK
<1>1. TypeInv => TypeOK
  BY DEF TypeInv
<1>. QED
  BY <1>1, TypeInvariant, PTL

-----------------------------------------------------------------------------
(* The handler and the session                                              *)

(* Every step leaves the session only channels that it had or that the      *)
(* handler has handed out: OpenChannel is given a channel of the handler.   *)
LEMMA SessionChannels ==
  ASSUME TypeInv, Next
  PROVE  (openCh \cup closingCh)' \subseteq openCh \cup closingCh \cup GetChannelList
<1>1. CASE UNCHANGED <<openCh, closingCh>>
  BY <1>1
<1>2. ASSUME NEW ret, CloseSession(ret) \/ ConnectSession(ret)
      PROVE  (openCh \cup closingCh)' \subseteq openCh \cup closingCh
  BY <1>2 DEF CloseSession, CloseConnection, ConnectSession, Connect
<1>3. CASE openChannel
  <2>1. cur \in GetChannelList
    BY <1>3 DEF TypeInv, InHandInv, SetupPoints, openChannel, At
  <2>2. PICK ret : OpenChannel(cur, ret)
    BY <1>3 DEF openChannel
  <2>3. (openCh \cup closingCh)' \subseteq openCh \cup closingCh \cup {cur}
    BY <2>2
    DEF OpenChannel, amqp_channel_open, RpcOnDeadLink, RpcRefused, RpcFault
  <2>. QED
    BY <2>1, <2>3
<1>4. CASE ConsumeCall
  BY <1>4, ConsumeCallLink
<1>5. CASE Thread
  <2>1. \/ UNCHANGED connVars \/ ConsumeCall \/ openChannel
        \/ \E ret : CloseSession(ret) \/ ConnectSession(ret)
    BY <1>5
    DEF Thread, ThreadWhile, ThreadConnect, StartConsumptionEmpty,
        StartConsumptionList, StartConsumptionNext, StartConsumptionDone,
        StartConsumptionFailed, declareQueue, bindQueue, consume,
        Requeue, pullNextMessage, Process, PullFailed, PendingCheck,
        popNextPendingChannel, ConsumeCall
  <2>. QED
    BY <1>1, <1>2, <1>3, <1>4, <2>1 DEF connVars
<1>6. ASSUME NEW c \in Controllers, Controller(c)
      PROVE  UNCHANGED connVars \/ \E ret : CloseSession(ret)
  BY <1>6
  DEF Controller, Start, StopEmpty, StopCheck, StopClearRunning, StopJoin,
      StopCloseConnection, DestroyCheck, Destruct
<1>7. ASSUME NEW s \in Subscribers, Subscriber(s) PROVE UNCHANGED connVars
  BY <1>7, SubscriberLeaves DEF AppFrame
<1>8. CASE Initialize \/ Environment \/ Terminated
  BY <1>8
  DEF Initialize, Environment, BrokerFault, ExchangeAppears, Terminated, vars,
      connVars
<1>. QED
  BY <1>1, <1>2, <1>5, <1>6, <1>7, <1>8 DEF Next, Enter, connVars

(* However many Subscribe calls race, and whatever the broker does: no pair *)
(* has two channels, and the session has no channel the handler does not    *)
(* know.                                                                    *)
THEOREM PairsHaveOneChannel == Spec => []OneChannelPerPair
<1>1. Init => OneChannelPerPair
  BY DEF Init, ConnInit, HandlerInit, OneChannelPerPair, GetChannelList
<1>2. ASSUME TypeInv, OneChannelPerPair, [Next]_vars PROVE OneChannelPerPair'
  <2>1. CASE UNCHANGED vars
    BY <1>2, <2>1
    DEF OneChannelPerPair, GetChannelList, vars, connVars, appVars, handlerVars
  <2>2. CASE Next
    <3>1. (openCh \cup closingCh)' \subseteq GetChannelList'
      BY <1>2, <2>2, SessionChannels, HandlerStep DEF OneChannelPerPair
    <3>2. CASE UNCHANGED m_channelLookup
      BY <1>2, <3>1, <3>2 DEF OneChannelPerPair, GetChannelList
    <3>3. ASSUME NEW s \in Subscribers, NEW pair \in BindingPairs,
                 Subscribe(s, pair), ~HasProcessor(pair)
          PROVE  OneChannelPerPair'
      <4>1. /\ GetChannelList' = GetChannelList \cup {m_nextAvailableChannel}
            /\ m_channelLookup'[m_nextAvailableChannel] = pair
            /\ \A c \in GetChannelList : m_channelLookup[c] # pair
        BY <3>3
        DEF Subscribe, AddChannelProcessor, NewChannel, GetChannelList, HasProcessor
      <4>2. \A c \in GetChannelList : m_channelLookup'[c] = m_channelLookup[c]
        BY <1>2, <2>2, HandlerStep
      <4>. QED
        BY <1>2, <3>1, <4>1, <4>2 DEF OneChannelPerPair
    <3>4. ASSUME NEW s \in Subscribers, Subscriber(s) PROVE OneChannelPerPair'
      BY <3>2, <3>3, <3>4
      DEF Subscriber, Subscribe, AddChannelProcessor, handlerVars,
          SubscribeSetProperties, SetQueueProperties, SubscribeCheckRunning,
          SubscribePush
    <3>. QED
      BY <2>2, <3>2, <3>4, ThreadLeavesApp, ControllerLeaves
      DEF Next, appVars, ThreadFrame, handlerVars, Initialize, Enter,
          Environment, Terminated, vars
  <2>. QED
    BY <1>2, <2>1, <2>2
<1>. QED
  BY <1>1, <1>2, TypeInvariant, PTL DEF Spec

(* A channel without the user's properties is that of a Subscribe which has *)
(* not got to SetQueueProperties: the converse of the order of its steps.   *)
PropertiesInv ==
  \A channel \in GetChannelList \ m_propertiesSet :
    \E s \in Subscribers : sub[s].at = "props" /\ sub[s].channel = channel

(* A step of Subscribe leaves that so. *)
LEMMA PropertiesStep ==
  ASSUME TypeInv, PropertiesInv, NEW s \in Subscribers, Subscriber(s)
  PROVE  PropertiesInv'
<1>. USE DEF PropertiesInv, GetChannelList
<1>0. sub \in [Subscribers -> [at : {"idle", "props", "running", "push"},
                              channel : GetChannelList \cup {0}]]
  BY DEF TypeInv, TypeOK
<1>1. ASSUME NEW pair \in BindingPairs, Subscribe(s, pair), HasProcessor(pair)
      PROVE  PropertiesInv'
  BY <1>1 DEF Subscribe, AddChannelProcessor, handlerVars
<1>2. ASSUME NEW pair \in BindingPairs, Subscribe(s, pair), ~HasProcessor(pair)
      PROVE  PropertiesInv'
  <2>1. /\ DOMAIN m_channelLookup' = DOMAIN m_channelLookup \cup {m_nextAvailableChannel}
        /\ m_propertiesSet' = m_propertiesSet
        /\ sub[s].at = "idle"
        /\ sub' = [sub EXCEPT ![s] = [at |-> "props",
                                      channel |-> m_nextAvailableChannel]]
    BY <1>2 DEF Subscribe, AddChannelProcessor, NewChannel, NotSubscribing
  <2>2. /\ sub'[s].at = "props" /\ sub'[s].channel = m_nextAvailableChannel
        /\ \A r \in Subscribers \ {s} : sub'[r] = sub[r]
    BY <1>0, <2>1
  <2>. QED
    BY <2>1, <2>2
<1>3. CASE SubscribeSetProperties(s)
  <2>1. /\ DOMAIN m_channelLookup' = DOMAIN m_channelLookup
        /\ m_propertiesSet' = m_propertiesSet \cup {sub[s].channel}
        /\ \A r \in Subscribers \ {s} : sub'[r] = sub[r]
    BY <1>0, <1>3 DEF SubscribeSetProperties, SetQueueProperties
  <2>. QED
    BY <2>1
<1>4. CASE SubscribeCheckRunning(s) \/ SubscribePush(s)
  <2>1. /\ UNCHANGED <<m_channelLookup, m_propertiesSet>>
        /\ sub[s].at # "props"
        /\ \A r \in Subscribers \ {s} : sub'[r] = sub[r]
    BY <1>0, <1>4 DEF SubscribeCheckRunning, SubscribePush, handlerVars
  <2>. QED
    BY <2>1
<1>. QED
  BY <1>1, <1>2, <1>3, <1>4 DEF Subscriber

(* Subscribe publishes a channel before it sets its properties, and the     *)
(* thread may declare its queue in between; for every number of subscribers *)
(* and controllers that is the only time a queue gets the default ones.     *)
THEOREM DefaultsAreTransient == Spec => []DefaultsOnlyWhileSubscribing
<1>1. Init => PropertiesInv
  BY DEF Init, HandlerInit, PropertiesInv, GetChannelList
<1>2. ASSUME TypeInv, PropertiesInv, [Next]_vars PROVE PropertiesInv'
  <2>1. CASE UNCHANGED <<m_channelLookup, m_propertiesSet, sub>>
    BY <1>2, <2>1 DEF PropertiesInv, GetChannelList
  <2>2. CASE \E s \in Subscribers : Subscriber(s)
    BY <1>2, <2>2, PropertiesStep
  <2>. QED
    BY <1>2, <2>1, <2>2, ThreadLeavesApp, ControllerLeaves
    DEF Next, appVars, ThreadFrame, handlerVars, Initialize, Enter,
        Environment, Terminated, vars
<1>3. TypeInv /\ PropertiesInv => DefaultsOnlyWhileSubscribing
  BY DEF TypeInv, InHandInv, SetupPoints, PropertiesInv,
         DefaultsOnlyWhileSubscribing, BeingSubscribed
<1>. QED
  BY <1>1, <1>2, <1>3, TypeInvariant, PTL DEF Spec

-----------------------------------------------------------------------------
(* The life of the thread: the inductive invariant                          *)

(* All the calls of Start, Stop, Restart and ~Consumer come from one thread. *)
OneController == \A c, d \in Controllers : c = d

(* Each point of a call knows how the std::thread and m_threadRunning       *)
(* stand: they differ only between the two halves of Stop.                  *)
CallInv(c) ==
  /\ ctl[c].at \in {"idle", "start", "stopEmpty", "stopCheck", "destroyCheck"} =>
       (m_threadRunning <=> joinable)
  /\ ctl[c].at = "clearRunning" => m_threadRunning /\ joinable
  /\ ctl[c].at = "join" => ~m_threadRunning /\ joinable
  /\ ctl[c].at \in {"closeConn", "destruct", "gone"} =>
       ~m_threadRunning /\ ~joinable

ControlInv ==
  /\ joinable <=> pc # "none"
  /\ m_threadRunning => m_isInitialized
  /\ \A c \in Controllers : CallInv(c)

(* What the thread knows of the connection, and what the flags say of it.   *)
LinkInv ==
  /\ m_isConnected => m_conn = "live"
  /\ session => m_isConnected
  /\ pc \in {"declare", "bind", "consume"} => m_isConnected
  /\ m_isConnected =>
       pc # "none" \/ \E c \in Controllers : ctl[c].at = "closeConn"

LifeInv == ControlInv /\ LinkInv /\ NoTerminate /\ OnlyStopEmpties

-----------------------------------------------------------------------------
(* Every step keeps each part                                               *)

(* The thread runs on while it runs, and never stops the process by         *)
(* std::terminate.                                                          *)
LEMMA ThreadRuns ==
  ASSUME Thread
  PROVE  pc # "none" /\ pc' # "none" /\ fault' # "terminate"
BY DEF Thread, ThreadWhile, ThreadConnect, StartConsumptionEmpty,
       StartConsumptionList, StartConsumptionNext, StartConsumptionDone,
       StartConsumptionFailed, openChannel, declareQueue, bindQueue, consume,
       Requeue, LeaveSetup, pullNextMessage, Process, PullFailed, PendingCheck,
       popNextPendingChannel, At

(* Subscribers, the thread and the broker change no call, no std::thread    *)
(* and no running flag.                                                     *)
LEMMA OutsideStep ==
  ASSUME Next, ~Initialize,
         \A c \in Controllers, op \in Operations : ~Enter(c, op),
         \A c \in Controllers : ~Controller(c)
  PROVE  /\ UNCHANGED <<m_isInitialized, joinable, m_threadRunning, ctl>>
         /\ pc' = "none" <=> pc = "none"
<1>1. CASE Thread
  BY <1>1, ThreadRuns, ThreadLeavesApp DEF appVars, lifeVars
<1>2. CASE \E s \in Subscribers : Subscriber(s)
  BY <1>2, SubscriberLeaves DEF AppFrame, lifeVars
<1>3. CASE Environment \/ Terminated
  BY <1>3 DEF Environment, Terminated, vars, appVars, lifeVars
<1>. QED
  BY <1>1, <1>2, <1>3 DEF Next

(* The calls, the std::thread and the flags stay in step. *)
LEMMA ControlStep ==
  ASSUME TypeInv, OneController, LifeInv, Next
  PROVE  ControlInv'
<1>. USE DEF TypeInv, TypeOK, LifeInv
<1>1. CASE Initialize
  BY <1>1 DEF Initialize, ControlInv, CallInv, Idle
<1>2. ASSUME NEW c \in Controllers, NEW op \in Operations, Enter(c, op)
      PROVE  ControlInv'
  <2>1. ctl'[c].at \in {"start", "stopEmpty", "destroyCheck"}
    BY <1>2, ConsumerOperationsAssumption DEF Enter, Entry
  <2>2. UNCHANGED <<m_isInitialized, joinable, m_threadRunning, pc>> /\ ctl[c].at = "idle"
    BY <1>2 DEF Enter, Idle
  <2>. QED
    BY <2>1, <2>2 DEF OneController, ControlInv, CallInv
<1>3. ASSUME NEW c \in Controllers, Controller(c) PROVE ControlInv'
  <2>. SUFFICES /\ (joinable <=> pc # "none")'
                /\ (m_threadRunning => m_isInitialized)'
                /\ CallInv(c)'
    BY DEF OneController, ControlInv
  <2>. USE DEF ControlInv, CallInv
  <2>1. CASE Start(c)
    BY <2>1, Returned DEF Start, StartAllowed, CtlAt, Idle
  <2>2. CASE StopEmpty(c)
    BY <2>2, Moved DEF StopEmpty, CtlAt, lifeVars
  <2>3. CASE StopCheck(c)
    BY <2>3, StopMoves, Moved, Returned DEF StopCheck, CtlAt, lifeVars, Idle
  <2>4. CASE StopClearRunning(c)
    BY <2>4, Moved DEF StopClearRunning, CtlAt, lifeVars
  <2>5. CASE StopJoin(c)
    BY <2>5, Moved DEF StopJoin, CtlAt
  <2>6. CASE StopCloseConnection(c)
    BY <2>6, StopMoves, Moved, Returned
    DEF StopCloseConnection, CtlAt, lifeVars, Idle
  <2>7. CASE DestroyCheck(c)
    BY <2>7, Moved DEF DestroyCheck, CtlAt, lifeVars
  <2>8. CASE Destruct(c)
    BY <2>8, Moved DEF Destruct, CtlAt
  <2>. QED
    BY <1>3, <2>1, <2>2, <2>3, <2>4, <2>5, <2>6, <2>7, <2>8 DEF Controller
<1>. QED
  BY <1>1, <1>2, <1>3, OutsideStep DEF ControlInv, CallInv

(* No call assigns to, joins or destroys a std::thread in the wrong state. *)
LEMMA TerminateStep ==
  ASSUME TypeInv, LifeInv, Next
  PROVE  NoTerminate'
<1>. USE DEF LifeInv, NoTerminate, ControlInv, CallInv
<1>1. ASSUME NEW c \in Controllers, Controller(c) PROVE fault' # "terminate"
  BY <1>1
  DEF TypeInv, TypeOK, Controller, Start, StartAllowed, StopEmpty, StopCheck,
      StopClearRunning, StopJoin, StopCloseConnection, DestroyCheck, Destruct,
      CtlAt
<1>. QED
  BY <1>1, ThreadRuns, SubscriberLeaves
  DEF Next, AppFrame, Initialize, Enter, Environment, Terminated, vars

(* What a call on the connection does to the flag, the handle and the       *)
(* session.                                                                 *)
LEMMA LinkCalls ==
  ASSUME LinkInv
  PROVE  /\ \A ret : CloseSession(ret) => ~m_isConnected' /\ ~session'
         /\ \A ret : ConnectSession(ret) /\ ~m_isConnected =>
              m_conn' = "live" /\ (session' => m_isConnected')
         /\ \A channel, ret : OpenChannel(channel, ret) /\ noError(ret) =>
              m_isConnected
<1>1. ASSUME NEW ret, CloseSession(ret) PROVE ~m_isConnected' /\ ~session'
  BY <1>1 DEF LinkInv, CloseSession, CloseConnection
<1>2. ASSUME NEW ret, ConnectSession(ret), ~m_isConnected
      PROVE  m_conn' = "live" /\ (session' => m_isConnected')
  BY <1>2 DEF LinkInv, ConnectSession, Connect
<1>3. ASSUME NEW channel, NEW ret, OpenChannel(channel, ret), noError(ret)
      PROVE  m_isConnected
  BY <1>3 DEF OpenChannel, noError
<1>. QED
  BY <1>1, <1>2, <1>3

(* The thread keeps the link to the connection. *)
LEMMA ThreadLink ==
  ASSUME TypeInv, LifeInv, Thread
  PROVE  LinkInv'
<1>0. pc' # "none" /\ LinkInv /\ m_isConnected \in BOOLEAN
  BY ThreadRuns DEF LifeInv, TypeInv, TypeOK, ConnTypeOK
<1>. USE DEF LinkInv
<1>1. CASE ThreadConnect
  <2>1. CASE m_isConnected
    BY <1>0, <1>1, <2>1 DEF ThreadConnect, connVars
  <2>2. CASE ~m_isConnected
    BY <1>0, <1>1, <2>2, LinkCalls DEF ThreadConnect
  <2>. QED
    BY <2>1, <2>2
<1>2. CASE openChannel
  <2>1. UNCHANGED <<m_isConnected, m_conn>> /\ (session' => session)
    BY <1>2, RpcKeepsLink DEF openChannel
  <2>2. pc' \in {"declare", "requeue"} /\ (pc' = "declare" => m_isConnected)
    BY <1>0, <1>2, LinkCalls DEF openChannel
  <2>. QED
    BY <1>0, <2>1, <2>2
<1>3. CASE declareQueue \/ bindQueue \/ consume
  <2>1. ConsumeCall /\ pc \in {"declare", "bind", "consume"}
    BY <1>3 DEF declareQueue, bindQueue, consume, ConsumeCall, At
  <2>. QED
    BY <1>0, <2>1, ConsumeCallLink
<1>4. CASE pullNextMessage
  <2>1. pc' \notin {"declare", "bind", "consume"} /\ (ConsumeCall \/ UNCHANGED connVars)
    BY <1>4 DEF pullNextMessage, ConsumeCall
  <2>. QED
    BY <1>0, <2>1, ConsumeCallLink DEF connVars
<1>5. CASE StartConsumptionFailed \/ PullFailed
  <2>1. pc' = "pendCheck" /\ (UNCHANGED connVars \/ \E ret : CloseSession(ret))
    BY <1>5 DEF StartConsumptionFailed, PullFailed
  <2>. QED
    BY <1>0, <2>1, LinkCalls DEF connVars
<1>6. CASE UNCHANGED connVars /\ pc' \notin {"declare", "bind", "consume"}
  BY <1>0, <1>6 DEF connVars
<1>. QED
  BY <1>1, <1>2, <1>3, <1>4, <1>5, <1>6
  DEF Thread, ThreadWhile, StartConsumptionEmpty, StartConsumptionList,
      StartConsumptionNext, StartConsumptionDone, Requeue, LeaveSetup, Process,
      PendingCheck, popNextPendingChannel, At

(* So does every other step: a call closes the connection behind the thread *)
(* and leaves the others to it.                                             *)
LEMMA LinkStep ==
  ASSUME TypeInv, OneController, LifeInv, Next
  PROVE  LinkInv'
<1>. USE DEF LifeInv
<1>1. CASE Thread
  BY <1>1, ThreadLink
<1>2. ASSUME NEW c \in Controllers, Controller(c), UNCHANGED connVars
      PROVE  LinkInv'
  <2>1. CASE Start(c) \/ StopJoin(c)
    <3>1. pc' = pc \/ pc' = "while" \/ (pc' = "none" /\ MoveTo(c, "closeConn"))
      BY <2>1 DEF Start, StopJoin
    <3>2. pc' = "while" \/ ctl'[c].at = "closeConn" \/ (pc' = pc /\ ctl[c].at # "closeConn")
      BY <2>1, <3>1, Moved DEF TypeInv, TypeOK, Start, StopJoin, CtlAt
    <3>. QED
      BY <1>2, <3>1, <3>2 DEF connVars, LinkInv, OneController
  <2>2. CASE pc' = pc /\ ctl[c].at # "closeConn"
    BY <1>2, <2>2 DEF connVars, LinkInv, OneController
  <2>3. CASE Destruct(c)
    BY <2>2, <2>3 DEF Destruct, CtlAt
  <2>4. CASE StopCloseConnection(c)
    <3>1. ~m_isConnected' /\ ~session' /\ pc' = pc
      BY <2>4, LinkCalls DEF StopCloseConnection
    <3>2. pc = "none"
      BY <2>4 DEF StopCloseConnection, CtlAt, ControlInv, CallInv
    <3>. QED
      BY <3>1, <3>2 DEF LinkInv
  <2>. QED
    BY <1>2, <2>1, <2>2, <2>3, <2>4
    DEF Controller, StopEmpty, StopCheck, StopClearRunning, DestroyCheck, CtlAt
<1>3. ASSUME NEW c \in Controllers, Controller(c), \E ret : CloseSession(ret)
      PROVE  LinkInv'
  <2>1. ~m_isConnected' /\ ~session'
    BY <1>3, LinkCalls
  <2>2. CASE StopCloseConnection(c) \/ Destruct(c)
    BY <2>1, <2>2
    DEF StopCloseConnection, Destruct, CtlAt, ControlInv, CallInv, LinkInv
  <2>3. CASE ~StopCloseConnection(c) /\ ~Destruct(c)
    BY <1>2, <1>3, <2>3
    DEF Controller, Start, StopEmpty, StopCheck, StopClearRunning, StopJoin,
        DestroyCheck
  <2>. QED
    BY <2>2, <2>3
<1>4. ASSUME NEW c \in Controllers, Controller(c) PROVE LinkInv'
  BY <1>2, <1>3, <1>4
  DEF Controller, Start, StopEmpty, StopCheck, StopClearRunning, StopJoin,
      StopCloseConnection, DestroyCheck, Destruct
<1>5. ASSUME NEW c \in Controllers, NEW op \in Operations, Enter(c, op)
      PROVE  LinkInv'
  BY <1>5 DEF Enter, Idle, OneController, LinkInv, connVars
<1>6. CASE Initialize
  BY <1>6 DEF Initialize, Idle, LinkInv
<1>7. CASE Environment
  <2>1. UNCHANGED <<m_isConnected, m_conn, pc, ctl>> /\ (session' => session)
    BY <1>7, RpcKeepsLink DEF Environment, ExchangeAppears, appVars
  <2>. QED
    BY <2>1 DEF LinkInv
<1>8. CASE (\E s \in Subscribers : Subscriber(s)) \/ Terminated
  BY <1>8, SubscriberLeaves
  DEF AppFrame, connVars, Terminated, vars, appVars, LinkInv
<1>. QED
  BY <1>1, <1>4, <1>5, <1>6, <1>7, <1>8 DEF Next

(* Only Stop empties the pending channels under the thread, and the thread  *)
(* is joined before that Stop gets past the join.                           *)
LEMMA EmptiesStep ==
  ASSUME TypeInv, OneController, LifeInv, Next
  PROVE  OnlyStopEmpties'
<1>. USE DEF LifeInv, OnlyStopEmpties
<1>0. m_pendingChannels \in Seq(GetChannelList) /\ ctl \in [Controllers -> Call]
  BY DEF TypeInv, TypeOK
<1>1. CASE Thread
  <2>1. ctl' = ctl
    BY <1>1, ThreadLeavesApp DEF appVars
  <2>2. pc' = "pendPop" => /\ m_pendingChannels' = m_pendingChannels
                           /\ pc = "pendPop" \/ m_pendingChannels # <<>>
    BY <1>1
    DEF Thread, ThreadWhile, ThreadConnect, StartConsumptionEmpty,
        StartConsumptionList, StartConsumptionNext, StartConsumptionDone,
        StartConsumptionFailed, openChannel, declareQueue, bindQueue, consume,
        Requeue, LeaveSetup, pullNextMessage, Process, PullFailed,
        PendingCheck, popNextPendingChannel
  <2>. QED
    BY <2>1, <2>2
<1>2. ASSUME NEW s \in Subscribers, Subscriber(s) PROVE OnlyStopEmpties'
  <2>1. UNCHANGED <<pc, ctl>>
    BY <1>2, SubscriberLeaves DEF AppFrame
  <2>2. CASE SubscribePush(s)
    <3>1. sub[s].channel \in GetChannelList
      BY <2>2 DEF SubscribePush, TypeInv, InHandInv
    <3>2. m_pendingChannels' = Append(m_pendingChannels, sub[s].channel)
      BY <2>2 DEF SubscribePush, pushIntoPendingChannels
    <3>3. m_pendingChannels' # <<>>
      BY <1>0, <3>1, <3>2, AppendProperties
    <3>. QED
      BY <3>3
  <2>3. CASE m_pendingChannels' = m_pendingChannels
    BY <2>1, <2>3
  <2>. QED
    BY <1>2, <2>2, <2>3
    DEF Subscriber, Subscribe, SubscribeSetProperties, SubscribeCheckRunning
<1>3. ASSUME NEW c \in Controllers, Controller(c) PROVE OnlyStopEmpties'
  <2>. USE DEF ControlInv, CallInv
  <2>1. CASE StopEmpty(c)
    BY <1>0, <2>1, Moved DEF StopEmpty
  <2>2. CASE StopCheck(c)
    <3>1. UNCHANGED <<pc, m_pendingChannels>> /\ ctl[c].at = "stopCheck"
      BY <2>2 DEF StopCheck, CtlAt
    <3>2. pc = "pendPop" => ctl'[c].at = "clearRunning"
      BY <1>0, <2>2, <3>1, StopMoves, Moved
    <3>. QED
      BY <3>1, <3>2
  <2>3. CASE StopClearRunning(c)
    BY <1>0, <2>3, Moved DEF StopClearRunning
  <2>4. CASE StopJoin(c)
    BY <2>4 DEF StopJoin, CtlAt
  <2>5. CASE Start(c)
    BY <2>5 DEF Start, CtlAt, OneController
  <2>6. CASE StopCloseConnection(c) \/ DestroyCheck(c) \/ Destruct(c)
    BY <2>6
    DEF StopCloseConnection, DestroyCheck, Destruct, CtlAt, OneController
  <2>. QED
    BY <1>3, <2>1, <2>2, <2>3, <2>4, <2>5, <2>6 DEF Controller
<1>4. ASSUME NEW c \in Controllers, NEW op \in Operations, Enter(c, op)
      PROVE  OnlyStopEmpties'
  BY <1>4 DEF Enter, Idle, OneController
<1>5. CASE Initialize \/ Environment \/ Terminated
  BY <1>5 DEF Initialize, Environment, Terminated, vars, appVars
<1>. QED
  BY <1>1, <1>2, <1>3, <1>4, <1>5 DEF Next

(* The invariant of the consumer's life. *)
THEOREM LifeInvariant ==
  ASSUME OneController PROVE Spec => []LifeInv
<1>1. Init => LifeInv
  BY DEF Init, ConnInit, LifeInv, ControlInv, CallInv, LinkInv, NoTerminate,
         OnlyStopEmpties, Idle
<1>2. ASSUME TypeInv, LifeInv, [Next]_vars PROVE LifeInv'
  <2>1. CASE UNCHANGED vars
    BY <1>2, <2>1
    DEF LifeInv, ControlInv, CallInv, LinkInv, NoTerminate, OnlyStopEmpties,
        vars, connVars, appVars, lifeVars
  <2>2. CASE Next
    BY <1>2, <2>2, ControlStep, LinkStep, TerminateStep, EmptiesStep DEF LifeInv
  <2>. QED
    BY <1>2, <2>1, <2>2
<1>. QED
  BY <1>1, <1>2, TypeInvariant, PTL DEF Spec

(* DeclareQueue, BindQueue and StartConsumption always find a live handle,  *)
(* although they do not test for one and a pending channel is tried with no *)
(* connection too.                                                          *)
THEOREM UsesLiveHandles ==
  ASSUME OneController PROVE Spec => []HandleLive
<1>1. LifeInv => HandleLive
  BY DEF LifeInv, LinkInv, HandleLive
<1>. QED
  BY <1>1, LifeInvariant, PTL

(* Start, Stop, Restart and ~Consumer in any order never assign to, join or *)
(* destroy a std::thread that is not in the state for it.                   *)
THEOREM NeverTerminates ==
  ASSUME OneController PROVE Spec => []NoTerminate
<1>1. LifeInv => NoTerminate
  BY DEF LifeInv
<1>. QED
  BY <1>1, LifeInvariant, PTL

(* Whoever closes the connection in Stop or ~Consumer has joined the thread, *)
(* the only other one that closes.                                           *)
THEOREM ClosesAlone ==
  ASSUME OneController PROVE Spec => []CloseExclusive
<1>1. LifeInv => CloseExclusive
  BY DEF LifeInv, ControlInv, CallInv, CloseExclusive
<1>. QED
  BY <1>1, LifeInvariant, PTL

(* The thread finds m_pendingChannels empty between its test and its pop    *)
(* only while a Stop that emptied it is under way.                          *)
THEOREM PopsWhatItSaw ==
  ASSUME OneController PROVE Spec => []OnlyStopEmpties
<1>1. LifeInv => OnlyStopEmpties
  BY DEF LifeInv
<1>. QED
  BY <1>1, LifeInvariant, PTL

(* After a Stop neither thread nor connection nor session is left. *)
THEOREM StopsClean ==
  ASSUME OneController PROVE Spec => []StoppedClean
<1>1. LifeInv => StoppedClean
  BY DEF LifeInv, ControlInv, LinkInv, StoppedClean, Idle
<1>. QED
  BY <1>1, LifeInvariant, PTL

-----------------------------------------------------------------------------
(* No subscription is lost                                                  *)

(* StartConsumption says ALL_GOOD only for a channel it now consumes, and   *)
(* none that was consumed is dropped.                                       *)
LEMMA StartConsumptionConsumes ==
  ASSUME FaultsReported, NEW channel, NEW ret, StartConsumption(channel, ret)
  PROVE  /\ consuming \subseteq consuming'
         /\ noError(ret) => channel \in consuming' /\ ~serverFailure(ret)
<1>1. PICK reply \in Reply : /\ amqp_basic_consume(channel, reply)
                             /\ ret = decodeRpcReply(reply)
  BY DEF StartConsumption
<1>2. ASSUME RpcFails(channel, reply) PROVE ~noError(ret)
  <2>1. CASE reply \in FaultReplies
    BY <1>1, <2>1 DEF FaultsReported
  <2>2. CASE reply = "CONNECTION_CLOSE"
    BY <1>1, <2>2 DEF decodeRpcReply, noError, LibraryException
  <2>3. CASE reply \in LostReplies \ {"CONNECTION_CLOSE"}
    <3>1. reply \in LibraryException /\ ret = decodeLibraryException(reply)
      BY <1>1, <2>3 DEF LostReplies, LibraryException, decodeRpcReply
    <3>. QED
      BY <2>3, <3>1 DEF LostReplies, decodeLibraryException, noError
  <2>. QED
    BY <1>2, <2>1, <2>2, <2>3
    DEF RpcFails, RpcOnDeadLink, RpcRefused, ChannelFault, RpcFault
<1>. QED
  BY <1>1, <1>2 DEF amqp_basic_consume, noError, serverFailure

(* pushIntoPendingChannels adds its channel behind those that wait. *)
LEMMA PushKeeps ==
  ASSUME TypeInv, NEW x \in GetChannelList, pushIntoPendingChannels(x)
  PROVE  /\ \A channel : Pending(channel) => Pending(channel)'
         /\ Pending(x)'
<1>1. /\ Len(m_pendingChannels') = Len(m_pendingChannels) + 1
      /\ \A i \in 1..Len(m_pendingChannels) :
           m_pendingChannels'[i] = m_pendingChannels[i]
      /\ m_pendingChannels'[Len(m_pendingChannels) + 1] = x
  BY AppendProperties DEF TypeInv, TypeOK, pushIntoPendingChannels
<1>2. Len(m_pendingChannels) \in Nat
  BY LenProperties DEF TypeInv, TypeOK
<1>. QED
  BY <1>1, <1>2 DEF Pending

(* popNextPendingChannel takes the front and leaves the others. *)
LEMMA PopKeeps ==
  ASSUME TypeInv, m_pendingChannels # <<>>,
         m_pendingChannels' = Tail(m_pendingChannels)
  PROVE  \A channel : Pending(channel) =>
           channel = Head(m_pendingChannels) \/ Pending(channel)'
<1>1. /\ Len(m_pendingChannels') = Len(m_pendingChannels) - 1
      /\ \A i \in 1..Len(m_pendingChannels') :
           m_pendingChannels'[i] = m_pendingChannels[i + 1]
      /\ Head(m_pendingChannels) = m_pendingChannels[1]
  BY HeadTailProperties DEF TypeInv, TypeOK
<1>2. Len(m_pendingChannels) \in Nat
  BY LenProperties DEF TypeInv, TypeOK
<1>3. ASSUME NEW channel, NEW i \in 1..Len(m_pendingChannels),
             m_pendingChannels[i] = channel
      PROVE  channel = Head(m_pendingChannels) \/ Pending(channel)'
  <2>1. CASE i = 1
    BY <1>1, <1>3, <2>1
  <2>2. CASE i # 1
    <3>1. i - 1 \in 1..Len(m_pendingChannels') /\ (i - 1) + 1 = i
      BY <1>1, <1>2, <2>2
    <3>. QED
      BY <1>1, <1>3, <3>1 DEF Pending
  <2>. QED
    BY <2>1, <2>2
<1>. QED
  BY <1>3 DEF Pending

(* The thread has listed the channels of this connection and no Stop has    *)
(* thrown the pending ones away.                                            *)
Listed ==
  /\ m_threadRunning /\ m_isConnected
  /\ pc \notin {"scEmpty", "scList", "scClose"}
  /\ \A c \in Controllers : ctl[c].at \notin {"stopCheck", "clearRunning"}

Accounted(channel) ==
  \/ channel \in consuming \cup todo \cup {cur}
  \/ Pending(channel)
  \/ BeingSubscribed(channel)

AllAccounted == \A channel \in GetChannelList : Accounted(channel)

(* Outside setupAndConsume the thread has no channel in hand that the next  *)
(* turn of a loop could overwrite.                                          *)
LostInv ==
  /\ pc \notin SetupPoints => cur = 0
  /\ Listed => AllAccounted

(* The second part is the property. *)
LEMMA LostInvIsProperty == LostInv => NoSubscriptionLost
BY DEF LostInv, Listed, AllAccounted, Accounted, NoSubscriptionLost

(* A step of Subscribe keeps every channel accounted for: its own passes    *)
(* from its hands to the pending ones.                                      *)
LEMMA SubscriberAccounts ==
  ASSUME TypeInv, m_threadRunning, AllAccounted,
         NEW s \in Subscribers, Subscriber(s)
  PROVE  AllAccounted'
<1>0. /\ UNCHANGED <<consuming, todo, cur>>
      /\ 0 \notin GetChannelList
      /\ sub \in [Subscribers -> [at : {"idle", "props", "running", "push"},
                                  channel : GetChannelList \cup {0}]]
  <2>1. UNCHANGED <<consuming, todo, cur>>
    BY SubscriberLeaves DEF AppFrame, consumeVars, setupVars
  <2>2. 0 \notin GetChannelList
    BY DEF TypeInv, TypeOK, HandlerTypeOK, GetChannelList
  <2>. QED
    BY <2>1, <2>2 DEF TypeInv, TypeOK
<1>. USE DEF AllAccounted, Accounted
<1>1. ASSUME UNCHANGED <<m_channelLookup, m_pendingChannels>>,
             \A channel \in GetChannelList :
               BeingSubscribed(channel) => BeingSubscribed(channel)'
      PROVE  AllAccounted'
  BY <1>0, <1>1 DEF GetChannelList, Pending
<1>2. ASSUME NEW pair \in BindingPairs, Subscribe(s, pair), ~HasProcessor(pair)
      PROVE  AllAccounted'
  <2>1. /\ GetChannelList' = GetChannelList \cup {m_nextAvailableChannel}
        /\ m_pendingChannels' = m_pendingChannels
        /\ sub[s].channel = 0
        /\ sub' = [sub EXCEPT ![s] = [at |-> "props",
                                      channel |-> m_nextAvailableChannel]]
    BY <1>2
    DEF Subscribe, AddChannelProcessor, NewChannel, GetChannelList, NotSubscribing
  <2>2. /\ sub'[s].channel = m_nextAvailableChannel
        /\ \A r \in Subscribers \ {s} : sub'[r] = sub[r]
    BY <1>0, <2>1
  <2>. QED
    BY <1>0, <2>1, <2>2 DEF BeingSubscribed, Pending
<1>3. ASSUME NEW pair \in BindingPairs, Subscribe(s, pair), HasProcessor(pair)
      PROVE  AllAccounted'
  BY <1>1, <1>3 DEF Subscribe, AddChannelProcessor, handlerVars, BeingSubscribed
<1>4. CASE SubscribeSetProperties(s) \/ SubscribeCheckRunning(s)
  <2>1. /\ UNCHANGED <<m_channelLookup, m_pendingChannels>>
        /\ \E point : sub' = [sub EXCEPT ![s] = [sub[s] EXCEPT !.at = point]]
    BY <1>4
    DEF SubscribeSetProperties, SetQueueProperties, SubscribeCheckRunning,
        handlerVars
  <2>2. \A r \in Subscribers : sub'[r].channel = sub[r].channel
    BY <1>0, <2>1
  <2>. QED
    BY <1>1, <2>1, <2>2 DEF BeingSubscribed
<1>5. CASE SubscribePush(s)
  <2>1. /\ UNCHANGED m_channelLookup
        /\ sub[s].channel \in GetChannelList
        /\ pushIntoPendingChannels(sub[s].channel)
        /\ \A r \in Subscribers \ {s} : sub'[r] = sub[r]
    BY <1>0, <1>5 DEF SubscribePush, handlerVars, TypeInv, InHandInv
  <2>. QED
    BY <1>0, <2>1, PushKeeps DEF GetChannelList, BeingSubscribed
<1>. QED
  BY <1>2, <1>3, <1>4, <1>5 DEF Subscriber

(* The thread keeps every channel accounted for.  A channel it takes from   *)
(* the list or from the pending ones is in its hands until it is consumed   *)
(* or back among the pending ones.                                          *)
LEMMA ThreadAccounts ==
  ASSUME TypeInv, FaultsReported, LostInv, Thread
  PROVE  LostInv'
<1>0. UNCHANGED <<m_channelLookup, m_threadRunning, ctl, sub>>
  BY ThreadLeavesApp DEF appVars, handlerVars
<1>1. pc' \notin SetupPoints => cur' = 0
  BY DEF LostInv, Thread, ThreadWhile, ThreadConnect, StartConsumptionEmpty,
         StartConsumptionList, StartConsumptionNext, StartConsumptionDone,
         StartConsumptionFailed, openChannel, declareQueue, bindQueue, consume,
         Requeue, LeaveSetup, pullNextMessage, Process, PullFailed,
         PendingCheck, popNextPendingChannel, At, SetupPoints, setupVars
<1>. SUFFICES ASSUME Listed' PROVE AllAccounted'
  BY <1>1 DEF LostInv
<1>2. ASSUME Listed, \A channel \in GetChannelList :
                       channel \in consuming \cup todo \cup {cur} \/ Pending(channel) =>
                       (channel \in consuming \cup todo \cup {cur} \/ Pending(channel))'
      PROVE  AllAccounted'
  BY <1>0, <1>2
  DEF LostInv, AllAccounted, Accounted, BeingSubscribed, GetChannelList
<1>3. /\ pc' \notin {"scEmpty", "scList", "scClose"} /\ m_isConnected'
      /\ m_isConnected /\ pc \notin {"scEmpty", "scList", "scClose"} => Listed
  BY <1>0 DEF Listed
<1>4. ASSUME UNCHANGED <<m_isConnected, consumeVars, todo, cur, m_pendingChannels>>,
             pc \notin {"scEmpty", "scList", "scClose"}
      PROVE  AllAccounted'
  BY <1>2, <1>3, <1>4 DEF consumeVars, Pending
<1>5. CASE ThreadConnect
  <2>1. m_isConnected
    BY <1>3, <1>5 DEF ThreadConnect, ConnectSession, Connect, noError,
                      connectBasicErrors, loginErrors
  <2>. QED
    BY <1>4, <1>5, <2>1 DEF ThreadConnect, At, connVars, setupVars
<1>6. CASE StartConsumptionEmpty
  BY <1>3, <1>6 DEF StartConsumptionEmpty
<1>7. CASE StartConsumptionList
  BY <1>0, <1>7 DEF StartConsumptionList, AllAccounted, Accounted, GetChannelList
<1>8. ASSUME NEW x \in GetChannelList, StartConsumptionNext(x) PROVE AllAccounted'
  <2>1. cur = 0 /\ 0 \notin GetChannelList
    BY <1>8
    DEF LostInv, StartConsumptionNext, At, SetupPoints, TypeInv, TypeOK,
        HandlerTypeOK, GetChannelList
  <2>2. /\ todo' = todo \ {x} /\ cur' = x /\ pc = "scNext"
        /\ UNCHANGED <<m_isConnected, consuming, m_pendingChannels>>
    BY <1>8 DEF StartConsumptionNext, At, connVars, consumeVars
  <2>. QED
    BY <1>2, <1>3, <2>1, <2>2 DEF Pending
<1>9. CASE StartConsumptionFailed
  BY <1>3, <1>9 DEF StartConsumptionFailed, CloseSession, CloseConnection
<1>10. CASE openChannel \/ bindQueue
  BY <1>4, <1>10
  DEF openChannel, OpenChannel, bindQueue, BindQueue, At, setupVars, consumeVars
<1>11. CASE declareQueue
  <2>1. /\ UNCHANGED <<m_isConnected, consuming, todo, cur, m_pendingChannels>>
        /\ pc = "declare"
    BY <1>11 DEF declareQueue, DeclareQueue, At
  <2>. QED
    BY <1>2, <1>3, <2>1 DEF Pending
<1>12. CASE consume
  <2>1. PICK ret \in HARE_ERROR_E :
          /\ StartConsumption(cur, ret)
          /\ IF noError(ret) THEN LeaveSetup(ret)
                             ELSE pc' = "requeue" /\ UNCHANGED setupVars
    BY <1>12 DEF consume
  <2>2. /\ UNCHANGED <<m_isConnected, m_pendingChannels>> /\ pc = "consume"
        /\ consuming \subseteq consuming'
        /\ noError(ret) => cur \in consuming' /\ todo' = todo
    BY <1>12, <2>1, StartConsumptionConsumes
    DEF consume, StartConsumption, At, LeaveSetup
  <2>3. CASE noError(ret)
    BY <1>2, <1>3, <2>2, <2>3 DEF Pending
  <2>4. CASE ~noError(ret)
    BY <1>2, <1>3, <2>1, <2>2, <2>4 DEF Pending, setupVars
  <2>. QED
    BY <2>3, <2>4
<1>13. CASE Requeue
  <2>1. /\ cur \in GetChannelList /\ pushIntoPendingChannels(cur)
        /\ UNCHANGED <<m_isConnected, consuming>> /\ pc = "requeue"
    BY <1>13
    DEF Requeue, At, TypeInv, InHandInv, SetupPoints, connVars, consumeVars
  <2>2. todo' = todo
    BY <1>3, <1>13 DEF Requeue, LeaveSetup
  <2>. QED
    BY <1>2, <1>3, <2>1, <2>2, PushKeeps
<1>14. CASE pullNextMessage
  BY <1>4, <1>14
  DEF pullNextMessage, ConsumeMessage, At, setupVars, connVars, consumeVars
<1>15. CASE PullFailed
  <2>1. UNCHANGED <<m_isConnected, consumeVars>>
    BY <1>3, <1>15 DEF PullFailed, CloseSession, CloseConnection, connVars
  <2>. QED
    BY <1>4, <1>15, <2>1 DEF PullFailed, At, setupVars
<1>16. CASE popNextPendingChannel
  <2>1. CASE m_pendingChannels = <<>>
    BY <1>4, <1>16, <2>1 DEF popNextPendingChannel, At, connVars
  <2>2. CASE m_pendingChannels # <<>>
    <3>1. /\ cur' = Head(m_pendingChannels)
          /\ m_pendingChannels' = Tail(m_pendingChannels)
          /\ UNCHANGED <<m_isConnected, consuming, todo>> /\ pc = "pendPop"
      BY <1>16, <2>2 DEF popNextPendingChannel, At, connVars, consumeVars
    <3>2. cur = 0 /\ 0 \notin GetChannelList
      BY <3>1
      DEF LostInv, SetupPoints, TypeInv, TypeOK, HandlerTypeOK, GetChannelList
    <3>. QED
      BY <1>2, <1>3, <2>2, <3>1, <3>2, PopKeeps
  <2>. QED
    BY <2>1, <2>2
<1>17. CASE ThreadWhile \/ StartConsumptionDone \/ Process \/ PendingCheck
  BY <1>4, <1>17
  DEF ThreadWhile, StartConsumptionDone, Process, PendingCheck, At, setupVars,
      connVars
<1>. QED
  BY <1>5, <1>6, <1>7, <1>8, <1>9, <1>10, <1>11, <1>12, <1>13, <1>14, <1>15,
     <1>16, <1>17
  DEF Thread

(* A controller's step: Start finds no connection, and between Stop's       *)
(* emptying of the pending channels and its end nothing is promised.        *)
LEMMA ControllerAccounts ==
  ASSUME TypeInv, OneController, LifeInv, LostInv,
         NEW c \in Controllers, Controller(c)
  PROVE  LostInv'
<1>. USE DEF LifeInv, ControlInv, CallInv, LinkInv
<1>0. /\ UNCHANGED <<m_channelLookup, todo, cur, sub>>
      /\ ctl \in [Controllers -> Call]
  BY ControllerLeaves DEF ThreadFrame, setupVars, handlerVars, TypeInv, TypeOK
<1>1. pc' \notin SetupPoints => cur' = 0
  <2>1. pc' = pc \/ (pc = "none" /\ pc' = "while") \/ (pc = "done" /\ pc' = "none")
    BY DEF Controller, Start, StopEmpty, StopCheck, StopClearRunning, StopJoin,
           StopCloseConnection, DestroyCheck, Destruct
  <2>. QED
    BY <1>0, <2>1 DEF LostInv, SetupPoints
<1>. SUFFICES ASSUME Listed' PROVE AllAccounted'
  BY <1>1 DEF LostInv
<1>2. ctl'[c].at \notin {"stopCheck", "clearRunning"} /\ m_threadRunning' /\ m_isConnected'
  BY DEF Listed
<1>3. CASE Start(c)
  <2>1. ctl[c].at = "start" /\ UNCHANGED <<connVars, consumeVars, m_pendingChannels>>
    BY <1>3 DEF Start, CtlAt
  <2>2. pc # "none" /\ m_isConnected
    BY <1>2, <2>1 DEF OneController, connVars
  <2>3. UNCHANGED <<m_threadRunning, pc>>
    BY <1>3, <2>2 DEF Start
  <2>4. Listed
    BY <2>1, <2>2, <2>3, <1>2 DEF Listed, OneController
  <2>. QED
    BY <1>0, <2>1, <2>4
    DEF LostInv, AllAccounted, Accounted, GetChannelList, consumeVars, Pending,
        BeingSubscribed
<1>4. CASE StopEmpty(c) \/ StopClearRunning(c)
  BY <1>0, <1>2, <1>4, Moved DEF StopEmpty, StopClearRunning
<1>5. CASE StopCheck(c)
  BY <1>0, <1>2, <1>5, StopMoves, Moved DEF StopCheck, CtlAt
<1>6. CASE StopJoin(c) \/ StopCloseConnection(c) \/ Destruct(c)
  BY <1>2, <1>6 DEF StopJoin, StopCloseConnection, Destruct, CtlAt
<1>7. CASE DestroyCheck(c)
  <2>1. /\ ctl[c].at = "destroyCheck"
        /\ UNCHANGED <<m_threadRunning, m_isConnected, pc, m_pendingChannels, consuming>>
    BY <1>7 DEF DestroyCheck, CtlAt, connVars, consumeVars
  <2>2. Listed
    BY <2>1 DEF Listed, OneController
  <2>. QED
    BY <1>0, <2>1, <2>2
    DEF LostInv, AllAccounted, Accounted, GetChannelList, Pending, BeingSubscribed
<1>. QED
  BY <1>3, <1>4, <1>5, <1>6, <1>7 DEF Controller

(* Whatever the interleaving of Subscribe, the thread's list, its retries   *)
(* and the broker's faults, no channel falls between them while the thread  *)
(* runs on a connection whose channels it has listed.                       *)
THEOREM LosesNoSubscription ==
  ASSUME OneController, FaultsReported
  PROVE  Spec => []NoSubscriptionLost
<1>1. Init => LostInv
  BY DEF Init, LostInv, Listed
<1>2. ASSUME TypeInv, LifeInv, LostInv, [Next]_vars PROVE LostInv'
  <2>1. CASE Thread
    BY <1>2, <2>1, ThreadAccounts
  <2>2. CASE \E c \in Controllers : Controller(c)
    BY <1>2, <2>2, ControllerAccounts
  <2>3. ASSUME NEW s \in Subscribers, Subscriber(s) PROVE LostInv'
    <3>1. UNCHANGED <<m_threadRunning, m_isConnected, pc, cur, ctl>>
      BY <2>3, SubscriberLeaves DEF AppFrame, connVars, setupVars
    <3>. QED
      BY <1>2, <2>3, <3>1, SubscriberAccounts DEF LostInv, Listed
  <2>4. CASE Initialize
    BY <1>2, <2>4 DEF Initialize, ThreadFrame, setupVars, LostInv, Listed
  <2>5. ASSUME UNCHANGED <<m_threadRunning, m_isConnected, pc, cur, todo, consuming,
                           m_pendingChannels, m_channelLookup, sub>>,
               Listed' => Listed
        PROVE  LostInv'
    BY <1>2, <2>5
    DEF LostInv, AllAccounted, Accounted, GetChannelList, Pending, BeingSubscribed
  <2>6. ASSUME NEW c \in Controllers, NEW op \in Operations, Enter(c, op)
        PROVE  LostInv'
    <3>1. /\ UNCHANGED <<m_threadRunning, m_isConnected, pc, cur, todo, consuming,
                         m_pendingChannels, m_channelLookup, sub>>
          /\ ctl[c].at = "idle"
          /\ \A d \in Controllers \ {c} : ctl'[d] = ctl[d]
      BY <1>2, <2>6
      DEF Enter, Idle, connVars, consumeVars, ThreadFrame, setupVars,
          handlerVars, TypeInv, TypeOK
    <3>2. Listed' => Listed
      BY <3>1 DEF Listed
    <3>. QED
      BY <2>5, <3>1, <3>2
  <2>7. CASE Environment
    <3>1. m_isConnected' = m_isConnected
      BY <2>7 DEF Environment, BrokerFault, ExchangeAppears
    <3>. QED
      BY <2>5, <2>7, <3>1
      DEF Environment, consumeVars, setupVars, appVars, handlerVars, Listed
  <2>8. CASE UNCHANGED vars
    BY <2>5, <2>8
    DEF vars, connVars, consumeVars, setupVars, appVars, handlerVars, Listed
  <2>. QED
    BY <1>2, <2>1, <2>2, <2>3, <2>4, <2>6, <2>7, <2>8 DEF Next, Terminated
<1>. QED
  BY <1>1, <1>2, TypeInvariant, LifeInvariant, LostInvIsProperty, PTL DEF Spec
=============================================================================
