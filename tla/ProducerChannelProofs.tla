----------------------- MODULE ProducerChannelProofs ------------------------
(***************************************************************************)
(* Theorems about the channels a Producer opens and publishes on.           *)
(***************************************************************************)
EXTENDS ProducerLifeProofs

Channel(e) == m_exchangeList[e].m_channel

-----------------------------------------------------------------------------
(* connectChannels() reports the truth                                      *)

(* While the loop goes well and the session lives, every channel the loop   *)
(* has left behind got its answer from this session.                        *)
LoopInv ==
  pc \in {"ccOpen", "ccDeclare"} /\ allGood /\ session =>
    /\ \A e \in DOMAIN m_exchangeList \ todo : Channel(e) \in openCh \cup closingCh
    /\ pc = "ccDeclare" => Channel(cur) \in openCh \cup closingCh

(* The other calls may close a channel but the session still knows it.      *)
LEMMA OtherCallsKeepChannels ==
  ASSUME \/ \E channel, exchange, ret : DeclareExchange(channel, exchange, ret)
         \/ \E ret : CloseConnection(ret)
         \/ BrokerFault,
         session \in BOOLEAN, session => m_isConnected, session'
  PROVE  /\ session
         /\ openCh \cup closingCh \subseteq (openCh \cup closingCh)'
BY DEF DeclareExchange, amqp_exchange_declare, RpcOnDeadLink, RpcRefused, RpcFault,
       CloseConnection, BrokerFault

(* A session belongs to a connection that is up, and a connection is up     *)
(* only while there is a thread or a Stop about to close it, however many   *)
(* threads call Start and Stop.                                             *)
SessionInv ==
  /\ session => m_isConnected
  /\ m_isConnected =>
       pc # "none" \/ \E c \in Controllers : ctl[c].at = "closeConn"

(* SessionInv is inductive: the step that ends a thread, and the one that   *)
(* leaves the closing, are StopJoin and StopCloseConnection.                *)
LEMMA SessionStep ==
  ASSUME TypeOK, SessionInv, Next
  PROVE  SessionInv'
<1>. USE DEF TypeOK, ConnTypeOK, CtlTypeOK, SessionInv
<1>1. CASE Thread
  <2>1. pc # "none" /\ pc' # "none"
    BY <1>1
    DEF Thread, ThreadWhile, ThreadConnect, ThreadChanCheck,
        ConnectChannelsGuard, ConnectChannelsLock, ConnectChannelsOpen,
        ConnectChannelsDeclare, ConnectChannelsDone, PublishCheck, PublishSend,
        PublishPop, closeConnection, clearActiveSendQueue, Goto, At
  <2>2. CASE ThreadConnect
    BY <2>1, <2>2 DEF ThreadConnect, Connect, connVars
  <2>3. CASE \E point, next : closeConnection(point, next)
    BY <2>1, <2>3 DEF closeConnection, CloseConnection
  <2>4. CASE ~ThreadConnect /\ ~\E point, next : closeConnection(point, next)
    <3>1. UNCHANGED m_isConnected /\ (session' => session)
      BY <1>1, <2>4, RpcKeepsLink
      DEF Thread, ThreadWhile, ThreadChanCheck, ConnectChannelsGuard,
          ConnectChannelsLock, ConnectChannelsOpen, ConnectChannelsDeclare,
          ConnectChannelsDone, PublishCheck, PublishSend, PublishPop,
          clearActiveSendQueue, Goto, connVars
    <3>. QED
      BY <2>1, <3>1
  <2>. QED
    BY <2>2, <2>3, <2>4
<1>2. CASE Initialize
  BY <1>2 DEF Initialize, Idle
<1>3. ASSUME NEW c \in Controllers, NEW op \in Operations, Enter(c, op)
      PROVE  SessionInv'
  BY <1>3 DEF Enter, connVars, Idle
<1>4. ASSUME NEW c \in Controllers, Controller(c) PROVE SessionInv'
  <2>1. CASE StopJoin(c)
    BY <2>1, Moved DEF StopJoin, connVars
  <2>2. CASE StopCloseConnection(c)
    BY <2>2 DEF StopCloseConnection, CloseConnection, connVars
  <2>3. CASE Destruct(c)
    <3>1. /\ pc' = pc
          /\ \A d \in Controllers :
               ctl[d].at = "closeConn" => ctl'[d].at = "closeConn"
      BY <2>3 DEF Destruct, CtlAt, MoveTo
    <3>2. \/ UNCHANGED <<m_isConnected, session>>
          \/ ~m_isConnected' /\ ~session'
      BY <2>3 DEF Destruct, CloseConnection, connVars
    <3>. QED
      BY <3>1, <3>2
  <2>4. CASE \/ StartCheck(c) \/ StartSetRunning(c) \/ StartSpawn(c)
             \/ StopCheck(c) \/ StopClearRunning(c) \/ StopClear(c)
             \/ DestroyCheck(c)
    <3>1. UNCHANGED <<m_isConnected, session>> /\ (pc' = pc \/ pc' = "while")
      BY <2>4
      DEF StartCheck, StartSetRunning, StartSpawn, StopCheck, StopClearRunning,
          StopClear, DestroyCheck, connVars
    <3>2. \A d \in Controllers :
             ctl[d].at = "closeConn" => ctl'[d].at = "closeConn"
      BY <2>4
      DEF StartCheck, StartSetRunning, StartSpawn, StopCheck, StopClearRunning,
          StopClear, DestroyCheck, CtlAt, MoveTo, Return
    <3>. QED
      BY <3>1, <3>2
  <2>. QED
    BY <1>4, <2>1, <2>2, <2>3, <2>4 DEF Controller
<1>5. CASE Environment
  BY <1>5, RpcKeepsLink DEF Environment
<1>6. ASSUME UNCHANGED <<connVars, pc, ctl>> PROVE SessionInv'
  BY <1>6 DEF connVars
<1>. QED
  BY <1>1, <1>2, <1>3, <1>4, <1>5, <1>6
  DEF Next, Declare, SendAdd, SendPush, Terminated, vars

(* LoopInv survives every step: the senders are locked out of the list, and *)
(* whoever closes the connection ends the session too.                      *)
LEMMA LoopStep ==
  ASSUME TypeOK, FaultsReported, ThreadOwned, SessionInv, LoopInv, Next
  PROVE  LoopInv'
<1>. USE DEF TypeOK, LoopInv, Channel
<1>1. CASE Thread
  <2>1. UNCHANGED listVars
    BY <1>1, ThreadFrame
  <2>2. ASSUME NEW e \in Exchanges, ConnectChannelsOpen(e) PROVE LoopInv'
    <3>1. PICK ret \in HARE_ERROR_E :
            /\ OpenChannel(m_exchangeList[e].m_channel, ret)
            /\ \/ pc' = "ccClose"
               \/ noError(ret) /\ pc' = "ccDeclare" /\ cur' = e
                    /\ UNCHANGED <<todo, allGood>>
               \/ /\ pc' = pc /\ todo' = todo \ {e}
                  /\ allGood' = (allGood /\ noError(ret))
      BY <2>2 DEF ConnectChannelsOpen, StillGood
    <3>2. pc = "ccOpen" /\ e \in todo
      BY <2>2 DEF ConnectChannelsOpen, At
    <3>. QED
      BY <2>1, <3>1, <3>2, OpenChannelOpens DEF listVars, ConnTypeOK, FlagTypeOK
  <2>3. CASE ConnectChannelsDeclare
    <3>1. /\ pc = "ccDeclare"
          /\ \/ pc' = "ccClose"
             \/ pc' = "ccOpen" /\ todo' = todo \ {cur} /\ UNCHANGED allGood
      BY <2>3 DEF ConnectChannelsDeclare, At
    <3>2. session' => /\ session
                      /\ openCh \cup closingCh \subseteq (openCh \cup closingCh)'
      BY <2>3, OtherCallsKeepChannels
      DEF ConnectChannelsDeclare, ConnTypeOK, SessionInv
    <3>. QED
      BY <2>1, <3>1, <3>2 DEF listVars
  <2>4. CASE ConnectChannelsLock
    BY <2>1, <2>4 DEF ConnectChannelsLock, listVars
  <2>5. CASE /\ ~ConnectChannelsDeclare /\ ~ConnectChannelsLock
             /\ \A e \in Exchanges : ~ConnectChannelsOpen(e)
    <3>1. pc' \notin {"ccOpen", "ccDeclare"}
      BY <1>1, <2>5
      DEF Thread, ThreadWhile, ThreadConnect, ThreadChanCheck,
          ConnectChannelsGuard, ConnectChannelsDone, PublishCheck, PublishSend,
          PublishPop, closeConnection, clearActiveSendQueue, Goto, At
    <3>. QED
      BY <3>1
  <2>. QED
    BY <2>2, <2>3, <2>4, <2>5
<1>2. ASSUME ~Thread, pc' \in {"ccOpen", "ccDeclare"}
      PROVE  /\ UNCHANGED <<listVars, loopVars, pc>>
             /\ \/ UNCHANGED connVars
                \/ \E ret : CloseConnection(ret)
                \/ BrokerFault
  <2>1. ASSUME NEW c \in Controllers, Controller(c)
        PROVE  /\ UNCHANGED <<listVars, loopVars, pc>>
               /\ \/ UNCHANGED connVars
                  \/ \E ret : CloseConnection(ret)
                  \/ BrokerFault
    <3>1. pc' = pc
      BY <1>2, <2>1
      DEF Controller, StartCheck, StartSetRunning, StartSpawn, StopCheck,
          StopClearRunning, StopJoin, StopCloseConnection, StopClear,
          DestroyCheck, Destruct
    <3>2. UNCHANGED connVars \/ \E ret : CloseConnection(ret)
      BY <2>1
      DEF Controller, StartCheck, StartSetRunning, StartSpawn, StopCheck,
          StopClearRunning, StopJoin, StopCloseConnection, StopClear,
          DestroyCheck, Destruct
    <3>. QED
      BY <2>1, <3>1, <3>2, ControllerFrame
  <2>. QED
    BY <1>2, <2>1
    DEF Next, Declare, SendAdd, SendPush, AppMayCall, ProducerMutexFree,
        Initialize, Enter, Environment, Terminated, vars
<1>3. CASE ~Thread
  <2>. SUFFICES ASSUME pc' \in {"ccOpen", "ccDeclare"}, session', allGood'
                PROVE  LoopInv'
    OBVIOUS
  <2>1. UNCHANGED <<m_exchangeList, todo, cur, allGood, pc>>
    BY <1>2, <1>3 DEF listVars, loopVars
  <2>2. session /\ openCh \cup closingCh \subseteq (openCh \cup closingCh)'
    <3>1. CASE UNCHANGED connVars
      BY <3>1 DEF connVars
    <3>. QED
      BY <1>2, <1>3, <3>1, OtherCallsKeepChannels DEF ConnTypeOK, SessionInv
  <2>. QED
    BY <2>1, <2>2
<1>. QED
  BY <1>1, <1>3

(* Only the end of the loop raises m_channelsConnected. *)
LEMMA OnlyLoopRaises ==
  ASSUME TypeOK, Next, ~m_channelsConnected, m_channelsConnected'
  PROVE  ConnectChannelsDone
BY DEF Next, Declare, addExchangeOfType, SendAdd, addExchange, NewExchange,
       SendPush, Initialize, Enter, Environment, Terminated, vars,
       Thread, ThreadWhile, ThreadConnect, ThreadChanCheck,
       ConnectChannelsGuard, ConnectChannelsLock, ConnectChannelsOpen,
       ConnectChannelsDeclare, PublishCheck, PublishSend,
       PublishPop, closeConnection, clearActiveSendQueue, Goto,
       Controller, StartCheck, StartSetRunning, StartSpawn, StopCheck,
       StopClearRunning, StopJoin, FlagAfterJoin, StopCloseConnection,
       StopClear, DestroyCheck, Destruct

(* connectChannels() raises m_channelsConnected only when every channel of  *)
(* the list got an answer from this session, for any number of controllers, *)
(* senders, exchanges and faults, as long as no reply is one that           *)
(* decodeRpcReply takes for a success.                                      *)
THEOREM FlagIsSound == ASSUME FaultsReported PROVE Spec => FlagSound
<1>1. Init => ThreadOwned /\ SessionInv /\ LoopInv
  BY DEF Init, ConnInit, ThreadOwned, SessionInv, LoopInv
<1>2. TypeOK /\ ThreadOwned /\ SessionInv /\ LoopInv /\ [Next]_vars =>
        (ThreadOwned /\ SessionInv /\ LoopInv)'
  <2>1. ASSUME ThreadOwned /\ SessionInv /\ LoopInv, UNCHANGED vars
        PROVE  (ThreadOwned /\ SessionInv /\ LoopInv)'
    BY <2>1
    DEF ThreadOwned, SessionInv, LoopInv, Channel, vars, connVars, lifeVars,
        listVars, loopVars
  <2>. QED
    BY <2>1, ThreadOwnedStep, SessionStep, LoopStep
<1>3. TypeOK /\ LoopInv /\ [Next]_vars =>
        [ ~m_channelsConnected /\ m_channelsConnected' /\ session =>
            \A e \in DOMAIN m_exchangeList :
              m_exchangeList[e].m_channel \in openCh \cup closingCh ]_vars
  <2>. SUFFICES ASSUME TypeOK, LoopInv, Next, ~m_channelsConnected,
                       m_channelsConnected', session
                PROVE  \A e \in DOMAIN m_exchangeList :
                         m_exchangeList[e].m_channel \in openCh \cup closingCh
    OBVIOUS
  <2>1. pc = "ccOpen" /\ todo = {} /\ allGood
    BY OnlyLoopRaises DEF ConnectChannelsDone, At, TypeOK, FlagTypeOK
  <2>. QED
    BY <2>1 DEF LoopInv, Channel
<1>. QED
  BY <1>1, <1>2, <1>3, TypeCorrect, PTL DEF Spec, FlagSound

-----------------------------------------------------------------------------
(* A disciplined application on a healthy broker                            *)

(* The exchanges whose channel the loop of connectChannels has opened. *)
Opened == (DOMAIN m_exchangeList \ todo) \cup (IF pc = "ccDeclare" THEN {cur} ELSE {})

(* While the producer runs, the channels are either all closed or being     *)
(* opened by connectChannels, in a session that has no other, or all open   *)
(* with their exchanges declared; and only then does the thread publish.    *)
DeliveryInv ==
  /\ \A e \in DOMAIN m_exchangeList : m_exchangeList[e].m_isDeclare
  /\ m_threadRunning /\ pc = "none" =>
       \E c \in Controllers : ctl[c].at = "spawn"
  /\ m_threadRunning =>
       /\ pc \notin {"ccClose", "ccClear", "close", "clear"}
       /\ pc \in {"none", "while", "connect", "done"} /\ ~m_channelsConnected =>
            ~m_isConnected
       /\ pc \in {"chanCheck", "ccGuard", "ccLock"} /\ ~m_channelsConnected =>
            session /\ openCh = {} /\ closingCh = {}
       /\ pc \in {"ccGuard", "ccLock", "ccOpen", "ccDeclare"} =>
            ~m_channelsConnected
       /\ pc \in {"ccOpen", "ccDeclare"} =>
            /\ session /\ allGood /\ closingCh = {}
            /\ openCh = {Channel(e) : e \in Opened}
            /\ DOMAIN m_exchangeList \ todo \subseteq exchanges
       /\ pc \in {"publish", "pubSend", "pop"} => m_channelsConnected
       /\ m_channelsConnected =>
            /\ m_isConnected /\ session
            /\ \A e \in DOMAIN m_exchangeList :
                 Channel(e) \in openCh /\ e \in exchanges

(* The budget of faults is empty, and a Send names a declared exchange. *)
Disciplined == DeclareFirst /\ MaxFaults = 0

(* Nothing goes wrong by itself on a healthy broker. *)
LEMMA NoFaultLeft ==
  ASSUME ConnTypeOK, MaxFaults = 0
  PROVE  ~Fault
BY DEF ConnTypeOK, Fault

(* A healthy broker opens a channel that the session has not got. *)
LEMMA HealthyOpen ==
  ASSUME ConnTypeOK, MaxFaults = 0, m_isConnected, session, NEW channel, NEW ret,
         OpenChannel(channel, ret), channel \notin openCh \cup closingCh
  PROVE  /\ noError(ret) /\ ~serverFailure(ret)
         /\ openCh' = openCh \cup {channel}
         /\ UNCHANGED <<m_isConnected, session, closingCh, exchanges>>
<1>1. PICK reply \in Reply : amqp_channel_open(channel, reply) /\ ret = decodeRpcReply(reply)
  BY DEF OpenChannel
<1>2. /\ reply = "NORMAL"
      /\ openCh' = openCh \cup {channel}
      /\ UNCHANGED <<session, closingCh, exchanges>>
  BY <1>1, NoFaultLeft DEF amqp_channel_open, RpcOnDeadLink, RpcRefused, RpcFault
<1>3. ret = "ALL_GOOD"
  BY <1>1, <1>2 DEF decodeRpcReply, LibraryException
<1>. QED
  BY <1>2, <1>3 DEF OpenChannel, noError, serverFailure

(* It declares an exchange on an open channel. *)
LEMMA HealthyDeclare ==
  ASSUME ConnTypeOK, MaxFaults = 0, m_isConnected, session, NEW channel,
         NEW exchange, NEW ret, DeclareExchange(channel, exchange, ret),
         channel \in openCh
  PROVE  /\ ~serverFailure(ret)
         /\ exchanges' = exchanges \cup {exchange}
         /\ UNCHANGED <<m_isConnected, session, openCh, closingCh>>
<1>1. PICK reply \in Reply : /\ amqp_exchange_declare(channel, exchange, reply)
                             /\ ret = decodeRpcReply(reply)
  BY DEF DeclareExchange
<1>2. /\ reply = "NORMAL"
      /\ exchanges' = exchanges \cup {exchange}
      /\ UNCHANGED <<session, openCh, closingCh>>
  BY <1>1, NoFaultLeft
  DEF amqp_exchange_declare, RpcOnDeadLink, RpcRefused, RpcFault
<1>3. ret = "ALL_GOOD"
  BY <1>1, <1>2 DEF decodeRpcReply, LibraryException
<1>. QED
  BY <1>2, <1>3 DEF DeclareExchange, serverFailure

(* It takes a message for an exchange it has, on an open channel. *)
LEMMA HealthyPublish ==
  ASSUME ConnTypeOK, MaxFaults = 0, m_isConnected, session, NEW message,
         NEW ret, PublishMessage(message, ret), message.channel \in openCh,
         message.exchange \in exchanges
  PROVE  /\ noError(ret) /\ ~serverFailure(ret)
         /\ UNCHANGED <<m_isConnected, session, openCh, closingCh, exchanges>>
<1>1. PICK status \in {"STATUS_OK", "STATUS_SOCKET_ERROR", "STATUS_OTHER"} :
        /\ amqp_basic_publish(message, status)
        /\ ret = CASE status = "STATUS_OK" -> "ALL_GOOD"
                   [] status = "STATUS_SOCKET_ERROR" -> "SERVER_CONNECTION_FAILURE"
                   [] OTHER -> "PUBLISH_ERROR"
  BY DEF PublishMessage
<1>2. /\ status = "STATUS_OK"
      /\ UNCHANGED <<session, openCh, closingCh, exchanges>>
  BY <1>1, NoFaultLeft DEF amqp_basic_publish, ConnTypeOK
<1>3. ret = "ALL_GOOD"
  BY <1>1, <1>2
<1>. QED
  BY <1>2, <1>3 DEF PublishMessage, noError, serverFailure

(* The front of the queue goes to an exchange of the list on that           *)
(* exchange's own channel.                                                  *)
LEMMA FrontListed ==
  ASSUME TypeOK, ChannelOwnership, m_sendQueue # <<>>
  PROVE  LET m == Head(m_sendQueue)
         IN  m.exchange \in DOMAIN m_exchangeList /\ m.channel = Channel(m.exchange)
<1>1. Len(m_sendQueue) \in Nat /\ Len(m_sendQueue) >= 1 /\ Head(m_sendQueue) = m_sendQueue[1]
  BY HeadTailProperties, EmptySeq, LenProperties DEF TypeOK, MsgTypeOK
<1>2. 1 \in 1..Len(m_sendQueue)
  BY <1>1
<1>. QED
  BY <1>1, <1>2 DEF ChannelOwnership, Channel

(* DeliveryInv survives the thread's steps. *)
LEMMA ThreadDelivery ==
  ASSUME TypeOK, ChannelOwnership, Disciplined, LifeInv, DeliveryInv, Thread
  PROVE  DeliveryInv'
<1>. USE DEF TypeOK, Disciplined, DeliveryInv, Channel
<1>1. /\ UNCHANGED <<m_exchangeList, m_threadRunning, ctl>>
      /\ pc # "none" /\ pc' # "none"
  <2>1. pc # "none" /\ pc' # "none"
    BY DEF Thread, ThreadWhile, ThreadConnect, ThreadChanCheck,
           ConnectChannelsGuard, ConnectChannelsLock, ConnectChannelsOpen,
           ConnectChannelsDeclare, ConnectChannelsDone, PublishCheck,
           PublishSend, PublishPop, closeConnection, clearActiveSendQueue,
           Goto, At
  <2>. QED
    BY <2>1, ThreadFrame DEF listVars
<1>. SUFFICES ASSUME m_threadRunning PROVE DeliveryInv'
  BY <1>1
<1>2. CASE ThreadWhile \/ ThreadChanCheck \/ ConnectChannelsGuard \/ PublishCheck
  BY <1>1, <1>2
  DEF ThreadWhile, ThreadChanCheck, ConnectChannelsGuard, PublishCheck, Goto,
      At, connVars, LifeInv, LinkInv
<1>3. CASE ThreadConnect
  <2>1. CASE m_isConnected
    BY <1>1, <1>3, <2>1 DEF ThreadConnect, At, connVars
  <2>2. CASE ~m_isConnected
    BY <1>1, <1>3, <2>2, NoFaultLeft DEF ThreadConnect, Connect, At, noError
  <2>. QED
    BY <2>1, <2>2
<1>4. CASE ConnectChannelsLock
  <2>1. /\ pc = "ccLock" /\ pc' = "ccOpen" /\ todo' = DOMAIN m_exchangeList
        /\ allGood' = TRUE
        /\ UNCHANGED <<m_channelsConnected, session, openCh, closingCh, exchanges,
                       m_isConnected>>
    BY <1>4 DEF ConnectChannelsLock, At, connVars
  <2>2. Opened' = {}
    BY <1>1, <2>1 DEF Opened
  <2>3. openCh' = {m_exchangeList'[e].m_channel : e \in Opened'}
    BY <2>1, <2>2
  <2>. QED
    BY <1>1, <2>1, <2>3
<1>5. ASSUME NEW e \in Exchanges, ConnectChannelsOpen(e) PROVE DeliveryInv'
  <2>1. /\ pc = "ccOpen" /\ e \in todo /\ e \in DOMAIN m_exchangeList
        /\ m_isConnected /\ UNCHANGED m_channelsConnected
    BY <1>5 DEF ConnectChannelsOpen, At, ListTypeOK, LifeInv, LinkInv
  <2>2. Opened = DOMAIN m_exchangeList \ todo
    BY <2>1 DEF Opened
  <2>3. m_exchangeList[e].m_channel \notin openCh \cup closingCh
    BY <2>1, <2>2 DEF ChannelOwnership
  <2>4. /\ openCh' = openCh \cup {m_exchangeList[e].m_channel}
        /\ UNCHANGED <<m_isConnected, session, closingCh, exchanges>>
        /\ pc' = "ccDeclare" /\ cur' = e /\ UNCHANGED <<todo, allGood>>
    BY <1>5, <2>1, <2>3, HealthyOpen DEF ConnectChannelsOpen
  <2>5. Opened' = Opened \cup {e}
    BY <1>1, <2>2, <2>4 DEF Opened
  <2>6. openCh' = {m_exchangeList'[x].m_channel : x \in Opened'}
    BY <1>1, <2>1, <2>4, <2>5
  <2>. QED
    BY <1>1, <2>1, <2>4, <2>6
<1>6. CASE ConnectChannelsDeclare
  <2>1. /\ pc = "ccDeclare" /\ cur \in todo /\ cur \in DOMAIN m_exchangeList
        /\ m_isConnected /\ UNCHANGED m_channelsConnected
    BY <1>6 DEF ConnectChannelsDeclare, At, ListTypeOK, LifeInv, LinkInv
  <2>2. m_exchangeList[cur].m_channel \in openCh
    BY <2>1 DEF Opened
  <2>3. /\ exchanges' = exchanges \cup {cur}
        /\ UNCHANGED <<m_isConnected, session, openCh, closingCh, allGood>>
        /\ pc' = "ccOpen" /\ todo' = todo \ {cur}
    BY <1>6, <2>1, <2>2, HealthyDeclare DEF ConnectChannelsDeclare
  <2>4. Opened' = Opened
    BY <1>1, <2>1, <2>3 DEF Opened
  <2>5. openCh' = {m_exchangeList'[x].m_channel : x \in Opened'}
    BY <1>1, <2>1, <2>3, <2>4
  <2>. QED
    BY <1>1, <2>1, <2>3, <2>5
<1>7. CASE ConnectChannelsDone
  <2>1. /\ pc = "ccOpen" /\ todo = {} /\ pc' = "publish" /\ m_isConnected
        /\ UNCHANGED connVars
        /\ m_channelsConnected' = (m_channelsConnected \/ allGood)
    BY <1>7 DEF ConnectChannelsDone, At, LifeInv, LinkInv
  <2>2. Opened = DOMAIN m_exchangeList
    BY <2>1 DEF Opened
  <2>. QED
    BY <1>1, <2>1, <2>2 DEF connVars
<1>8. CASE PublishSend
  <2>1. /\ pc = "pubSend" /\ m_sendQueue # <<>> /\ m_channelsConnected
        /\ UNCHANGED m_channelsConnected
    BY <1>8 DEF PublishSend, At, LifeInv, FrontInv
  <2>2. /\ Head(m_sendQueue).channel \in openCh
        /\ Head(m_sendQueue).exchange \in exchanges
    BY <2>1, FrontListed
  <2>3. /\ pc' = "pop"
        /\ UNCHANGED <<m_isConnected, session, openCh, closingCh, exchanges>>
    BY <1>8, <2>1, <2>2, HealthyPublish DEF PublishSend
  <2>. QED
    BY <1>1, <2>1, <2>3
<1>9. CASE PublishPop
  BY <1>1, <1>9 DEF PublishPop, At, connVars
<1>10. CASE \/ closeConnection("ccClose", "ccClear")
            \/ clearActiveSendQueue("ccClear", "publish")
            \/ closeConnection("close", "clear")
            \/ clearActiveSendQueue("clear", "while")
  BY <1>10 DEF closeConnection, clearActiveSendQueue, At
<1>. QED
  BY <1>2, <1>3, <1>4, <1>5, <1>6, <1>7, <1>8, <1>9, <1>10 DEF Thread

(* It survives every other step: the list does not change while the         *)
(* producer runs, and the calls touch the connection only when it does not. *)
LEMMA DeliveryStep ==
  ASSUME TypeOK, ChannelOwnership, OneController, Disciplined, LifeInv,
         DeliveryInv, Next
  PROVE  DeliveryInv'
<1>. USE DEF TypeOK, Disciplined, DeliveryInv
<1>1. CASE Thread
  BY <1>1, ThreadDelivery
<1>2. ASSUME NEW e \in Exchanges, Declare(e) PROVE DeliveryInv'
  <2>1. ~m_threadRunning /\ UNCHANGED m_threadRunning
    BY <1>2 DEF Declare, Idle
  <2>2. \A x \in DOMAIN m_exchangeList' : m_exchangeList'[x].m_isDeclare
    BY <1>2 DEF Declare, addExchangeOfType, NewExchange, ListTypeOK, ExchangeProperties
  <2>. QED
    BY <2>1, <2>2
<1>3. ASSUME UNCHANGED <<connVars, m_exchangeList, todo, cur, allGood,
                         m_channelsConnected, m_threadRunning, pc, ctl>>
      PROVE  DeliveryInv'
  BY <1>3 DEF connVars, Opened, Channel
<1>4. ASSUME NEW s \in Senders, NEW e \in Exchanges, SendAdd(s, e)
      PROVE  DeliveryInv'
  BY <1>3, <1>4 DEF SendAdd, addExchange, listVars, loopVars
<1>5. CASE (\E s \in Senders : SendPush(s)) \/ Terminated
  BY <1>3, <1>5 DEF SendPush, Terminated, vars, listVars, loopVars
<1>6. CASE Initialize
  BY <1>6 DEF Initialize, listVars
<1>7. ASSUME NEW c \in Controllers, NEW op \in Operations, Enter(c, op)
      PROVE  DeliveryInv'
  <2>1. UNCHANGED <<connVars, m_exchangeList, todo, cur, allGood,
                    m_channelsConnected, m_threadRunning, pc>>
    BY <1>7 DEF Enter, listVars, loopVars
  <2>2. ~(m_threadRunning /\ pc = "none")
    BY <1>7 DEF Enter, Idle, OneController
  <2>. QED
    BY <2>1, <2>2 DEF connVars, Opened, Channel
<1>8. ASSUME NEW c \in Controllers, Controller(c) PROVE DeliveryInv'
  <2>1. UNCHANGED m_exchangeList
    BY <1>8, ControllerFrame DEF listVars
  <2>2. CASE ~m_threadRunning'
    BY <2>1, <2>2
  <2>3. CASE StartSetRunning(c)
    <3>1. pc = "none" /\ ~m_isConnected /\ ~m_channelsConnected
      BY <2>3
      DEF StartSetRunning, CtlAt, OneController, LifeInv, LinkInv, ControlInv,
          CallInv
    <3>2. ctl'[c].at = "spawn" /\ UNCHANGED <<connVars, pc, m_channelsConnected>>
      BY <2>3, Moved DEF StartSetRunning
    <3>. QED
      BY <2>1, <3>1, <3>2 DEF connVars
  <2>4. CASE StartSpawn(c)
    <3>1. ~joinable /\ pc = "none" /\ ~m_isConnected /\ ~m_channelsConnected
      BY <2>4
      DEF StartSpawn, CtlAt, OneController, LifeInv, LinkInv, ControlInv,
          CallInv
    <3>. QED
      BY <2>1, <2>4, <3>1 DEF StartSpawn, connVars
  <2>5. CASE m_threadRunning' /\ (StartCheck(c) \/ StopCheck(c) \/ DestroyCheck(c))
    <3>1. UNCHANGED <<connVars, m_exchangeList, todo, cur, allGood,
                      m_channelsConnected, m_threadRunning, pc>>
      BY <2>5 DEF StartCheck, StopCheck, DestroyCheck, listVars, loopVars
    <3>2. ~(m_threadRunning /\ pc = "none")
      BY <2>5 DEF StartCheck, StopCheck, DestroyCheck, CtlAt, OneController
    <3>. QED
      BY <3>1, <3>2 DEF connVars, Opened, Channel
  <2>6. CASE StopClearRunning(c)
    BY <2>1, <2>6 DEF StopClearRunning
  <2>7. CASE StopJoin(c) \/ StopCloseConnection(c) \/ StopClear(c) \/ Destruct(c)
    <3>1. ~m_threadRunning /\ UNCHANGED m_threadRunning
      BY <2>7
      DEF StopJoin, StopCloseConnection, StopClear, Destruct, CtlAt, LifeInv,
          ControlInv, CallInv
    <3>. QED
      BY <2>1, <3>1
  <2>. QED
    BY <1>8, <2>2, <2>3, <2>4, <2>5, <2>6, <2>7 DEF Controller
<1>9. CASE Environment
  BY <1>9, NoFaultLeft DEF Environment, BrokerFault
<1>. QED
  BY <1>1, <1>2, <1>4, <1>5, <1>6, <1>7, <1>8, <1>9 DEF Next

(* Only publishNextInQueue sends, and what it sends is the front. *)
LEMMA OnlyPublishSends ==
  ASSUME TypeOK, Next, wire' # wire
  PROVE  /\ pc = "pubSend" /\ m_sendQueue # <<>>
         /\ wire'[Len(wire')] = Head(m_sendQueue)
<1>1. PublishSend
  BY DEF Next, Declare, SendAdd, SendPush, Initialize, Enter, Environment,
         Terminated, vars, msgVars, Thread, ThreadWhile, ThreadConnect,
         ThreadChanCheck, ConnectChannelsGuard, ConnectChannelsLock,
         ConnectChannelsOpen, ConnectChannelsDeclare, ConnectChannelsDone,
         PublishCheck, PublishPop, closeConnection, clearActiveSendQueue,
         Goto, Controller, StartCheck, StartSetRunning, StartSpawn, StopCheck,
         StopClearRunning, StopJoin, StopCloseConnection, StopClear,
         DestroyCheck, Destruct
<1>2. /\ pc = "pubSend" /\ m_sendQueue # <<>>
      /\ wire' = Append(wire, Head(m_sendQueue))
  BY <1>1 DEF PublishSend, At
<1>3. Head(m_sendQueue) \in RawMessage /\ wire \in Seq(RawMessage)
  BY <1>2, HeadTailProperties DEF TypeOK, MsgTypeOK
<1>. QED
  BY <1>2, <1>3, AppendProperties, LenProperties

(* An application that declares its exchanges before Start, on a broker     *)
(* that does not fail, never publishes into the void until it calls Stop:   *)
(* each message goes out on an open channel to an exchange the broker has,  *)
(* for any number of senders and exchanges and any sequence of Start, Stop  *)
(* and Restart.                                                             *)
THEOREM PublishesDelivered ==
  ASSUME OneController, Disciplined PROVE Spec => PublishDelivered
<1>1. Init => DeliveryInv
  BY DEF Init, DeliveryInv
<1>2. TypeOK /\ ChannelOwnership /\ LifeInv /\ DeliveryInv /\ [Next]_vars =>
        DeliveryInv'
  <2>1. ASSUME DeliveryInv, UNCHANGED vars PROVE DeliveryInv'
    BY <2>1
    DEF DeliveryInv, Opened, Channel, vars, connVars, listVars, loopVars
  <2>. QED
    BY <2>1, DeliveryStep
<1>3. TypeOK /\ ChannelOwnership /\ DeliveryInv /\ [Next]_vars =>
        [ wire' # wire /\ m_threadRunning =>
            LET m == wire'[Len(wire')]
            IN  session /\ m.channel \in openCh /\ m.exchange \in exchanges ]_vars
  <2>. SUFFICES ASSUME TypeOK, ChannelOwnership, DeliveryInv, Next,
                       wire' # wire, m_threadRunning
                PROVE  LET m == Head(m_sendQueue)
                       IN  /\ session /\ m.channel \in openCh
                           /\ m.exchange \in exchanges
    BY OnlyPublishSends
  <2>. QED
    BY OnlyPublishSends, FrontListed DEF DeliveryInv, Channel
<1>. QED
  BY <1>1, <1>2, <1>3, TypeCorrect, ChannelsOwned, LifeInvariant, PTL
  DEF Spec, PublishDelivered
=============================================================================
