--------------------------- MODULE ProducerProofs ---------------------------
(***************************************************************************)
(* Theorems about Producer for every set of senders, controllers and        *)
(* exchanges and every bound, checked by TLAPS.                             *)
(***************************************************************************)
EXTENDS Producer, ConnectionProofs, SequenceTheorems, TLAPS

-----------------------------------------------------------------------------
(* PublishMessage may close the message's channel or the session. *)
LEMMA PublishMessageType ==
  ASSUME ConnTypeOK, NEW message \in RawMessage, NEW ret,
         PublishMessage(message, ret)
  PROVE  ConnTypeOK'
<1>1. CASE ~m_isConnected
  BY <1>1 DEF ConnTypeOK, PublishMessage
<1>2. CASE m_isConnected
  <2>1. PICK status \in {"STATUS_OK", "STATUS_SOCKET_ERROR", "STATUS_OTHER"} :
          amqp_basic_publish(message, status)
    BY <1>2 DEF PublishMessage
  <2>2. UNCHANGED <<m_isConnected, m_conn, leaked>>
    BY DEF PublishMessage
  <2>11. (faults \in 0..MaxFaults /\ leaked \in Nat)'
    BY <2>1, <2>2, MaxFaultsAssumption DEF ConnTypeOK, amqp_basic_publish, Fault, RawMessage
  <2>12. (m_isConnected \in BOOLEAN /\ session \in BOOLEAN)'
    BY <2>1, <2>2 DEF ConnTypeOK, amqp_basic_publish, Fault, RawMessage
  <2>13. (m_conn \in {"none", "live", "destroyed"})'
    BY <2>1, <2>2 DEF ConnTypeOK, amqp_basic_publish, Fault, RawMessage
  <2>14. (openCh \subseteq Nat /\ closingCh \subseteq Nat)'
    BY <2>1, <2>2 DEF ConnTypeOK, amqp_basic_publish, Fault, RawMessage
  <2>15. (exchanges \subseteq Exchanges)'
    BY <2>1, <2>2 DEF ConnTypeOK, amqp_basic_publish, Fault, RawMessage
  <2>. QED
    BY <2>11, <2>12, <2>13, <2>14, <2>15 DEF ConnTypeOK
<1>. QED
  BY <1>1, <1>2

-----------------------------------------------------------------------------
(* Frames: what the two kinds of thread never touch.                        *)

(* The publishing thread leaves the exchange list, the thread handle, the   *)
(* running flag and the application's own progress alone.                   *)
LEMMA ThreadFrame ==
  ASSUME Thread
  PROVE  UNCHANGED <<listVars, lifeVars, m_threadRunning, accepted, ctl, snd>>
BY DEF Thread, ThreadWhile, ThreadConnect, ThreadChanCheck,
       ConnectChannelsGuard, ConnectChannelsLock, ConnectChannelsOpen,
       ConnectChannelsDeclare, ConnectChannelsDone, PublishCheck, PublishSend,
       PublishPop, closeConnection, clearActiveSendQueue, Goto, msgVars

(* Start, Stop, Restart and ~Producer leave the exchange list, the thread's *)
(* locals and the sent messages alone.                                      *)
LEMMA ControllerFrame ==
  ASSUME NEW c \in Controllers, Controller(c)
  PROVE  UNCHANGED <<listVars, loopVars, accepted, wire, snd>>
BY DEF Controller, StartCheck, StartSetRunning, StartSpawn, StopCheck,
       StopClearRunning, StopJoin, StopCloseConnection, StopClear,
       DestroyCheck, Destruct, msgVars

-----------------------------------------------------------------------------
(* Type correctness                                                         *)

(* The constructor leaves a well-typed producer. *)
LEMMA InitType == ASSUME Init PROVE TypeOK
<1>1. ConnTypeOK
  <2>1. faults \in 0..MaxFaults /\ leaked \in Nat
    BY MaxFaultsAssumption DEF Init, ConnInit
  <2>. QED
    BY <2>1, PredeclaredAssumption DEF Init, ConnInit, ConnTypeOK
<1>2. FlagTypeOK
  BY DEF Init, FlagTypeOK
<1>3. ListTypeOK
  BY DEF Init, ListTypeOK, FirstChannel, ThreadPoints, ExchangeProperties
<1>4. MsgTypeOK
  BY DEF Init, MsgTypeOK
<1>5. CtlTypeOK
  BY DEF Init, CtlTypeOK, Call, Idle, CallPoints
<1>. QED
  BY <1>1, <1>2, <1>3, <1>4, <1>5 DEF TypeOK

(* Every step leaves the connection well typed. *)
LEMMA NextConnType ==
  ASSUME TypeOK, Next
  PROVE  ConnTypeOK'
<1>. USE DEF TypeOK
<1>1. ASSUME UNCHANGED connVars PROVE ConnTypeOK'
  BY <1>1 DEF connVars, ConnTypeOK
<1>2. CASE ThreadConnect
  BY <1>1, <1>2, ConnectType DEF ThreadConnect
<1>3. ASSUME NEW e \in Exchanges, ConnectChannelsOpen(e) PROVE ConnTypeOK'
  <2>1. m_exchangeList[e].m_channel \in Nat
    BY <1>3 DEF ConnectChannelsOpen, ListTypeOK, ExchangeProperties
  <2>. QED
    BY <1>3, <2>1, OpenChannelType DEF ConnectChannelsOpen
<1>4. CASE ConnectChannelsDeclare
  <2>1. cur \in Exchanges /\ m_exchangeList[cur].m_channel \in Nat
    BY <1>4 DEF ConnectChannelsDeclare, At, ListTypeOK, ExchangeProperties
  <2>. QED
    BY <1>4, <2>1, DeclareExchangeType DEF ConnectChannelsDeclare
<1>5. CASE PublishSend
  <2>1. CASE m_sendQueue = <<>>
    BY <1>1, <1>5, <2>1 DEF PublishSend
  <2>2. CASE m_sendQueue # <<>>
    <3>1. Head(m_sendQueue) \in RawMessage
      BY <2>2, HeadTailProperties DEF MsgTypeOK
    <3>. QED
      BY <1>5, <2>2, <3>1, PublishMessageType DEF PublishSend
  <2>. QED
    BY <2>1, <2>2
<1>6. ASSUME NEW point, NEW next, closeConnection(point, next)
      PROVE  ConnTypeOK'
  BY <1>6, CloseConnectionType DEF closeConnection
<1>7. CASE Thread
  BY <1>1, <1>2, <1>3, <1>4, <1>5, <1>6, <1>7
  DEF Thread, ThreadWhile, ThreadChanCheck, ConnectChannelsGuard,
      ConnectChannelsLock, ConnectChannelsDone, PublishCheck, PublishPop,
      clearActiveSendQueue, Goto
<1>8. CASE Initialize
  <2>1. leaked' \in Nat
    BY <1>8 DEF Initialize, ConnTypeOK
  <2>. QED
    BY <1>8, <2>1 DEF Initialize, ConnTypeOK
<1>9. ASSUME NEW c \in Controllers, Controller(c) PROVE ConnTypeOK'
  <2>1. CASE StopCloseConnection(c)
    BY <1>1, <2>1, CloseConnectionType DEF StopCloseConnection
  <2>2. CASE Destruct(c)
    BY <1>1, <2>2, CloseConnectionType DEF Destruct
  <2>. QED
    BY <1>1, <1>9, <2>1, <2>2
    DEF Controller, StartCheck, StartSetRunning, StartSpawn, StopCheck,
        StopClearRunning, StopJoin, StopClear, DestroyCheck
<1>10. CASE Environment
  BY <1>10, BrokerFaultType DEF Environment
<1>. QED
  BY <1>1, <1>7, <1>8, <1>9, <1>10
  DEF Next, Declare, SendAdd, SendPush, Enter, Terminated, vars

(* Every step leaves the flags well typed. *)
LEMMA NextFlagType ==
  ASSUME TypeOK, Next
  PROVE  FlagTypeOK'
<1>. USE DEF TypeOK, FlagTypeOK
<1>1. CASE \E e \in Exchanges : Declare(e)
  BY <1>1 DEF Declare, addExchangeOfType, NewExchange, loopVars, lifeVars
<1>2. CASE \E s \in Senders, e \in Exchanges : SendAdd(s, e)
  BY <1>2 DEF SendAdd, addExchange, NewExchange, loopVars, lifeVars
<1>3. CASE \E s \in Senders : SendPush(s)
  BY <1>3 DEF SendPush, loopVars, lifeVars
<1>4. CASE Thread
  <2>1. (/\ m_isInitialized \in BOOLEAN
         /\ m_threadRunning \in BOOLEAN
         /\ joinable \in BOOLEAN
         /\ destroyed \in BOOLEAN)'
    BY <1>4, ThreadFrame DEF lifeVars
  <2>2. (m_channelsConnected \in BOOLEAN)'
    BY <1>4
    DEF Thread, ThreadWhile, ThreadConnect, ThreadChanCheck,
        ConnectChannelsGuard, ConnectChannelsLock, ConnectChannelsOpen,
        ConnectChannelsDeclare, ConnectChannelsDone, PublishCheck, PublishSend,
        PublishPop, closeConnection, clearActiveSendQueue, Goto
  <2>3. (allGood \in BOOLEAN)'
    BY <1>4
    DEF Thread, ThreadWhile, ThreadConnect, ThreadChanCheck,
        ConnectChannelsGuard, ConnectChannelsLock, ConnectChannelsOpen,
        ConnectChannelsDeclare, ConnectChannelsDone, PublishCheck, PublishSend,
        PublishPop, closeConnection, clearActiveSendQueue, Goto, LeaveLoop,
        StillGood, loopVars
  <2>4. (fault \in {"none", "terminate", "nullptr", "emptyQueue"})'
    BY <1>4
    DEF Thread, ThreadWhile, ThreadConnect, ThreadChanCheck,
        ConnectChannelsGuard, ConnectChannelsLock, ConnectChannelsOpen,
        ConnectChannelsDeclare, ConnectChannelsDone, PublishCheck, PublishSend,
        PublishPop, closeConnection, clearActiveSendQueue, Goto
  <2>. QED
    BY <2>1, <2>2, <2>3, <2>4
<1>5. CASE Initialize
  BY <1>5 DEF Initialize, loopVars
<1>6. CASE \E c \in Controllers, op \in Operations : Enter(c, op)
  BY <1>6 DEF Enter, loopVars
<1>7. CASE \E c \in Controllers : Controller(c)
  <2>1. PICK c \in Controllers : Controller(c)
    BY <1>7
  <2>2. (m_channelsConnected \in BOOLEAN)'
    BY <2>1
    DEF Controller, StartCheck, StartSetRunning, StartSpawn, StopCheck,
        StopClearRunning, StopJoin, StopCloseConnection, StopClear,
        DestroyCheck, Destruct, FlagAfterJoin
  <2>3. (m_isInitialized \in BOOLEAN /\ joinable \in BOOLEAN)'
    BY <2>1
    DEF Controller, StartCheck, StartSetRunning, StartSpawn, StopCheck,
        StopClearRunning, StopJoin, StopCloseConnection, StopClear,
        DestroyCheck, Destruct, lifeVars
  <2>4. (m_threadRunning \in BOOLEAN /\ destroyed \in BOOLEAN)'
    BY <2>1
    DEF Controller, StartCheck, StartSetRunning, StartSpawn, StopCheck,
        StopClearRunning, StopJoin, StopCloseConnection, StopClear,
        DestroyCheck, Destruct, lifeVars
  <2>5. (fault \in {"none", "terminate", "nullptr", "emptyQueue"})'
    BY <2>1
    DEF Controller, StartCheck, StartSetRunning, StartSpawn, StopCheck,
        StopClearRunning, StopJoin, StopCloseConnection, StopClear,
        DestroyCheck, Destruct
  <2>6. (allGood \in BOOLEAN)'
    BY <2>1, ControllerFrame DEF loopVars
  <2>. QED
    BY <2>2, <2>3, <2>4, <2>5, <2>6
<1>8. CASE Environment
  BY <1>8 DEF Environment, loopVars, lifeVars
<1>9. CASE Terminated
  BY <1>9 DEF Terminated, vars, loopVars, lifeVars
<1>. QED
  BY <1>1, <1>2, <1>3, <1>4, <1>5, <1>6, <1>7, <1>8, <1>9 DEF Next

(* Every step leaves the queue and the wire sequences of messages. *)
LEMMA NextMsgType ==
  ASSUME TypeOK, Next
  PROVE  MsgTypeOK'
<1>. USE DEF TypeOK, MsgTypeOK
<1>1. ASSUME UNCHANGED msgVars PROVE MsgTypeOK'
  BY <1>1 DEF msgVars
<1>2. ASSUME m_sendQueue # <<>>
      PROVE  Head(m_sendQueue) \in RawMessage /\ Tail(m_sendQueue) \in Seq(RawMessage)
  BY <1>2, HeadTailProperties
<1>3. ASSUME NEW s \in Senders, SendPush(s) PROVE MsgTypeOK'
  <2>1. snd[s] \in DOMAIN m_exchangeList
    BY <1>3 DEF SendPush, ListTypeOK
  <2>2. [id |-> accepted + 1, exchange |-> snd[s],
         channel |-> m_exchangeList[snd[s]].m_channel] \in RawMessage
    BY <2>1 DEF ListTypeOK, ExchangeProperties, RawMessage
  <2>. QED
    BY <1>3, <2>2, AppendProperties DEF SendPush
<1>4. CASE PublishSend
  <2>1. CASE m_sendQueue = <<>>
    BY <1>4, <2>1 DEF PublishSend
  <2>2. CASE m_sendQueue # <<>>
    BY <1>2, <1>4, <2>2, AppendProperties DEF PublishSend
  <2>. QED
    BY <2>1, <2>2
<1>5. CASE PublishPop
  BY <1>2, <1>5 DEF PublishPop
<1>6. ASSUME NEW point, NEW next, clearActiveSendQueue(point, next)
      PROVE  MsgTypeOK'
  BY <1>2, <1>6 DEF clearActiveSendQueue
<1>7. CASE Thread
  BY <1>1, <1>4, <1>5, <1>6, <1>7
  DEF Thread, ThreadWhile, ThreadConnect, ThreadChanCheck,
      ConnectChannelsGuard, ConnectChannelsLock, ConnectChannelsOpen,
      ConnectChannelsDeclare, ConnectChannelsDone, PublishCheck,
      closeConnection, Goto
<1>8. ASSUME NEW c \in Controllers, Controller(c) PROVE MsgTypeOK'
  <2>1. CASE StopClear(c)
    BY <1>2, <2>1 DEF StopClear
  <2>. QED
    BY <1>1, <1>8, <2>1
    DEF Controller, StartCheck, StartSetRunning, StartSpawn, StopCheck,
        StopClearRunning, StopJoin, StopCloseConnection, DestroyCheck, Destruct
<1>. QED
  BY <1>1, <1>3, <1>7, <1>8
  DEF Next, Declare, SendAdd, Initialize, Enter, Environment, Terminated, vars

(* Every step leaves each controller in a call the API has. *)
LEMMA NextCtlType ==
  ASSUME TypeOK, Next
  PROVE  CtlTypeOK'
<1>. USE DEF TypeOK, CtlTypeOK
<1>1. ASSUME NEW c \in Controllers, NEW op \in Operations, Enter(c, op)
      PROVE  CtlTypeOK'
  <2>1. [at |-> Entry[op], op |-> op, ok |-> TRUE] \in Call
    BY OperationsAssumption DEF Entry, Call, CallPoints
  <2>. QED
    BY <1>1, <2>1 DEF Enter
<1>2. ASSUME NEW c \in Controllers, Controller(c) PROVE CtlTypeOK'
  <2>1. ASSUME NEW point \in CallPoints, MoveTo(c, point) PROVE CtlTypeOK'
    BY <2>1 DEF MoveTo, Call
  <2>2. ASSUME Return(c) PROVE CtlTypeOK'
    BY <2>2 DEF Return, Idle, Call, CallPoints
  <2>3. CASE StopCheck(c)
    <3>1. ASSUME ctl' = [ctl EXCEPT ![c].at = "closeConn", ![c].ok = FALSE]
          PROVE  CtlTypeOK'
      BY <3>1 DEF Call, CallPoints
    <3>2. "clearRunning" \in CallPoints
      BY DEF CallPoints
    <3>. QED
      BY <2>1, <2>2, <2>3, <3>1, <3>2 DEF StopCheck
  <2>4. {"setRunning", "spawn", "join", "closeConn", "clear", "startCheck",
         "destruct", "stopCheck", "gone"} \subseteq CallPoints
    BY DEF CallPoints
  <2>5. CASE StopClear(c)
    BY <2>1, <2>2, <2>4, <2>5 DEF StopClear
  <2>. QED
    BY <1>2, <2>1, <2>2, <2>3, <2>4, <2>5
    DEF Controller, StartCheck, StartSetRunning, StartSpawn, StopClearRunning,
        StopJoin, StopCloseConnection, DestroyCheck, Destruct
<1>3. CASE Thread
  BY <1>3, ThreadFrame
<1>. QED
  BY <1>1, <1>2, <1>3
  DEF Next, Declare, SendAdd, SendPush, Initialize, Environment, Terminated, vars

(* A new exchange gets the next number and the others keep theirs. *)
LEMMA NewExchangeList ==
  ASSUME ListTypeOK, NEW exchange \in Exchanges, NEW isDeclare \in BOOLEAN,
         NewExchange(exchange, isDeclare)
  PROVE  /\ m_curChannelNumber' = m_curChannelNumber + 1
         /\ DOMAIN m_exchangeList' = DOMAIN m_exchangeList \cup {exchange}
         /\ m_exchangeList'[exchange].m_channel = m_curChannelNumber
         /\ \A e \in DOMAIN m_exchangeList :
              e # exchange => m_exchangeList'[e] = m_exchangeList[e]
         /\ m_exchangeList' \in
              [DOMAIN m_exchangeList \cup {exchange} -> ExchangeProperties]
BY DEF ListTypeOK, NewExchange, ExchangeProperties

(* What addExchange, in either form, does to the list: the exchange is in   *)
(* it afterwards, and numbers that were given out stay as they are.         *)
LEMMA AddExchangeList ==
  ASSUME ListTypeOK, NEW exchange \in Exchanges,
         addExchange(exchange) \/ addExchangeOfType(exchange)
  PROVE  /\ DOMAIN m_exchangeList' = DOMAIN m_exchangeList \cup {exchange}
         /\ m_exchangeList' \in [DOMAIN m_exchangeList' -> ExchangeProperties]
         /\ \A e \in DOMAIN m_exchangeList :
              m_exchangeList'[e].m_channel = m_exchangeList[e].m_channel
         /\ \/ /\ exchange \in DOMAIN m_exchangeList
               /\ m_curChannelNumber' = m_curChannelNumber
            \/ /\ exchange \notin DOMAIN m_exchangeList
               /\ m_curChannelNumber' = m_curChannelNumber + 1
               /\ m_exchangeList'[exchange].m_channel = m_curChannelNumber
<1>1. CASE exchange \notin DOMAIN m_exchangeList
  <2>1. PICK isDeclare \in BOOLEAN : NewExchange(exchange, isDeclare)
    BY <1>1 DEF addExchange, addExchangeOfType
  <2>. QED
    BY <1>1, <2>1, NewExchangeList
<1>2. CASE exchange \in DOMAIN m_exchangeList
  <2>1. CASE addExchange(exchange)
    BY <1>2, <2>1 DEF addExchange, listVars, ListTypeOK
  <2>2. CASE addExchangeOfType(exchange)
    <3>1. /\ m_exchangeList' =
               [m_exchangeList EXCEPT ![exchange].m_isDeclare = TRUE]
          /\ m_curChannelNumber' = m_curChannelNumber
      BY <1>2, <2>2 DEF addExchangeOfType
    <3>2. DOMAIN m_exchangeList' = DOMAIN m_exchangeList
      BY <3>1
    <3>3. ASSUME NEW e \in DOMAIN m_exchangeList
          PROVE  /\ m_exchangeList'[e] \in ExchangeProperties
                 /\ m_exchangeList'[e].m_channel = m_exchangeList[e].m_channel
      <4>1. m_exchangeList[e] \in ExchangeProperties
        BY DEF ListTypeOK
      <4>2. CASE e = exchange
        BY <1>2, <3>1, <4>1, <4>2 DEF ExchangeProperties
      <4>3. CASE e # exchange
        BY <3>1, <4>1, <4>3
      <4>. QED
        BY <4>2, <4>3
    <3>. QED
      BY <1>2, <3>1, <3>2, <3>3 DEF ListTypeOK
  <2>. QED
    BY <2>1, <2>2
<1>. QED
  BY <1>1, <1>2

(* Every step leaves the exchange list and those who refer to it in order. *)
LEMMA NextListType ==
  ASSUME TypeOK, Next
  PROVE  ListTypeOK'
<1>. USE DEF TypeOK
<1>1. ASSUME UNCHANGED <<listVars, pc, todo, cur, snd>> PROVE ListTypeOK'
  BY <1>1 DEF ListTypeOK, listVars
<1>2. ASSUME UNCHANGED <<listVars, todo, cur, snd>>,
             pc' \in ThreadPoints \ {"ccDeclare"}
      PROVE  ListTypeOK'
  BY <1>2 DEF ListTypeOK, listVars
<1>3. ASSUME NEW e \in Exchanges, Declare(e) PROVE ListTypeOK'
  <2>1. UNCHANGED <<pc, todo, cur, snd>>
    BY <1>3 DEF Declare, loopVars
  <2>2. addExchangeOfType(e)
    BY <1>3 DEF Declare
  <2>3. /\ DOMAIN m_exchangeList' = DOMAIN m_exchangeList \cup {e}
        /\ m_exchangeList' \in [DOMAIN m_exchangeList' -> ExchangeProperties]
        /\ m_curChannelNumber' \in {m_curChannelNumber, m_curChannelNumber + 1}
    BY <2>2, AddExchangeList
  <2>4. m_curChannelNumber' \in Nat \ {0}
    BY <2>3 DEF ListTypeOK
  <2>. QED
    BY <2>1, <2>3, <2>4, NoExchangeAssumption DEF ListTypeOK
<1>4. ASSUME NEW s \in Senders, NEW e \in Exchanges, SendAdd(s, e)
      PROVE  ListTypeOK'
  <2>1. UNCHANGED <<pc, todo, cur>> /\ snd' = [snd EXCEPT ![s] = e]
    BY <1>4 DEF SendAdd, loopVars
  <2>2. addExchange(e)
    BY <1>4 DEF SendAdd
  <2>3. /\ DOMAIN m_exchangeList' = DOMAIN m_exchangeList \cup {e}
        /\ m_exchangeList' \in [DOMAIN m_exchangeList' -> ExchangeProperties]
        /\ m_curChannelNumber' \in {m_curChannelNumber, m_curChannelNumber + 1}
    BY <2>2, AddExchangeList
  <2>4. m_curChannelNumber' \in Nat \ {0}
    BY <2>3 DEF ListTypeOK
  <2>. QED
    BY <2>1, <2>3, <2>4, NoExchangeAssumption DEF ListTypeOK
<1>5. ASSUME NEW s \in Senders, SendPush(s) PROVE ListTypeOK'
  BY <1>5 DEF SendPush, ListTypeOK, listVars, loopVars
<1>6. CASE Thread
  <2>1. UNCHANGED <<listVars, snd>>
    BY <1>6, ThreadFrame
  <2>2. CASE ConnectChannelsLock
    BY <2>1, <2>2 DEF ConnectChannelsLock, ListTypeOK, ThreadPoints, listVars
  <2>3. ASSUME NEW e \in Exchanges, ConnectChannelsOpen(e) PROVE ListTypeOK'
    <3>1. \/ pc' = "ccClose" /\ LeaveLoop
          \/ pc' = "ccDeclare" /\ cur' = e /\ e \in todo /\ todo' = todo
          \/ /\ pc' = pc /\ pc = "ccOpen" /\ cur' = cur
             /\ todo' = todo \ {e}
      BY <2>3 DEF ConnectChannelsOpen, At
    <3>. QED
      BY <2>1, <3>1 DEF ListTypeOK, LeaveLoop, ThreadPoints, listVars
  <2>4. CASE ConnectChannelsDeclare
    <3>1. \/ pc' = "ccClose" /\ LeaveLoop
          \/ pc' = "ccOpen" /\ cur' = NoExchange /\ todo' = todo \ {cur}
      BY <2>4 DEF ConnectChannelsDeclare
    <3>. QED
      BY <2>1, <3>1 DEF ListTypeOK, LeaveLoop, ThreadPoints, listVars
  <2>5. CASE ConnectChannelsDone
    BY <2>1, <2>5 DEF ConnectChannelsDone, ListTypeOK, LeaveLoop, ThreadPoints,
                      listVars
  <2>6. ASSUME \/ ThreadWhile \/ ThreadConnect \/ ThreadChanCheck
               \/ ConnectChannelsGuard \/ PublishCheck \/ PublishSend
               \/ PublishPop
               \/ closeConnection("ccClose", "ccClear")
               \/ clearActiveSendQueue("ccClear", "publish")
               \/ closeConnection("close", "clear")
               \/ clearActiveSendQueue("clear", "while")
        PROVE  ListTypeOK'
    <3>1. UNCHANGED <<todo, cur>>
      BY <2>6
      DEF ThreadWhile, ThreadConnect, ThreadChanCheck, ConnectChannelsGuard,
          PublishCheck, PublishSend, PublishPop, closeConnection,
          clearActiveSendQueue, Goto, loopVars
    <3>2. pc' \in ThreadPoints \ {"ccDeclare"}
      BY <2>6
      DEF ThreadWhile, ThreadConnect, ThreadChanCheck, ConnectChannelsGuard,
          PublishCheck, PublishSend, PublishPop, closeConnection,
          clearActiveSendQueue, Goto, At, ThreadPoints
    <3>. QED
      BY <1>2, <2>1, <3>1, <3>2
  <2>. QED
    BY <1>6, <2>2, <2>3, <2>4, <2>5, <2>6 DEF Thread
<1>7. ASSUME NEW c \in Controllers, Controller(c) PROVE ListTypeOK'
  <2>1. UNCHANGED <<listVars, todo, cur, snd>>
    BY <1>7, ControllerFrame DEF loopVars
  <2>2. pc' \in {pc, "while", "none"}
    BY <1>7
    DEF Controller, StartCheck, StartSetRunning, StartSpawn, StopCheck,
        StopClearRunning, StopJoin, StopCloseConnection, StopClear,
        DestroyCheck, Destruct
  <2>. QED
    BY <1>1, <1>2, <2>1, <2>2 DEF ThreadPoints
<1>. QED
  BY <1>1, <1>3, <1>4, <1>5, <1>6, <1>7
  DEF Next, Initialize, Enter, Environment, Terminated, vars, loopVars

(* TypeOK is an invariant: whatever the interleaving, the loop of           *)
(* connectChannels and a Send between its two critical sections refer only  *)
(* to exchanges in m_exchangeList, channel numbers are positive, and the    *)
(* queue holds only messages Send has built.                                *)
THEOREM TypeCorrect == Spec => []TypeOK
<1>1. Init => TypeOK
  BY InitType
<1>2. TypeOK /\ [Next]_vars => TypeOK'
  <2>1. ASSUME TypeOK, Next PROVE TypeOK'
    BY <2>1, NextConnType, NextFlagType, NextListType, NextMsgType, NextCtlType
    DEF TypeOK
  <2>2. ASSUME TypeOK, UNCHANGED vars PROVE TypeOK'
    BY <2>2
    DEF TypeOK, ConnTypeOK, FlagTypeOK, ListTypeOK, MsgTypeOK, CtlTypeOK, vars,
        connVars, listVars, loopVars, msgVars, lifeVars
  <2>. QED
    BY <2>1, <2>2
<1>. QED
  BY <1>1, <1>2, PTL DEF Spec

-----------------------------------------------------------------------------
(* What a step does to the queue and to the wire                            *)

(* A step leaves the queue alone, loses its front, or adds one message that *)
(* carries the next id and the channel of its exchange.                     *)
LEMMA QueueStep ==
  ASSUME TypeOK, Next
  PROVE  \/ m_sendQueue' = m_sendQueue /\ accepted' = accepted
         \/ /\ m_sendQueue # <<>>
            /\ m_sendQueue' = Tail(m_sendQueue)
            /\ accepted' = accepted
         \/ \E e \in DOMAIN m_exchangeList :
              /\ m_sendQueue' =
                   Append(m_sendQueue, [id |-> accepted + 1, exchange |-> e,
                                        channel |-> m_exchangeList[e].m_channel])
              /\ accepted' = accepted + 1
              /\ UNCHANGED <<wire, pc, listVars>>
<1>1. CASE Thread
  BY <1>1, ThreadFrame
  DEF Thread, ThreadWhile, ThreadConnect, ThreadChanCheck,
      ConnectChannelsGuard, ConnectChannelsLock, ConnectChannelsOpen,
      ConnectChannelsDeclare, ConnectChannelsDone, PublishCheck, PublishSend,
      PublishPop, closeConnection, clearActiveSendQueue, Goto, msgVars
<1>2. ASSUME NEW c \in Controllers, Controller(c)
      PROVE  /\ accepted' = accepted
             /\ \/ m_sendQueue' = m_sendQueue
                \/ m_sendQueue # <<>> /\ m_sendQueue' = Tail(m_sendQueue)
  BY <1>2, ControllerFrame
  DEF Controller, StartCheck, StartSetRunning, StartSpawn, StopCheck,
      StopClearRunning, StopJoin, StopCloseConnection, StopClear,
      DestroyCheck, Destruct, msgVars
<1>3. ASSUME NEW s \in Senders, SendPush(s)
      PROVE  \E e \in DOMAIN m_exchangeList :
              /\ m_sendQueue' =
                   Append(m_sendQueue, [id |-> accepted + 1, exchange |-> e,
                                        channel |-> m_exchangeList[e].m_channel])
              /\ accepted' = accepted + 1
              /\ UNCHANGED <<wire, pc, listVars>>
  BY <1>3 DEF SendPush, TypeOK, ListTypeOK
<1>. QED
  BY <1>1, <1>2, <1>3
  DEF Next, Declare, SendAdd, Initialize, Enter, Environment, Terminated, vars,
      msgVars

(* A step leaves the exchange list alone or is one call of addExchange,     *)
(* which leaves the queue, the wire and the thread alone.                   *)
LEMMA ListStep ==
  ASSUME TypeOK, Next
  PROVE  \/ UNCHANGED listVars
         \/ /\ \E e \in Exchanges : addExchange(e) \/ addExchangeOfType(e)
            /\ UNCHANGED <<msgVars, pc>>
<1>1. CASE Thread
  BY <1>1, ThreadFrame
<1>2. ASSUME NEW c \in Controllers, Controller(c) PROVE UNCHANGED listVars
  BY <1>2, ControllerFrame
<1>. QED
  BY <1>1, <1>2
  DEF Next, Declare, SendAdd, SendPush, Initialize, Enter, Environment,
      Terminated, vars

-----------------------------------------------------------------------------
(* Channel ownership                                                        *)

(* ChannelOwnership is inductive on top of TypeOK: m_curChannelNumber is    *)
(* above every number given out, so a new exchange cannot share a channel,  *)
(* and a number once given never changes, so a message queued long after    *)
(* addExchange returned still names the right channel.                      *)
THEOREM ChannelsOwned == Spec => []ChannelOwnership
<1>1. Init => ChannelOwnership
  BY DEF Init, ChannelOwnership
<1>2. ASSUME TypeOK, ChannelOwnership, [Next]_vars
      PROVE  ChannelOwnership'
  <2>0. CASE UNCHANGED vars
    BY <1>2, <2>0 DEF ChannelOwnership, vars, listVars, msgVars
  <2>1. ASSUME Next, UNCHANGED listVars PROVE ChannelOwnership'
    <3>1. CASE m_sendQueue' = m_sendQueue
      BY <1>2, <2>1, <3>1 DEF ChannelOwnership, listVars
    <3>2. CASE m_sendQueue # <<>> /\ m_sendQueue' = Tail(m_sendQueue)
      <4>1. /\ Len(Tail(m_sendQueue)) = Len(m_sendQueue) - 1
            /\ \A i \in 1..Len(Tail(m_sendQueue)) :
                 Tail(m_sendQueue)[i] = m_sendQueue[i + 1]
        BY <1>2, <3>2, HeadTailProperties DEF TypeOK, MsgTypeOK
      <4>2. Len(m_sendQueue) \in Nat
        BY <1>2 DEF TypeOK, MsgTypeOK
      <4>. QED
        BY <1>2, <2>1, <3>2, <4>1, <4>2 DEF ChannelOwnership, listVars
    <3>3. ASSUME NEW e \in DOMAIN m_exchangeList,
                 m_sendQueue' =
                   Append(m_sendQueue, [id |-> accepted + 1, exchange |-> e,
                                        channel |-> m_exchangeList[e].m_channel])
          PROVE  ChannelOwnership'
      BY <1>2, <2>1, <3>3 DEF ChannelOwnership, listVars, TypeOK, MsgTypeOK
    <3>. QED
      BY <1>2, <2>1, <3>1, <3>2, <3>3, QueueStep
  <2>2. ASSUME NEW e \in Exchanges, UNCHANGED msgVars,
               addExchange(e) \/ addExchangeOfType(e)
        PROVE  ChannelOwnership'
    <3>1. /\ DOMAIN m_exchangeList' = DOMAIN m_exchangeList \cup {e}
          /\ \A f \in DOMAIN m_exchangeList :
               m_exchangeList'[f].m_channel = m_exchangeList[f].m_channel
          /\ \/ /\ e \in DOMAIN m_exchangeList
                /\ m_curChannelNumber' = m_curChannelNumber
             \/ /\ e \notin DOMAIN m_exchangeList
                /\ m_curChannelNumber' = m_curChannelNumber + 1
                /\ m_exchangeList'[e].m_channel = m_curChannelNumber
      BY <1>2, <2>2, AddExchangeList DEF TypeOK
    <3>2. /\ m_curChannelNumber \in Nat
          /\ \A f \in DOMAIN m_exchangeList : m_exchangeList[f].m_channel \in Nat
      BY <1>2 DEF TypeOK, ListTypeOK, ExchangeProperties
    <3>. QED
      BY <1>2, <2>2, <3>1, <3>2 DEF ChannelOwnership, msgVars
  <2>. QED
    BY <1>2, <2>0, <2>1, <2>2, ListStep
<1>. QED
  BY <1>1, <1>2, TypeCorrect, PTL DEF Spec

-----------------------------------------------------------------------------
(* Order of the messages                                                    *)

(* The thread that is somewhere in thread() is the one in m_producerThread, *)
(* so Start never resets the program counter of a live thread.              *)
ThreadOwned == pc # "none" => joinable

(* InOrder is not inductive: it says nothing of the front of the queue      *)
(* while it is being popped, nor that ids not yet given are larger than the *)
(* ones in use.                                                             *)
OrderInv ==
  /\ ThreadOwned
  /\ Increasing(wire)
  /\ Increasing(m_sendQueue)
  /\ \A i \in 1..Len(wire) : wire[i].id <= accepted
  /\ \A i \in 1..Len(m_sendQueue) : m_sendQueue[i].id <= accepted
  /\ \A i \in 1..Len(wire), j \in 1..Len(m_sendQueue) :
       IF pc = "pop" THEN wire[i].id <= m_sendQueue[j].id
                     ELSE wire[i].id < m_sendQueue[j].id

(* ThreadOwned is inductive. *)
LEMMA ThreadOwnedStep ==
  ASSUME TypeOK, ThreadOwned, Next
  PROVE  ThreadOwned'
<1>1. CASE Thread
  <2>1. pc # "none"
    BY <1>1
    DEF Thread, ThreadWhile, ThreadConnect, ThreadChanCheck,
        ConnectChannelsGuard, ConnectChannelsLock, ConnectChannelsOpen,
        ConnectChannelsDeclare, ConnectChannelsDone, PublishCheck, PublishSend,
        PublishPop, closeConnection, clearActiveSendQueue, At
  <2>. QED
    BY <1>1, <2>1, ThreadFrame DEF ThreadOwned, lifeVars
<1>2. ASSUME NEW c \in Controllers, Controller(c) PROVE ThreadOwned'
  BY <1>2
  DEF Controller, StartCheck, StartSetRunning, StartSpawn, StopCheck,
      StopClearRunning, StopJoin, StopCloseConnection, StopClear,
      DestroyCheck, Destruct, ThreadOwned, lifeVars
<1>. QED
  BY <1>1, <1>2
  DEF Next, Declare, SendAdd, SendPush, Initialize, Enter, Environment,
      Terminated, vars, lifeVars, ThreadOwned

(* Apart from SendPush, PublishSend and PublishPop, a step sends nothing,   *)
(* at most drops the front of the queue, and does not leave "pop".          *)
LEMMA QuietStep ==
  ASSUME TypeOK, ThreadOwned, Next,
         \A s \in Senders : ~SendPush(s), ~PublishSend, ~PublishPop
  PROVE  /\ wire' = wire
         /\ accepted' = accepted
         /\ \/ m_sendQueue' = m_sendQueue
            \/ m_sendQueue # <<>> /\ m_sendQueue' = Tail(m_sendQueue)
         /\ pc' = "pop" <=> pc = "pop"
<1>1. CASE Thread
  <2>1. wire' = wire /\ accepted' = accepted
    BY <1>1, ThreadFrame
    DEF Thread, ThreadWhile, ThreadConnect, ThreadChanCheck,
        ConnectChannelsGuard, ConnectChannelsLock, ConnectChannelsOpen,
        ConnectChannelsDeclare, ConnectChannelsDone, PublishCheck,
        closeConnection, clearActiveSendQueue, Goto, msgVars
  <2>2. \/ m_sendQueue' = m_sendQueue
        \/ m_sendQueue # <<>> /\ m_sendQueue' = Tail(m_sendQueue)
    BY <1>1
    DEF Thread, ThreadWhile, ThreadConnect, ThreadChanCheck,
        ConnectChannelsGuard, ConnectChannelsLock, ConnectChannelsOpen,
        ConnectChannelsDeclare, ConnectChannelsDone, PublishCheck,
        closeConnection, clearActiveSendQueue, Goto, msgVars
  <2>3. pc # "pop" /\ pc' # "pop"
    BY <1>1
    DEF Thread, ThreadWhile, ThreadConnect, ThreadChanCheck,
        ConnectChannelsGuard, ConnectChannelsLock, ConnectChannelsOpen,
        ConnectChannelsDeclare, ConnectChannelsDone, PublishCheck,
        closeConnection, clearActiveSendQueue, Goto, At
  <2>. QED
    BY <2>1, <2>2, <2>3
<1>2. CASE \E c \in Controllers : Controller(c)
  <2>1. PICK c \in Controllers : Controller(c)
    BY <1>2
  <2>2. wire' = wire /\ accepted' = accepted
    BY <2>1, ControllerFrame
  <2>3. \/ m_sendQueue' = m_sendQueue
        \/ m_sendQueue # <<>> /\ m_sendQueue' = Tail(m_sendQueue)
    BY <2>1
    DEF Controller, StartCheck, StartSetRunning, StartSpawn, StopCheck,
        StopClearRunning, StopJoin, StopCloseConnection, StopClear,
        DestroyCheck, Destruct, msgVars
  <2>4. pc' = "pop" <=> pc = "pop"
    BY <2>1
    DEF Controller, StartCheck, StartSetRunning, StartSpawn, StopCheck,
        StopClearRunning, StopJoin, StopCloseConnection, StopClear,
        DestroyCheck, Destruct, ThreadOwned
  <2>. QED
    BY <2>2, <2>3, <2>4
<1>. QED
  BY <1>1, <1>2
  DEF Next, Declare, SendAdd, Initialize, Enter, Environment, Terminated, vars,
      msgVars

(* Every message of a queue has a number for its id. *)
LEMMA MessageIds ==
  ASSUME NEW q \in Seq(RawMessage)
  PROVE  Len(q) \in Nat /\ \A i \in 1..Len(q) : q[i].id \in Nat
<1>1. \A i \in 1..Len(q) : q[i] \in RawMessage
  BY LenProperties
<1>2. \A m \in RawMessage : m.id \in Nat
  BY DEF RawMessage
<1>. QED
  BY <1>1, <1>2, LenProperties

(* Dropping the front keeps the ids increasing. *)
LEMMA IncreasingTail ==
  ASSUME NEW q \in Seq(RawMessage), q # <<>>, Increasing(q)
  PROVE  Increasing(Tail(q))
<1>1. /\ Len(q) \in Nat
      /\ Len(Tail(q)) = Len(q) - 1
      /\ \A i \in 1..Len(Tail(q)) : Tail(q)[i] = q[i + 1]
  BY HeadTailProperties, LenProperties
<1>. QED
  BY <1>1 DEF Increasing

(* So does adding a message with a larger id at the back. *)
LEMMA IncreasingAppend ==
  ASSUME NEW q \in Seq(RawMessage), NEW m \in RawMessage, Increasing(q),
         \A i \in 1..Len(q) : q[i].id < m.id
  PROVE  Increasing(Append(q, m))
<1>1. /\ Len(q) \in Nat
      /\ Len(Append(q, m)) = Len(q) + 1
      /\ \A i \in 1..Len(q) : Append(q, m)[i] = q[i]
      /\ Append(q, m)[Len(q) + 1] = m
  BY AppendProperties, LenProperties
<1>2. ASSUME NEW i \in 1..Len(Append(q, m)), NEW j \in 1..Len(Append(q, m)), i < j
      PROVE  Append(q, m)[i].id < Append(q, m)[j].id
  <2>1. i \in 1..Len(q)
    BY <1>1, <1>2
  <2>2. CASE j = Len(q) + 1
    BY <1>1, <2>1, <2>2
  <2>3. CASE j # Len(q) + 1
    BY <1>1, <1>2, <2>1, <2>3 DEF Increasing
  <2>. QED
    BY <2>2, <2>3
<1>. QED
  BY <1>2 DEF Increasing

(* OrderInv survives every step; the three that matter are the push, the    *)
(* send and the pop.                                                        *)
LEMMA OrderStep ==
  ASSUME TypeOK, OrderInv, Next
  PROVE  OrderInv'
<1>. USE DEF TypeOK, MsgTypeOK
<1>1. ThreadOwned'
  BY ThreadOwnedStep DEF OrderInv
<1>2. /\ Len(wire) \in Nat /\ Len(m_sendQueue) \in Nat
      /\ \A i \in 1..Len(wire) : wire[i].id \in Nat
      /\ \A i \in 1..Len(m_sendQueue) : m_sendQueue[i].id \in Nat
  BY MessageIds
<1>3. m_sendQueue # <<>> =>
        /\ Len(m_sendQueue) >= 1
        /\ Len(Tail(m_sendQueue)) = Len(m_sendQueue) - 1
        /\ \A i \in 1..Len(Tail(m_sendQueue)) :
             Tail(m_sendQueue)[i] = m_sendQueue[i + 1]
        /\ Head(m_sendQueue) = m_sendQueue[1]
  BY HeadTailProperties, EmptySeq
<1>4. ASSUME NEW s \in Senders, SendPush(s) PROVE OrderInv'
  <2>1. PICK m \in RawMessage :
          m.id = accepted + 1 /\ m_sendQueue' = Append(m_sendQueue, m)
    <3>1. snd[s] \in DOMAIN m_exchangeList
      BY <1>4 DEF SendPush, ListTypeOK
    <3>2. [id |-> accepted + 1, exchange |-> snd[s],
           channel |-> m_exchangeList[snd[s]].m_channel] \in RawMessage
      BY <3>1 DEF ListTypeOK, ExchangeProperties, RawMessage
    <3>. QED
      BY <1>4, <3>2 DEF SendPush
  <2>2. UNCHANGED <<wire, pc>> /\ accepted' = accepted + 1
    BY <1>4 DEF SendPush
  <2>3. /\ Len(m_sendQueue') = Len(m_sendQueue) + 1
        /\ \A i \in 1..Len(m_sendQueue) : m_sendQueue'[i] = m_sendQueue[i]
        /\ m_sendQueue'[Len(m_sendQueue) + 1].id = accepted + 1
    BY <2>1, AppendProperties
  <2>4. Increasing(m_sendQueue')
    BY <1>2, <2>1, IncreasingAppend DEF OrderInv
  <2>5. Increasing(wire')
    BY <2>2 DEF OrderInv, Increasing
  <2>6. \A i \in 1..Len(m_sendQueue') :
          IF i = Len(m_sendQueue) + 1
          THEN m_sendQueue'[i].id = accepted + 1
          ELSE i \in 1..Len(m_sendQueue) /\ m_sendQueue'[i] = m_sendQueue[i]
    BY <1>2, <2>3
  <2>7. (\A i \in 1..Len(m_sendQueue) : m_sendQueue[i].id <= accepted)'
    <3>. SUFFICES ASSUME NEW i \in 1..Len(m_sendQueue')
                  PROVE  m_sendQueue'[i].id <= accepted + 1
      BY <2>2
    <3>1. CASE i = Len(m_sendQueue) + 1
      BY <2>6, <3>1
    <3>2. CASE i # Len(m_sendQueue) + 1
      <4>1. i \in 1..Len(m_sendQueue) /\ m_sendQueue'[i] = m_sendQueue[i]
        BY <2>6, <3>2
      <4>. QED
        BY <1>2, <4>1 DEF OrderInv
    <3>. QED
      BY <3>1, <3>2
  <2>8. (\A i \in 1..Len(wire), j \in 1..Len(m_sendQueue) :
           IF pc = "pop" THEN wire[i].id <= m_sendQueue[j].id
                         ELSE wire[i].id < m_sendQueue[j].id)'
    BY <1>2, <2>2, <2>6 DEF OrderInv
  <2>9. (\A i \in 1..Len(wire) : wire[i].id <= accepted)'
    BY <1>2, <2>2 DEF OrderInv
  <2>. QED
    BY <1>1, <2>4, <2>5, <2>7, <2>8, <2>9 DEF OrderInv
<1>5. CASE PublishSend
  <2>1. UNCHANGED <<m_sendQueue, accepted>> /\ pc = "pubSend"
    BY <1>5 DEF PublishSend, At
  <2>2. CASE wire' = wire /\ pc' # "pop"
    BY <1>1, <2>1, <2>2 DEF OrderInv, Increasing
  <2>3. CASE /\ m_sendQueue # <<>> /\ pc' = "pop"
             /\ wire' = Append(wire, Head(m_sendQueue))
    <3>1. /\ Len(wire') = Len(wire) + 1
          /\ \A i \in 1..Len(wire) : wire'[i] = wire[i]
          /\ wire'[Len(wire) + 1] = m_sendQueue[1]
      BY <1>3, <2>3, AppendProperties, HeadTailProperties
    <3>2. Increasing(wire')
      <4>1. Head(m_sendQueue) \in RawMessage
        BY <2>3, HeadTailProperties
      <4>2. \A i \in 1..Len(wire) : wire[i].id < Head(m_sendQueue).id
        BY <1>2, <1>3, <2>1, <2>3 DEF OrderInv
      <4>. QED
        BY <2>3, <4>1, <4>2, IncreasingAppend DEF OrderInv
    <3>3. \A i \in 1..Len(wire') : wire'[i].id <= accepted
      BY <1>2, <1>3, <2>1, <2>3, <3>1 DEF OrderInv
    <3>4. \A i \in 1..Len(wire'), j \in 1..Len(m_sendQueue) :
            wire'[i].id <= m_sendQueue[j].id
      BY <1>2, <1>3, <2>1, <2>3, <3>1 DEF OrderInv, Increasing
    <3>. QED
      BY <1>1, <2>1, <2>3, <3>2, <3>3, <3>4 DEF OrderInv, Increasing
  <2>. QED
    BY <1>5, <2>2, <2>3 DEF PublishSend, serverFailure, noError, At
<1>6. CASE PublishPop
  <2>1. UNCHANGED <<wire, accepted>> /\ pc = "pop"
    BY <1>6 DEF PublishPop, At
  <2>2. CASE m_sendQueue = <<>>
    BY <1>1, <1>6, <2>1, <2>2 DEF PublishPop, OrderInv, Increasing
  <2>3. CASE m_sendQueue # <<>>
    <3>1. m_sendQueue' = Tail(m_sendQueue) /\ pc' = "while"
      BY <1>6, <2>3 DEF PublishPop
    <3>2. Increasing(m_sendQueue')
      BY <2>3, <3>1, IncreasingTail DEF OrderInv
    <3>3. ASSUME NEW i \in 1..Len(wire), NEW j \in 1..Len(m_sendQueue')
          PROVE  wire[i].id < m_sendQueue'[j].id
      <4>1. /\ j + 1 \in 1..Len(m_sendQueue)
            /\ m_sendQueue'[j] = m_sendQueue[j + 1]
        BY <1>2, <1>3, <2>3, <3>1
      <4>2. wire[i].id <= m_sendQueue[1].id
        BY <1>2, <1>3, <2>1, <2>3 DEF OrderInv
      <4>3. m_sendQueue[1].id < m_sendQueue[j + 1].id
        BY <1>2, <1>3, <2>3, <4>1 DEF OrderInv, Increasing
      <4>. QED
        BY <1>2, <1>3, <2>3, <4>1, <4>2, <4>3
    <3>4. \A i \in 1..Len(m_sendQueue') : m_sendQueue'[i].id <= accepted
      BY <1>2, <1>3, <2>3, <3>1 DEF OrderInv
    <3>. QED
      BY <1>1, <2>1, <3>1, <3>2, <3>3, <3>4 DEF OrderInv, Increasing
  <2>. QED
    BY <2>2, <2>3
<1>7. CASE /\ \A s \in Senders : ~SendPush(s)
           /\ ~PublishSend /\ ~PublishPop
  <2>1. /\ wire' = wire
        /\ accepted' = accepted
        /\ \/ m_sendQueue' = m_sendQueue
           \/ m_sendQueue # <<>> /\ m_sendQueue' = Tail(m_sendQueue)
        /\ pc' = "pop" <=> pc = "pop"
    BY <1>7, QuietStep DEF OrderInv
  <2>2. CASE m_sendQueue' = m_sendQueue
    BY <1>1, <2>1, <2>2 DEF OrderInv, Increasing
  <2>3. CASE m_sendQueue # <<>> /\ m_sendQueue' = Tail(m_sendQueue)
    BY <1>1, <1>2, <1>3, <2>1, <2>3 DEF OrderInv, Increasing
  <2>. QED
    BY <2>1, <2>2, <2>3
<1>. QED
  BY <1>4, <1>5, <1>6, <1>7

(* The messages that amqp_basic_publish has taken and those still queued    *)
(* are in the order of the Sends, without duplicates, for any number of     *)
(* senders and of controllers that start, stop and restart the producer     *)
(* concurrently, and whatever the broker does.                              *)
THEOREM MessagesInOrder == Spec => []InOrder
<1>1. Init => OrderInv
  BY DEF Init, OrderInv, ThreadOwned, Increasing
<1>2. TypeOK /\ OrderInv /\ [Next]_vars => OrderInv'
  <2>1. ASSUME OrderInv, UNCHANGED vars PROVE OrderInv'
    BY <2>1 DEF OrderInv, ThreadOwned, Increasing, vars, msgVars, lifeVars
  <2>. QED
    BY <2>1, OrderStep
<1>3. TypeOK /\ OrderInv => InOrder
  <2>. SUFFICES ASSUME TypeOK, OrderInv PROVE InOrder
    OBVIOUS
  <2>1. CASE pc = "pop" /\ m_sendQueue # <<>>
    <3>1. /\ Len(m_sendQueue) \in Nat /\ Len(m_sendQueue) >= 1
          /\ Len(Unsent) = Len(m_sendQueue) - 1
          /\ \A i \in 1..Len(Unsent) : Unsent[i] = m_sendQueue[i + 1]
      BY <2>1, HeadTailProperties, EmptySeq DEF Unsent, TypeOK, MsgTypeOK
    <3>2. /\ \A i \in 1..Len(wire) : wire[i].id \in Nat
          /\ \A i \in 1..Len(m_sendQueue) : m_sendQueue[i].id \in Nat
      BY MessageIds DEF TypeOK, MsgTypeOK
    <3>3. Increasing(Unsent)
      BY <3>1 DEF OrderInv, Increasing
    <3>4. \A i \in 1..Len(wire), j \in 1..Len(Unsent) : wire[i].id < Unsent[j].id
      <4>. SUFFICES ASSUME NEW i \in 1..Len(wire), NEW j \in 1..Len(Unsent)
                    PROVE  wire[i].id < m_sendQueue[j + 1].id
        BY <3>1
      <4>1. wire[i].id <= m_sendQueue[1].id
        BY <2>1, <3>1 DEF OrderInv
      <4>2. m_sendQueue[1].id < m_sendQueue[j + 1].id
        BY <3>1 DEF OrderInv, Increasing
      <4>. QED
        BY <3>1, <3>2, <4>1, <4>2
    <3>. QED
      BY <3>3, <3>4 DEF InOrder, OrderInv
  <2>2. CASE ~(pc = "pop" /\ m_sendQueue # <<>>)
    <3>1. Unsent = m_sendQueue
      BY <2>2 DEF Unsent
    <3>2. \A i \in 1..Len(wire), j \in 1..Len(m_sendQueue) :
            wire[i].id < m_sendQueue[j].id
      BY <2>2, EmptySeq DEF OrderInv
    <3>. QED
      BY <3>1, <3>2 DEF InOrder, OrderInv
  <2>. QED
    BY <2>1, <2>2
<1>. QED
  BY <1>1, <1>2, <1>3, TypeCorrect, PTL DEF Spec
=============================================================================
