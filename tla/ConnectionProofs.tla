-------------------------- MODULE ConnectionProofs --------------------------
(***************************************************************************)
(* Lemmas about the calls of ConnectionBase, for the proofs about Producer  *)
(* and Consumer, whose threads make these calls.                            *)
(***************************************************************************)
EXTENDS ConnectionBase, TLAPS

-----------------------------------------------------------------------------
(* The connection's calls keep the connection's types.                      *)

(* Connect leaves a well-typed connection, whatever it returns. *)
LEMMA ConnectType ==
  ASSUME ConnTypeOK, NEW ret, Connect(ret)
  PROVE  ConnTypeOK'
<1>1. (faults \in 0..MaxFaults /\ leaked \in Nat)'
  BY MaxFaultsAssumption DEF ConnTypeOK, Connect, Fault
<1>2. (m_isConnected \in BOOLEAN /\ session \in BOOLEAN)'
  BY DEF ConnTypeOK, Connect, Fault
<1>3. (m_conn \in {"none", "live", "destroyed"})'
  BY DEF ConnTypeOK, Connect, Fault
<1>4. (openCh \subseteq Nat /\ closingCh \subseteq Nat)'
  BY DEF ConnTypeOK, Connect, Fault
<1>5. (exchanges \subseteq Exchanges)'
  BY DEF ConnTypeOK, Connect, Fault
<1>. QED
  BY <1>1, <1>2, <1>3, <1>4, <1>5 DEF ConnTypeOK

(* So does CloseConnection. *)
LEMMA CloseConnectionType ==
  ASSUME ConnTypeOK, NEW ret, CloseConnection(ret)
  PROVE  ConnTypeOK'
<1>1. (faults \in 0..MaxFaults /\ leaked \in Nat)'
  BY MaxFaultsAssumption DEF ConnTypeOK, CloseConnection, Fault
<1>2. (m_isConnected \in BOOLEAN /\ session \in BOOLEAN)'
  BY DEF ConnTypeOK, CloseConnection, Fault
<1>3. (m_conn \in {"none", "live", "destroyed"})'
  BY DEF ConnTypeOK, CloseConnection, Fault
<1>4. (openCh \subseteq Nat /\ closingCh \subseteq Nat)'
  BY DEF ConnTypeOK, CloseConnection, Fault
<1>5. (exchanges \subseteq Exchanges)'
  BY DEF ConnTypeOK, CloseConnection, Fault
<1>. QED
  BY <1>1, <1>2, <1>3, <1>4, <1>5 DEF ConnTypeOK

(* OpenChannel adds at most the channel it was given. *)
LEMMA OpenChannelType ==
  ASSUME ConnTypeOK, NEW channel \in Nat, NEW ret, OpenChannel(channel, ret)
  PROVE  ConnTypeOK'
<1>1. CASE ~m_isConnected
  BY <1>1 DEF ConnTypeOK, OpenChannel
<1>2. CASE m_isConnected
  <2>1. PICK reply \in Reply : amqp_channel_open(channel, reply)
    BY <1>2 DEF OpenChannel
  <2>2. UNCHANGED <<m_isConnected, m_conn, leaked>>
    BY DEF OpenChannel
  <2>11. (faults \in 0..MaxFaults /\ leaked \in Nat)'
    BY <2>1, <2>2, MaxFaultsAssumption
    DEF ConnTypeOK, amqp_channel_open, RpcOnDeadLink, RpcRefused, RpcFault,
        Fault
  <2>12. (m_isConnected \in BOOLEAN /\ session \in BOOLEAN)'
    BY <2>1, <2>2 DEF ConnTypeOK, amqp_channel_open, RpcOnDeadLink, RpcRefused, RpcFault,
        Fault
  <2>13. (m_conn \in {"none", "live", "destroyed"})'
    BY <2>1, <2>2 DEF ConnTypeOK, amqp_channel_open, RpcOnDeadLink, RpcRefused, RpcFault,
        Fault
  <2>14. (openCh \subseteq Nat /\ closingCh \subseteq Nat)'
    BY <2>1, <2>2 DEF ConnTypeOK, amqp_channel_open, RpcOnDeadLink, RpcRefused, RpcFault,
        Fault
  <2>15. (exchanges \subseteq Exchanges)'
    BY <2>1, <2>2 DEF ConnTypeOK, amqp_channel_open, RpcOnDeadLink, RpcRefused, RpcFault,
        Fault
  <2>. QED
    BY <2>11, <2>12, <2>13, <2>14, <2>15 DEF ConnTypeOK
<1>. QED
  BY <1>1, <1>2

(* DeclareExchange adds at most the exchange it was given. *)
LEMMA DeclareExchangeType ==
  ASSUME ConnTypeOK, NEW channel \in Nat, NEW exchange \in Exchanges, NEW ret,
         DeclareExchange(channel, exchange, ret)
  PROVE  ConnTypeOK'
<1>1. CASE ~m_isConnected
  BY <1>1 DEF ConnTypeOK, DeclareExchange
<1>2. CASE m_isConnected
  <2>1. PICK reply \in Reply : amqp_exchange_declare(channel, exchange, reply)
    BY <1>2 DEF DeclareExchange
  <2>2. UNCHANGED <<m_isConnected, m_conn, leaked>>
    BY DEF DeclareExchange
  <2>11. (faults \in 0..MaxFaults /\ leaked \in Nat)'
    BY <2>1, <2>2, MaxFaultsAssumption
    DEF ConnTypeOK, amqp_exchange_declare, RpcOnDeadLink, RpcRefused,
        RpcFault, Fault
  <2>12. (m_isConnected \in BOOLEAN /\ session \in BOOLEAN)'
    BY <2>1, <2>2 DEF ConnTypeOK, amqp_exchange_declare, RpcOnDeadLink, RpcRefused,
        RpcFault, Fault
  <2>13. (m_conn \in {"none", "live", "destroyed"})'
    BY <2>1, <2>2 DEF ConnTypeOK, amqp_exchange_declare, RpcOnDeadLink, RpcRefused,
        RpcFault, Fault
  <2>14. (openCh \subseteq Nat /\ closingCh \subseteq Nat)'
    BY <2>1, <2>2 DEF ConnTypeOK, amqp_exchange_declare, RpcOnDeadLink, RpcRefused,
        RpcFault, Fault
  <2>15. (exchanges \subseteq Exchanges)'
    BY <2>1, <2>2 DEF ConnTypeOK, amqp_exchange_declare, RpcOnDeadLink, RpcRefused,
        RpcFault, Fault
  <2>. QED
    BY <2>11, <2>12, <2>13, <2>14, <2>15 DEF ConnTypeOK
<1>. QED
  BY <1>1, <1>2

(* And the environment's faults. *)
LEMMA BrokerFaultType ==
  ASSUME ConnTypeOK, BrokerFault
  PROVE  ConnTypeOK'
<1>1. (faults \in 0..MaxFaults /\ leaked \in Nat)'
  BY MaxFaultsAssumption DEF ConnTypeOK, BrokerFault, Fault
<1>2. (m_isConnected \in BOOLEAN /\ session \in BOOLEAN)'
  BY DEF ConnTypeOK, BrokerFault, Fault
<1>3. (m_conn \in {"none", "live", "destroyed"})'
  BY DEF ConnTypeOK, BrokerFault, Fault
<1>4. (openCh \subseteq Nat /\ closingCh \subseteq Nat)'
  BY DEF ConnTypeOK, BrokerFault, Fault
<1>5. (exchanges \subseteq Exchanges)'
  BY PredeclaredAssumption DEF ConnTypeOK, BrokerFault, Fault
<1>. QED
  BY <1>1, <1>2, <1>3, <1>4, <1>5 DEF ConnTypeOK
-----------------------------------------------------------------------------
(* What a call tells its caller.                                            *)

(* What a call on the connection does to the two flags and the handle. *)
LEMMA RpcKeepsLink ==
  ASSUME \/ \E channel, ret : OpenChannel(channel, ret)
         \/ \E channel, exchange, ret : DeclareExchange(channel, exchange, ret)
         \/ \E message, ret : PublishMessage(message, ret)
         \/ BrokerFault
  PROVE  /\ UNCHANGED <<m_isConnected, m_conn>>
         /\ session' => session
BY DEF OpenChannel, amqp_channel_open, DeclareExchange, amqp_exchange_declare,
       PublishMessage, amqp_basic_publish, RpcOnDeadLink, RpcRefused, RpcFault,
       BrokerFault

(* decodeRpcReply reports a method or a status it does not name as success. *)
(* None of those is among the replies considered.                           *)
FaultsReported == \A reply \in FaultReplies : ~noError(decodeRpcReply(reply))

(* OpenChannel says ALL_GOOD in a session that lives on only when the       *)
(* channel is open, and no channel of the session is forgotten.             *)
LEMMA OpenChannelOpens ==
  ASSUME FaultsReported, NEW channel, NEW ret, OpenChannel(channel, ret), session'
  PROVE  /\ session
         /\ openCh \cup closingCh \subseteq (openCh \cup closingCh)'
         /\ noError(ret) => channel \in openCh'
<1>1. CASE ~m_isConnected
  BY <1>1 DEF OpenChannel, noError
<1>2. CASE m_isConnected
  <2>1. PICK reply \in Reply : amqp_channel_open(channel, reply) /\ ret = decodeRpcReply(reply)
    BY <1>2 DEF OpenChannel
  <2>2. ~RpcOnDeadLink(reply) /\ ~RpcRefused(reply)
    BY DEF RpcOnDeadLink, RpcRefused
  <2>3. CASE reply \in FaultReplies /\ RpcFault(reply)
    BY <2>1, <2>2, <2>3 DEF FaultsReported, amqp_channel_open, RpcFault
  <2>. QED
    BY <2>1, <2>2, <2>3 DEF amqp_channel_open, RpcFault
<1>. QED
  BY <1>1, <1>2
=============================================================================
