-------------------------- MODULE ConsumeConnection --------------------------
(***************************************************************************)
(* The calls of connection::ConnectionBase that only a Consumer makes:      *)
(* DeclareQueue, BindQueue, StartConsumption and ConsumeMessage, and the    *)
(* queues and consumers the broker keeps for the session.  A Consumer uses  *)
(* one queue per channel, so both are sets of channels.                     *)
(*                                                                         *)
(* The broker ignores what arrives on a channel it is closing until the     *)
(* client answers close-ok.  Nobody answers here, and these calls have no   *)
(* timeout, so a call on a closing channel of a live session never returns: *)
(* it is not enabled.                                                       *)
(***************************************************************************)
EXTENDS ConnectionBase

VARIABLES
  queues,    \* channels whose queue exists in this session
  consuming  \* channels whose queue is bound and being consumed

consumeVars == <<queues, consuming>>

(* A new or a closed session has no queue (they are auto-delete). *)
DropQueues == queues' = {} /\ consuming' = {}

ConnectSession(ret) == Connect(ret) /\ DropQueues

CloseSession(ret) ==
  /\ CloseConnection(ret)
  /\ IF m_isConnected THEN DropQueues ELSE UNCHANGED consumeVars

(* A fault of an RPC on an open channel; the broker may close the channel. *)
ChannelFault(channel, reply) ==
  /\ channel \in openCh
  /\ RpcFault(reply)
  /\ IF reply = "CHANNEL_CLOSE"
     THEN /\ openCh' = openCh \ {channel}
          /\ closingCh' = closingCh \cup {channel}
     ELSE UNCHANGED <<openCh, closingCh>>
  /\ UNCHANGED exchanges

(* An RPC that fails in any of the ways all three share. *)
RpcFails(channel, reply) ==
  \/ RpcOnDeadLink(reply)
  \/ channel \notin openCh \cup closingCh /\ RpcRefused(reply)
  \/ ChannelFault(channel, reply)

amqp_queue_declare(channel, reply) ==
  \/ RpcFails(channel, reply) /\ UNCHANGED queues
  \/ /\ session /\ channel \in openCh
     /\ reply = "NORMAL"
     /\ queues' = queues \cup {channel}
     /\ UNCHANGED <<session, openCh, closingCh, exchanges, faults>>

(* The inner retCode shadows the one that is returned: the call always      *)
(* returns ALL_GOOD.  On an error it leaves retQueue, a local the caller    *)
(* did not initialise, as it was: "garbage", or by luck an empty name.      *)
DeclareQueue(channel, retQueue) ==
  /\ \E reply \in Reply :
       /\ amqp_queue_declare(channel, reply)
       /\ IF noError(decodeRpcReply(reply))
          THEN retQueue = IF reply = "NORMAL" THEN "named" ELSE "garbage"
          ELSE retQueue \in {"empty", "garbage"}
  /\ UNCHANGED <<m_isConnected, m_conn, leaked, consuming>>

(* Binding to an exchange, or from a queue, that the broker does not have   *)
(* closes the channel.                                                      *)
amqp_queue_bind(channel, queueName, exchange, reply) ==
  LET found == queueName = "named" /\ channel \in queues /\ exchange \in exchanges
  IN  \/ RpcFails(channel, reply)
      \/ /\ session /\ channel \in openCh /\ found
         /\ reply = "NORMAL"
         /\ UNCHANGED <<session, openCh, closingCh, exchanges, faults>>
      \/ /\ session /\ channel \in openCh /\ ~found
         /\ reply = "CHANNEL_CLOSE"
         /\ openCh' = openCh \ {channel}
         /\ closingCh' = closingCh \cup {channel}
         /\ UNCHANGED <<session, exchanges, faults>>

BindQueue(channel, queueName, exchange, ret) ==
  /\ \E reply \in Reply : /\ amqp_queue_bind(channel, queueName, exchange, reply)
                          /\ ret = decodeRpcReply(reply)
  /\ UNCHANGED <<m_isConnected, m_conn, leaked, consumeVars>>

amqp_basic_consume(channel, reply) ==
  \/ RpcFails(channel, reply) /\ UNCHANGED consuming
  \/ /\ session /\ channel \in openCh
     /\ reply = "NORMAL"
     /\ consuming' = consuming \cup {channel}
     /\ UNCHANGED <<session, openCh, closingCh, exchanges, faults>>

StartConsumption(channel, ret) ==
  /\ \E reply \in Reply : /\ amqp_basic_consume(channel, reply)
                          /\ ret = decodeRpcReply(reply)
  /\ UNCHANGED <<m_isConnected, m_conn, leaked, queues>>

(* amqp_consume_message waits m_timeout: a message of some consumed queue,  *)
(* nothing in time, or a failure.                                           *)
amqp_consume_message(reply) ==
  \/ RpcOnDeadLink(reply)
  \/ /\ session
     /\ reply \in {"STATUS_TIMEOUT"} \cup (IF consuming = {} THEN {} ELSE {"NORMAL"})
     /\ UNCHANGED <<session, openCh, closingCh, exchanges, faults>>
  \/ /\ RpcFault(reply)
     /\ UNCHANGED <<openCh, closingCh, exchanges>>

(* Only a NORMAL reply fills the caller's envelope, and only a message of   *)
(* the default exchange leaves its exchange empty ("malformed").            *)
ConsumeMessage(envelope, ret) ==
  /\ UNCHANGED <<m_isConnected, m_conn, leaked, consumeVars>>
  /\ IF m_isConnected
     THEN \E reply \in Reply :
            /\ amqp_consume_message(reply)
            /\ ret = decodeRpcReply(reply)
            /\ envelope \in IF reply = "NORMAL" THEN {"message", "malformed"}
                                               ELSE {"garbage"}
     ELSE /\ ret = "SERVER_CONNECTION_FAILURE"
          /\ envelope = "garbage"
          /\ UNCHANGED <<session, openCh, closingCh, exchanges, faults>>
=============================================================================
