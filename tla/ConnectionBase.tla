--------------------------- MODULE ConnectionBase ---------------------------
(***************************************************************************)
(* connection::ConnectionBase, the wrapper round one rabbitmq-c connection  *)
(* that a Producer or a Consumer owns, and the part of the broker it talks  *)
(* to.  Every public call is an action of the caller's specification: it    *)
(* relates the connection's state before and after the call to the error    *)
(* code ret that the call returns.  m_connMutex makes the body of a call    *)
(* atomic, so a call is one step.                                           *)
(*                                                                         *)
(* The broker and librabbitmq are external.  They are modelled by the AMQP  *)
(* rules the code depends on: channels belong to a session; opening a       *)
(* channel that the session already has, or using one it has not, makes     *)
(* the broker close the whole connection; a channel exception leaves the    *)
(* channel closing until the client answers close-ok; a publish is          *)
(* fire-and-forget.  Everything that may go wrong by itself (a refused      *)
(* connect, a bad reply, a dropped link, a broker restart) takes one unit   *)
(* of the budget MaxFaults.                                                 *)
(***************************************************************************)
EXTENDS HareError, Naturals

CONSTANTS
  Exchanges,    \* the exchange names the application uses
  Predeclared,  \* the exchanges a fresh broker has (amq.direct and the like)
  FaultReplies, \* the replies a faulty RPC may give
  MaxFaults     \* bound on spontaneous faults

ASSUME PredeclaredAssumption == Predeclared \subseteq Exchanges
ASSUME FaultRepliesAssumption == FaultReplies \subseteq Reply \ {"NORMAL"}
ASSUME MaxFaultsAssumption == MaxFaults \in Nat

VARIABLES
  m_isConnected,  \* the atomic flag IsConnected() reads
  m_conn,         \* the amqp_connection_state_t handle
  leaked,         \* connection objects allocated, overwritten, never destroyed
  session,        \* does the broker still hold the session behind m_conn?
  openCh,         \* the channels open in that session
  closingCh,      \* channels the broker closed that still await close-ok
  exchanges,      \* the exchanges that exist on the broker
  faults          \* spontaneous faults so far

connVars == <<m_isConnected, m_conn, leaked, session, openCh, closingCh,
              exchanges, faults>>

ConnTypeOK ==
  /\ m_isConnected \in BOOLEAN
  /\ m_conn \in {"none", "live", "destroyed"}
  /\ leaked \in Nat
  /\ session \in BOOLEAN
  /\ openCh \subseteq Nat
  /\ closingCh \subseteq Nat
  /\ exchanges \subseteq Exchanges
  /\ faults \in 0..MaxFaults

(* The constructor; m_conn is not initialised until Connect. *)
ConnInit ==
  /\ m_isConnected = FALSE
  /\ m_conn = "none"
  /\ leaked = 0
  /\ session = FALSE
  /\ openCh = {}
  /\ closingCh = {}
  /\ exchanges = Predeclared
  /\ faults = 0

Fault == faults < MaxFaults /\ faults' = faults + 1

-----------------------------------------------------------------------------
(* Connect and CloseConnection                                              *)

(* connectBasic() allocates a new connection object over the old handle     *)
(* before anything can fail; login() follows on the open socket.            *)
connectBasicErrors == {"INITIALIZE_FAILURE", "SERVER_CONNECTION_FAILURE"}
loginErrors == {"SERVER_AUTHENTICATION_FAILURE"}

Connect(ret) ==
  /\ m_conn' = "live"
  /\ leaked' = IF m_conn = "live" THEN leaked + 1 ELSE leaked
  /\ openCh' = {}
  /\ closingCh' = {}
  /\ UNCHANGED exchanges
  /\ \/ /\ ret = "ALL_GOOD"
        /\ m_isConnected' = TRUE
        /\ session' = TRUE
        /\ UNCHANGED faults
     \/ /\ ret \in connectBasicErrors \cup loginErrors
        /\ Fault
        /\ session' = FALSE
        /\ UNCHANGED m_isConnected

(* Only a missing reply or a server exception is reported; a library error  *)
(* (the link was already gone) falls into the default branch.               *)
CloseConnection(ret) ==
  /\ m_isConnected' = FALSE
  /\ UNCHANGED <<leaked, exchanges>>
  /\ IF m_isConnected
     THEN /\ m_conn' = "destroyed"
          /\ session' = FALSE
          /\ openCh' = {}
          /\ closingCh' = {}
          /\ \/ ret = "ALL_GOOD" /\ UNCHANGED faults
             \/ ret \in {"NO_RPC_REPLY", "SERVER_EXCEPTION_RESPONSE"} /\ Fault
     ELSE /\ ret = "ALL_GOOD"
          /\ UNCHANGED <<m_conn, session, openCh, closingCh, faults>>

-----------------------------------------------------------------------------
(* RPCs on a channel                                                        *)

(* The call finds the link dead and changes nothing. *)
RpcOnDeadLink(reply) ==
  /\ ~session
  /\ reply \in LostReplies \ {"CONNECTION_CLOSE"}
  /\ UNCHANGED <<session, openCh, closingCh, exchanges, faults>>

(* A protocol violation: the broker answers by closing the connection. *)
RpcRefused(reply) ==
  /\ session
  /\ reply = "CONNECTION_CLOSE"
  /\ session' = FALSE
  /\ UNCHANGED <<openCh, closingCh, exchanges, faults>>

(* A reply that is not the expected one; some of them take the link down. *)
RpcFault(reply) ==
  /\ session
  /\ Fault
  /\ reply \in FaultReplies
  /\ session' = (reply \notin LostReplies)

(* amqp_channel_open, with the close-ok OpenChannel sends after a channel   *)
(* exception.  When the reply is unusable the broker may or may not have    *)
(* opened the channel.                                                      *)
amqp_channel_open(channel, reply) ==
  LET fresh == channel \notin openCh \cup closingCh
  IN  \/ RpcOnDeadLink(reply)
      \/ ~fresh /\ RpcRefused(reply)
      \/ /\ fresh /\ session
         /\ reply = "NORMAL"
         /\ openCh' = openCh \cup {channel}
         /\ UNCHANGED <<session, closingCh, exchanges, faults>>
      \/ /\ fresh /\ RpcFault(reply)
         /\ openCh' \in IF reply = "CHANNEL_CLOSE" THEN {openCh}
                        ELSE {openCh, openCh \cup {channel}}
         /\ UNCHANGED <<closingCh, exchanges>>

OpenChannel(channel, ret) ==
  /\ UNCHANGED <<m_isConnected, m_conn, leaked>>
  /\ IF m_isConnected
     THEN \E reply \in Reply : /\ amqp_channel_open(channel, reply)
                               /\ ret = decodeRpcReply(reply)
     ELSE /\ ret = "SERVER_CONNECTION_FAILURE"
          /\ UNCHANGED <<session, openCh, closingCh, exchanges, faults>>

(* amqp_exchange_declare.  Nobody answers a channel exception here, so the  *)
(* channel stays in the closing state.                                      *)
amqp_exchange_declare(channel, exchange, reply) ==
  \/ RpcOnDeadLink(reply)
  \/ channel \notin openCh /\ RpcRefused(reply)
  \/ /\ channel \in openCh /\ session
     /\ reply = "NORMAL"
     /\ exchanges' = exchanges \cup {exchange}
     /\ UNCHANGED <<session, openCh, closingCh, faults>>
  \/ /\ channel \in openCh /\ RpcFault(reply)
     /\ IF reply = "CHANNEL_CLOSE"
        THEN /\ openCh' = openCh \ {channel}
             /\ closingCh' = closingCh \cup {channel}
        ELSE UNCHANGED <<openCh, closingCh>>
     /\ UNCHANGED exchanges

DeclareExchange(channel, exchange, ret) ==
  /\ UNCHANGED <<m_isConnected, m_conn, leaked>>
  /\ IF m_isConnected
     THEN \E reply \in Reply :
             /\ amqp_exchange_declare(channel, exchange, reply)
             /\ ret = decodeRpcReply(reply)
     ELSE /\ ret = "SERVER_CONNECTION_FAILURE"
          /\ UNCHANGED <<session, openCh, closingCh, exchanges, faults>>

-----------------------------------------------------------------------------
(* Publishing                                                               *)

(* amqp_basic_publish writes to the socket and waits for nothing: it        *)
(* succeeds on a link the broker has dropped, on a channel that was never   *)
(* opened (the broker then closes the connection) and for an exchange that  *)
(* does not exist (the broker then closes the channel).                     *)
amqp_basic_publish(message, status) ==
  \/ /\ status = "STATUS_OK"
     /\ session' = (session /\ message.channel \in openCh \cup closingCh)
     /\ IF session /\ message.channel \in openCh
                   /\ message.exchange \notin exchanges
        THEN /\ openCh' = openCh \ {message.channel}
             /\ closingCh' = closingCh \cup {message.channel}
        ELSE UNCHANGED <<openCh, closingCh>>
     /\ UNCHANGED <<exchanges, faults>>
  \/ /\ ~session
     /\ status = "STATUS_SOCKET_ERROR"
     /\ UNCHANGED <<session, openCh, closingCh, exchanges, faults>>
  \/ /\ session
     /\ Fault
     /\ status \in {"STATUS_SOCKET_ERROR", "STATUS_OTHER"}
     /\ session' = (status # "STATUS_SOCKET_ERROR")
     /\ UNCHANGED <<openCh, closingCh, exchanges>>

PublishMessage(message, ret) ==
  /\ UNCHANGED <<m_isConnected, m_conn, leaked>>
  /\ IF m_isConnected
     THEN \E status \in {"STATUS_OK", "STATUS_SOCKET_ERROR", "STATUS_OTHER"} :
             /\ amqp_basic_publish(message, status)
             /\ ret = CASE status = "STATUS_OK" -> "ALL_GOOD"
                        [] status = "STATUS_SOCKET_ERROR"
                                             -> "SERVER_CONNECTION_FAILURE"
                        [] OTHER             -> "PUBLISH_ERROR"
     ELSE /\ ret = "SERVER_CONNECTION_FAILURE"
          /\ UNCHANGED <<session, openCh, closingCh, exchanges, faults>>

-----------------------------------------------------------------------------
(* The environment: the link drops, or the broker restarts and forgets the  *)
(* exchanges that are not its own (they are declared non-durable).          *)
BrokerFault ==
  /\ session
  /\ Fault
  /\ session' = FALSE
  /\ exchanges' \in {exchanges, Predeclared}
  /\ UNCHANGED <<m_isConnected, m_conn, leaked, openCh, closingCh>>
=============================================================================
