------------------------------ MODULE HareError ------------------------------
(***************************************************************************)
(* The error codes every HareCpp call returns (include/ErrorCodes.hpp) and  *)
(* the translation of a rabbitmq-c reply into one of them                   *)
(* (ConnectionBase::decodeRpcReply and decodeLibraryException).             *)
(***************************************************************************)

HARE_ERROR_E ==
  {"ALL_GOOD", "INVALID_AMQP_VERSION", "TIMEOUT_OCCURED", "PUBLISH_ERROR",
   "NOT_INITIALIZED", "INITIALIZE_FAILURE", "INVALID_PARAMETERS",
   "PRODUCER_CREATION_FAILED", "CONSUMER_CREATION_FAILED",
   "THREAD_ALREADY_RUNNING", "THREAD_NOT_RUNNING",
   "SERVER_CONNECTION_FAILURE", "SERVER_AUTHENTICATION_FAILURE",
   "SERVER_EXCEPTION_RESPONSE", "UNABLE_TO_SUBSCRIBE", "PRODUCER_QUEUE_FULL",
   "UNABLE_TO_OPEN_CHANNEL", "UNABLE_TO_CLOSE_CHANNEL", "CHANNEL_EXCEPTION",
   "NO_RPC_REPLY"}

noError(retCode) == retCode = "ALL_GOOD"

serverFailure(retCode) ==
  retCode \in {"SERVER_CONNECTION_FAILURE", "SERVER_EXCEPTION_RESPONSE"}

-----------------------------------------------------------------------------
(* An amqp_rpc_reply_t is abstracted to one string.  A normal or missing     *)
(* reply stands for itself; a server exception is named by the method the    *)
(* broker sent; a library exception by its AMQP_STATUS code.  SERVER_OTHER   *)
(* and STATUS_OTHER stand for the methods and codes the switches leave out.  *)

ServerException == {"CONNECTION_CLOSE", "CHANNEL_CLOSE", "SERVER_OTHER"}

LibraryException ==
  {"STATUS_INCOMPATIBLE_AMQP_VERSION", "STATUS_CONNECTION_CLOSED",
   "STATUS_INVALID_PARAMETER", "STATUS_SOCKET_ERROR", "STATUS_TIMEOUT",
   "STATUS_SOCKET_CLOSED", "STATUS_SSL_CONNECTION_FAILED",
   "STATUS_SSL_HOSTNAME_VERIFY_FAILED", "STATUS_UNEXPECTED_STATE",
   "STATUS_OTHER"}

Reply == {"NORMAL", "NONE"} \cup ServerException \cup LibraryException

(* What a call reports when the TCP connection under it is gone. *)
LostReplies ==
  {"CONNECTION_CLOSE", "STATUS_CONNECTION_CLOSED", "STATUS_SOCKET_ERROR",
   "STATUS_SOCKET_CLOSED"}

decodeLibraryException(status) ==
  CASE status = "STATUS_INCOMPATIBLE_AMQP_VERSION" -> "INVALID_AMQP_VERSION"
    [] status = "STATUS_INVALID_PARAMETER"         -> "INVALID_PARAMETERS"
    [] status = "STATUS_TIMEOUT"                   -> "TIMEOUT_OCCURED"
    [] status \in {"STATUS_SSL_CONNECTION_FAILED",
                   "STATUS_SSL_HOSTNAME_VERIFY_FAILED"}
                                     -> "SERVER_AUTHENTICATION_FAILURE"
    [] status \in {"STATUS_CONNECTION_CLOSED", "STATUS_SOCKET_ERROR",
                   "STATUS_SOCKET_CLOSED", "STATUS_UNEXPECTED_STATE"}
                                     -> "SERVER_CONNECTION_FAILURE"
    [] OTHER                         -> "ALL_GOOD"

decodeRpcReply(reply) ==
  CASE reply = "NONE"              -> "NO_RPC_REPLY"
    [] reply = "CONNECTION_CLOSE"  -> "SERVER_CONNECTION_FAILURE"
    [] reply = "CHANNEL_CLOSE"     -> "CHANNEL_EXCEPTION"
    [] reply \in LibraryException  -> decodeLibraryException(reply)
    [] OTHER                       -> "ALL_GOOD"
=============================================================================
