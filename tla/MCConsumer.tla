----------------------------- MODULE MCConsumer -----------------------------
(***************************************************************************)
(* Small instances of Consumer for TLC.                                     *)
(***************************************************************************)
EXTENDS Consumer, TLC

(* The calls the controllers may make.  Restart is a Stop and a Start. *)
StopsAndDestroys == {"Start", "Stop", "Destroy"}
Restarts == {"Start", "Restart"}
StartStop == {"Start", "Stop"}
StartOnly == {"Start"}

CONSTANT Key  \* the routing key

(* One binding pair for each exchange. *)
PairPerExchange == {HashableBindingPair(e, Key) : e \in Exchanges}

(* Replies of an RPC that fails without a server failure or with one.       *)
(* CHANNEL_CLOSE is left out: a later call on that channel would hang (see  *)
(* ConsumeConnection).                                                      *)
LinkFaults == {"CONNECTION_CLOSE", "NONE"}
ClosedByBroker == {"CONNECTION_CLOSE"}

(* Subscribers are interchangeable. *)
Symmetry == Permutations(Subscribers)
=============================================================================
