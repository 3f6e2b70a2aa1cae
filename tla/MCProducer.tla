----------------------------- MODULE MCProducer -----------------------------
(***************************************************************************)
(* Small instances of Producer for TLC.                                     *)
(***************************************************************************)
EXTENDS Producer, TLC

(* The calls the controllers may make. *)
AllOperations == {"Start", "Stop", "Restart", "Destroy"}
Restarts == {"Start", "Stop", "Restart"}
StartStop == {"Start", "Stop"}
StartOnly == {"Start"}

(* One reply for each way the code reacts to an RPC that fails: the broker  *)
(* closes the connection, it closes the channel, no answer comes in time.   *)
KnownFaults == {"CONNECTION_CLOSE", "CHANNEL_CLOSE", "STATUS_TIMEOUT"}

(* Senders are interchangeable, and so are exchanges none of which the      *)
(* broker has beforehand.  For runs without liveness properties only.       *)
Symmetry == Permutations(Senders) \cup Permutations(Exchanges)
=============================================================================
