------------------------- MODULE ProducerLifeProofs -------------------------
(***************************************************************************)
(* Theorems about the life of a Producer: Start, Stop, Restart and the      *)
(* destructor against the publishing thread and the connection.  They hold  *)
(* for any number of senders and exchanges and any number of faults, for an *)
(* application whose calls of Start, Stop, Restart and ~Producer come from  *)
(* one thread: Start tests m_threadRunning and sets it under two separate   *)
(* locks, so two threads may both get past the test.                        *)
(***************************************************************************)
EXTENDS ProducerProofs

(* All the calls of Start, Stop, Restart and ~Producer come from one thread. *)
OneController == \A c, d \in Controllers : c = d

-----------------------------------------------------------------------------
(* The inductive invariant                                                  *)

(* The std::thread is joinable exactly while thread() is somewhere, and     *)
(* each point of a call knows how the handle and m_threadRunning stand:     *)
(* they differ only between the two halves of Start and of Stop.            *)
CallInv(c) ==
  /\ ctl[c].at \in {"idle", "startCheck", "stopCheck", "destroyCheck"} =>
       (m_threadRunning <=> joinable)
  /\ ctl[c].at = "setRunning" => ~m_threadRunning /\ ~joinable
  /\ ctl[c].at = "spawn" => m_threadRunning /\ ~joinable
  /\ ctl[c].at = "clearRunning" => m_threadRunning /\ joinable
  /\ ctl[c].at = "join" => ~m_threadRunning /\ joinable
  /\ ctl[c].at \in {"closeConn", "clear", "destruct", "gone"} =>
       ~m_threadRunning /\ ~joinable

ControlInv ==
  /\ joinable <=> pc # "none"
  /\ \A c \in Controllers : CallInv(c)

(* m_connection is there when a call needs it.  A Stop is covered when the  *)
(* application has called Initialize; Restart and ~Producer test it.        *)
InitialisedInv ==
  /\ m_threadRunning => m_isInitialized
  /\ \A c \in Controllers :
       /\ ctl[c].at \in {"setRunning", "spawn", "clearRunning", "join"} =>
            m_isInitialized
       /\ InitFirst /\ ctl[c].at = "stopCheck" /\ ctl[c].op # "Restart" =>
            m_isInitialized
       /\ InitFirst /\ ctl[c].at = "closeConn" => m_isInitialized

(* What the thread knows of the connection, and what the flags say of it.   *)
LinkInv ==
  /\ m_isConnected => m_conn = "live"
  /\ session => m_isConnected
  /\ pc \in {"chanCheck", "ccGuard", "ccLock", "ccOpen", "ccDeclare",
             "ccClose", "pubSend", "pop", "close"} => m_isConnected
  /\ pc \in {"ccClear", "clear"} => ~m_isConnected
  /\ pc = "none" => ~m_channelsConnected
  /\ m_isConnected =>
       pc # "none" \/ \E c \in Controllers : ctl[c].at = "closeConn"

(* Nobody pops behind the thread's back: at the front() and at the pop() of *)
(* publishNextInQueue the queue still has the message the thread saw.       *)
FrontInv == pc \in {"pubSend", "pop"} => m_sendQueue # <<>>

(* The only fault left is Stop on a producer that was never initialised.    *)
FaultInv == fault = "none" \/ (fault = "nullptr" /\ ~InitFirst)

LifeInv ==
  ControlInv /\ InitialisedInv /\ LinkInv /\ FrontInv /\ FaultInv

-----------------------------------------------------------------------------
(* Every step keeps each part                                               *)

(* Declare and Send, the thread and the broker change no call, no handle    *)
(* and no running flag, and the thread neither appears nor disappears.      *)
LEMMA OutsideStep ==
  ASSUME TypeOK, Next, ~Initialize,
         \A c \in Controllers, op \in Operations : ~Enter(c, op),
         \A c \in Controllers : ~Controller(c)
  PROVE  /\ UNCHANGED <<m_isInitialized, joinable, m_threadRunning, ctl>>
         /\ pc' = "none" <=> pc = "none"
<1>1. CASE Thread
  <2>1. pc # "none" /\ pc' # "none"
    BY <1>1
    DEF Thread, ThreadWhile, ThreadConnect, ThreadChanCheck,
        ConnectChannelsGuard, ConnectChannelsLock, ConnectChannelsOpen,
        ConnectChannelsDeclare, ConnectChannelsDone, PublishCheck, PublishSend,
        PublishPop, closeConnection, clearActiveSendQueue, Goto, At
  <2>. QED
    BY <1>1, <2>1, ThreadFrame DEF lifeVars
<1>2. CASE ~Thread
  BY <1>2
  DEF Next, Declare, SendAdd, SendPush, Environment, Terminated, vars, lifeVars
<1>. QED
  BY <1>1, <1>2

(* A controller that moves on is at the new point of the same call. *)
LEMMA Moved ==
  ASSUME CtlTypeOK, NEW c \in Controllers, NEW point, MoveTo(c, point)
  PROVE  ctl'[c].at = point /\ ctl'[c].op = ctl[c].op
<1>1. ctl'[c] = [ctl[c] EXCEPT !.at = point]
  BY DEF CtlTypeOK, MoveTo
<1>2. ctl[c] \in [at : CallPoints,
                  op : {"none", "Start", "Stop", "Restart", "Destroy"},
                  ok : BOOLEAN]
  BY DEF CtlTypeOK, Call
<1>. QED
  BY <1>1, <1>2

(* One that returns is idle. *)
LEMMA Returned ==
  ASSUME CtlTypeOK, NEW c \in Controllers, Return(c)
  PROVE  ctl'[c].at = "idle" /\ ctl'[c].op = "none"
BY DEF CtlTypeOK, Return, Idle

(* Stop's tests move it to setRunning(false), or past the join.             *)
LEMMA StopCheckMoves ==
  ASSUME CtlTypeOK, NEW c \in Controllers, StopCheck(c)
  PROVE  \/ ctl'[c].at = "idle"
         \/ m_isInitialized /\ m_threadRunning /\ ctl'[c].at = "clearRunning"
         \/ /\ ~(m_isInitialized /\ m_threadRunning)
            /\ ~(ctl[c].op = "Restart" /\ ~m_isInitialized)
            /\ ctl'[c].at = "closeConn"
<1>1. ASSUME ctl' = [ctl EXCEPT ![c].at = "closeConn", ![c].ok = FALSE]
      PROVE  ctl'[c].at = "closeConn"
  <2>1. ctl[c] \in [at : CallPoints,
                    op : {"none", "Start", "Stop", "Restart", "Destroy"},
                    ok : BOOLEAN]
    BY DEF CtlTypeOK, Call
  <2>. QED
    BY <1>1, <2>1 DEF CtlTypeOK
<1>. QED
  BY <1>1, Moved, Returned DEF StopCheck

(* The purge at the end of Stop returns to whoever called Stop.             *)
LEMMA StopClearMoves ==
  ASSUME CtlTypeOK, NEW c \in Controllers, StopClear(c)
  PROVE  \/ ctl' = ctl /\ m_sendQueue # <<>>
         \/ ctl'[c].at \in {"idle", "startCheck", "destruct"}
<1>1. CASE m_sendQueue # <<>>
  BY <1>1 DEF StopClear
<1>2. CASE m_sendQueue = <<>>
  <2>1. MoveTo(c, "startCheck") \/ MoveTo(c, "destruct") \/ Return(c)
    BY <1>2 DEF StopClear
  <2>. QED
    BY <2>1, Moved, Returned
<1>. QED
  BY <1>1, <1>2

(* The calls and the handle stay in step. *)
LEMMA ControlStep ==
  ASSUME TypeOK, OneController, LifeInv, Next
  PROVE  ControlInv'
<1>. USE DEF TypeOK, CtlTypeOK, FlagTypeOK, LifeInv
<1>1. CASE Initialize
  BY <1>1 DEF Initialize, ControlInv, CallInv, Idle
<1>2. ASSUME NEW c \in Controllers, NEW op \in Operations, Enter(c, op)
      PROVE  ControlInv'
  <2>1. ctl'[c].at \in {"startCheck", "stopCheck", "destroyCheck"}
    BY <1>2, OperationsAssumption DEF Enter, Entry
  <2>2. UNCHANGED <<joinable, m_threadRunning, pc>> /\ ctl[c].at = "idle"
    BY <1>2 DEF Enter, Idle
  <2>. QED
    BY <2>1, <2>2 DEF OneController, ControlInv, CallInv
<1>3. ASSUME NEW c \in Controllers, Controller(c) PROVE ControlInv'
  <2>. SUFFICES /\ (joinable <=> pc # "none")'
                /\ CallInv(c)'
    BY DEF OneController, ControlInv
  <2>. USE DEF ControlInv, CallInv
  <2>1. CASE StartCheck(c)
    BY <2>1, Moved, Returned DEF StartCheck, StartAllowed, CtlAt, lifeVars
  <2>2. CASE StartSetRunning(c)
    BY <2>2, Moved DEF StartSetRunning, CtlAt, lifeVars
  <2>3. CASE StartSpawn(c)
    BY <2>3, Returned DEF StartSpawn, CtlAt
  <2>4. CASE StopCheck(c)
    BY <2>4, StopCheckMoves DEF StopCheck, CtlAt, lifeVars, InitialisedInv
  <2>5. CASE StopClearRunning(c)
    BY <2>5, Moved DEF StopClearRunning, CtlAt, lifeVars
  <2>6. CASE StopJoin(c)
    BY <2>6, Moved DEF StopJoin, CtlAt
  <2>7. CASE StopCloseConnection(c)
    BY <2>7, Moved DEF StopCloseConnection, CtlAt, lifeVars
  <2>8. CASE StopClear(c)
    BY <2>8, StopClearMoves DEF StopClear, CtlAt, lifeVars
  <2>9. CASE DestroyCheck(c)
    BY <2>9, Moved DEF DestroyCheck, CtlAt, lifeVars, InitialisedInv
  <2>10. CASE Destruct(c)
    BY <2>10, Moved DEF Destruct, CtlAt, lifeVars
  <2>. QED
    BY <1>3, <2>1, <2>2, <2>3, <2>4, <2>5, <2>6, <2>7, <2>8, <2>9, <2>10
    DEF Controller
<1>. QED
  BY <1>1, <1>2, <1>3, OutsideStep DEF ControlInv, CallInv

(* So does m_isInitialized. *)
LEMMA InitialisedStep ==
  ASSUME TypeOK, OneController, LifeInv, Next
  PROVE  InitialisedInv'
<1>. USE DEF TypeOK, CtlTypeOK, FlagTypeOK, LifeInv, ControlInv, CallInv,
             InitialisedInv
<1>1. CASE Initialize
  BY <1>1 DEF Initialize
<1>2. ASSUME NEW c \in Controllers, NEW op \in Operations, Enter(c, op)
      PROVE  InitialisedInv'
  <2>1. /\ ctl'[c].at \in {"startCheck", "stopCheck", "destroyCheck"}
        /\ ctl'[c].at = "stopCheck" => op \in {"Stop", "Restart"}
        /\ ctl'[c].op = op
    BY <1>2, OperationsAssumption DEF Enter, Entry
  <2>2. /\ UNCHANGED <<m_isInitialized, m_threadRunning>>
        /\ op = "Stop" /\ InitFirst => m_isInitialized
    BY <1>2 DEF Enter
  <2>. QED
    BY <2>1, <2>2 DEF OneController
<1>3. ASSUME NEW c \in Controllers, Controller(c) PROVE InitialisedInv'
  <2>1. m_isInitialized' = m_isInitialized
    BY <1>3
    DEF Controller, StartCheck, StartSetRunning, StartSpawn, StopCheck,
        StopClearRunning, StopJoin, StopCloseConnection, StopClear,
        DestroyCheck, Destruct, lifeVars
  <2>2. CASE m_isInitialized
    BY <2>1, <2>2
  <2>3. CASE ~m_isInitialized
    <3>1. /\ (m_threadRunning => m_isInitialized)'
          /\ (ctl[c].at \notin {"setRunning", "spawn", "clearRunning", "join"})'
          /\ (InitFirst => /\ ctl[c].at # "closeConn"
                           /\ ctl[c].at = "stopCheck" => ctl[c].op = "Restart")'
      BY <1>3, <2>1, <2>3, Moved, Returned, StopCheckMoves, StopClearMoves
      DEF Controller, StartCheck, StartAllowed, StartSetRunning, StartSpawn,
          StopCheck, StopClearRunning, StopJoin, StopCloseConnection,
          StopClear, DestroyCheck, Destruct, CtlAt
    <3>. QED
      BY <2>1, <3>1 DEF OneController
  <2>. QED
    BY <2>2, <2>3
<1>. QED
  BY <1>1, <1>2, <1>3, OutsideStep

(* Where a thread step takes the thread and the connection: only Connect    *)
(* raises m_isConnected and only closeConnection lowers it.                 *)
LEMMA ThreadLink ==
  ASSUME TypeOK, LifeInv, Thread
  PROVE  LinkInv'
<1>. USE DEF TypeOK, ConnTypeOK, LifeInv, ControlInv, LinkInv
<1>1. pc # "none" /\ pc' # "none"
  BY DEF Thread, ThreadWhile, ThreadConnect, ThreadChanCheck,
         ConnectChannelsGuard, ConnectChannelsLock, ConnectChannelsOpen,
         ConnectChannelsDeclare, ConnectChannelsDone, PublishCheck, PublishSend,
         PublishPop, closeConnection, clearActiveSendQueue, Goto, At
<1>2. CASE ThreadConnect
  BY <1>1, <1>2
  DEF ThreadConnect, Connect, connectBasicErrors, loginErrors, At, connVars,
      noError
<1>3. ASSUME NEW e \in Exchanges, ConnectChannelsOpen(e) PROVE LinkInv'
  BY <1>1, <1>3, RpcKeepsLink DEF ConnectChannelsOpen, At
<1>4. CASE ConnectChannelsDeclare
  BY <1>1, <1>4, RpcKeepsLink DEF ConnectChannelsDeclare, At
<1>5. CASE PublishSend
  BY <1>1, <1>5, RpcKeepsLink DEF PublishSend, At, connVars
<1>6. CASE closeConnection("ccClose", "ccClear") \/ closeConnection("close", "clear")
  BY <1>1, <1>6 DEF closeConnection, CloseConnection, At
<1>7. CASE ThreadWhile \/ ThreadChanCheck \/ ConnectChannelsGuard \/ PublishCheck
  BY <1>1, <1>7
  DEF ThreadWhile, ThreadChanCheck, ConnectChannelsGuard, PublishCheck, Goto,
      At, connVars
<1>8. CASE ConnectChannelsLock \/ ConnectChannelsDone \/ PublishPop
  BY <1>1, <1>8
  DEF ConnectChannelsLock, ConnectChannelsDone, PublishPop, At, connVars
<1>9. CASE \/ clearActiveSendQueue("ccClear", "publish")
           \/ clearActiveSendQueue("clear", "while")
  BY <1>1, <1>9 DEF clearActiveSendQueue, At, connVars
<1>. QED
  BY <1>2, <1>3, <1>4, <1>5, <1>6, <1>7, <1>8, <1>9 DEF Thread

(* The calls close the connection only when the thread is gone. *)
LEMMA LinkStep ==
  ASSUME TypeOK, OneController, LifeInv, Next
  PROVE  LinkInv'
<1>. USE DEF TypeOK, ConnTypeOK, LifeInv
<1>1. CASE Thread
  BY <1>1, ThreadLink
<1>2. CASE Initialize
  BY <1>2 DEF Initialize, LinkInv, Idle
<1>3. ASSUME NEW c \in Controllers, NEW op \in Operations, Enter(c, op)
      PROVE  LinkInv'
  BY <1>3 DEF Enter, connVars, LinkInv, OneController, Idle
<1>4. ASSUME NEW c \in Controllers, Controller(c) PROVE LinkInv'
  <2>. USE DEF LinkInv, ControlInv, CallInv
  <2>1. CASE StopJoin(c)
    BY <2>1, Moved DEF StopJoin, CtlAt, FlagAfterJoin, connVars
  <2>2. CASE StopCloseConnection(c)
    BY <2>2, Moved DEF StopCloseConnection, CloseConnection, CtlAt, connVars
  <2>3. CASE Destruct(c)
    <3>1. ~m_isConnected
      BY <2>3 DEF Destruct, CtlAt, OneController
    <3>. QED
      BY <2>3, <3>1 DEF Destruct, CloseConnection, CtlAt, connVars
  <2>4. CASE StartSpawn(c)
    BY <2>4 DEF StartSpawn, CtlAt, connVars, OneController
  <2>5. CASE \/ StartCheck(c) \/ StartSetRunning(c) \/ StopCheck(c)
             \/ StopClearRunning(c) \/ StopClear(c) \/ DestroyCheck(c)
    <3>1. UNCHANGED <<connVars, m_channelsConnected, pc>>
      BY <2>5
      DEF StartCheck, StartSetRunning, StopCheck, StopClearRunning, StopClear,
          DestroyCheck
    <3>2. ctl[c].at # "closeConn"
      BY <2>5
      DEF StartCheck, StartSetRunning, StopCheck, StopClearRunning, StopClear,
          DestroyCheck, CtlAt
    <3>. QED
      BY <3>1, <3>2 DEF connVars, OneController
  <2>. QED
    BY <1>4, <2>1, <2>2, <2>3, <2>4, <2>5 DEF Controller
<1>5. CASE Environment
  BY <1>5, RpcKeepsLink DEF Environment, LinkInv
<1>6. ASSUME NEW e \in Exchanges, Declare(e) PROVE LinkInv'
  BY <1>6 DEF Declare, addExchangeOfType, NewExchange, connVars, LinkInv
<1>7. ASSUME NEW e \in Exchanges, NEW s \in Senders, SendAdd(s, e) PROVE LinkInv'
  BY <1>7 DEF SendAdd, addExchange, NewExchange, connVars, LinkInv
<1>8. ASSUME NEW s \in Senders, SendPush(s) PROVE LinkInv'
  BY <1>8 DEF SendPush, connVars, LinkInv
<1>9. CASE Terminated
  BY <1>9 DEF Terminated, vars, connVars, LinkInv
<1>. QED
  BY <1>1, <1>2, <1>3, <1>4, <1>5, <1>6, <1>7, <1>8, <1>9 DEF Next

(* Only the thread and, once the thread is gone, Stop take messages out of  *)
(* the queue.                                                               *)
LEMMA FrontStep ==
  ASSUME TypeOK, LifeInv, Next
  PROVE  FrontInv'
<1>. USE DEF TypeOK, MsgTypeOK, LifeInv, FrontInv
<1>1. CASE Thread
  BY <1>1
  DEF Thread, ThreadWhile, ThreadConnect, ThreadChanCheck,
      ConnectChannelsGuard, ConnectChannelsLock, ConnectChannelsOpen,
      ConnectChannelsDeclare, ConnectChannelsDone, PublishCheck, PublishSend,
      PublishPop, closeConnection, clearActiveSendQueue, Goto, At, msgVars
<1>2. ASSUME NEW s \in Senders, SendPush(s) PROVE FrontInv'
  <2>1. PICK m : m_sendQueue' = Append(m_sendQueue, m)
    BY <1>2 DEF SendPush
  <2>2. m_sendQueue' # <<>>
    BY <2>1
  <2>. QED
    BY <2>2
<1>3. ASSUME NEW c \in Controllers, Controller(c) PROVE FrontInv'
  <2>1. CASE StopClear(c)
    BY <2>1 DEF StopClear, CtlAt, ControlInv, CallInv
  <2>2. CASE ~StopClear(c)
    BY <1>3, <2>2
    DEF Controller, StartCheck, StartSetRunning, StartSpawn, StopCheck,
        StopClearRunning, StopJoin, StopCloseConnection, DestroyCheck,
        Destruct, msgVars
  <2>. QED
    BY <2>1, <2>2
<1>. QED
  BY <1>1, <1>2, <1>3
  DEF Next, Declare, SendAdd, Initialize, Enter, Environment, Terminated, vars,
      msgVars

(* None of the faults but the null m_connection can be reached. *)
LEMMA FaultStep ==
  ASSUME TypeOK, LifeInv, Next
  PROVE  FaultInv'
<1>. USE DEF LifeInv, FaultInv
<1>1. CASE Thread
  BY <1>1
  DEF FrontInv, Thread, ThreadWhile, ThreadConnect, ThreadChanCheck,
      ConnectChannelsGuard, ConnectChannelsLock, ConnectChannelsOpen,
      ConnectChannelsDeclare, ConnectChannelsDone, PublishCheck, PublishSend,
      PublishPop, closeConnection, clearActiveSendQueue, Goto, At
<1>2. ASSUME NEW c \in Controllers, Controller(c) PROVE FaultInv'
  BY <1>2, DisciplineAssumption
  DEF Controller, StartCheck, StartSetRunning, StartSpawn, StopCheck,
      StopClearRunning, StopJoin, StopCloseConnection, StopClear,
      DestroyCheck, Destruct, CtlAt, ControlInv, CallInv, InitialisedInv
<1>. QED
  BY <1>1, <1>2
  DEF Next, Declare, SendAdd, SendPush, Initialize, Enter, Environment,
      Terminated, vars

-----------------------------------------------------------------------------
(* The theorems                                                             *)

(* LifeInv holds in every state of a producer that one thread controls: the *)
(* invariant the theorems below rest on.                                    *)
THEOREM LifeInvariant == ASSUME OneController PROVE Spec => []LifeInv
<1>1. Init => LifeInv
  BY DEF Init, ConnInit, Idle, LifeInv, ControlInv, CallInv, InitialisedInv,
         LinkInv, FrontInv, FaultInv
<1>2. TypeOK /\ LifeInv /\ [Next]_vars => LifeInv'
  <2>1. ASSUME LifeInv, UNCHANGED vars PROVE LifeInv'
    BY <2>1
    DEF LifeInv, ControlInv, CallInv, InitialisedInv, LinkInv, FrontInv,
        FaultInv, vars, connVars, lifeVars, msgVars
  <2>2. ASSUME TypeOK, LifeInv, Next PROVE LifeInv'
    BY <2>2, ControlStep, InitialisedStep, LinkStep, FrontStep, FaultStep
    DEF LifeInv
  <2>. QED
    BY <2>1, <2>2
<1>. QED
  BY <1>1, <1>2, TypeCorrect, PTL DEF Spec

(* The thread never uses a connection that is closed or destroyed, although *)
(* it tests isConnected() once per turn and the broker, the senders and a   *)
(* Stop go on meanwhile.                                                    *)
THEOREM UsesOnlyLiveConnections ==
  ASSUME OneController PROVE Spec => []ConnectionUsable
<1>1. LifeInv => ConnectionUsable
  BY DEF LifeInv, LinkInv, ConnectionUsable
<1>. QED
  BY <1>1, LifeInvariant, PTL

(* Stop and ~Producer never close the connection under the thread's feet,   *)
(* although a Stop that finds the producer not running skips the join.      *)
THEOREM ClosesAlone == ASSUME OneController PROVE Spec => []CloseExclusive
<1>1. LifeInv => CloseExclusive
  BY DEF LifeInv, ControlInv, CallInv, CloseExclusive
<1>. QED
  BY <1>1, LifeInvariant, PTL

(* A stopped producer is as good as new: no thread handle, no connection,   *)
(* no session and no flag of the last one is left.                          *)
THEOREM StopsClean == ASSUME OneController PROVE Spec => []StoppedClean
<1>1. LifeInv => StoppedClean
  BY DEF LifeInv, ControlInv, LinkInv, StoppedClean, Idle
<1>. QED
  BY <1>1, LifeInvariant, PTL

(* An application that initialises before it stops never makes the library  *)
(* join, assign or destroy the wrong std::thread, use the null m_connection *)
(* or take the front of an empty queue.                                     *)
THEOREM NeverCrashes ==
  ASSUME OneController, InitFirst PROVE Spec => []NoCrash
<1>1. LifeInv => NoCrash
  BY DEF LifeInv, FaultInv, NoCrash
<1>. QED
  BY <1>1, LifeInvariant, PTL

-----------------------------------------------------------------------------
(* The producer implements Outbox                                           *)

(* A step that is no push, send or pop and still changes the queue throws   *)
(* the front away, with the connection down before and after.               *)
LEMMA DropsOnlyWhenDown ==
  ASSUME TypeOK, OneController, LifeInv, Next,
         ~PublishSend, ~PublishPop, \A s \in Senders : ~SendPush(s)
  PROVE  \/ m_sendQueue' = m_sendQueue
         \/ /\ m_sendQueue # <<>>
            /\ m_sendQueue' = Tail(m_sendQueue)
            /\ ~m_isConnected
            /\ ~m_isConnected'
            /\ pc # "pop"
<1>. USE DEF LifeInv, LinkInv
<1>1. CASE \/ clearActiveSendQueue("ccClear", "publish")
           \/ clearActiveSendQueue("clear", "while")
  BY <1>1 DEF clearActiveSendQueue, At, connVars
<1>2. ASSUME NEW c \in Controllers, StopClear(c)
      PROVE  \/ m_sendQueue' = m_sendQueue
             \/ /\ m_sendQueue # <<>>
                /\ m_sendQueue' = Tail(m_sendQueue)
                /\ ~m_isConnected
                /\ ~m_isConnected'
                /\ pc # "pop"
  <2>1. ctl[c].at = "clear" /\ pc = "none"
    BY <1>2 DEF StopClear, CtlAt, ControlInv, CallInv
  <2>2. ~m_isConnected
    BY <2>1 DEF OneController
  <2>. QED
    BY <1>2, <2>1, <2>2 DEF StopClear, connVars
<1>. QED
  BY <1>1, <1>2
  DEF Next, Declare, SendAdd, Thread, ThreadWhile, ThreadConnect,
      ThreadChanCheck, ConnectChannelsGuard, ConnectChannelsLock,
      ConnectChannelsOpen, ConnectChannelsDeclare, ConnectChannelsDone,
      PublishCheck, closeConnection, Goto, Initialize, Enter, Controller,
      StartCheck, StartSetRunning, StartSpawn, StopCheck, StopClearRunning,
      StopJoin, StopCloseConnection, DestroyCheck, Destruct, Environment,
      Terminated, vars, msgVars

(* A push adds at the back of what is still to be sent, also between the    *)
(* send and the pop of the front.                                           *)
LEMMA PushAccepts ==
  ASSUME TypeOK, LifeInv, NEW s \in Senders, SendPush(s)
  PROVE  Abstraction!Accept
<1>. USE DEF TypeOK, MsgTypeOK
<1>1. PICK m \in RawMessage : m_sendQueue' = Append(m_sendQueue, m)
  <2>1. snd[s] \in DOMAIN m_exchangeList
    BY DEF SendPush, ListTypeOK
  <2>2. [id |-> accepted + 1, exchange |-> snd[s],
         channel |-> m_exchangeList[snd[s]].m_channel] \in RawMessage
    BY <2>1 DEF ListTypeOK, ExchangeProperties, RawMessage
  <2>. QED
    BY <2>2 DEF SendPush
<1>2. UNCHANGED <<wire, pc, m_isConnected>>
  BY DEF SendPush, connVars
<1>3. /\ Len(m_sendQueue) \in Nat
      /\ Len(m_sendQueue') = Len(m_sendQueue) + 1
      /\ \A i \in 1..Len(m_sendQueue) : m_sendQueue'[i] = m_sendQueue[i]
      /\ m_sendQueue' \in Seq(RawMessage) /\ m_sendQueue' # <<>>
  BY <1>1, AppendProperties, LenProperties
<1>4. CASE pc = "pop" /\ m_sendQueue # <<>>
  <2>1. Unsent = Tail(m_sendQueue) /\ Unsent' = Tail(m_sendQueue')
    BY <1>2, <1>3, <1>4 DEF Unsent
  <2>2. /\ Len(Tail(m_sendQueue)) = Len(m_sendQueue) - 1
        /\ \A i \in 1..Len(Tail(m_sendQueue)) :
             Tail(m_sendQueue)[i] = m_sendQueue[i + 1]
    BY <1>4, HeadTailProperties
  <2>3. /\ Len(Tail(m_sendQueue')) = Len(m_sendQueue') - 1
        /\ \A i \in 1..Len(Tail(m_sendQueue')) :
             Tail(m_sendQueue')[i] = m_sendQueue'[i + 1]
    BY <1>3, HeadTailProperties
  <2>. QED
    BY <1>2, <1>3, <2>1, <2>2, <2>3 DEF Abstraction!Accept
<1>5. CASE pc # "pop"
  <2>1. Unsent = m_sendQueue /\ Unsent' = m_sendQueue'
    BY <1>2, <1>5 DEF Unsent
  <2>. QED
    BY <1>2, <1>3, <2>1 DEF Abstraction!Accept
<1>. QED
  BY <1>4, <1>5 DEF LifeInv, FrontInv

(* Every step of the producer is a step of Outbox or changes nothing there. *)
LEMMA OutboxStep ==
  ASSUME TypeOK, OneController, LifeInv, ThreadOwned, Next
  PROVE  [Abstraction!OutboxNext]_(Abstraction!outboxVars)
<1>. USE DEF Abstraction!OutboxNext, Abstraction!outboxVars
<1>1. ASSUME NEW s \in Senders, SendPush(s)
      PROVE  Abstraction!Accept
  BY <1>1, PushAccepts
<1>2. CASE PublishSend
  <2>1. /\ m_sendQueue # <<>> /\ m_isConnected /\ pc = "pubSend"
        /\ UNCHANGED <<m_sendQueue, m_isConnected>>
    BY <1>2, RpcKeepsLink
    DEF PublishSend, At, LifeInv, FrontInv, LinkInv, connVars
  <2>2. Unsent = m_sendQueue
    BY <2>1 DEF Unsent
  <2>3. \/ wire' = wire /\ pc' # "pop"
        \/ wire' = Append(wire, Head(m_sendQueue)) /\ pc' = "pop"
    BY <1>2, <2>1 DEF PublishSend, At, noError, serverFailure
  <2>4. CASE wire' = wire /\ pc' # "pop"
    BY <2>1, <2>2, <2>4 DEF Unsent
  <2>5. CASE wire' = Append(wire, Head(m_sendQueue)) /\ pc' = "pop"
    BY <2>1, <2>2, <2>5 DEF Unsent, Abstraction!Transmit
  <2>. QED
    BY <2>3, <2>4, <2>5
<1>3. CASE PublishPop
  <2>1. /\ m_sendQueue # <<>> /\ pc = "pop" /\ pc' = "while"
        /\ m_sendQueue' = Tail(m_sendQueue)
        /\ UNCHANGED <<wire, m_isConnected>>
    BY <1>3 DEF PublishPop, At, LifeInv, FrontInv, connVars
  <2>. QED
    BY <2>1 DEF Unsent
<1>4. CASE ~PublishSend /\ ~PublishPop /\ \A s \in Senders : ~SendPush(s)
  <2>1. wire' = wire /\ (pc' = "pop" <=> pc = "pop")
    BY <1>4, QuietStep
  <2>2. CASE m_sendQueue' = m_sendQueue
    <3>1. Unsent' = Unsent
      BY <2>1, <2>2 DEF Unsent
    <3>2. m_isConnected' = m_isConnected \/ m_isConnected' = ~m_isConnected
      BY NextConnType DEF TypeOK, ConnTypeOK
    <3>. QED
      BY <2>1, <3>1, <3>2 DEF Abstraction!Toggle
  <2>3. CASE /\ m_sendQueue # <<>>
             /\ m_sendQueue' = Tail(m_sendQueue)
             /\ ~m_isConnected
             /\ ~m_isConnected'
             /\ pc # "pop"
    <3>1. Unsent = m_sendQueue /\ Unsent' = Tail(m_sendQueue)
      BY <2>1, <2>3 DEF Unsent
    <3>2. m_isConnected' = m_isConnected
      BY <2>3, NextConnType DEF TypeOK, ConnTypeOK
    <3>. QED
      BY <2>1, <2>3, <3>1, <3>2 DEF Abstraction!DropHead
  <2>. QED
    BY <1>4, <2>2, <2>3, DropsOnlyWhenDown
<1>. QED
  BY <1>1, <1>2, <1>3, <1>4

(* A producer that one thread controls is a lossy FIFO: it sends only from  *)
(* the front and only while connected, and throws messages away only from   *)
(* the front and only while not connected, whatever the senders and the     *)
(* broker do.                                                               *)
THEOREM IsAnOutbox == ASSUME OneController PROVE Spec => ImplementsOutbox
<1>1. Init => Abstraction!OutboxInit
  BY DEF Init, ConnInit, Unsent, Abstraction!OutboxInit
<1>2. LifeInv => ThreadOwned
  BY DEF LifeInv, ControlInv, ThreadOwned
<1>3. TypeOK /\ LifeInv /\ [Next]_vars =>
        [Abstraction!OutboxNext]_(Abstraction!outboxVars)
  <2>1. ASSUME UNCHANGED vars PROVE UNCHANGED Abstraction!outboxVars
    BY <2>1 DEF Abstraction!outboxVars, Unsent, vars, connVars, msgVars
  <2>. QED
    BY <1>2, <2>1, OutboxStep
<1>. QED
  BY <1>1, <1>3, TypeCorrect, LifeInvariant, PTL
  DEF Spec, ImplementsOutbox, Abstraction!OutboxSpec
=============================================================================
