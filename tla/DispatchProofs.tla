--------------------------- MODULE DispatchProofs ---------------------------
(***************************************************************************)
(* Theorems about Dispatch for every set of subscribers, binding pairs and  *)
(* callbacks, any number of messages and queue names, and for applications  *)
(* that are careful with re-entrant callbacks as for those that are not:    *)
(* the deadlock they run into stops the handler but breaks no invariant.    *)
(***************************************************************************)
EXTENDS Dispatch, SequenceTheorems, TLAPS

-----------------------------------------------------------------------------
(* The inductive invariant                                                  *)

(* A Subscribe that is to set properties has a channel of the handler. *)
PropsInv ==
  \A t \in Callers : call[t].at = "props" => call[t].channel \in GetChannelList

(* The consuming thread holds at most the message it pulled last, a thread  *)
(* that was created for a message is marked as such, and a message is for   *)
(* somebody or a stray one.                                                 *)
StageInv ==
  \A n \in DOMAIN msg :
    /\ InHand(n) => n = Len(msg)
    /\ msg[n].at = "ready" => msg[n].threaded
    /\ msg[n].pair \in Strays \/ HasProcessor(msg[n].pair)

(* The buffers in use are ones malloc has returned, and what a channel has  *)
(* is one that is or was in use, unless it is NULL or nonsense.             *)
FreshInv ==
  /\ names \subseteq 1..(nextName - 1)
  /\ m_queueName \in [GetChannelList -> (0..(nextName - 1)) \cup {Garbage}]

TypeInv == TypeOK /\ PropsInv

DispatchInv ==
  /\ TypeInv
  /\ StageInv
  /\ FreshInv /\ NamesOwned
  /\ ReplacedNeverRuns /\ HandledOnce /\ ArrivalOrder

-----------------------------------------------------------------------------
(* What the steps do                                                        *)

(* The names handed out so far are within the bound of the model. *)
LEMMA NamesInRange ==
  ASSUME NEW n \in 1..(MaxNames + 1)
  PROVE  /\ 0..(n - 1) \subseteq 0..MaxNames
         /\ 1..(n - 1) \subseteq 1..MaxNames
<1>1. MaxNames \in Nat
  BY DispatchBoundsAssumption
<1>2. n - 1 <= MaxNames /\ n \in Int
  BY <1>1
<1>3. ASSUME NEW x \in Int, x <= n - 1
      PROVE  x <= MaxNames
  BY <1>1, <1>2, <1>3
<1>. QED
  BY <1>1, <1>2, <1>3

(* Which steps change what. *)
LEMMA Frames ==
  ASSUME Next
  PROVE  /\ UNCHANGED handlerVars \/ \E t \in Callers : SubscribeStep(t)
         /\ UNCHANGED m_callback \/ \E t \in Callers : SubscribeAdd(t)
         /\ \/ UNCHANGED <<nameVars, destroyed>>
            \/ \E t \in Callers : SubscribeAdd(t)
            \/ \E channel \in GetChannelList : DeclareQueue(channel)
            \/ Destroy
         /\ \/ UNCHANGED <<msg, journal>>
            \/ \E pair \in BindingPairs \cup Strays, malformed \in BOOLEAN : Pull(pair, malformed)
            \/ \E n \in DOMAIN msg : Process(n) \/ CallbackStep(n)
<1>. USE DEF Next, AppSubscribes, CallbackSubscribes, SubscribeEnter,
             SubscribeStep, SubscribeSetProperties, SetMultiThreaded, Pull,
             Process, ProcessFrame, CallbackStep, DetachedStart,
             CallbackReturns, DeclareQueue, Destroy, Terminated, vars, nameVars
<1>1. UNCHANGED handlerVars \/ \E t \in Callers : SubscribeStep(t)
  OBVIOUS
<1>2. UNCHANGED m_callback \/ \E t \in Callers : SubscribeAdd(t)
  OBVIOUS
<1>3. \/ UNCHANGED <<nameVars, destroyed>>
      \/ \E t \in Callers : SubscribeAdd(t)
      \/ \E channel \in GetChannelList : DeclareQueue(channel)
      \/ Destroy
  OBVIOUS
<1>4. \/ UNCHANGED <<msg, journal>>
      \/ \E pair \in BindingPairs \cup Strays, malformed \in BOOLEAN : Pull(pair, malformed)
      \/ \E n \in DOMAIN msg : Process(n) \/ CallbackStep(n)
  BY DEF SubscribeAdd
<1>. QED
  BY <1>1, <1>2, <1>3, <1>4

(* A Subscribe in its first or second critical section has what it needs. *)
LEMMA CallShape ==
  ASSUME TypeOK, NEW t \in Callers
  PROVE  /\ call[t].at = "add" =>
              call[t].pair \in BindingPairs /\ call[t].callback \in Callbacks
         /\ call[t].at = "props" => call[t].channel \in Nat \ {0}
         /\ call[t].at = "idle" <=> call[t] = NotSubscribing
BY DEF TypeOK, Call, NotSubscribing

(* Replacing one message's record leaves the others and their number. *)
LEMMA MessageUpdate ==
  ASSUME msg \in Seq(MessageRecord), NEW n \in DOMAIN msg,
         NEW r \in MessageRecord, msg' = [msg EXCEPT ![n] = r]
  PROVE  /\ msg' \in Seq(MessageRecord)
         /\ Len(msg') = Len(msg) /\ DOMAIN msg' = DOMAIN msg
         /\ msg'[n] = r
         /\ \A m \in DOMAIN msg \ {n} : msg'[m] = msg[m]
BY ExceptSeq

(* What may become of a message in one step: Process() drops it, creates a  *)
(* thread for it or runs its callback; the thread begins; the callback      *)
(* subscribes or returns.                                                   *)
Drops(n) ==
  /\ msg[n].at = "pulled" /\ ~HasProcessor(msg[n].pair)
  /\ msg'[n].at = "dropped" /\ msg'[n].threaded = msg[n].threaded
  /\ journal' = journal
Detaches(n) ==
  /\ msg[n].at = "pulled"
  /\ msg'[n].at = "ready" /\ msg'[n].threaded
  /\ journal' = journal
Runs(n) ==
  /\ msg[n].at = "pulled"
  /\ msg'[n].at = "running" /\ msg'[n].threaded = msg[n].threaded
  /\ msg'[n].callback = m_callback[msg[n].pair]
  /\ journal' = Append(journal, n)
Begins(n) ==
  /\ msg[n].at = "ready"
  /\ msg'[n].at = "running" /\ msg'[n].threaded = msg[n].threaded
  /\ journal' = Append(journal, n)
Proceeds(n) ==
  /\ Running(n)
  /\ msg'[n].at \in {"called", "returned"} /\ msg'[n].threaded = msg[n].threaded
  /\ msg'[n].callback = msg[n].callback
  /\ journal' = journal

(* Those are all the ways of a message. *)
LEMMA MessageStep ==
  ASSUME TypeOK, NEW n \in DOMAIN msg, Process(n) \/ CallbackStep(n)
  PROVE  /\ msg' \in Seq(MessageRecord)
         /\ Len(msg') = Len(msg) /\ DOMAIN msg' = DOMAIN msg
         /\ \A m \in DOMAIN msg \ {n} : msg'[m] = msg[m]
         /\ msg'[n].pair = msg[n].pair
         /\ Drops(n) \/ Detaches(n) \/ Runs(n) \/ Begins(n) \/ Proceeds(n)
         /\ UNCHANGED <<handlerVars, m_callback>>
<1>. USE DEF TypeOK
<1>0. msg[n] \in MessageRecord
  BY ElementOfSeq
<1>1. UNCHANGED <<handlerVars, m_callback>>
  BY DEF Process, ProcessFrame, CallbackStep, DetachedStart,
         CallbackSubscribes, SubscribeEnter, CallbackReturns
<1>2. ASSUME NEW point \in Stage, msg' = [msg EXCEPT ![n].at = point]
      PROVE  /\ msg' \in Seq(MessageRecord)
             /\ Len(msg') = Len(msg) /\ DOMAIN msg' = DOMAIN msg
             /\ \A m \in DOMAIN msg \ {n} : msg'[m] = msg[m]
             /\ msg'[n].pair = msg[n].pair
             /\ msg'[n].at = point /\ msg'[n].threaded = msg[n].threaded
             /\ msg'[n].callback = msg[n].callback
  <2>. DEFINE r == [msg[n] EXCEPT !.at = point]
  <2>1. /\ r \in MessageRecord /\ r.pair = msg[n].pair /\ r.at = point
        /\ r.threaded = msg[n].threaded /\ r.callback = msg[n].callback
    BY <1>0 DEF MessageRecord
  <2>2. msg' = [msg EXCEPT ![n] = r]
    BY <1>2
  <2>. HIDE DEF r
  <2>. QED
    BY <2>1, <2>2, MessageUpdate
<1>3. CASE Process(n)
  <2>1. CASE ~HasProcessor(msg[n].pair)
    BY <1>1, <1>2, <1>3, <2>1 DEF Process, Drops, Stage
  <2>2. CASE HasProcessor(msg[n].pair)
    <3>1. m_callback[msg[n].pair] \in Callbacks
      BY <2>2 DEF HasProcessor, GetChannelList
    <3>2. CASE m_multiThreaded
      <4>. DEFINE r == [msg[n] EXCEPT !.at = "ready", !.threaded = TRUE,
                                      !.callback = m_callback[msg[n].pair]]
      <4>1. /\ r \in MessageRecord /\ r.pair = msg[n].pair /\ r.at = "ready"
            /\ r.threaded
        BY <1>0, <3>1 DEF MessageRecord, Stage
      <4>2. msg' = [msg EXCEPT ![n] = r] /\ journal' = journal /\ msg[n].at = "pulled"
        BY <1>3, <2>2, <3>2 DEF Process
      <4>. HIDE DEF r
      <4>. QED
        BY <1>1, <4>1, <4>2, MessageUpdate DEF Detaches
    <3>3. CASE ~m_multiThreaded
      <4>. DEFINE r == [msg[n] EXCEPT !.at = "running",
                                      !.callback = m_callback[msg[n].pair]]
      <4>1. /\ r \in MessageRecord /\ r.pair = msg[n].pair /\ r.at = "running"
            /\ r.threaded = msg[n].threaded
            /\ r.callback = m_callback[msg[n].pair]
        BY <1>0, <3>1 DEF MessageRecord, Stage
      <4>2. /\ msg' = [msg EXCEPT ![n] = r] /\ journal' = Append(journal, n)
            /\ msg[n].at = "pulled"
        BY <1>3, <2>2, <3>3 DEF Process
      <4>. HIDE DEF r
      <4>. QED
        BY <1>1, <4>1, <4>2, MessageUpdate DEF Runs
    <3>. QED
      BY <3>2, <3>3
  <2>. QED
    BY <2>1, <2>2
<1>4. CASE DetachedStart(n)
  BY <1>1, <1>2, <1>4 DEF DetachedStart, Begins, Stage
<1>5. CASE CallbackReturns(n)
  BY <1>1, <1>2, <1>5 DEF CallbackReturns, Proceeds, Running, Stage
<1>6. CASE \E pair \in BindingPairs, f \in Callbacks : CallbackSubscribes(n, pair, f)
  BY <1>1, <1>2, <1>6
  DEF CallbackSubscribes, SubscribeEnter, Proceeds, Running, Stage
<1>. QED
  BY <1>3, <1>4, <1>5, <1>6 DEF CallbackStep

(* A pull adds one message behind the others. *)
LEMMA PullStep ==
  ASSUME TypeOK, NEW pair \in BindingPairs \cup Strays, NEW malformed \in BOOLEAN,
             Pull(pair, malformed)
  PROVE  /\ msg' \in Seq(MessageRecord)
         /\ Len(msg') = Len(msg) + 1 /\ Len(msg') <= MaxMessages
         /\ DOMAIN msg' = DOMAIN msg \cup {Len(msg')}
         /\ \A m \in DOMAIN msg : msg'[m] = msg[m] /\ m < Len(msg')
         /\ ~msg'[Len(msg')].threaded
         /\ \/ msg'[Len(msg')].at = "pulled"
            \/ msg'[Len(msg')].at = "dropped" /\ pair \in Strays
         /\ pair \in Strays \/ HasProcessor(pair)
         /\ msg'[Len(msg')].pair = pair
         /\ ConsumerIdle
         /\ UNCHANGED <<handlerVars, m_callback, journal>>
<1>. DEFINE r == [at |-> IF malformed THEN "dropped" ELSE "pulled",
                  pair |-> pair, callback |-> NoCallback, threaded |-> FALSE]
<1>1. /\ r \in MessageRecord /\ ~r.threaded /\ r.pair = pair
      /\ r.at = "pulled" \/ (r.at = "dropped" /\ pair \in Strays)
  BY DEF MessageRecord, Stage, Pull
<1>2. msg' = Append(msg, r) /\ Len(msg) < MaxMessages
  BY DEF Pull
<1>. HIDE DEF r
<1>3. /\ msg' \in Seq(MessageRecord) /\ Len(msg') = Len(msg) + 1
      /\ \A m \in 1..Len(msg) : msg'[m] = msg[m]
      /\ msg'[Len(msg) + 1] = r
  BY <1>1, <1>2, AppendProperties DEF TypeOK
<1>4. Len(msg) \in Nat /\ DOMAIN msg = 1..Len(msg) /\ DOMAIN msg' = 1..Len(msg')
  BY <1>3, LenProperties DEF TypeOK
<1>5. Len(msg') <= MaxMessages
  BY <1>2, <1>3, <1>4, DispatchBoundsAssumption
<1>6. pair \in Strays \/ HasProcessor(pair)
  BY DEF Pull, HasProcessor, GetChannelList
<1>7. ConsumerIdle /\ UNCHANGED <<handlerVars, m_callback, journal>>
  BY DEF Pull
<1>. QED
  BY <1>1, <1>3, <1>4, <1>5, <1>6, <1>7

-----------------------------------------------------------------------------
(* Every step keeps the handler                                             *)

(* Subscribe adds a channel at most, and no channel is ever taken away. *)
LEMMA HandlerStep ==
  ASSUME TypeInv, Next
  PROVE  /\ HandlerTypeOK'
         /\ GetChannelList \subseteq GetChannelList'
         /\ \A c \in GetChannelList : m_channelLookup'[c] = m_channelLookup[c]
<1>. USE DEF TypeInv, TypeOK, GetChannelList
<1>1. CASE UNCHANGED handlerVars
  BY <1>1 DEF handlerVars, HandlerTypeOK
<1>2. ASSUME NEW t \in Callers, SubscribeAdd(t), ~HasProcessor(call[t].pair)
      PROVE  /\ HandlerTypeOK'
             /\ GetChannelList \subseteq GetChannelList'
             /\ \A c \in GetChannelList : m_channelLookup'[c] = m_channelLookup[c]
  <2>1. call[t].pair \in BindingPairs
    BY <1>2, CallShape DEF SubscribeAdd
  <2>2. /\ NewChannel(call[t].pair)
        /\ m_nextAvailableChannel' = m_nextAvailableChannel + 1
        /\ UNCHANGED m_propertiesSet
    BY <1>2 DEF SubscribeAdd, AddChannelProcessor
  <2>3. DOMAIN m_channelLookup' = 1..m_nextAvailableChannel
    BY <2>2 DEF NewChannel, HandlerTypeOK
  <2>. QED
    BY <2>1, <2>2, <2>3 DEF NewChannel, HandlerTypeOK
<1>3. ASSUME NEW t \in Callers, SubscribeAdd(t), HasProcessor(call[t].pair)
      PROVE  UNCHANGED handlerVars
  BY <1>3 DEF SubscribeAdd, AddChannelProcessor
<1>4. ASSUME NEW t \in Callers, SubscribeSetProperties(t)
      PROVE  /\ HandlerTypeOK'
             /\ GetChannelList \subseteq GetChannelList'
             /\ \A c \in GetChannelList : m_channelLookup'[c] = m_channelLookup[c]
  BY <1>4
  DEF SubscribeSetProperties, SetQueueProperties, HandlerTypeOK, PropsInv
<1>. QED
  BY <1>1, <1>2, <1>3, <1>4, Frames DEF SubscribeStep

(* So a pair that has a callback keeps having one. *)
LEMMA ProcessorStays ==
  ASSUME TypeInv, Next, NEW pair, HasProcessor(pair)
  PROVE  HasProcessor(pair)'
BY HandlerStep DEF HasProcessor, GetChannelList

(* m_channelProcessorMap and m_bindingPairLookup stay in step. *)
LEMMA CallbackMapStep ==
  ASSUME TypeInv, Next
  PROVE  (/\ DOMAIN m_callback = {m_channelLookup[c] : c \in GetChannelList}
          /\ m_callback \in [DOMAIN m_callback -> Callbacks])'
<1>. USE DEF TypeInv, TypeOK, GetChannelList
<1>1. ASSUME NEW t \in Callers, SubscribeAdd(t)
      PROVE  (/\ DOMAIN m_callback = {m_channelLookup[c] : c \in GetChannelList}
              /\ m_callback \in [DOMAIN m_callback -> Callbacks])'
  <2>1. call[t].callback \in Callbacks
    BY <1>1, CallShape DEF SubscribeAdd
  <2>2. m_callback' = [p \in DOMAIN m_callback \cup {call[t].pair} |->
                         IF p = call[t].pair THEN call[t].callback ELSE m_callback[p]]
    BY <1>1 DEF SubscribeAdd
  <2>3. CASE HasProcessor(call[t].pair)
    <3>1. m_channelLookup' = m_channelLookup /\ call[t].pair \in DOMAIN m_callback
      BY <1>1, <2>3 DEF SubscribeAdd, AddChannelProcessor, handlerVars, HasProcessor
    <3>2. DOMAIN m_callback' = DOMAIN m_callback
      BY <2>2, <3>1
    <3>. QED
      BY <2>1, <2>2, <3>1, <3>2
  <2>4. CASE ~HasProcessor(call[t].pair)
    <3>1. NewChannel(call[t].pair)
      BY <1>1, <2>4 DEF SubscribeAdd, AddChannelProcessor
    <3>2. m_nextAvailableChannel \notin DOMAIN m_channelLookup
      BY DEF HandlerTypeOK
    <3>3. {m_channelLookup'[c] : c \in DOMAIN m_channelLookup'} =
            {m_channelLookup[c] : c \in DOMAIN m_channelLookup} \cup {call[t].pair}
      BY <3>1, <3>2 DEF NewChannel
    <3>4. DOMAIN m_callback' = DOMAIN m_callback \cup {call[t].pair}
      BY <2>2
    <3>. QED
      BY <2>1, <2>2, <3>3, <3>4
  <2>. QED
    BY <2>3, <2>4
<1>2. CASE UNCHANGED <<m_callback, m_channelLookup>>
  BY <1>2
<1>3. ASSUME NEW t \in Callers, SubscribeSetProperties(t)
      PROVE  UNCHANGED <<m_callback, m_channelLookup>>
  BY <1>3 DEF SubscribeSetProperties, SetQueueProperties
<1>. QED
  BY <1>1, <1>2, <1>3, Frames DEF SubscribeStep, handlerVars

(* No buffer of a queue name is lost, and each keeps its one owner until a  *)
(* declaration fails.                                                       *)
LEMMA NamesStep ==
  ASSUME TypeInv, FreshInv, NamesOwned, Next
  PROVE  (/\ nextName \in 1..(MaxNames + 1)
          /\ misdeclared \in BOOLEAN /\ bad \in BOOLEAN /\ destroyed \in BOOLEAN
          /\ FreshInv /\ NamesOwned)'
<1>. USE DispatchBoundsAssumption, NamesAssumption
     DEF TypeInv, TypeOK, FreshInv, NamesOwned, NamesFreeable
<1>1. ASSUME NEW t \in Callers, SubscribeAdd(t)
      PROVE  (/\ nextName \in 1..(MaxNames + 1)
              /\ misdeclared \in BOOLEAN /\ bad \in BOOLEAN /\ destroyed \in BOOLEAN
              /\ FreshInv /\ NamesOwned)'
  <2>1. /\ GetChannelList \subseteq GetChannelList'
        /\ UNCHANGED <<names, nextName, misdeclared, bad, destroyed>>
        /\ m_queueName' = [c \in GetChannelList' |->
                             IF c \in GetChannelList THEN m_queueName[c] ELSE 0]
    BY <1>1, HandlerStep DEF SubscribeAdd, GetChannelList
  <2>2. FreshInv'
    BY <2>1
  <2>3. {m_queueName[c] : c \in GetChannelList} \subseteq
          {m_queueName'[c] : c \in GetChannelList'}
    BY <2>1
  <2>4. NamesFreeable => NamesFreeable'
    BY <2>1
  <2>5. NamesOwned'
    BY <2>1, <2>3, <2>4
  <2>. QED
    BY <2>1, <2>2, <2>5
<1>2. ASSUME NEW channel \in GetChannelList, DeclareQueue(channel)
      PROVE  (/\ nextName \in 1..(MaxNames + 1)
              /\ misdeclared \in BOOLEAN /\ bad \in BOOLEAN /\ destroyed \in BOOLEAN
              /\ FreshInv /\ NamesOwned)'
  <2>1. /\ GetChannelList' = GetChannelList
        /\ ~destroyed /\ UNCHANGED destroyed
    BY <1>2 DEF DeclareQueue, handlerVars, GetChannelList
  <2>2. ASSUME nextName <= MaxNames, nextName' = nextName + 1, UNCHANGED misdeclared,
               SetQueueName(channel, nextName, names \cup {nextName})
        PROVE  (/\ nextName \in 1..(MaxNames + 1)
                /\ misdeclared \in BOOLEAN /\ bad \in BOOLEAN /\ destroyed \in BOOLEAN
                /\ FreshInv /\ NamesOwned)'
    <3>1. /\ m_queueName' = [m_queueName EXCEPT ![channel] = nextName]
          /\ names' = (names \cup {nextName}) \ {m_queueName[channel]}
          /\ bad' = (bad \/ ~({nextName, m_queueName[channel]}
                                \subseteq (names \cup {nextName}) \cup {0}))
      BY <2>2 DEF SetQueueName
    <3>2. /\ m_queueName'[channel] = nextName
          /\ \A c \in GetChannelList \ {channel} : m_queueName'[c] = m_queueName[c]
      BY <3>1
    <3>3. FreshInv' /\ nextName' \in 1..(MaxNames + 1)
      BY <2>1, <2>2, <3>1, <3>2
    <3>4. nextName \notin names /\ \A c \in GetChannelList : m_queueName[c] # nextName
      OBVIOUS
    <3>5. names' \subseteq {m_queueName'[c] : c \in GetChannelList}
      <4>. SUFFICES ASSUME NEW p \in names'
                    PROVE  \E c \in GetChannelList : m_queueName'[c] = p
        OBVIOUS
      <4>. QED
        BY <2>1, <3>1, <3>2
    <3>6. ~misdeclared => ~bad' /\ NamesFreeable'
      BY <2>1, <3>1, <3>2, <3>4
    <3>. QED
      BY <2>1, <2>2, <3>1, <3>3, <3>5, <3>6
  <2>3. ASSUME NEW queueName \in Leftovers, SetQueueName(channel, queueName, names),
               misdeclared' = TRUE, UNCHANGED nextName
        PROVE  (/\ nextName \in 1..(MaxNames + 1)
                /\ misdeclared \in BOOLEAN /\ bad \in BOOLEAN /\ destroyed \in BOOLEAN
                /\ FreshInv /\ NamesOwned)'
    <3>1. /\ m_queueName' = [m_queueName EXCEPT ![channel] = queueName]
          /\ names' = names \ {m_queueName[channel]}
          /\ bad' \in BOOLEAN
      BY <2>3 DEF SetQueueName
    <3>2. queueName \in (0..(nextName - 1)) \cup {Garbage}
      BY <2>3 DEF Leftovers
    <3>3. FreshInv'
      BY <2>1, <2>3, <3>1, <3>2
    <3>4. names' \subseteq {m_queueName'[c] : c \in GetChannelList}
      <4>. SUFFICES ASSUME NEW p \in names'
                    PROVE  \E c \in GetChannelList : m_queueName'[c] = p
        OBVIOUS
      <4>1. PICK c \in GetChannelList : m_queueName[c] = p
        BY <2>1, <3>1
      <4>2. c # channel /\ m_queueName'[c] = p
        BY <3>1, <4>1
      <4>. QED
        BY <4>2
    <3>. QED
      BY <2>1, <2>3, <3>1, <3>3, <3>4
  <2>. QED
    BY <1>2, <2>2, <2>3 DEF DeclareQueue
<1>3. CASE Destroy
  <2>1. /\ GetChannelList' = GetChannelList /\ destroyed' = TRUE
        /\ ~destroyed /\ UNCHANGED <<m_queueName, nextName, misdeclared>>
        /\ names' = names \ {m_queueName[c] : c \in GetChannelList}
        /\ bad' = (bad \/ ~NamesFreeable)
    BY <1>3 DEF Destroy, handlerVars, GetChannelList
  <2>. QED
    BY <2>1
<1>4. CASE UNCHANGED <<nameVars, destroyed>> /\ GetChannelList' = GetChannelList
  BY <1>4 DEF nameVars
<1>5. ASSUME NEW t \in Callers, SubscribeSetProperties(t)
      PROVE  UNCHANGED <<nameVars, destroyed>> /\ GetChannelList' = GetChannelList
  BY <1>5 DEF SubscribeSetProperties, SetQueueProperties, GetChannelList
<1>. QED
  BY <1>1, <1>2, <1>3, <1>4, <1>5, Frames
  DEF SubscribeStep, handlerVars, GetChannelList

-----------------------------------------------------------------------------
(* Every step keeps the calls and the messages                              *)

(* A Subscribe stays well formed, and its channel one of the handler's. *)
LEMMA CallStep ==
  ASSUME TypeInv, Next
  PROVE  call' \in [Callers -> Call] /\ PropsInv'
<1>. USE DEF TypeInv, TypeOK
<1>0. GetChannelList \subseteq GetChannelList' /\ NotSubscribing \in Call
  BY HandlerStep DEF Call, NotSubscribing
<1>1. ASSUME NEW t \in Callers, NEW r \in Call, call' = [call EXCEPT ![t] = r],
             r.at = "props" => r.channel \in GetChannelList'
      PROVE  call' \in [Callers -> Call] /\ PropsInv'
  BY <1>0, <1>1 DEF PropsInv
<1>2. ASSUME NEW t \in Callers, NEW pair \in BindingPairs, NEW f \in Callbacks,
             SubscribeEnter(t, pair, f)
      PROVE  call' \in [Callers -> Call] /\ PropsInv'
  <2>1. [at |-> "add", pair |-> pair, callback |-> f] \in Call
    BY DEF Call
  <2>. QED
    BY <1>1, <1>2, <2>1 DEF SubscribeEnter
<1>3. ASSUME NEW t \in Callers, call' = [call EXCEPT ![t] = NotSubscribing]
      PROVE  call' \in [Callers -> Call] /\ PropsInv'
  BY <1>0, <1>1, <1>3 DEF NotSubscribing
<1>4. ASSUME NEW t \in Callers, SubscribeAdd(t), ~HasProcessor(call[t].pair)
      PROVE  call' \in [Callers -> Call] /\ PropsInv'
  <2>1. m_nextAvailableChannel \in GetChannelList' /\ m_nextAvailableChannel \in Nat \ {0}
    BY <1>4
    DEF SubscribeAdd, AddChannelProcessor, NewChannel, GetChannelList, HandlerTypeOK
  <2>2. [at |-> "props", channel |-> m_nextAvailableChannel] \in Call
    BY <2>1 DEF Call
  <2>3. call' = [call EXCEPT ![t] = [at |-> "props", channel |-> m_nextAvailableChannel]]
    BY <1>4 DEF SubscribeAdd
  <2>. QED
    BY <1>1, <2>1, <2>2, <2>3
<1>5. ASSUME NEW t \in Callers, SubscribeStep(t)
      PROVE  call' \in [Callers -> Call] /\ PropsInv'
  BY <1>3, <1>4, <1>5 DEF SubscribeStep, SubscribeAdd, SubscribeSetProperties
<1>6. ASSUME NEW s \in Subscribers, NEW pair \in BindingPairs, NEW f \in Callbacks,
             AppSubscribes(s, pair, f)
      PROVE  call' \in [Callers -> Call] /\ PropsInv'
  BY <1>2, <1>6 DEF AppSubscribes, Callers
<1>7. ASSUME NEW n \in DOMAIN msg, NEW pair \in BindingPairs, NEW f \in Callbacks,
             CallbackSubscribes(n, pair, f)
      PROVE  call' \in [Callers -> Call] /\ PropsInv'
  <2>1. n \in 1..MaxMessages
    <3>1. Len(msg) \in Nat /\ n \in 1..Len(msg) /\ Len(msg) <= MaxMessages
      BY LenProperties
    <3>. QED
      BY <3>1, DispatchBoundsAssumption
  <2>2. <<"callback", n>> \in Callers
    BY <2>1 DEF Callers
  <2>. QED
    BY <1>2, <1>7, <2>2 DEF CallbackSubscribes
<1>8. CASE UNCHANGED call
  BY <1>0, <1>8 DEF PropsInv
<1>. QED
  BY <1>5, <1>6, <1>7, <1>8
  DEF Next, SetMultiThreaded, Pull, Process, ProcessFrame, CallbackStep,
      DetachedStart, CallbackReturns, DeclareQueue, Destroy, Terminated, vars

(* The messages and the journal stay well typed. *)
LEMMA MessageType ==
  ASSUME TypeInv, Next
  PROVE  (/\ msg \in Seq(MessageRecord) /\ Len(msg) <= MaxMessages
          /\ journal \in Seq(DOMAIN msg))'
<1>. USE DEF TypeInv, TypeOK
<1>1. ASSUME NEW pair \in BindingPairs \cup Strays, NEW malformed \in BOOLEAN,
             Pull(pair, malformed)
      PROVE  (/\ msg \in Seq(MessageRecord) /\ Len(msg) <= MaxMessages
              /\ journal \in Seq(DOMAIN msg))'
  <2>1. journal \in Seq(DOMAIN msg') /\ journal' = journal
    BY <1>1, PullStep, SeqMonotonic
  <2>. QED
    BY <1>1, <2>1, PullStep
<1>2. ASSUME NEW n \in DOMAIN msg, Process(n) \/ CallbackStep(n)
      PROVE  (/\ msg \in Seq(MessageRecord) /\ Len(msg) <= MaxMessages
              /\ journal \in Seq(DOMAIN msg))'
  <2>1. journal' = journal \/ journal' = Append(journal, n)
    BY <1>2, MessageStep DEF Drops, Detaches, Runs, Begins, Proceeds
  <2>2. Append(journal, n) \in Seq(DOMAIN msg)
    BY AppendProperties
  <2>3. journal' \in Seq(DOMAIN msg)
    BY <2>1, <2>2
  <2>. QED
    BY <1>2, <2>3, MessageStep
<1>. QED
  BY <1>1, <1>2, Frames

(* A message stays with whoever has it, in its turn. *)
LEMMA StageStep ==
  ASSUME TypeInv, StageInv, Next
  PROVE  StageInv'
<1>0. TypeOK
  BY DEF TypeInv
<1>1. ASSUME NEW pair \in BindingPairs \cup Strays, NEW malformed \in BOOLEAN,
             Pull(pair, malformed)
      PROVE  StageInv'
  <2>1. \A n \in DOMAIN msg : ~InHand(n)
    BY <1>0, <1>1, PullStep DEF ConsumerIdle
  <2>2. ASSUME NEW n \in DOMAIN msg
        PROVE  (/\ InHand(n) => n = Len(msg)
                /\ msg[n].at = "ready" => msg[n].threaded
                /\ msg[n].pair \in Strays \/ HasProcessor(msg[n].pair))'
    BY <1>0, <1>1, <2>1, <2>2, PullStep, ProcessorStays
    DEF StageInv, InHand, Running
  <2>3. (/\ msg[Len(msg)].at # "ready"
         /\ msg[Len(msg)].pair \in Strays \/ HasProcessor(msg[Len(msg)].pair))'
    BY <1>0, <1>1, PullStep, ProcessorStays
  <2>4. DOMAIN msg' = DOMAIN msg \cup {Len(msg')}
    BY <1>0, <1>1, PullStep
  <2>. QED
    BY <2>2, <2>3, <2>4 DEF StageInv
<1>2. ASSUME NEW n \in DOMAIN msg, Process(n) \/ CallbackStep(n)
      PROVE  StageInv'
  <2>1. /\ DOMAIN msg' = DOMAIN msg /\ Len(msg') = Len(msg)
        /\ \A m \in DOMAIN msg \ {n} : msg'[m] = msg[m]
        /\ msg'[n].pair = msg[n].pair
        /\ Drops(n) \/ Detaches(n) \/ Runs(n) \/ Begins(n) \/ Proceeds(n)
    BY <1>0, <1>2, MessageStep
  <2>2. ASSUME NEW m \in DOMAIN msg
        PROVE  (msg[m].pair \in Strays \/ HasProcessor(msg[m].pair))'
    BY <2>1, <2>2, ProcessorStays DEF StageInv
  <2>3. ASSUME NEW m \in DOMAIN msg \ {n}
        PROVE  (/\ InHand(m) => m = Len(msg)
                /\ msg[m].at = "ready" => msg[m].threaded)'
    BY <2>1, <2>3 DEF StageInv, InHand, Running
  <2>4. (/\ InHand(n) => n = Len(msg)
         /\ msg[n].at = "ready" => msg[n].threaded)'
    BY <2>1
    DEF StageInv, InHand, Running, Drops, Detaches, Runs, Begins, Proceeds
  <2>. QED
    BY <2>1, <2>2, <2>3, <2>4 DEF StageInv
<1>3. CASE UNCHANGED <<msg, journal>>
  <2>1. ASSUME NEW m \in DOMAIN msg
        PROVE  (msg[m].pair \in Strays \/ HasProcessor(msg[m].pair))'
    BY <1>3, <2>1, ProcessorStays DEF StageInv
  <2>. QED
    BY <1>3, <2>1 DEF StageInv, InHand, Running
<1>. QED
  BY <1>1, <1>2, <1>3, Frames

(* The callback that the consuming thread runs stays its pair's. *)
LEMMA ReplacedStep ==
  ASSUME TypeInv, StageInv, ReplacedNeverRuns, Next
  PROVE  ReplacedNeverRuns'
<1>0. TypeOK
  BY DEF TypeInv
<1>1. ASSUME NEW pair \in BindingPairs \cup Strays, NEW malformed \in BOOLEAN,
             Pull(pair, malformed)
      PROVE  ReplacedNeverRuns'
  BY <1>0, <1>1, PullStep DEF ReplacedNeverRuns, Running
<1>2. ASSUME NEW n \in DOMAIN msg, Process(n) \/ CallbackStep(n)
      PROVE  ReplacedNeverRuns'
  <2>1. /\ DOMAIN msg' = DOMAIN msg /\ m_callback' = m_callback
        /\ \A m \in DOMAIN msg \ {n} : msg'[m] = msg[m]
        /\ msg'[n].pair = msg[n].pair
        /\ Drops(n) \/ Detaches(n) \/ Runs(n) \/ Begins(n) \/ Proceeds(n)
    BY <1>0, <1>2, MessageStep
  <2>2. (Running(n) /\ ~msg[n].threaded => m_callback[msg[n].pair] = msg[n].callback)'
    BY <2>1
    DEF StageInv, ReplacedNeverRuns, Running, Drops, Detaches, Runs, Begins,
        Proceeds
  <2>. QED
    BY <2>1, <2>2 DEF ReplacedNeverRuns, Running
<1>3. CASE UNCHANGED <<msg, m_callback>>
  BY <1>3 DEF ReplacedNeverRuns, Running
<1>4. ASSUME NEW t \in Callers, SubscribeAdd(t) PROVE ReplacedNeverRuns'
  <2>1. msg' = msg /\ \A n \in DOMAIN msg : ~(Running(n) /\ ~msg[n].threaded)
    BY <1>4 DEF SubscribeAdd, HandlerMutexFree
  <2>. QED
    BY <2>1 DEF ReplacedNeverRuns, Running
<1>. QED
  BY <1>1, <1>2, <1>3, <1>4, Frames

(* The journal has each message once, when its callback starts, and the     *)
(* messages the consuming thread runs come in order: it holds only the one  *)
(* it pulled last.                                                          *)
LEMMA JournalStep ==
  ASSUME TypeInv, StageInv, HandledOnce, ArrivalOrder, Next
  PROVE  HandledOnce' /\ ArrivalOrder'
<1>0. /\ TypeOK
      /\ DOMAIN journal = 1..Len(journal) /\ Len(journal) \in Nat
      /\ \A i \in DOMAIN journal : journal[i] \in DOMAIN msg
      /\ DOMAIN msg = 1..Len(msg) /\ Len(msg) \in Nat
  BY LenProperties, ElementOfSeq DEF TypeInv, TypeOK
<1>1. ASSUME NEW pair \in BindingPairs \cup Strays, NEW malformed \in BOOLEAN,
             Pull(pair, malformed)
      PROVE  HandledOnce' /\ ArrivalOrder'
  <2>1. /\ DOMAIN msg' = DOMAIN msg \cup {Len(msg')}
        /\ \A m \in DOMAIN msg : msg'[m] = msg[m] /\ m < Len(msg')
        /\ \/ msg'[Len(msg')].at = "pulled"
           \/ msg'[Len(msg')].at = "dropped" /\ msg'[Len(msg')].pair \in Strays
        /\ Len(msg') = Len(msg) + 1
        /\ journal' = journal
    BY <1>0, <1>1, PullStep
  <2>2. Len(msg') \notin DOMAIN msg
    BY <1>0, <2>1
  <2>3. HandledOnce'
    <3>. SUFFICES ASSUME NEW n \in DOMAIN msg'
                  PROVE  /\ (\E i \in DOMAIN journal : journal[i] = n)
                              <=> msg'[n].at \in {"running", "called", "returned"}
                         /\ msg'[n].at = "dropped" => msg'[n].pair \in Strays
      BY <2>1 DEF HandledOnce
    <3>1. CASE n \in DOMAIN msg
      BY <2>1, <3>1 DEF HandledOnce
    <3>2. CASE n = Len(msg')
      BY <1>0, <2>1, <2>2, <3>2
    <3>. QED
      BY <2>1, <3>1, <3>2
  <2>4. ArrivalOrder'
    BY <1>0, <2>1 DEF ArrivalOrder
  <2>. QED
    BY <2>3, <2>4
<1>2. ASSUME NEW n \in DOMAIN msg, Process(n) \/ CallbackStep(n)
      PROVE  HandledOnce' /\ ArrivalOrder'
  <2>1. /\ DOMAIN msg' = DOMAIN msg
        /\ \A m \in DOMAIN msg \ {n} : msg'[m] = msg[m]
        /\ msg'[n].pair = msg[n].pair
        /\ Drops(n) \/ Detaches(n) \/ Runs(n) \/ Begins(n) \/ Proceeds(n)
    BY <1>0, <1>2, MessageStep
  <2>2. CASE Drops(n)
    <3>1. msg[n].pair \in Strays /\ journal' = journal
      BY <2>2 DEF StageInv, Drops
    <3>2. \A i \in DOMAIN journal : journal[i] # n
      BY <2>2 DEF HandledOnce, Drops
    <3>3. HandledOnce'
      BY <2>1, <2>2, <3>1, <3>2 DEF HandledOnce, Drops
    <3>4. ArrivalOrder'
      BY <1>0, <2>1, <3>1, <3>2 DEF ArrivalOrder
    <3>. QED
      BY <3>3, <3>4
  <2>3. CASE Detaches(n)
    <3>1. journal' = journal /\ \A i \in DOMAIN journal : journal[i] # n
      BY <2>3 DEF HandledOnce, Detaches
    <3>2. HandledOnce'
      BY <2>1, <2>3, <3>1 DEF HandledOnce, Detaches
    <3>3. ArrivalOrder'
      BY <1>0, <2>1, <3>1 DEF ArrivalOrder
    <3>. QED
      BY <3>2, <3>3
  <2>4. CASE Proceeds(n)
    <3>1. journal' = journal /\ msg'[n].threaded = msg[n].threaded
      BY <2>4 DEF Proceeds
    <3>2. HandledOnce'
      BY <2>1, <2>4, <3>1 DEF HandledOnce, Proceeds, Running
    <3>3. ArrivalOrder'
      BY <1>0, <2>1, <3>1 DEF ArrivalOrder
    <3>. QED
      BY <3>2, <3>3
  <2>5. CASE Runs(n) \/ Begins(n)
    <3>1. /\ journal' = Append(journal, n)
          /\ msg'[n].at = "running" /\ msg'[n].threaded = msg[n].threaded
          /\ \A i \in DOMAIN journal : journal[i] # n
          /\ msg[n].threaded \/ n = Len(msg)
      BY <2>5 DEF Runs, Begins, HandledOnce, StageInv, InHand
    <3>2. /\ DOMAIN journal' = DOMAIN journal \cup {Len(journal) + 1}
          /\ \A i \in DOMAIN journal : journal'[i] = journal[i]
          /\ journal'[Len(journal) + 1] = n
          /\ Len(journal) + 1 \notin DOMAIN journal
          /\ \A i \in DOMAIN journal : i < Len(journal) + 1
      <4>1. /\ journal' \in Seq(DOMAIN msg) /\ Len(journal') = Len(journal) + 1
            /\ \A i \in 1..Len(journal) : journal'[i] = journal[i]
            /\ journal'[Len(journal) + 1] = n
        BY <3>1, AppendProperties DEF TypeInv, TypeOK
      <4>2. DOMAIN journal' = 1..Len(journal')
        BY <4>1, LenProperties
      <4>. QED
        BY <1>0, <4>1, <4>2
    <3>3. HandledOnce'
      <4>1. \A i, j \in DOMAIN journal' : journal'[i] = journal'[j] => i = j
        BY <3>1, <3>2 DEF HandledOnce
      <4>2. ASSUME NEW m \in DOMAIN msg
            PROVE  (\E i \in DOMAIN journal' : journal'[i] = m)
                     <=> m = n \/ \E i \in DOMAIN journal : journal[i] = m
        BY <3>2
      <4>. QED
        BY <2>1, <3>1, <4>1, <4>2 DEF HandledOnce
    <3>4. ArrivalOrder'
      <4>1. ASSUME NEW i \in DOMAIN journal, ~msg'[n].threaded
            PROVE  journal[i] < n
        BY <1>0, <3>1, <4>1
      <4>. QED
        BY <1>0, <2>1, <3>1, <3>2, <4>1 DEF ArrivalOrder
    <3>. QED
      BY <3>3, <3>4
  <2>. QED
    BY <2>1, <2>2, <2>3, <2>4, <2>5
<1>3. CASE UNCHANGED <<msg, journal>>
  BY <1>3 DEF HandledOnce, ArrivalOrder
<1>. QED
  BY <1>1, <1>2, <1>3, Frames

-----------------------------------------------------------------------------
(* The theorems                                                             *)

(* The invariant of the handler and its callbacks. *)
THEOREM DispatchInvariant == Spec => []DispatchInv
<1>1. Init => DispatchInv
  <2>1. ASSUME Init PROVE TypeInv
    <3>1. call \in [Callers -> Call] /\ PropsInv
      BY <2>1 DEF Init, Call, NotSubscribing, PropsInv
    <3>2. HandlerTypeOK /\ GetChannelList = {}
      BY <2>1 DEF Init, HandlerInit, HandlerTypeOK, GetChannelList
    <3>3. msg \in Seq(MessageRecord) /\ Len(msg) <= MaxMessages /\ journal \in Seq(DOMAIN msg)
      BY <2>1, EmptySeq, DispatchBoundsAssumption DEF Init
    <3>4. /\ DOMAIN m_callback = {m_channelLookup[c] : c \in GetChannelList}
          /\ m_callback \in [DOMAIN m_callback -> Callbacks]
          /\ m_queueName \in [GetChannelList -> (0..MaxNames) \cup {Garbage}]
      BY <2>1, <3>2 DEF Init
    <3>5. nextName \in 1..(MaxNames + 1) /\ names \subseteq 1..MaxNames
      BY <2>1, DispatchBoundsAssumption DEF Init
    <3>. QED
      BY <2>1, <3>1, <3>2, <3>3, <3>4, <3>5 DEF Init, TypeInv, TypeOK
  <2>2. ASSUME Init PROVE FreshInv /\ NamesOwned
    <3>1. GetChannelList = {} /\ DOMAIN m_queueName = {} /\ m_queueName = [c \in {} |-> 0]
      BY <2>2 DEF Init, HandlerInit, GetChannelList
    <3>2. names = {} /\ ~bad
      BY <2>2 DEF Init
    <3>. QED
      BY <3>1, <3>2 DEF FreshInv, NamesOwned, NamesFreeable
  <2>3. ASSUME Init
        PROVE  StageInv /\ ReplacedNeverRuns /\ HandledOnce /\ ArrivalOrder
    <3>1. DOMAIN msg = {} /\ DOMAIN journal = {}
      BY <2>3 DEF Init
    <3>. QED
      BY <3>1 DEF StageInv, ReplacedNeverRuns, HandledOnce, ArrivalOrder
  <2>. QED
    BY <2>1, <2>2, <2>3 DEF DispatchInv
<1>2. ASSUME DispatchInv, [Next]_vars PROVE DispatchInv'
  <2>1. CASE UNCHANGED vars
    BY <1>2, <2>1
    DEF DispatchInv, TypeInv, TypeOK, PropsInv, StageInv, InHand, Running,
        HasProcessor, GetChannelList, HandlerTypeOK, FreshInv, NamesOwned,
        NamesFreeable, ReplacedNeverRuns, HandledOnce, ArrivalOrder, vars, handlerVars, nameVars
  <2>2. CASE Next
    <3>1. m_multiThreaded' \in BOOLEAN
      BY <1>2, <2>2, ModesAssumption
      DEF DispatchInv, TypeInv, TypeOK, Next, AppSubscribes,
          CallbackSubscribes, SubscribeEnter, SubscribeStep, SubscribeAdd,
          SubscribeSetProperties, SetMultiThreaded, Pull, Process,
          ProcessFrame, CallbackStep, DetachedStart, CallbackReturns,
          DeclareQueue, Destroy, Terminated, vars
    <3>2. (/\ nextName \in 1..(MaxNames + 1)
           /\ misdeclared \in BOOLEAN /\ bad \in BOOLEAN /\ destroyed \in BOOLEAN
           /\ FreshInv /\ NamesOwned)'
      BY <1>2, <2>2, NamesStep DEF DispatchInv
    <3>3. (/\ m_queueName \in [GetChannelList -> (0..MaxNames) \cup {Garbage}]
           /\ names \subseteq 1..MaxNames)'
      <4>1. nextName' \in 1..(MaxNames + 1)
        BY <3>2
      <4>2. /\ 0..(nextName' - 1) \subseteq 0..MaxNames
            /\ 1..(nextName' - 1) \subseteq 1..MaxNames
        BY <4>1, NamesInRange
      <4>3. /\ names' \subseteq 1..(nextName' - 1)
            /\ m_queueName' \in [GetChannelList' -> (0..(nextName' - 1)) \cup {Garbage}]
        BY <3>2 DEF FreshInv
      <4>4. (0..(nextName' - 1)) \cup {Garbage} \subseteq (0..MaxNames) \cup {Garbage}
        BY <4>2
      <4>5. m_queueName' \in [GetChannelList' -> (0..MaxNames) \cup {Garbage}]
        BY <4>3, <4>4
      <4>6. names' \subseteq 1..MaxNames
        BY <4>2, <4>3
      <4>. QED
        BY <4>5, <4>6
    <3>4. TypeInv'
      BY <1>2, <2>2, <3>1, <3>2, <3>3, HandlerStep, CallbackMapStep,
         MessageType, CallStep
      DEF DispatchInv, TypeInv, TypeOK
    <3>. QED
      BY <1>2, <2>2, <3>2, <3>4, StageStep, ReplacedStep, JournalStep
      DEF DispatchInv
  <2>. QED
    BY <1>2, <2>1, <2>2
<1>. QED
  BY <1>1, <1>2, PTL DEF Spec

(* The maps of ChannelHandler agree in every state. *)
THEOREM TypeCorrect == Spec => []TypeOK
<1>1. DispatchInv => TypeOK
  BY DEF DispatchInv, TypeInv
<1>. QED
  BY <1>1, DispatchInvariant, PTL

(* A Subscribe that replaces a callback the consuming thread is running     *)
(* waits for it, so the old one does not run once Subscribe has returned.   *)
THEOREM ReplacedIsGone == Spec => []ReplacedNeverRuns
<1>1. DispatchInv => ReplacedNeverRuns
  BY DEF DispatchInv
<1>. QED
  BY <1>1, DispatchInvariant, PTL

(* The callbacks that Process() itself runs run in the order of arrival,    *)
(* however SetMultiThreaded is called between the messages.                 *)
THEOREM RunsInOrder == Spec => []ArrivalOrder
<1>1. DispatchInv => ArrivalOrder
  BY DEF DispatchInv
<1>. QED
  BY <1>1, DispatchInvariant, PTL

(* No message is handled twice, and Process() drops none that somebody      *)
(* subscribed to.                                                           *)
THEOREM HandlesOnce == Spec => []HandledOnce
<1>1. DispatchInv => HandledOnce
  BY DEF DispatchInv
<1>. QED
  BY <1>1, DispatchInvariant, PTL

(* declareQueue() and ~ChannelHandler() lose no buffer that holds a queue   *)
(* name, whichever declarations fail, and free each once as long as none    *)
(* does.                                                                    *)
THEOREM NamesHaveOneOwner == Spec => []NamesOwned
<1>1. DispatchInv => NamesOwned
  BY DEF DispatchInv
<1>. QED
  BY <1>1, DispatchInvariant, PTL
=============================================================================
