------------------------------ MODULE Dispatch ------------------------------
(***************************************************************************)
(* ChannelHandler from the inside: m_handlerMutex, the callbacks, and the   *)
(* threads that meet there.  The consuming thread pulls messages and gives  *)
(* them to Process(), which runs the callback under the mutex or, when      *)
(* m_multiThreaded is on, in a detached thread with copies.  Subscribers    *)
(* and callbacks call Subscribe.                                            *)
(*                                                                         *)
(* Only Process() keeps m_handlerMutex over several steps, and only while   *)
(* it runs a callback; every other critical section is one step.            *)
(***************************************************************************)
EXTENDS ChannelHandler, Sequences

CONSTANTS
  Callbacks,    \* the TD_Callbacks the application has
  NoCallback,   \* "not looked up yet"
  Reentrant,    \* those of them that call Subscribe before they return
  Subscribers,  \* application threads that call Subscribe
  Strays,       \* pairs that messages carry and nobody subscribes to, such as
                \* a routing key that a topic pattern was bound for
  Modes,        \* what SetMultiThreaded is called with
  Careful,      \* does the application use re-entrant callbacks only while
                \* m_multiThreaded is on?
  MaxMessages,  \* bound on messages
  MaxNames,     \* bound on queue names
  Refusals,     \* may the declaration of a queue fail?
  Garbage       \* an uninitialised amqp_bytes_t that points nowhere

ASSUME CallbacksAssumption ==
         Reentrant \subseteq Callbacks /\ NoCallback \notin Callbacks
ASSUME StraysAssumption == Strays \cap BindingPairs = {}
ASSUME ModesAssumption == Modes \subseteq BOOLEAN /\ Careful \in BOOLEAN
ASSUME DispatchBoundsAssumption == MaxMessages \in Nat /\ MaxNames \in Nat
ASSUME NamesAssumption == Garbage \notin Nat /\ Refusals \in BOOLEAN

VARIABLES
  m_callback,       \* pair -> m_callback of its channelProcessingInfo
  m_multiThreaded,
  m_queueName,      \* channel -> its name's buffer; 0 is NULL
  names,            \* buffers of names that have not been freed
  nextName,         \* the next buffer malloc returns
  misdeclared,      \* the declaration of a queue has failed
  bad,              \* a name was read or freed that is no buffer in use
  msg,              \* the messages pulled so far and what became of them
  journal,          \* message numbers, in the order their callbacks started
  call,             \* thread -> the Subscribe it is in
  destroyed         \* ~ChannelHandler() has run

nameVars == <<m_queueName, names, nextName, misdeclared, bad>>
vars == <<handlerVars, m_callback, m_multiThreaded, nameVars, msg, journal,
          call, destroyed>>

(* Subscribe may be called by the application and by the callback of a      *)
(* message.                                                                 *)
Callers == ({"app"} \X Subscribers) \cup ({"callback"} \X (1..MaxMessages))

NotSubscribing == [at |-> "idle"]

Call == [at : {"idle"}] \cup
        [at : {"add"}, pair : BindingPairs, callback : Callbacks] \cup
        [at : {"props"}, channel : Nat \ {0}]

(* pulled: in Process(), before the lock.  ready: its thread is created.    *)
Stage == {"pulled", "dropped", "ready", "running", "called", "returned"}

MessageRecord == [at : Stage, pair : BindingPairs \cup Strays,
                  callback : Callbacks \cup {NoCallback}, threaded : BOOLEAN]

(* The maps of ChannelHandler agree: channels are numbered without a gap,   *)
(* and every channel has a queue name and a pair with a callback.           *)
TypeOK ==
  /\ HandlerTypeOK
  /\ DOMAIN m_callback = {m_channelLookup[c] : c \in GetChannelList}
  /\ m_callback \in [DOMAIN m_callback -> Callbacks]
  /\ m_multiThreaded \in BOOLEAN
  /\ m_queueName \in [GetChannelList -> (0..MaxNames) \cup {Garbage}]
  /\ names \subseteq 1..MaxNames
  /\ nextName \in 1..(MaxNames + 1)
  /\ misdeclared \in BOOLEAN /\ bad \in BOOLEAN
  /\ msg \in Seq(MessageRecord) /\ Len(msg) <= MaxMessages
  /\ journal \in Seq(DOMAIN msg)
  /\ call \in [Callers -> Call]
  /\ destroyed \in BOOLEAN

Init ==
  /\ HandlerInit
  /\ m_callback = [pair \in {} |-> NoCallback]
  /\ m_multiThreaded = FALSE
  /\ m_queueName = [c \in {} |-> 0]
  /\ names = {}
  /\ nextName = 1
  /\ misdeclared = FALSE
  /\ bad = FALSE
  /\ msg = <<>>
  /\ journal = <<>>
  /\ call = [t \in Callers |-> NotSubscribing]
  /\ destroyed = FALSE

-----------------------------------------------------------------------------
(* The threads and the mutex                                                *)

Running(n) == msg[n].at \in {"running", "called"}

(* What the consuming thread is busy with. *)
InHand(n) == msg[n].at = "pulled" \/ (Running(n) /\ ~msg[n].threaded)

ConsumerIdle == ~ \E n \in DOMAIN msg : InHand(n)

HandlerMutexIgnored == TRUE

HandlerMutexPassedOn == ~ \E n \in DOMAIN msg : Running(n)

HandlerMutexFree == ~ \E n \in DOMAIN msg : Running(n) /\ ~msg[n].threaded

-----------------------------------------------------------------------------
(* Subscribe: AddChannelProcessor, and SetQueueProperties for a new pair    *)

MaySubscribe(callback) ==
  Careful /\ callback \in Reentrant => m_multiThreaded

SubscribeEnter(t, pair, callback) ==
  /\ ~destroyed
  /\ call[t] = NotSubscribing
  /\ MaySubscribe(callback)
  /\ call' = [call EXCEPT ![t] = [at |-> "add", pair |-> pair, callback |-> callback]]
  /\ UNCHANGED <<handlerVars, m_callback, m_multiThreaded, nameVars, journal,
                 destroyed>>

(* A new pair gets a channel and a channelProcessingInfo without a queue    *)
(* name; a known one only its new callback.                                 *)
SubscribeAdd(t) ==
  LET pair == call[t].pair
      channel == m_nextAvailableChannel
  IN  /\ call[t].at = "add"
      /\ HandlerMutexFree
      /\ AddChannelProcessor(pair)
      /\ m_callback' = [p \in DOMAIN m_callback \cup {pair} |->
                          IF p = pair THEN call[t].callback ELSE m_callback[p]]
      /\ m_queueName' = [c \in DOMAIN m_channelLookup' |->
                           IF c \in GetChannelList THEN m_queueName[c] ELSE 0]
      /\ call' = [call EXCEPT ![t] =
                    IF HasProcessor(pair) THEN NotSubscribing
                    ELSE [at |-> "props", channel |-> channel]]
      /\ UNCHANGED <<m_multiThreaded, names, nextName, misdeclared, bad, msg, journal,
                     destroyed>>

SubscribeSetProperties(t) ==
  /\ call[t].at = "props"
  /\ HandlerMutexFree
  /\ SetQueueProperties(call[t].channel)
  /\ call' = [call EXCEPT ![t] = NotSubscribing]
  /\ UNCHANGED <<m_callback, m_multiThreaded, nameVars, msg, journal, destroyed>>

(* The application's threads call when they like, ...                       *)
AppSubscribes(s, pair, callback) ==
  /\ SubscribeEnter(<<"app", s>>, pair, callback)
  /\ UNCHANGED msg

(* ... a re-entrant callback once, before it returns.                       *)
CallbackSubscribes(n, pair, callback) ==
  /\ msg[n].at = "running" /\ msg[n].callback \in Reentrant
  /\ SubscribeEnter(<<"callback", n>>, pair, callback)
  /\ msg' = [msg EXCEPT ![n].at = "called"]

SetMultiThreaded(multiThread) ==
  /\ ~destroyed
  /\ HandlerMutexFree
  /\ Careful /\ ~multiThread =>
       /\ \A pair \in DOMAIN m_callback : m_callback[pair] \notin Reentrant
       /\ \A t \in Callers : call[t].at = "add" => call[t].callback \notin Reentrant
  /\ m_multiThreaded' = multiThread
  /\ UNCHANGED <<handlerVars, m_callback, nameVars, msg, journal, call, destroyed>>

-----------------------------------------------------------------------------
(* The consuming thread                                                     *)

(* pullNextMessage() up to its call of Process().  The broker sends what    *)
(* the queue of a channel was bound for, and what is sent to the queue by   *)
(* its name, from no exchange: such a malformed envelope is not processed.  *)
Pull(pair, malformed) ==
  /\ ~destroyed /\ ConsumerIdle
  /\ Len(msg) < MaxMessages
  /\ malformed => pair \in Strays
  /\ \E c \in GetChannelList :
       /\ m_queueName[c] \notin {0, Garbage}
       /\ pair \in Strays \/ pair = m_channelLookup[c]
  /\ msg' = Append(msg, [at |-> IF malformed THEN "dropped" ELSE "pulled",
                         pair |-> pair, callback |-> NoCallback, threaded |-> FALSE])
  /\ UNCHANGED <<handlerVars, m_callback, m_multiThreaded, nameVars, journal,
                 call, destroyed>>

ProcessFrame == <<handlerVars, m_callback, m_multiThreaded, nameVars, call,
                  destroyed>>

ProcessAlwaysDetached(n) ==
  LET pair == msg[n].pair
  IN  /\ msg[n].at = "pulled"
      /\ HandlerMutexFree
      /\ IF ~HasProcessor(pair)
         THEN msg' = [msg EXCEPT ![n].at = "dropped"]
         ELSE msg' = [msg EXCEPT ![n].at = "ready", ![n].callback = m_callback[pair]]
      /\ UNCHANGED <<ProcessFrame, journal>>

ProcessNothing(n) ==
  /\ msg[n].at = "pulled"
  /\ HandlerMutexFree
  /\ msg' = [msg EXCEPT ![n].at = "dropped"]
  /\ UNCHANGED <<ProcessFrame, journal>>

(* Process() under the lock: nothing for a pair that is not there, a thread *)
(* with copies of message and callback, or the callback itself.             *)
Process(n) ==
  LET pair == msg[n].pair
  IN  /\ msg[n].at = "pulled"
      /\ HandlerMutexFree
      /\ IF ~HasProcessor(pair)
         THEN msg' = [msg EXCEPT ![n].at = "dropped"] /\ UNCHANGED journal
         ELSE IF m_multiThreaded
         THEN /\ msg' = [msg EXCEPT ![n].at = "ready", ![n].threaded = TRUE,
                                    ![n].callback = m_callback[pair]]
              /\ UNCHANGED journal
         ELSE /\ msg' = [msg EXCEPT ![n].at = "running", ![n].callback = m_callback[pair]]
              /\ journal' = Append(journal, n)
      /\ UNCHANGED ProcessFrame

DetachedStart(n) ==
  /\ msg[n].at = "ready"
  /\ msg' = [msg EXCEPT ![n].at = "running"]
  /\ journal' = Append(journal, n)
  /\ UNCHANGED ProcessFrame

(* The callback returns; if the consuming thread ran it, Process() returns  *)
(* and unlocks.                                                             *)
CallbackReturns(n) ==
  /\ \/ msg[n].at = "running" /\ msg[n].callback \notin Reentrant
     \/ msg[n].at = "called" /\ call[<<"callback", n>>] = NotSubscribing
  /\ msg' = [msg EXCEPT ![n].at = "returned"]
  /\ UNCHANGED <<ProcessFrame, journal>>

(* What an uninitialised queueName may hold: NULL, nonsense, or what an     *)
(* earlier call of setupAndConsume() left in the same place of the stack.   *)
Leftovers == {0, Garbage} \cup 1..(nextName - 1)

SetQueueNameKeepingOld(channel, queueName, buffers) ==
  /\ m_queueName' = [m_queueName EXCEPT ![channel] = queueName]
  /\ names' = buffers
  /\ bad' = (bad \/ queueName \notin buffers \cup {0})

(* The new name is logged, and the handler frees the old name of the        *)
(* channel and takes over the new one; buffers are the names in use.        *)
(* Freeing NULL is nothing.                                                 *)
SetQueueName(channel, queueName, buffers) ==
  /\ m_queueName' = [m_queueName EXCEPT ![channel] = queueName]
  /\ names' = buffers \ {m_queueName[channel]}
  /\ bad' = (bad \/ ~({queueName, m_queueName[channel]} \subseteq buffers \cup {0}))

(* declareQueue(), on the first set-up of a channel and on every later one. *)
(* The broker chooses a name, which is copied, or the declaration fails;    *)
(* ConnectionBase::DeclareQueue() returns ALL_GOOD in both cases, so the    *)
(* handler stores, after it was logged, a queueName that nobody has set.    *)
DeclareQueue(channel) ==
  /\ ~destroyed /\ ConsumerIdle
  /\ HandlerMutexFree
  /\ \/ /\ nextName <= MaxNames
        /\ nextName' = nextName + 1
        /\ SetQueueName(channel, nextName, names \cup {nextName})
        /\ UNCHANGED misdeclared
     \/ /\ Refusals
        /\ \E queueName \in Leftovers : SetQueueName(channel, queueName, names)
        /\ misdeclared' = TRUE
        /\ UNCHANGED nextName
  /\ UNCHANGED <<handlerVars, m_callback, m_multiThreaded, msg, journal, call,
                 destroyed>>

(* Every channel has NULL or a buffer of its own. *)
NamesFreeable ==
  /\ \A c \in GetChannelList : m_queueName[c] \in names \cup {0}
  /\ \A c, d \in GetChannelList :
       m_queueName[c] = m_queueName[d] => c = d \/ m_queueName[c] = 0

(* ~ChannelHandler(), with ~Consumer(): the consuming thread is joined and  *)
(* no call is under way.  Detached callbacks may still run.                 *)
Destroy ==
  /\ ~destroyed /\ ConsumerIdle
  /\ \A t \in Callers : call[t] = NotSubscribing
  /\ \A n \in DOMAIN msg :
       msg[n].at \in {"ready", "running"} => msg[n].callback \notin Reentrant
  /\ names' = names \ {m_queueName[c] : c \in GetChannelList}
  /\ bad' = (bad \/ ~NamesFreeable)
  /\ destroyed' = TRUE
  /\ UNCHANGED <<handlerVars, m_callback, m_multiThreaded, m_queueName,
                 nextName, misdeclared, msg, journal, call>>

Terminated ==
  /\ destroyed
  /\ \A n \in DOMAIN msg : msg[n].at \in {"dropped", "returned"}
  /\ UNCHANGED vars

-----------------------------------------------------------------------------
SubscribeStep(t) == SubscribeAdd(t) \/ SubscribeSetProperties(t)

CallbackStep(n) ==
  \/ DetachedStart(n)
  \/ \E pair \in BindingPairs, f \in Callbacks : CallbackSubscribes(n, pair, f)
  \/ CallbackReturns(n)

Next ==
  \/ \E s \in Subscribers, pair \in BindingPairs, f \in Callbacks :
       AppSubscribes(s, pair, f)
  \/ \E t \in Callers : SubscribeStep(t)
  \/ \E multiThread \in Modes : SetMultiThreaded(multiThread)
  \/ \E pair \in BindingPairs \cup Strays, malformed \in BOOLEAN : Pull(pair, malformed)
  \/ \E n \in DOMAIN msg : Process(n) \/ CallbackStep(n)
  \/ \E channel \in GetChannelList : DeclareQueue(channel)
  \/ Destroy
  \/ Terminated

Spec == Init /\ [][Next]_vars

(* The operating system schedules every thread that can run: a caller that  *)
(* waits for a free mutex, the consuming thread in Process(), the detached  *)
(* threads.  Nobody has to call Subscribe or to send a message.             *)
Fairness ==
  /\ \A t \in Callers : WF_vars(SubscribeStep(t))
  /\ \A n \in 1..MaxMessages :
       /\ WF_vars(n \in DOMAIN msg /\ Process(n))
       /\ WF_vars(n \in DOMAIN msg /\ CallbackStep(n))

FairSpec == Spec /\ Fairness

-----------------------------------------------------------------------------
(* Safety                                                                   *)

(* While the consuming thread runs a callback, that callback is still the   *)
(* one its pair is subscribed with: a Subscribe that replaces it waits, so  *)
(* once it has returned the old callback does not run again.                *)
ReplacedNeverRuns ==
  \A n \in DOMAIN msg :
    Running(n) /\ ~msg[n].threaded => m_callback[msg[n].pair] = msg[n].callback

(* Without m_multiThreaded the callbacks run in the order in which the      *)
(* messages came, however it is switched for others.                        *)
ArrivalOrder ==
  \A i, j \in DOMAIN journal :
    i < j /\ ~msg[journal[i]].threaded /\ ~msg[journal[j]].threaded
    => journal[i] < journal[j]

(* No message is handled twice, and none that somebody subscribed to is     *)
(* lost between the consuming thread, the lock and the detached threads.    *)
HandledOnce ==
  /\ \A i, j \in DOMAIN journal : journal[i] = journal[j] => i = j
  /\ \A n \in DOMAIN msg :
       /\ (\E i \in DOMAIN journal : journal[i] = n)
            <=> msg[n].at \in {"running", "called", "returned"}
       /\ msg[n].at = "dropped" => msg[n].pair \in Strays

(* The buffers of queue names are not lost: each one in use is that of a    *)
(* channel, which frees it on its next set-up or in the destructor.  And    *)
(* until the declaration of a queue fails each channel has one of its own,  *)
(* so that nothing is freed twice and nothing is read that was not set.     *)
NamesOwned ==
  /\ names \subseteq IF destroyed THEN {} ELSE {m_queueName[c] : c \in GetChannelList}
  /\ ~misdeclared => ~bad /\ (destroyed \/ NamesFreeable)

-----------------------------------------------------------------------------
(* Liveness                                                                 *)

(* Nobody waits for ever: a Subscribe returns although callbacks hold the   *)
(* mutex it needs, ...                                                      *)
SubscribeReturns ==
  \A t \in Callers : call[t].at = "add" ~> call[t].at = "idle"

(* ... and a message that the broker sent for a subscription is handed to   *)
(* a callback, which returns.                                               *)
EveryMessageHandled ==
  \A n \in 1..MaxMessages :
    n \in DOMAIN msg /\ msg[n].pair \in BindingPairs
    ~> n \in DOMAIN msg /\ msg[n].at = "returned"

-----------------------------------------------------------------------------
(* What the documentation says and the code does not do                     *)

(* "By default, this is multithreaded", so a callback can subscribe: the    *)
(* consuming thread always comes back for the next message.                 *)
ConsumptionGoesOn == []<> ConsumerIdle
=============================================================================
