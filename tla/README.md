# HareCpp in TLA+

HareCpp is a C++ wrapper round rabbitmq-c. A `Producer` queues messages and a
thread of its own publishes them; a `Consumer` registers callbacks and a thread
of its own consumes. This directory models both classes with the connection and
the channel table under them, the dispatch of messages to callbacks, the memory
of messages and the logger and checks them with TLC on small instances. Every
invariant and every action property that the passing runs check, and the
refinement of the abstract producer, is also proved with TLAPS for all values of
the constants; the liveness properties are model-checked only.

All paths below are relative to `src/`, the repository.

## 1. Inventory

| Component | State it keeps | Operations | Who else touches it |
|---|---|---|---|
| Error codes (`include/ErrorCodes.hpp`, decoders in `src/ConnectionBase.cpp`) | none | `noError`, `serverFailure`, `decodeRpcReply`, `decodeLibraryException` | every caller branches on them |
| `ConnectionBase` | `m_conn`, `m_isConnected`, `m_connMutex` | `Connect`, `CloseConnection`, `OpenChannel`, `DeclareExchange`, `PublishMessage`, `DeclareQueue`, `BindQueue`, `StartConsumption`, `ConsumeMessage` | one owner: a producer's or consumer's thread, and `Stop` after the join |
| `Producer` | `m_sendQueue`, `m_exchangeList`, `m_channelsConnected`, `m_threadRunning`, the thread | `Send`, `DeclareExchange`, `Start`, `Stop`, `Restart`, `Initialize`, `QueueSize`, destructor | application threads and the publishing thread, through `m_producerMutex` and sometimes without it |
| `Consumer` | `m_pendingChannels`, `m_threadRunning`, the thread | `Subscribe`, `Start`, `Stop`, `Restart`, `Initialize`, destructor | application threads and the consuming thread, through `m_consumerMutex` and `m_pendingChannelMutex` |
| `ChannelHandler` | `m_channelLookup`, `m_bindingPairLookup`, `m_nextAvailableChannel`, `m_multiThreaded`, callbacks and queue names | `AddChannelProcessor`, `SetQueueProperties`, `SetQueueName`, `SetMultiThreaded`, `Process`, getters, destructor | subscribers, callbacks and the consuming thread, through `m_handlerMutex`, which `Process` holds while a callback runs |
| `Message`, `RawMessage`, `Utils` | `m_body`, `m_bodyHasBeenSet`, `m_properties`; malloc'ed buffers | constructors, copy, assignment, setters, destructor; `hare_free_message_risky` | `Send` copies the body and borrows the properties; the publishing thread frees; the consumer builds a message per envelope |
| `Logger` | `dbgLevel`, a plain static | `LOG_SIMPLE`, `LOG_FULL`, `SET_DEBUG_LEVEL` | every thread, without a lock |
| the broker and rabbitmq-c (external) | session, open and closing channels, exchanges, queues, consumers | AMQP methods | other clients may declare exchanges |

What is hard: interleavings at lock boundaries (`Send` and `Subscribe` take
several locks in turn; `Start` of the producer tests and sets under two locks;
queue size, front and pop are separate), flags read early and used late
(`m_channelsConnected`, `m_isConnected`), a connection lost between any two
calls, partial failure of a series of RPCs, retries that repeat what was already
done, `Stop` joining a thread that may be anywhere, callbacks that run under a
lock they may need themselves, and buffers whose owner depends on the order of
calls. Each such place is under
`hazards` in `PROJECT.json` with its line and the properties that watch it.

What makes each component correct:

- connection: never used after it was destroyed; a failure is reported as one;
- producer: messages leave in order and at most once, on the channel of their
  exchange; nothing stays queued for ever; `Stop` returns and leaves nothing
  behind;
- consumer: no subscription is lost between `Subscribe`, the channel list and
  the pending queue; every subscription is consumed in the end; `Stop` returns;
- channel table: one channel per binding pair, however calls race;
- dispatch: every message reaches the callback of its pair once, in order, and
  never a callback that has been replaced; nobody waits for ever;
- message: each buffer has one owner and is there for as long as somebody can
  read it; what is published is what was sent;
- logger: a line is printed only if its level is in force.

## 2. Modules

    HareError <- ConnectionBase <- Producer <- MCProducer
                     ^                 ^
                     |             Outbox (instantiated by Producer)
                     +- ConsumeConnection <- Consumer <- MCConsumer
                             ChannelHandler <-+
                                  ^- Dispatch
    Message <- MCMessage        Logger

    ConnectionBase <- ConnectionProofs
    Producer, ConnectionProofs <- ProducerProofs <- ProducerLifeProofs
                                            <- ProducerChannelProofs
    Consumer, ConnectionProofs <- ConsumerProofs
    Dispatch <- DispatchProofs   Message <- MessageProofs   Logger <- LoggerProofs

**HareError** has the error codes and the two decoders. A reply is one string.
The `default` branches, which leave `ALL_GOOD`, are kept.

**ConnectionBase** models each public call as an action with a return code,
composed by its caller. `m_connMutex` makes the body of a call atomic. The
`amqp_*` operators are the broker, external, reduced to the AMQP rules the code
depends on: opening a channel number that is open or still closing makes the
broker close the connection; so does using one that was never opened; a channel
exception leaves the channel closing until the client answers close-ok, which
only `OpenChannel` does; a publish waits for nothing. `m_conn` is none, live or
destroyed, and `leaked` counts handles overwritten while live.

**ConsumeConnection** adds the consumer's four calls and the session's queues
and consumers. `DeclareQueue` returns only its out-parameter, because the code's
inner `retCode` shadows the returned one. A call on a channel that is closing
gets no answer from a live broker, so it is not enabled: the thread, and whoever
joins it, then waits for ever.

**Producer** interleaves senders, controllers and the publishing thread.
`pc` is where `thread()` is, `ctl[c]` where a controller is inside `Start`,
`Stop`, `Restart` or the destructor, `snd[s]` the exchange of a `Send` between
its two critical sections. A step is one critical section, one call on
`m_connection`, or one access without the lock; `connectChannels()` is the only
one to keep the mutex over several steps. `ExchangeProperties::m_connected` is
left out because the code assigns it only in copies. Payloads are message ids.
`fault` records `std::terminate`, a null dereference or the front of an empty
queue; the process then stops.

**Outbox** is the abstract producer, a lossy FIFO: accept at the back, transmit
from the front while connected, drop from the front while not.
`Producer!ImplementsOutbox` is the refinement; the queue is mapped to the
messages not yet sent (`Unsent`), since the code pops a message after sending.

**ChannelHandler** is one map from channels to binding pairs (the code's two
maps share their entries) and the set of channels whose properties were set.
Consumer and Dispatch both extend it.

**Consumer** interleaves subscribers, controllers and the consuming thread,
step by step as in Producer. `mode` says who called `setupAndConsume`:
`startConsumption`, which holds `m_consumerMutex` throughout, or the retry of a
pending channel, which does not. `Subscribe` tests `IsInitialized` and adds the
channel in one step: an initialised consumer stays so until its destructor, so
what another thread does between the two could as well come before both. A callback holds `m_handlerMutex` (`pc` =
"process"). Undefined behaviour in `fault`: an empty pending queue popped, an
uninitialised queue name used, an envelope that was not filled.

**Dispatch** looks at the channel handler from the inside: callbacks, queue
names, `m_multiThreaded`, and who holds `m_handlerMutex`. It leaves out the
connection, which Consumer has. `msg[n]` follows the n-th message from
`pullNextMessage` (pulled) through `Process` to its callback (ready for a
detached thread, running, returned) or to nobody (dropped); `journal` is the
order in which callbacks started. `Process` is the only one to keep the mutex
over several steps, so `HandlerMutexFree` says that no callback runs on the
consuming thread. `Reentrant` callbacks call `Subscribe` once. `Careful` says
that the application subscribes them only while `m_multiThreaded` is on; without
it, they deadlock (`v_reentry`). `Strays` are pairs that messages carry and
nobody subscribed to, as under a topic pattern. The mode can be switched at any
time, although no code in the repository does so. A queue is declared on every
set-up of a channel, and where `Refusals` is on the declaration may fail; the
uninitialised `queueName` is then any of `Leftovers` (NULL, nonsense, or a name
an earlier call left on the stack), which the handler stores all the same.
`names` are the buffers in use, and `bad` records one freed twice or a value
read or freed that is none of them.

**Message** is a heap of blocks with the application's `Message` objects, the
send queue and the messages under way. A block is named by the call of malloc
that returned it and is never reused, so a dangling pointer is recognised; `bad`
records a double free or a read of a block that is gone or was never set. A
payload is a text and what follows its first NUL, which is all that
`hare_cstring_bytes` and `hare_void_bytes` tell apart. `StringFlags` are the
string properties in use; `hare_basic_properties_malloc_dup` treats all ten of
them alike and duplicates them. The headers are a table it does not duplicate:
the copy has the pointer of the original. The remaining properties are plain
values; only the timestamp is kept, since `PublishMessage` fills it in.
`envelope` is the object that is `newMessage` while `pullNextMessage` runs:
`Receive` builds it, with headers that lie in the envelope's pool, the callback
may copy it (it is `const` there), and `DestroyEnvelope` frees the pool and the
message. With `m_multiThreaded` on it is the library that makes such a copy, in
the lambda of `Process`. `Foreign` are contents that other programs publish. A
string that is given to a setter, or a table that is put into
`AmqpProperties()`, stays the application's and may be dropped (`DropString`).
`Care` is the set of `Cautions` the application takes in what the class leaves
to its user: copy and send only messages with a body (`copy`, `send`), assign
only messages without one (`assign`), keep a string as long as a message refers
to it (`string`), and keep no copy of received headers beyond the callback
(`headers`). The properties hold with all five; leaving any one out breaks one of
them, as `v_headers` and the deviations below show.

**Logger** splits a log call at its two reads of `dbgLevel`.

`Initialize` is an action only while the object is stopped; called on a running
object it abandons a joinable thread, which no document allows. The destructor
runs when no other call is in progress. Definitions that stand beside a mapped
one as a plausible slip of it (`...Forgotten`, `...Unchecked`, `...Always` and
the like) are used by the mutants in `PROJECT.json` and by nothing else.

## 3. Runs

Bounds: `MaxSends` messages, `MaxFaults` spontaneous faults (a refused connect,
a bad reply, a dropped link, a broker restart), sets of a few threads and
exchanges. `FaultReplies` has one reply for each way the code reacts. Two
senders or subscribers suffice for a race of two calls, two exchanges for a loop
with a part done and a part to do, one or two faults for a failure and a failure
during its repair, and controllers may stop and start without limit.

| Run | Instance | What it shows |
|---|---|---|
| `producer_safety` | 2 senders, 2 exchanges, 1 controller, 2 sends, 1 fault | `ChannelOwnership`, `ConnectionUsable`, `CloseExclusive`, `StoppedClean`, `FlagSound` |
| `producer_faults` | 1 sender, 1 exchange, destructor too, 3 sends, 2 faults | `NoCrash`, `InOrder`, `ImplementsOutbox`, `StopReturns`, `Drained` |
| `producer_discipline` | 2 exchanges declared before `Start`, no faults | `PublishDelivered`, `Delivered` |
| `consumer_safety` | 2 subscribers, 2 exchanges (one appears late), `Start`, `Stop`, destructor, 1 fault | `OneChannelPerPair`, `HandleLive`, `NoTerminate`, `CloseExclusive`, `OnlyStopEmpties`, `StoppedClean`, `DefaultsOnlyWhileSubscribing`, `NoSubscriptionLost` |
| `consumer_liveness` | 1 subscriber, 2 exchanges (one late or never), `Start`, `Restart`, 1 lost connection | `StopReturns`, `ReachesConsumption` |
| `message_memory` | 3 `Message` variables, 4 allocations, 1 text, payloads with and without a NUL, perhaps a message with headers from elsewhere, all `Cautions` | `OneOwner`, `NoDangling`, `NoUndefined`, `CarriesWhatWasSent`, `OnlySetPayloadLeaks` |
| `dispatch` | 2 subscribers, a pair and a stray one, a plain and a re-entrant callback, both modes, 2 messages, 2 queue names, declarations that fail | `ReplacedNeverRuns`, `ArrivalOrder`, `HandledOnce`, `NamesOwned`, `SubscribeReturns`, `EveryMessageHandled` |
| `logger` | 2 threads, levels fatal, info, none and an invalid one | `OnlyLeavingNoneLeaks` |

Each passing run checks the module's `TypeOK` too, except those that share a
module with one that does.

Four allocations are enough for a message to be given a body and a property,
sent and copied, or received, copied and sent on, while others are destroyed;
three variables for the message a callback is given, its copy and a third.
Allocations are never given back, so `message_memory` ends when they are used
up, and deadlock is not checked there. Two messages make an order and let one be
handled while another subscribes. Two names let a channel be set up twice, with
failed declarations before, between and after. With one pair there is one
channel; that two channels never share a name is for any number of pairs the
theorem `NamesHaveOneOwner` (TLC has checked it with two pairs as well, apart
from the liveness properties, for which that instance is too large).

`CloseExclusive` is why the unlocked test in `CloseConnection` does no harm to a
producer or a consumer with one controller. `OnlyStopEmpties` and
`DefaultsOnlyWhileSubscribing` bound two windows that the code does have (below).
`NoDangling` holds although a queued message borrows its properties from a
`Message` that may be gone: nothing ever frees duplicated strings, so what keeps
it right is a leak. Headers are not duplicated, and only the caution `headers`
keeps them. `NamesOwned` has two halves: no buffer of a name is lost, whatever
fails, and until a declaration fails every name has one owner. After a failure
the second half is false, which the property says and the list below repeats.

`NoCrash` holds for one controller that initialises first; two controllers, or
`Stop` before `Initialize`, break it (below). The consumer's runs
leave `CHANNEL_CLOSE` out of the spontaneous faults; a bind to a missing
exchange still produces it. As a reply to `DeclareQueue` it would go unreported,
and the `BindQueue` that follows would wait on a closed channel for ever, and
`Stop` with it. `StopReturns` of the consumer is therefore a claim about brokers
that answer every call, and not about that reply.
The producer's runs with `FlagSound` leave the replies no branch
names out, since they are a deviation of their own (below).

`PublishDelivered` is restricted to a producer that has not been told to stop:
TLC found that a thread told to stop between `Connect` and `connectChannels`
skips the channels and still publishes one message.

### Where the code differs from what is written about it

Each of these is a run whose property states the documented behaviour and which
TLC refutes; `findings` in `PROJECT.json` quotes the document.

| Run | What the code does |
|---|---|
| `v_recovers` | after a failure that was noticed, `closeConnection` leaves `m_channelsConnected` set, so the producer reconnects and never opens its channels again (the property holds if `closeConnection` clears the flag) |
| `v_keeps_connection` | retrying a channel with an undeclared exchange costs the connection |
| `v_headers` | the "full clone" of the properties shares the headers, which for a received message lie in an envelope that is destroyed |
| `v_reentry` | multi-threading is off by default, so a callback that calls `Subscribe` waits for the mutex its own thread holds |

The models follow the code in these smaller deviations too; no run is spent on
them:

- `Producer::closeConnection` purges the queue, so an empty queue does not mean
  that the messages were sent (`src/Producer_priv.cpp:118`,
  `include/Producer.hpp:238`);
- `Producer::Stop` before `Initialize` dereferences the null connection
  (`src/Producer_api.cpp:104`; with `InitFirst = FALSE`, `NoCrash` fails);
- every failed `Connect` leaks its connection object
  (`src/ConnectionBase.cpp:110`; `leaked` counts them);
- an exchange declaration that fails without a server failure is not retried
  (`src/Producer_priv.cpp:143-151`);
- a reply that no branch names is decoded as success
  (`src/ConnectionBase.cpp:331,389`; with such a reply in `FaultReplies`,
  `FlagSound` fails);
- `Consumer::Restart` turns the thread off and does not start it again when the
  close of the old connection was answered badly (`src/Consumer_api.cpp:135`;
  `include/Consumer.hpp:297` says "then restarts it");
- a failed declaration of a queue is reported as success, with an uninitialised
  name that is stored and later freed (`src/ConnectionBase.cpp:276`,
  `src/Consumer_priv.cpp:67`, `include/ChannelHandler.hpp:113,231`; in Dispatch,
  `bad` becomes true);
- `connectChannels` marks copies as connected, so an exchange added to a
  connected producer makes it open every channel again, and the broker closes
  the connection (`src/Producer_priv.cpp:127`);
- two `Start`s of a producer at once both pass the test and terminate the
  process (`src/Producer_api.cpp:75`; with two controllers, `NoCrash` fails);
- `Stop` can empty the pending queue between the thread's size test and its pop
  (`src/Consumer_priv.cpp:172`); `OnlyStopEmpties` says that nothing else can;
- a queue can be declared before its properties are set
  (`src/Consumer_api.cpp:55`); `DefaultsOnlyWhileSubscribing` says how long;
- the default `operator=` of `Message` shares the body, which is then freed
  twice (`include/Message.hpp:60`; without the caution `assign`, `OneOwner`
  fails); sending a message without a body reads an uninitialised `m_body`
  (`src/Producer_api.cpp:58`; without `send`, `NoUndefined` fails), and so does
  copying one (`src/Message.cpp:56`; without `copy`, `NoUndefined` fails), which
  `test/src/MessageTest.hpp:120-130` does;
- `SetReplyTo` and `SetCorrelationId` keep the address of the caller's string
  (`src/Message.cpp:80`; without `string`, `NoDangling` fails);
  `test/src/MessageTest.hpp:76-77` passes a temporary and reads it back;
- `SetPayload` leaks the body it replaces (`src/Message.cpp:103`), and
  duplicated properties are never freed (`include/Message.hpp:155`);
- `Process` looks a message up by its own routing key, so a subscription with a
  topic pattern receives messages and never calls its callback
  (`src/ChannelHandler.cpp:106`);
- `Consumer` offers no way to call `SetMultiThreaded`;
- the default log level is `LOG_TEST`, not the `LOG_INFO` of the comment
  (`src/Logger.cpp:41,96`), and a line may slip out while the level leaves
  `LOG_NONE` (`src/Logger.cpp:98`).

### Fairness

Weak fairness of the library's thread, and of a controller that is inside a
call: the operating system schedules both. Nobody has to make a call, a
subscriber inside `Subscribe` owes nothing, and the broker owes no recovery (its
faults are bounded). The thread's steps include RPCs and callbacks, so both are
assumed to return; the code sets neither an RPC timeout nor a heartbeat, so a
silently dead link violates this assumption (listed as a hazard). The thread
never waits for a mutex that another thread keeps over more than one step, so
weak fairness is enough. `StopReturns` starts at the join: how long `Stop` waits
for a mutex that the thread takes and releases for ever is up to `std::mutex`,
and not claimed.

Dispatch assumes weak fairness of each thread: of a caller inside `Subscribe`,
of the consuming thread in `Process`, and of each callback, which is therefore
assumed to return unless it waits for a lock. Its messages are bounded, so
`SubscribeReturns` shows that no cycle of waiting exists, not that `std::mutex`
is fair to a subscriber under an endless stream of messages.

## 4. Proofs

The proofs hold for any sets of threads, exchanges, pairs, callbacks, messages
and levels, and for any bounds, under the named `ASSUME`s of the models, which
TLC evaluates in every run. Where a theorem needs more, that is a hypothesis of
the theorem:

| Hypothesis | What it says | Why |
|---|---|---|
| `OneController` | `Start`, `Stop`, `Restart` and the destructor are called from one application thread | `Producer::Start` tests `m_threadRunning` and sets it under two locks, and two `Stop`s may both go on to join; with two controllers `NoCrash` and `NoTerminate` are false |
| `InitFirst` | `Initialize` comes before `Stop` | `Producer::Stop` uses `m_connection` without a test; without it `NoCrash` is false |
| `FaultsReported` | the bad replies considered are decoded as errors | `decodeRpcReply` turns the ones it does not name into `ALL_GOOD`; with such a reply `FlagSound` is false |
| `Disciplined` | exchanges are declared before a `Send` names them, no spontaneous faults | after a lost connection the code publishes on channels that are not open (`v_recovers`) |
| `Careful` (`Care = Cautions`) | no copy or send without a body, no assignment of a message with one, strings outlive the messages that point to them, no copy of received headers outlives its envelope | otherwise the class itself breaks `OneOwner`, `NoUndefined`, `NoDangling` and `CarriesWhatWasSent` (see `v_headers` and the deviations above) |

Each is satisfied by the run that checks the same property.

| Module | Theorem | Property | Hypotheses |
|---|---|---|---|
| `ProducerProofs` | `TypeCorrect`, `ChannelsOwned`, `MessagesInOrder` | `TypeOK`, `ChannelOwnership`, `InOrder` | none |
| `ProducerLifeProofs` | `UsesOnlyLiveConnections`, `ClosesAlone`, `StopsClean` | `ConnectionUsable`, `CloseExclusive`, `StoppedClean` | `OneController` |
| | `NeverCrashes` | `NoCrash` | `OneController`, `InitFirst` |
| | `IsAnOutbox` | `ImplementsOutbox` | `OneController` |
| `ProducerChannelProofs` | `FlagIsSound` | `FlagSound` | `FaultsReported` |
| | `PublishesDelivered` | `PublishDelivered` | `OneController`, `Disciplined` |
| `ConsumerProofs` | `TypeCorrect`, `PairsHaveOneChannel`, `DefaultsAreTransient` | `TypeOK`, `OneChannelPerPair`, `DefaultsOnlyWhileSubscribing` | none |
| | `UsesLiveHandles`, `NeverTerminates`, `ClosesAlone`, `PopsWhatItSaw`, `StopsClean` | `HandleLive`, `NoTerminate`, `CloseExclusive`, `OnlyStopEmpties`, `StoppedClean` | `OneController` |
| | `LosesNoSubscription` | `NoSubscriptionLost` | `OneController`, `FaultsReported` |
| `MessageProofs` | `TypeCorrect`, `BuffersHaveOneOwner`, `NothingDangles`, `NeverUndefined`, `CarriesTheMessage`, `LeaksOnlyInSetPayload` | `TypeOK`, `OneOwner`, `NoDangling`, `NoUndefined`, `CarriesWhatWasSent`, `OnlySetPayloadLeaks` | `Careful` |
| `DispatchProofs` | `TypeCorrect`, `ReplacedIsGone`, `RunsInOrder`, `HandlesOnce`, `NamesHaveOneOwner` | `TypeOK`, `ReplacedNeverRuns`, `ArrivalOrder`, `HandledOnce`, `NamesOwned` | none |
| `LoggerProofs` | `TypeCorrect`, `OnlyNoneLeaks` | `TypeOK`, `OnlyLeavingNoneLeaks` | none |

`ConnectionProofs` has the lemmas about the calls of the connection that the
producer's and the consumer's proofs share: what a call keeps of the types, of
the link and of the channels.

### The inductive invariants

Each was checked by TLC as an invariant of the component's run before it was
proved.

- **Producer, types, channels, order.** `TypeOK` is inductive; the part worth
  having is that whatever the loop of `connectChannels` and a half-done `Send`
  refer to is in `m_exchangeList`. `ChannelOwnership` is inductive relative to
  it: numbers given out lie below `m_curChannelNumber` and never change.
  `InOrder` says nothing about a message that has been sent and not popped, nor
  about ids yet to come; `OrderInv` adds that all ids are at most `accepted` and
  that sent ids lie strictly below those in the queue, except that at "pop" the
  front may be the last one sent.
- **Producer, life.** `LifeInv` has five parts. `ControlInv` ties the
  `std::thread` to `pc` and, at each point of a call, to `m_threadRunning`: they
  differ only between the halves of `Start` and of `Stop`. `InitialisedInv` says
  who may count on `m_connection`. `LinkInv` says what the thread knows of the
  connection at each point, and that a connection outlives the thread only while
  a `Stop` is about to close it; without this last part neither `StoppedClean`
  nor `ConnectionUsable` is inductive. `FrontInv`: at the front and at the pop
  the message is still there, which is what separate locks put in doubt; it
  holds because only the thread itself, or a `Stop` that has joined it, takes
  messages away. `FaultInv`: the only fault left is `Stop` before `Initialize`.
- **The refinement.** `IsAnOutbox` maps the queue to `Unsent`. It needs
  `LifeInv`: at "pop" the front must exist (the step is then a stutter), a
  publish happens only while connected, and messages are dropped only while not.
- **Producer, channels.** For `FlagSound`, `LoopInv`: while the loop goes well
  and the session lives, every channel it has left behind is one the session
  knows. For `PublishDelivered`, `DeliveryInv` follows the channels that are open
  through the loop of a healthy broker.
- **Consumer, types and life.** `InHandInv` (a channel in the hands of the
  thread or of a `Subscribe` is one of the handler's) makes the pending queue
  well typed. `LifeInv` is like the producer's; as `Consumer::Start` tests and
  sets `m_threadRunning` under one lock, only the halves of `Stop` matter.
- **Consumer, subscriptions.** `NoSubscriptionLost` is not inductive: the next
  turn of a loop overwrites `cur`. `LostInv` adds that outside `setupAndConsume`
  the thread has no channel in hand. Every step then passes a channel from one
  of the four places to another.
- **Message.** `MessageInv` says of each block what it holds, of each object and
  queued message that what it points to is there and of the right kind, that
  buffers have one owner, and that a queued message still says what it said at
  `Send` (`Carries`). The kinds are needed: a freed body is not a property of
  anybody because bodies and properties come from different allocations.
  `EnvelopeInv` says that the message whose envelope is not destroyed yet exists
  and has a body; with the caution `headers`, `DestroyEnvelope` then frees
  nothing that another message points to. Its
  predicates take the memory as a parameter, so that one lemma each
  (`MessageKept`, `RawKept`) carries them over a step; `ObjectStep` covers all
  steps that touch one object, `FreeOwnership` all that free.
- **Dispatch.** `DispatchInv` adds that the consuming thread has at most the
  last message in hand, which gives the order, that a message waiting for a
  detached thread is marked as such, that every message is for a subscribed pair
  or a stray one, and that names, in use or left over, were handed out before
  (`FreshInv`), so that the next one is new to every channel. The properties are
  then kept together.
- **Logger.** `CallInv` records what each of the two tests found: the levels they
  saw were in force, though not the same one. `Justified` says without counting
  what `OnlyLeavingNoneLeaks` says with cardinalities.

An attempt to prove `LifeInv` of the consumer showed a mistake in the model:
`StopCheck` was a `CASE` whose guards overlapped for a destructor of a running
consumer. TLC takes the first, TLA+ any. It is now an `IF`, in the order of the
code.

### Only model-checked

All liveness (`StopReturns`, `Drained`, `Delivered`, `ReachesConsumption`,
`SubscribeReturns`, `EveryMessageHandled`): fairness and `ENABLED` are out of the
prover's reach. The counterexamples of section 3 are TLC's.

## 5. Not modelled

- `pch.hpp`, build files, tests: glue. Of `Utils.hpp`, the two functions that
  format an error for the log. `Message::setDeliveryMode` is declared and never
  defined.
- `ConnectionBase`: SSL stubs, `SetTimeout`, `CloseChannel` (called only by
  `~Producer`, right before `CloseConnection`), concurrent free clients.
- `ChannelHandler::RemoveChannelProcessor`: nothing calls it, and it dereferences
  `m_channel`, which nothing ever sets.
- Failure of `malloc`; a callback that calls `Stop` and so joins its own thread.
- The memory model: unlocked accesses to `std::queue` and `bool` members are
  interleaved atomic steps, which is less than C++ allows.
- Width of channel numbers.

## 6. Plan

1. Producer with its connection and abstract specification: done, safety and
   refinement proved.
2. Consumer with the channel table: done, safety proved.
3. Callbacks that call back, multi-threaded `Process`, dispatch by binding pair:
   done, safety proved.
4. `Message` ownership and the logger: done, safety proved.
5. Proofs with weaker hypotheses: which of the life theorems survive several
   controllers (`ConnectionUsable` while nobody stops, `CloseExclusive` for the
   consumer), and what `DestroyCheck` and `Restart` still guarantee then.
6. Step simulations for safety consequences the runs do not state yet, such as
   "a message is dropped only by a purge" (from `IsAnOutbox`).
7. `ConnectionBase` with free concurrent clients, and a pipeline of a producer
   and a consumer on one broker.
