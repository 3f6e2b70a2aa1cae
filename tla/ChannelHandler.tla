--------------------------- MODULE ChannelHandler ---------------------------
(***************************************************************************)
(* HareCpp::ChannelHandler: which channel serves which binding pair, and    *)
(* the queue properties asked for.  m_handlerMutex makes every call one     *)
(* step of the caller.  The two maps of the code share their entries and    *)
(* are filled together, so m_channelLookup stands for both; callbacks and   *)
(* queue names are data nobody tests.                                       *)
(***************************************************************************)
EXTENDS Naturals

CONSTANTS BindingPairs  \* the HashableBindingPairs the application subscribes to

VARIABLES
  m_channelLookup,        \* channel -> its binding pair
  m_propertiesSet,        \* channels whose m_queueProperties the user has set
  m_nextAvailableChannel

handlerVars == <<m_channelLookup, m_propertiesSet, m_nextAvailableChannel>>

HandlerTypeOK ==
  /\ m_nextAvailableChannel \in Nat \ {0}
  /\ DOMAIN m_channelLookup = 1..(m_nextAvailableChannel - 1)
  /\ m_channelLookup \in [DOMAIN m_channelLookup -> BindingPairs]
  /\ m_propertiesSet \subseteq DOMAIN m_channelLookup

HandlerInit ==
  /\ m_channelLookup = [c \in {} |-> c]
  /\ m_propertiesSet = {}
  /\ m_nextAvailableChannel = 1

(* Two pairs are the same when both names are. *)
HashableBindingPair(exchangeName, routingKey) ==
  [m_exchangeName |-> exchangeName, m_routingKey |-> routingKey]

GetChannelList == DOMAIN m_channelLookup
GetExchange(channel) == m_channelLookup[channel].m_exchangeName

(* Is the pair in m_bindingPairLookup? *)
HasProcessor(bindingPair) ==
  \E c \in DOMAIN m_channelLookup : m_channelLookup[c] = bindingPair

NewChannel(bindingPair) ==
  m_channelLookup' =
    [c \in DOMAIN m_channelLookup \cup {m_nextAvailableChannel} |->
       IF c = m_nextAvailableChannel THEN bindingPair ELSE m_channelLookup[c]]

(* Plausible slips: no test for a pair that is there, no increment. *)
AddChannelProcessorAnyway(bindingPair) ==
  /\ NewChannel(bindingPair)
  /\ m_nextAvailableChannel' = m_nextAvailableChannel + 1
  /\ UNCHANGED m_propertiesSet

AddChannelProcessorSameNumber(bindingPair) ==
  IF HasProcessor(bindingPair)
  THEN UNCHANGED handlerVars
  ELSE NewChannel(bindingPair) /\ UNCHANGED <<m_nextAvailableChannel, m_propertiesSet>>

(* A pair that is there already only gets its new callback, and the caller  *)
(* gets no channel.                                                         *)
AddChannelProcessor(bindingPair) ==
  IF HasProcessor(bindingPair)
  THEN UNCHANGED handlerVars
  ELSE /\ NewChannel(bindingPair)
       /\ m_nextAvailableChannel' = m_nextAvailableChannel + 1
       /\ UNCHANGED m_propertiesSet

SetQueuePropertiesForgotten(channel) == channel # 0 /\ UNCHANGED handlerVars

SetQueueProperties(channel) ==
  /\ m_propertiesSet' = m_propertiesSet \cup {channel}
  /\ UNCHANGED <<m_channelLookup, m_nextAvailableChannel>>
=============================================================================
