------------------------------ MODULE Message ------------------------------
(***************************************************************************)
(* HareCpp::Message and the buffers behind it, from the application's       *)
(* objects through Producer::Send, the send queue and the broker to the     *)
(* Message a Consumer builds: who owns a buffer, who frees it, and what a   *)
(* reader finds in it.                                                      *)
(*                                                                         *)
(* Memory is a function from the blocks in use to their data.  Call number  *)
(* n of malloc returns <<n, field>>, and no address is used again, so a     *)
(* pointer to a freed block stays recognisable.  A payload is the text      *)
(* before its first NUL and the bytes from there on; lengths go with the    *)
(* data.                                                                    *)
(***************************************************************************)
EXTENDS Naturals, Sequences

CONSTANTS
  Objects,       \* the Message variables of the application, of its callbacks
                 \* and of pullNextMessage()
  NoMessage,     \* "the variable does not exist"
  Texts,         \* texts of payloads, of string properties and of headers
  NoText,        \* "no NUL in the payload"
  Times,         \* timestamps
  NoTime,        \* "the timestamp flag is not set"
  Now,           \* the timestamp PublishMessage adds
  StringFlags,   \* the string properties in use, such as "reply_to"
  Foreign,       \* contents that Producers of other programs publish
  MaxAllocs,     \* bound on allocations
  Care           \* the Cautions that the application takes

ASSUME NoTextAssumption == NoText \notin Texts
ASSUME TimesAssumption == NoTime \notin Times \cup {Now}
ASSUME MaxAllocsAssumption == MaxAllocs \in Nat
ASSUME StringFlagsAssumption ==
         StringFlags \cap {"body", "routing_key", "exchange", "string", "headers"} = {}

(* What the application has to see to, because the class does not:          *)
(* - copy, send: it does not copy, or send, a message that has no payload,  *)
(*   whose m_body is uninitialised;                                         *)
(* - assign: it does not assign messages that have a payload;               *)
(* - string: what it gave to a setter by address outlives every message     *)
(*   that points to it;                                                     *)
(* - headers: no copy of a received message that has headers is left when   *)
(*   the callback returns, nor a queued one.                                *)
Cautions == {"copy", "send", "assign", "string", "headers"}

ASSUME CareAssumption == Care \subseteq Cautions

VARIABLES
  mem,          \* block that is not freed -> what was last written there
  next,         \* the number of the next allocation
  obj,          \* the Message objects
  envelope,     \* the object that is newMessage in pullNextMessage(), while
                \* its envelope is not destroyed; NoMessage if there is none
  m_sendQueue,  \* the Producer's queue of RawMessages
  wire,         \* published messages on their way to a Consumer
  bad           \* a block was freed twice, or a dead or wild one was read

memVars == <<mem, next, bad>>
vars == <<memVars, obj, envelope, m_sendQueue, wire>>

Payload == [text : Texts, afterNul : Texts \cup {NoText}]

(* The properties that are pointers.  The headers are a table of entries.   *)
Flags == StringFlags \cup {"headers"}

(* A block is a body, a name, a string or table of the application, a copy  *)
(* of a string property, or the header entries in an envelope's pool.       *)
Field == {"body", "routing_key", "exchange", "string"} \cup Flags

Pointer == (1..MaxAllocs) \X Field

Wild == <<0, "body">>  \* an uninitialised amqp_bytes_t

Timestamp == Times \cup {Now, NoTime}

Properties == UNION {[flags -> Pointer] : flags \in SUBSET Flags}

MessageState == [m_bodyHasBeenSet : BOOLEAN, m_body : Pointer \cup {Wild},
                 m_properties : Properties, timestamp : Timestamp]

ASSUME NoMessageAssumption == NoMessage \notin MessageState \cup Objects

(* What a reader of a message sees. *)
Content == [body : Payload,
            properties : UNION {[flags -> Texts] : flags \in SUBSET Flags},
            timestamp : Timestamp]

ASSUME ForeignAssumption ==
         Foreign \subseteq {content \in Content : content.timestamp # NoTime}

(* helper::RawMessage; sent records what the message said when it was sent. *)
RawMessage == [message : Pointer, routing_key : Pointer, exchange : Pointer,
               properties : Properties, timestamp : Timestamp,
               sent : Content]

Published == [got : Content, sent : Content]

Init ==
  /\ mem = [p \in {} |-> NoText]
  /\ next = 1
  /\ bad = FALSE
  /\ obj = [o \in Objects |-> NoMessage]
  /\ envelope = NoMessage
  /\ m_sendQueue = <<>>
  /\ wire \in {<<>>} \cup {<<[got |-> content, sent |-> content]>> : content \in Foreign}

-----------------------------------------------------------------------------
(* malloc, free and the conversions of Utils.hpp                            *)

live == DOMAIN mem

Block(field) == <<next, field>>

(* The blocks of one call of malloc, as a function from pointers to data,   *)
(* filled by reading the blocks in source.                                  *)
malloc(blocks, source) ==
  /\ next <= MaxAllocs
  /\ next' = next + 1
  /\ mem' = [p \in live \cup DOMAIN blocks |->
               IF p \in DOMAIN blocks THEN blocks[p] ELSE mem[p]]
  /\ bad' = (bad \/ ~(source \subseteq live))

(* Freeing, after a last look at the blocks in source. *)
free(pointers, source) ==
  /\ mem' = [p \in live \ pointers |-> mem[p]]
  /\ bad' = (bad \/ ~(pointers \cup source \subseteq live))
  /\ UNCHANGED next

(* strlen stops at the first NUL; hare_void_bytes takes what it is given. *)
hare_cstring_bytes(payload) == [payload EXCEPT !.afterNul = NoText]
hare_void_bytes(payload) == payload

hare_basic_properties_flags_only(properties) ==
  [flag \in DOMAIN properties |-> Wild]

(* The string properties that are flagged get blocks of their own; the      *)
(* headers are the same table as before.                                    *)
hare_basic_properties_malloc_dup(properties) ==
  [flag \in DOMAIN properties |->
     IF flag \in StringFlags THEN Block(flag) ELSE properties[flag]]

(* The new blocks of a body and of properties, with their data. *)
DupBlocks(body, properties) ==
  [p \in {Block("body")} \cup {Block(flag) : flag \in DOMAIN properties} |->
     IF p = Block("body") THEN body ELSE properties[p[2]]]

Strings(properties) ==
  [flag \in DOMAIN properties \cap StringFlags |-> properties[flag]]

Pointers(properties) == {properties[flag] : flag \in DOMAIN properties}

HeadersOf(properties) ==
  {properties[flag] : flag \in DOMAIN properties \cap {"headers"}}

-----------------------------------------------------------------------------
(* Reading a message                                                        *)

(* Reading what is not there gives something: which, bad makes irrelevant. *)
Read(p, type) == IF p \in live THEN mem[p] ELSE CHOOSE data \in type : TRUE

Bytes(m) == Read(m.m_body, Payload)

ReadAll(properties) ==
  [flag \in DOMAIN properties |-> Read(properties[flag], Texts)]

ContentOf(m) ==
  [body |-> Bytes(m), properties |-> ReadAll(m.m_properties),
   timestamp |-> m.timestamp]

-----------------------------------------------------------------------------
(* The Message class                                                        *)

NoFlags == [flag \in {} |-> Wild]

Blank == [m_bodyHasBeenSet |-> FALSE, m_body |-> Wild,
          m_properties |-> NoFlags, timestamp |-> NoTime]

WithBody(m) == [m EXCEPT !.m_bodyHasBeenSet = TRUE, !.m_body = Block("body")]

Exists(o) == obj[o] # NoMessage

(* newMessage is const to the callback, which can only copy it. *)
Writable(o) == Exists(o) /\ o # envelope

ConstructBlank(o) ==
  /\ ~Exists(o)
  /\ obj' = [obj EXCEPT ![o] = Blank]
  /\ UNCHANGED <<memVars, envelope, m_sendQueue, wire>>

Construct(o, payload) ==
  /\ ~Exists(o)
  /\ obj' = [obj EXCEPT ![o] = WithBody(Blank)]
  /\ malloc([p \in {Block("body")} |-> hare_cstring_bytes(payload)], {})
  /\ UNCHANGED <<envelope, m_sendQueue, wire>>

(* Neither setter frees the body it replaces. *)
SetPayload(o, payload) ==
  /\ Writable(o)
  /\ obj' = [obj EXCEPT ![o] = WithBody(@)]
  /\ \E data \in {hare_cstring_bytes(payload), hare_void_bytes(payload)} :
       malloc([p \in {Block("body")} |-> data], {})
  /\ UNCHANGED <<envelope, m_sendQueue, wire>>

(* SetReplyTo() and SetCorrelationId(): a string property is the address of *)
(* the caller's string.                                                     *)
SetString(o, flag, text) ==
  /\ Writable(o)
  /\ obj' = [obj EXCEPT ![o].m_properties =
               [f \in DOMAIN @ \cup {flag} |->
                  IF f = flag THEN Block("string") ELSE @[f]]]
  /\ malloc([p \in {Block("string")} |-> text], {})
  /\ UNCHANGED <<envelope, m_sendQueue, wire>>

(* The headers have no setter: the application points AmqpProperties() at a *)
(* table of its own.                                                        *)
SetHeaders(o, text) == SetString(o, "headers", text)

SetTimestamp(o, time) ==
  /\ Writable(o)
  /\ obj' = [obj EXCEPT ![o].timestamp = time]
  /\ UNCHANGED <<memVars, envelope, m_sendQueue, wire>>

MayCopy(m) == "copy" \in Care => m.m_bodyHasBeenSet
MaySend(m) == "send" \in Care => m.m_bodyHasBeenSet

(* A copy that takes the pointers over instead of the data. *)
CopyShared(o, from) ==
  /\ ~Exists(o) /\ Exists(from)
  /\ MayCopy(obj[from])
  /\ obj' = [obj EXCEPT ![o] = obj[from]]
  /\ UNCHANGED <<memVars, envelope, m_sendQueue, wire>>

Copy(o, from) ==
  LET m == obj[from]
  IN  /\ ~Exists(o) /\ Exists(from)
      /\ MayCopy(m)
      /\ obj' = [obj EXCEPT ![o] =
                   [m EXCEPT !.m_body = Block("body"),
                             !.m_properties = hare_basic_properties_malloc_dup(@)]]
      /\ malloc(DupBlocks(Bytes(m), ReadAll(Strings(m.m_properties))),
                {m.m_body} \cup Pointers(Strings(m.m_properties)))
      /\ UNCHANGED <<envelope, m_sendQueue, wire>>

(* operator= is the default one, which shares a body instead of copying it. *)
Assign(o, from) ==
  /\ Writable(o) /\ Exists(from)
  /\ "assign" \in Care => ~obj[o].m_bodyHasBeenSet /\ ~obj[from].m_bodyHasBeenSet
  /\ obj' = [obj EXCEPT ![o] = obj[from]]
  /\ UNCHANGED <<memVars, envelope, m_sendQueue, wire>>

DestroyWithProperties(o) ==
  /\ Writable(o)
  /\ obj' = [obj EXCEPT ![o] = NoMessage]
  /\ free((IF obj[o].m_bodyHasBeenSet THEN {obj[o].m_body} ELSE {})
            \cup (Pointers(Strings(obj[o].m_properties)) \cap live), {})
  /\ UNCHANGED <<envelope, m_sendQueue, wire>>

DestroyAlways(o) ==
  /\ Writable(o)
  /\ obj' = [obj EXCEPT ![o] = NoMessage]
  /\ free({obj[o].m_body}, {})
  /\ UNCHANGED <<envelope, m_sendQueue, wire>>

(* ~Message() leaves the properties alone. *)
Destroy(o) ==
  /\ Writable(o)
  /\ obj' = [obj EXCEPT ![o] = NoMessage]
  /\ free(IF obj[o].m_bodyHasBeenSet THEN {obj[o].m_body} ELSE {}, {})
  /\ UNCHANGED <<envelope, m_sendQueue, wire>>

(* No message but o, and no queued one, points to p. *)
LetGo(p, o) ==
  /\ \A q \in Objects \ {o} : Exists(q) => p \notin Pointers(obj[q].m_properties)
  /\ \A i \in DOMAIN m_sendQueue : p \notin Pointers(m_sendQueue[i].properties)

(* A string or table that was passed to a setter goes out of scope.         *)
DropString(p) ==
  /\ p \in live /\ p[2] = "string"
  /\ "string" \in Care => LetGo(p, NoMessage)
  /\ free({p}, {})
  /\ UNCHANGED <<obj, envelope, m_sendQueue, wire>>

-----------------------------------------------------------------------------
(* Producer and Consumer                                                    *)

SendTruncated(o) ==
  /\ Writable(o) /\ MaySend(obj[o])
  /\ m_sendQueue' = Append(m_sendQueue,
       [message |-> Block("body"), routing_key |-> Block("routing_key"),
        exchange |-> Block("exchange"), properties |-> obj[o].m_properties,
        timestamp |-> obj[o].timestamp, sent |-> ContentOf(obj[o])])
  /\ malloc([p \in {Block("body"), Block("routing_key"), Block("exchange")} |->
               IF p = Block("body") THEN hare_cstring_bytes(Bytes(obj[o])) ELSE NoText],
            {obj[o].m_body})
  /\ UNCHANGED <<obj, envelope, wire>>

(* Send copies the body and the two names, and the properties as they are:  *)
(* pointers.  Of the names only their owner matters.                        *)
Send(o) ==
  /\ Writable(o) /\ MaySend(obj[o])
  /\ m_sendQueue' = Append(m_sendQueue,
       [message |-> Block("body"), routing_key |-> Block("routing_key"),
        exchange |-> Block("exchange"), properties |-> obj[o].m_properties,
        timestamp |-> obj[o].timestamp, sent |-> ContentOf(obj[o])])
  /\ malloc([p \in {Block("body"), Block("routing_key"), Block("exchange")} |->
               IF p = Block("body") THEN Bytes(obj[o]) ELSE NoText],
            {obj[o].m_body})
  /\ UNCHANGED <<obj, envelope, wire>>

hare_free_message_leaky(raw, source) == free({raw.message}, source)

hare_free_message_risky(raw, source) ==
  free({raw.message, raw.routing_key, raw.exchange}, source)

(* PublishMessage() adds a timestamp to a message that has none. *)
Stamp(raw) == [raw EXCEPT !.timestamp = IF @ = NoTime THEN Now ELSE @]

(* A publish that fails with no server failure leaves the stamped message   *)
(* at the front for the next try.                                           *)
PublishFails ==
  /\ m_sendQueue # <<>>
  /\ m_sendQueue' = [m_sendQueue EXCEPT ![1] = Stamp(@)]
  /\ UNCHANGED <<memVars, obj, envelope, wire>>

(* publishNextInQueue(): the library reads the message, then it is popped.  *)
Publish ==
  LET raw == Stamp(Head(m_sendQueue))
  IN  /\ m_sendQueue # <<>>
      /\ wire' = Append(wire,
           [got |-> [body |-> Read(raw.message, Payload),
                     properties |-> ReadAll(raw.properties),
                     timestamp |-> raw.timestamp],
            sent |-> raw.sent])
      /\ m_sendQueue' = Tail(m_sendQueue)
      /\ hare_free_message_risky(raw, Pointers(raw.properties))
      /\ UNCHANGED <<obj, envelope>>

(* clearActiveSendQueue(), one message. *)
Purge ==
  /\ m_sendQueue # <<>>
  /\ m_sendQueue' = Tail(m_sendQueue)
  /\ hare_free_message_risky(Head(m_sendQueue), {})
  /\ UNCHANGED <<obj, envelope, wire>>

(* pullNextMessage(): the Consumer builds newMessage from an envelope, whose *)
(* properties point into its pool.  The constructor copies the body and the *)
(* strings, so of the pool only the header entries matter from there on.    *)
(* The callback may copy newMessage.                                        *)
Receive(o) ==
  LET received == Head(wire).got
      pooled == [flag \in DOMAIN received.properties |-> Block(flag)]
  IN  /\ wire # <<>> /\ envelope = NoMessage
      /\ ~Exists(o)
      /\ obj' = [obj EXCEPT ![o] =
                   [m_bodyHasBeenSet |-> TRUE, m_body |-> Block("body"),
                    m_properties |-> hare_basic_properties_malloc_dup(pooled),
                    timestamp |-> received.timestamp]]
      /\ envelope' = o
      /\ malloc(DupBlocks(received.body, received.properties), {})
      /\ wire' = Tail(wire)
      /\ UNCHANGED m_sendQueue

(* pullNextMessage() returns, after the callback or, with a malformed       *)
(* envelope, before it: amqp_destroy_envelope() frees the pool, ~Message()  *)
(* the body.                                                                *)
DestroyEnvelope ==
  /\ envelope # NoMessage
  /\ "headers" \in Care =>
       \A p \in HeadersOf(obj[envelope].m_properties) : LetGo(p, envelope)
  /\ obj' = [obj EXCEPT ![envelope] = NoMessage]
  /\ envelope' = NoMessage
  /\ free({obj[envelope].m_body} \cup HeadersOf(obj[envelope].m_properties), {})
  /\ UNCHANGED <<m_sendQueue, wire>>

-----------------------------------------------------------------------------
Next ==
  \/ \E o \in Objects :
       \/ ConstructBlank(o)
       \/ \E payload \in Payload : Construct(o, payload) \/ SetPayload(o, payload)
       \/ \E text \in Texts :
            (\E flag \in StringFlags : SetString(o, flag, text)) \/ SetHeaders(o, text)
       \/ \E time \in Times : SetTimestamp(o, time)
       \/ \E from \in Objects : Copy(o, from) \/ Assign(o, from)
       \/ Destroy(o) \/ Send(o) \/ Receive(o)
  \/ \E p \in live : DropString(p)
  \/ PublishFails \/ Publish \/ Purge
  \/ DestroyEnvelope

Spec == Init /\ [][Next]_vars

-----------------------------------------------------------------------------
(* Safety                                                                   *)

Messages == {o \in Objects : Exists(o)}
WithBodies == {o \in Messages : obj[o].m_bodyHasBeenSet}
Slots == DOMAIN m_sendQueue

Buffers(raw) == {raw.message, raw.routing_key, raw.exchange}

(* Every block holds the kind of data it was allocated for, and every       *)
(* pointer field of a message, queued or not, was set by an allocation or,  *)
(* before SetPayload(), is the uninitialised m_body.                        *)
TypeOK ==
  /\ live \subseteq (1..(next - 1)) \X Field
  /\ \A p \in live :
       mem[p] \in CASE p[2] = "body"                        -> Payload
                    [] p[2] \in {"routing_key", "exchange"} -> {NoText}
                    [] OTHER                                -> Texts
  /\ next \in 1..(MaxAllocs + 1)
  /\ obj \in [Objects -> MessageState \cup {NoMessage}]
  /\ envelope \in Messages \cup {NoMessage}
  /\ m_sendQueue \in Seq(RawMessage)
  /\ wire \in Seq(Published)
  /\ bad \in BOOLEAN

(* Two messages never share a body, a queued message shares none of its     *)
(* buffers with a message or another queued one, and so the destructor and  *)
(* the pop that free them are the only ones to do so.                       *)
OneOwner ==
  /\ \A o, q \in WithBodies : obj[o].m_body = obj[q].m_body => o = q
  /\ \A o \in WithBodies, i \in Slots : obj[o].m_body \notin Buffers(m_sendQueue[i])
  /\ \A i, j \in Slots :
       i # j => Buffers(m_sendQueue[i]) \cap Buffers(m_sendQueue[j]) = {}

(* Whatever is done to other messages, everything that a message or a       *)
(* queued message points to is there to be read, though a queued message    *)
(* borrows its properties from a Message that may be gone, and a copy its   *)
(* headers from the original.  It takes an application with all Cautions:   *)
(* the class itself does not keep a body that was assigned, a string that   *)
(* was set or headers that were received.                                   *)
NoDangling ==
  /\ \A o \in WithBodies : obj[o].m_body \in live
  /\ \A o \in Messages : Pointers(obj[o].m_properties) \subseteq live
  /\ \A i \in Slots :
       Buffers(m_sendQueue[i]) \cup Pointers(m_sendQueue[i].properties) \subseteq live

(* With all the Cautions, no order of construction, copies, sends, retries, *)
(* purges, receipts and destructions frees a block twice or reads one that  *)
(* is freed or was never initialised.                                       *)
NoUndefined == ~bad

(* What goes to the broker, headers included, is what the message said when *)
(* Send was called, whatever the Cautions let become of the message since,  *)
(* however often the publish was tried; only a missing timestamp is filled  *)
(* in.                                                                      *)
CarriesWhatWasSent ==
  \A i \in DOMAIN wire :
    wire[i].got = [wire[i].sent EXCEPT !.timestamp = IF @ = NoTime THEN Now ELSE @]

Owned(p) ==
  \/ \E o \in WithBodies : obj[o].m_body = p
  \/ \E i \in Slots : p \in Buffers(m_sendQueue[i])

(* A body or a name that has an owner is not lost: only giving a message a  *)
(* new payload abandons a block that nobody will free.                      *)
OnlySetPayloadLeaks ==
  [][ \A p \in live : Owned(p) /\ p \in live' /\ ~Owned(p)' =>
        \E o \in WithBodies : obj[o].m_body = p /\ obj'[o] # NoMessage ]_vars

-----------------------------------------------------------------------------
(* What the documentation says and the code does not do                     *)

(* "Makes a full clone of amqp_basic_properties_t ... to avoid a free       *)
(* causing data to go missing": the headers of a message, and of one that   *)
(* waits to be published, can be read whatever became of the message they   *)
(* were copied from.                                                        *)
HeadersKept ==
  /\ \A o \in Messages : HeadersOf(obj[o].m_properties) \subseteq live
  /\ \A i \in Slots : HeadersOf(m_sendQueue[i].properties) \subseteq live
=============================================================================
