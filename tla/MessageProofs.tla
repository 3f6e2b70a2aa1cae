---------------------------- MODULE MessageProofs ----------------------------
(***************************************************************************)
(* Theorems about Message for any number of objects, texts and allocations. *)
(* They are about a Careful application, one that takes all the Cautions of *)
(* Message: it does not copy or send a message without a body, does not     *)
(* assign messages that have one, keeps the strings and the headers it gave *)
(* a message, and keeps no copy of a received message with headers.         *)
(* Without that the class itself breaks them.                               *)
(***************************************************************************)
EXTENDS Message, SequenceTheorems, TLAPS

Careful == Care = Cautions

-----------------------------------------------------------------------------
(* The inductive invariant                                                  *)

(* Property pointers are the caller's strings and tables, the copies that   *)
(* the copy constructor and the Consumer make, or header entries in a pool; *)
(* bodies and names are never among them.                                   *)
PropertyKinds == {"string"} \cup Flags

(* What a block of each kind holds. *)
DataOK(field, data) ==
  /\ field = "body" => data \in Payload
  /\ field \in {"routing_key", "exchange"} => data = NoText
  /\ field \in PropertyKinds => data \in Texts

(* The memory M after n - 1 allocations.  The predicates below take the     *)
(* memory as a parameter, so that they say the same before and after a step. *)
MemoryOK(M, n) ==
  /\ n \in 1..(MaxAllocs + 1)
  /\ DOMAIN M \subseteq (1..(n - 1)) \X Field
  /\ \A p \in DOMAIN M : DataOK(p[2], M[p])

PropertiesOK(properties, M) ==
  /\ properties \in Properties
  /\ \A flag \in DOMAIN properties :
       properties[flag] \in DOMAIN M /\ properties[flag][2] \in PropertyKinds

MessageOK(m, M) ==
  /\ m \in MessageState
  /\ m.m_bodyHasBeenSet => m.m_body \in DOMAIN M /\ m.m_body[2] = "body"
  /\ PropertiesOK(m.m_properties, M)

(* A queued message still says what it said when Send was called, but for   *)
(* the timestamp that a failed publish has added.                           *)
Carries(raw, M) ==
  /\ raw.sent.body = M[raw.message]
  /\ raw.sent.properties = [flag \in DOMAIN raw.properties |-> M[raw.properties[flag]]]
  /\ raw.timestamp # raw.sent.timestamp =>
       raw.sent.timestamp = NoTime /\ raw.timestamp = Now

RawOK(raw, M) ==
  /\ raw \in RawMessage
  /\ raw.message \in DOMAIN M /\ raw.message[2] = "body"
  /\ raw.routing_key \in DOMAIN M /\ raw.routing_key[2] = "routing_key"
  /\ raw.exchange \in DOMAIN M /\ raw.exchange[2] = "exchange"
  /\ PropertiesOK(raw.properties, M)
  /\ Carries(raw, M)

ObjectsInv ==
  /\ obj \in [Objects -> MessageState \cup {NoMessage}]
  /\ \A o \in Objects : Exists(o) => MessageOK(obj[o], mem)

QueueInv ==
  /\ m_sendQueue \in Seq(RawMessage)
  /\ \A i \in Slots : RawOK(m_sendQueue[i], mem)

WireInv == wire \in Seq(Published) /\ CarriesWhatWasSent

OwnershipInv ==
  /\ MemoryOK(mem, next) /\ bad = FALSE
  /\ ObjectsInv /\ QueueInv /\ OneOwner

(* The envelope in hand goes with a message that has a body.                *)
EnvelopeInv == envelope = NoMessage \/ envelope \in WithBodies

MessageInv == OwnershipInv /\ WireInv /\ EnvelopeInv

-----------------------------------------------------------------------------
(* Memory                                                                   *)

(* A block in use is one that malloc has returned; the next ones are fresh. *)
LEMMA BlocksInUse ==
  ASSUME NEW M, NEW n, MemoryOK(M, n)
  PROVE  /\ \A p \in DOMAIN M : p \in Pointer
         /\ \A field : <<n, field>> \notin DOMAIN M
         /\ n <= MaxAllocs => \A field \in Field : <<n, field>> \in Pointer
BY MaxAllocsAssumption DEF MemoryOK, Pointer

(* malloc adds the new blocks and leaves the others. *)
LEMMA MallocStep ==
  ASSUME MemoryOK(mem, next), bad = FALSE, NEW blocks, NEW source,
         malloc(blocks, source), source \subseteq live,
         \A p \in DOMAIN blocks :
           \E field \in Field : p = Block(field) /\ DataOK(field, blocks[p])
  PROVE  /\ MemoryOK(mem', next') /\ bad' = FALSE
         /\ live' = live \cup DOMAIN blocks
         /\ \A p \in live : p \notin DOMAIN blocks /\ p \in live' /\ mem'[p] = mem[p]
         /\ \A p \in DOMAIN blocks : mem'[p] = blocks[p]
         /\ \A field \in Field : Block(field) \in Pointer
<1>1. /\ next <= MaxAllocs /\ next' = next + 1
      /\ mem' = [p \in live \cup DOMAIN blocks |->
                   IF p \in DOMAIN blocks THEN blocks[p] ELSE mem[p]]
  BY DEF malloc
<1>2. live' = live \cup DOMAIN blocks
  BY <1>1 DEF live
<1>3. \A p \in DOMAIN blocks : p \notin live
  BY BlocksInUse DEF Block, live
<1>4. /\ \A p \in live : p \notin DOMAIN blocks /\ p \in live' /\ mem'[p] = mem[p]
      /\ \A p \in DOMAIN blocks : mem'[p] = blocks[p]
  BY <1>1, <1>2, <1>3
<1>5. next' \in 1..(MaxAllocs + 1)
  BY <1>1, MaxAllocsAssumption DEF MemoryOK
<1>6. ASSUME NEW p \in live'
      PROVE  p \in (1..(next' - 1)) \X Field /\ DataOK(p[2], mem'[p])
  <2>1. CASE p \in live
    <3>1. p \in (1..(next - 1)) \X Field /\ DataOK(p[2], mem[p])
      BY <2>1 DEF MemoryOK, live
    <3>. QED
      BY <1>1, <1>4, <2>1, <3>1 DEF MemoryOK
  <2>2. CASE p \in DOMAIN blocks
    <3>1. PICK field \in Field : p = <<next, field>> /\ DataOK(field, blocks[p])
      BY <2>2 DEF Block
    <3>. QED
      BY <1>1, <1>4, <2>2, <3>1 DEF MemoryOK
  <2>. QED
    BY <1>2, <1>6, <2>1, <2>2
<1>7. bad' = FALSE
  BY DEF malloc
<1>8. \A field \in Field : Block(field) \in Pointer
  BY <1>1, BlocksInUse DEF Block
<1>. QED
  BY <1>2, <1>4, <1>5, <1>6, <1>7, <1>8 DEF MemoryOK, live

(* free takes away what it is given, if that is there, and no more. *)
LEMMA FreeStep ==
  ASSUME MemoryOK(mem, next), bad = FALSE, NEW pointers, NEW source,
         free(pointers, source), pointers \cup source \subseteq live
  PROVE  /\ MemoryOK(mem', next') /\ bad' = FALSE
         /\ live' = live \ pointers
         /\ \A p \in live \ pointers : p \in live' /\ mem'[p] = mem[p]
<1>1. mem' = [p \in live \ pointers |-> mem[p]] /\ next' = next /\ bad' = FALSE
  BY DEF free
<1>2. live' = live \ pointers /\ \A p \in live \ pointers : mem'[p] = mem[p]
  BY <1>1 DEF live
<1>. QED
  BY <1>1, <1>2 DEF MemoryOK, live

-----------------------------------------------------------------------------
(* What a message points to                                                 *)

UsedBy(m) ==
  (IF m.m_bodyHasBeenSet THEN {m.m_body} ELSE {}) \cup Pointers(m.m_properties)

UsedByRaw(raw) == Buffers(raw) \cup Pointers(raw.properties)

(* A message depends on the blocks it points to and on no others. *)
LEMMA MessageKept ==
  ASSUME NEW m, NEW M, NEW N, MessageOK(m, M),
         \A p \in UsedBy(m) : p \in DOMAIN M => p \in DOMAIN N
  PROVE  MessageOK(m, N)
<1>1. m.m_bodyHasBeenSet => m.m_body \in DOMAIN N
  BY DEF MessageOK, UsedBy
<1>2. \A flag \in DOMAIN m.m_properties : m.m_properties[flag] \in DOMAIN N
  BY DEF MessageOK, PropertiesOK, UsedBy, Pointers
<1>. QED
  BY <1>1, <1>2 DEF MessageOK, PropertiesOK

(* So does a queued one. *)
LEMMA RawKept ==
  ASSUME NEW raw, NEW M, NEW N, RawOK(raw, M),
         \A p \in UsedByRaw(raw) : p \in DOMAIN M => p \in DOMAIN N /\ N[p] = M[p]
  PROVE  RawOK(raw, N)
<1>1. \A p \in {raw.message, raw.routing_key, raw.exchange} :
        p \in DOMAIN N /\ N[p] = M[p]
  BY DEF RawOK, UsedByRaw, Buffers
<1>2. \A flag \in DOMAIN raw.properties :
        raw.properties[flag] \in DOMAIN N /\ N[raw.properties[flag]] = M[raw.properties[flag]]
  BY DEF RawOK, PropertiesOK, UsedByRaw, Pointers
<1>3. PropertiesOK(raw.properties, N)
  BY <1>2 DEF RawOK, PropertiesOK
<1>4. Carries(raw, N)
  BY <1>1, <1>2 DEF RawOK, Carries
<1>. QED
  BY <1>1, <1>3, <1>4 DEF RawOK

(* Bodies and names are never property pointers. *)
LEMMA KindsDiffer ==
  ASSUME OwnershipInv
  PROVE  /\ \A o \in Messages : \A p \in Pointers(obj[o].m_properties) :
              p \in live /\ p[2] \in PropertyKinds
         /\ \A i \in Slots : \A p \in Pointers(m_sendQueue[i].properties) :
              p \in live /\ p[2] \in PropertyKinds
         /\ \A o \in WithBodies : obj[o].m_body \in live /\ obj[o].m_body[2] = "body"
         /\ \A i \in Slots : \A p \in Buffers(m_sendQueue[i]) :
              p \in live /\ p[2] \in {"body", "routing_key", "exchange"}
         /\ {"body", "routing_key", "exchange"} \cap PropertyKinds = {}
         /\ "string" \notin {"body", "routing_key", "exchange"}
<1>1. \A o \in Messages : MessageOK(obj[o], mem)
  BY DEF OwnershipInv, ObjectsInv, Messages
<1>2. \A i \in Slots : RawOK(m_sendQueue[i], mem)
  BY DEF OwnershipInv, QueueInv
<1>3. \A o \in Messages : \A p \in Pointers(obj[o].m_properties) :
        p \in live /\ p[2] \in PropertyKinds
  BY <1>1 DEF MessageOK, PropertiesOK, Pointers, live
<1>4. \A i \in Slots : \A p \in Pointers(m_sendQueue[i].properties) :
        p \in live /\ p[2] \in PropertyKinds
  BY <1>2 DEF RawOK, PropertiesOK, Pointers, live
<1>5. \A o \in WithBodies : obj[o].m_body \in live /\ obj[o].m_body[2] = "body"
  BY <1>1 DEF WithBodies, MessageOK, live
<1>6. \A i \in Slots : \A p \in Buffers(m_sendQueue[i]) :
        p \in live /\ p[2] \in {"body", "routing_key", "exchange"}
  BY <1>2 DEF RawOK, Buffers, live
<1>7. /\ {"body", "routing_key", "exchange"} \cap PropertyKinds = {}
      /\ "string" \notin {"body", "routing_key", "exchange"}
  BY StringFlagsAssumption DEF PropertyKinds, Flags
<1>. QED
  BY <1>3, <1>4, <1>5, <1>6, <1>7

-----------------------------------------------------------------------------
(* Steps of the Message class                                               *)

(* An object is created, changed or destroyed, no block in use is touched,  *)
(* and the object's body is its old one or a new one.                       *)
LEMMA ObjectStep ==
  ASSUME OwnershipInv, NEW o \in Objects, NEW r,
         r \in MessageState \cup {NoMessage}, r = NoMessage \/ MessageOK(r, mem'),
         obj' = [obj EXCEPT ![o] = r], UNCHANGED m_sendQueue,
         MemoryOK(mem', next'), bad' = FALSE,
         \A p \in live : p \in live' /\ mem'[p] = mem[p],
         r # NoMessage /\ r.m_bodyHasBeenSet =>
           r.m_body \notin live \/ (o \in WithBodies /\ r.m_body = obj[o].m_body)
  PROVE  OwnershipInv'
<1>1. /\ obj \in [Objects -> MessageState \cup {NoMessage}]
      /\ \A q \in Objects : Exists(q) => MessageOK(obj[q], mem)
  BY DEF OwnershipInv, ObjectsInv
<1>2. /\ obj' \in [Objects -> MessageState \cup {NoMessage}]
      /\ obj'[o] = r /\ \A q \in Objects \ {o} : obj'[q] = obj[q]
  BY <1>1
<1>3. \A q \in Objects : Exists(q)' => MessageOK(obj'[q], mem')
  <2>. SUFFICES ASSUME NEW q \in Objects, obj'[q] # NoMessage
                PROVE  MessageOK(obj'[q], mem')
    BY DEF Exists
  <2>1. CASE q = o
    BY <1>2, <2>1
  <2>2. CASE q # o
    <3>1. obj'[q] = obj[q] /\ MessageOK(obj[q], mem)
      BY <1>1, <1>2, <2>2 DEF Exists
    <3>2. MessageOK(obj[q], mem')
      BY <3>1, MessageKept DEF live
    <3>. QED
      BY <3>1, <3>2
  <2>. QED
    BY <2>1, <2>2
<1>4. \A i \in Slots : RawOK(m_sendQueue[i], mem')
  <2>. SUFFICES ASSUME NEW i \in Slots
                PROVE  RawOK(m_sendQueue[i], mem')
    OBVIOUS
  <2>1. RawOK(m_sendQueue[i], mem)
    BY DEF OwnershipInv, QueueInv
  <2>. QED
    BY <2>1, RawKept DEF live
<1>5. QueueInv'
  BY <1>4 DEF QueueInv, Slots, OwnershipInv
<1>6. ASSUME NEW q \in WithBodies'
      PROVE  /\ q \in Objects
             /\ q # o => q \in WithBodies /\ obj'[q].m_body = obj[q].m_body
             /\ q = o => \/ obj'[q].m_body \notin live
                         \/ q \in WithBodies /\ obj'[q].m_body = obj[q].m_body
  BY <1>2 DEF WithBodies, Messages, Exists
<1>7. \A q \in WithBodies : obj[q].m_body \in live
  BY KindsDiffer
<1>8. \A i \in Slots : Buffers(m_sendQueue[i]) \subseteq live
  BY KindsDiffer
<1>9. OneOwner
  BY DEF OwnershipInv
<1>10. \A q, w \in WithBodies' : obj'[q].m_body = obj'[w].m_body => q = w
  BY <1>6, <1>7, <1>9 DEF OneOwner
<1>11. \A q \in WithBodies', i \in Slots : obj'[q].m_body \notin Buffers(m_sendQueue[i])
  BY <1>6, <1>8, <1>9 DEF OneOwner
<1>12. OneOwner'
  BY <1>9, <1>10, <1>11 DEF OneOwner, Slots, Buffers
<1>. QED
  BY <1>2, <1>3, <1>5, <1>12 DEF OwnershipInv, ObjectsInv

(* What can be read of a message in order: a payload and texts. *)
LEMMA ReadsWhatIsThere ==
  ASSUME MemoryOK(mem, next), NEW properties, PropertiesOK(properties, mem)
  PROVE  /\ ReadAll(properties) = [flag \in DOMAIN properties |-> mem[properties[flag]]]
         /\ ReadAll(properties) \in UNION {[flags -> Texts] : flags \in SUBSET Flags}
         /\ DOMAIN ReadAll(properties) = DOMAIN properties
         /\ DOMAIN properties \subseteq Flags
         /\ Pointers(properties) \subseteq live
<1>1. \A flag \in DOMAIN properties :
        /\ properties[flag] \in live
        /\ Read(properties[flag], Texts) = mem[properties[flag]]
        /\ mem[properties[flag]] \in Texts
  BY DEF PropertiesOK, MemoryOK, DataOK, Read, live
<1>2. ReadAll(properties) = [flag \in DOMAIN properties |-> mem[properties[flag]]]
  BY <1>1 DEF ReadAll
<1>3. DOMAIN properties \in SUBSET Flags
  BY DEF PropertiesOK, Properties
<1>4. ReadAll(properties) \in [DOMAIN properties -> Texts]
  BY <1>1, <1>2
<1>. QED
  BY <1>1, <1>2, <1>3, <1>4 DEF Pointers

(* The body of a message in order can be read. *)
LEMMA ReadsTheBody ==
  ASSUME MemoryOK(mem, next), NEW p \in live, p[2] = "body"
  PROVE  Read(p, Payload) = mem[p] /\ mem[p] \in Payload
BY DEF MemoryOK, DataOK, Read, live

(* A new body, and nothing else. *)
LEMMA NewBody ==
  ASSUME MemoryOK(mem, next), bad = FALSE, NEW data \in Payload,
         NEW source, source \subseteq live,
         malloc([p \in {Block("body")} |-> data], source),
         NEW m, m \in MessageState, PropertiesOK(m.m_properties, mem)
  PROVE  /\ MemoryOK(mem', next') /\ bad' = FALSE
         /\ \A p \in live : p \in live' /\ mem'[p] = mem[p]
         /\ Block("body") \notin live
         /\ WithBody(m).m_body = Block("body")
         /\ WithBody(m) \in MessageState /\ MessageOK(WithBody(m), mem')
<1>. DEFINE blocks == [p \in {Block("body")} |-> data]
<1>1. \A p \in DOMAIN blocks :
        \E field \in Field : p = Block(field) /\ DataOK(field, blocks[p])
  BY StringFlagsAssumption DEF Field, DataOK, PropertyKinds, Flags
<1>2. malloc(blocks, source) /\ Block("body") \in DOMAIN blocks
  OBVIOUS
<1>. HIDE DEF blocks
<1>3. /\ MemoryOK(mem', next') /\ bad' = FALSE
      /\ live' = live \cup DOMAIN blocks
      /\ \A p \in live : p \notin DOMAIN blocks /\ p \in live' /\ mem'[p] = mem[p]
      /\ \A field \in Field : Block(field) \in Pointer
  BY <1>1, <1>2, MallocStep
<1>4. Block("body") \in live' /\ Block("body") \notin live /\ Block("body") \in Pointer
  BY <1>2, <1>3 DEF Field
<1>5. WithBody(m) \in MessageState
  BY <1>4 DEF WithBody, MessageState
<1>6. /\ WithBody(m).m_body = Block("body")
      /\ WithBody(m).m_properties = m.m_properties
  BY DEF WithBody, MessageState
<1>7. PropertiesOK(m.m_properties, mem')
  BY <1>3 DEF PropertiesOK, live
<1>8. Block("body")[2] = "body"
  BY DEF Block
<1>. QED
  BY <1>3, <1>4, <1>5, <1>6, <1>7, <1>8 DEF MessageOK, live

(* The string properties of a message in order are in order. *)
LEMMA StringsInOrder ==
  ASSUME NEW properties, NEW M, PropertiesOK(properties, M)
  PROVE  /\ PropertiesOK(Strings(properties), M)
         /\ DOMAIN Strings(properties) = DOMAIN properties \cap StringFlags
<1>1. /\ DOMAIN Strings(properties) = DOMAIN properties \cap StringFlags
      /\ \A flag \in DOMAIN Strings(properties) : Strings(properties)[flag] = properties[flag]
  BY DEF Strings
<1>2. \A flag \in DOMAIN properties : properties[flag] \in Pointer
  BY DEF PropertiesOK, Properties
<1>3. Strings(properties) \in [DOMAIN properties \cap StringFlags -> Pointer]
  BY <1>2 DEF Strings
<1>4. DOMAIN properties \cap StringFlags \in SUBSET Flags
  BY DEF Flags
<1>5. Strings(properties) \in Properties
  BY <1>3, <1>4 DEF Properties
<1>. QED
  BY <1>1, <1>5 DEF PropertiesOK

(* A new body and new properties, as the copy constructor and the Consumer  *)
(* make them; what is not new was there before.                             *)
LEMMA NewCopy ==
  ASSUME MemoryOK(mem, next), bad = FALSE, NEW body \in Payload, NEW texts,
         texts \in UNION {[flags -> Texts] : flags \in SUBSET Flags},
         NEW source, source \subseteq live, malloc(DupBlocks(body, texts), source),
         NEW m, m \in MessageState,
         m.m_body = Block("body"),
         \A flag \in DOMAIN m.m_properties :
           \/ flag \in DOMAIN texts /\ m.m_properties[flag] = Block(flag)
           \/ m.m_properties[flag] \in live /\ m.m_properties[flag][2] \in PropertyKinds
  PROVE  /\ MemoryOK(mem', next') /\ bad' = FALSE
         /\ \A p \in live : p \in live' /\ mem'[p] = mem[p]
         /\ Block("body") \notin live
         /\ MessageOK(m, mem')
<1>. DEFINE blocks == DupBlocks(body, texts)
<1>1. DOMAIN texts \subseteq Flags /\ \A flag \in DOMAIN texts : texts[flag] \in Texts
  OBVIOUS
<1>2. DOMAIN blocks = {Block("body")} \cup {Block(flag) : flag \in DOMAIN texts}
  BY DEF DupBlocks
<1>3. blocks[Block("body")] = body
  BY DEF DupBlocks
<1>4. \A flag \in DOMAIN texts : blocks[Block(flag)] = texts[flag]
  BY <1>1, StringFlagsAssumption DEF DupBlocks, Block, Flags
<1>5. \A p \in DOMAIN blocks :
        \E field \in Field : p = Block(field) /\ DataOK(field, blocks[p])
  <2>1. DataOK("body", body) /\ "body" \in Field
    BY StringFlagsAssumption DEF DataOK, Field, PropertyKinds, Flags
  <2>2. \A flag \in DOMAIN texts : flag \in Field /\ DataOK(flag, texts[flag])
    BY <1>1, StringFlagsAssumption DEF DataOK, Field, PropertyKinds, Flags
  <2>. QED
    BY <1>2, <1>3, <1>4, <2>1, <2>2
<1>6. /\ MemoryOK(mem', next') /\ bad' = FALSE
      /\ live' = live \cup DOMAIN blocks
      /\ \A p \in live : p \notin DOMAIN blocks /\ p \in live' /\ mem'[p] = mem[p]
      /\ \A field \in Field : Block(field) \in Pointer
  BY <1>5, MallocStep
<1>7. Block("body") \in live' /\ Block("body") \notin live /\ Block("body")[2] = "body"
  BY <1>2, <1>6 DEF Block
<1>8. \A flag \in DOMAIN texts :
        Block(flag) \in live' /\ Block(flag)[2] \in PropertyKinds
  BY <1>1, <1>2, <1>6 DEF Block, PropertyKinds
<1>9. \A flag \in DOMAIN m.m_properties :
        m.m_properties[flag] \in live' /\ m.m_properties[flag][2] \in PropertyKinds
  BY <1>6, <1>8
<1>10. m.m_properties \in Properties
  BY DEF MessageState
<1>. QED
  BY <1>6, <1>7, <1>9, <1>10 DEF MessageOK, PropertiesOK, live

(* The pointers of such a copy have the right type. *)
LEMMA DupIsProperties ==
  ASSUME next <= MaxAllocs, MemoryOK(mem, next), NEW properties,
         DOMAIN properties \subseteq Flags,
         \A flag \in DOMAIN properties \ StringFlags : properties[flag] \in Pointer
  PROVE  /\ hare_basic_properties_malloc_dup(properties) \in Properties
         /\ Block("body") \in Pointer
<1>1. \A field \in Field : Block(field) \in Pointer
  BY BlocksInUse DEF Block
<1>2. \A flag \in DOMAIN properties : Block(flag) \in Pointer
  BY <1>1 DEF Field
<1>3. hare_basic_properties_malloc_dup(properties) \in [DOMAIN properties -> Pointer]
  BY <1>2 DEF hare_basic_properties_malloc_dup
<1>. QED
  BY <1>1, <1>3 DEF Properties, Field

(* A message variable comes into being, without a body or with one. *)
LEMMA ConstructOwnership ==
  ASSUME OwnershipInv, NEW o \in Objects,
         ConstructBlank(o) \/ \E payload \in Payload : Construct(o, payload)
  PROVE  OwnershipInv'
<1>1. MemoryOK(mem, next) /\ bad = FALSE
  BY DEF OwnershipInv
<1>2. Blank \in MessageState /\ PropertiesOK(Blank.m_properties, mem)
  <2>1. NoFlags \in [{} -> Pointer]
    BY DEF NoFlags
  <2>2. NoFlags \in Properties /\ DOMAIN NoFlags = {}
    BY <2>1 DEF Properties
  <2>. QED
    BY <2>2 DEF Blank, MessageState, PropertiesOK, Timestamp
<1>3. CASE ConstructBlank(o)
  <2>1. obj' = [obj EXCEPT ![o] = Blank] /\ UNCHANGED <<memVars, m_sendQueue>>
    BY <1>3 DEF ConstructBlank
  <2>2. MessageOK(Blank, mem)
    BY <1>2 DEF MessageOK, Blank
  <2>3. ~Blank.m_bodyHasBeenSet
    BY DEF Blank
  <2>. QED
    BY <1>1, <1>2, <2>1, <2>2, <2>3, ObjectStep DEF memVars, live
<1>4. ASSUME NEW payload \in Payload, Construct(o, payload)
      PROVE  OwnershipInv'
  <2>1. PICK source :
          /\ source \subseteq live
          /\ malloc([p \in {Block("body")} |-> hare_cstring_bytes(payload)], source)
    BY <1>4 DEF Construct
  <2>2. hare_cstring_bytes(payload) \in Payload
    BY DEF hare_cstring_bytes, Payload
  <2>3. obj' = [obj EXCEPT ![o] = WithBody(Blank)] /\ UNCHANGED m_sendQueue
    BY <1>4 DEF Construct
  <2>. QED
    BY <1>1, <1>2, <2>1, <2>2, <2>3, NewBody, ObjectStep
<1>. QED
  BY <1>3, <1>4

(* A setter changes one field of an existing message. *)
LEMMA SetPayloadOwnership ==
  ASSUME OwnershipInv, NEW o \in Objects, NEW payload \in Payload,
         SetPayload(o, payload)
  PROVE  OwnershipInv'
<1>1. MemoryOK(mem, next) /\ bad = FALSE
  BY DEF OwnershipInv
<1>2. obj[o] \in MessageState /\ PropertiesOK(obj[o].m_properties, mem)
  BY DEF OwnershipInv, ObjectsInv, MessageOK, SetPayload, Writable
<1>3. obj' = [obj EXCEPT ![o] = WithBody(obj[o])] /\ UNCHANGED m_sendQueue
  BY DEF SetPayload
<1>4. PICK data \in Payload, source \in SUBSET live :
        malloc([p \in {Block("body")} |-> data], source)
  <2>1. hare_cstring_bytes(payload) \in Payload /\ hare_void_bytes(payload) \in Payload
    BY DEF hare_cstring_bytes, hare_void_bytes, Payload
  <2>2. PICK data \in {hare_cstring_bytes(payload), hare_void_bytes(payload)} :
          malloc([p \in {Block("body")} |-> data], {})
    BY DEF SetPayload
  <2>. QED
    BY <2>1, <2>2
<1>. QED
  BY <1>1, <1>2, <1>3, <1>4, NewBody, ObjectStep

(* A string property points to the caller's string, which is there. *)
LEMMA SetStringOwnership ==
  ASSUME OwnershipInv, NEW o \in Objects, NEW flag \in Flags, NEW text \in Texts,
         SetString(o, flag, text)
  PROVE  OwnershipInv'
<1>. DEFINE m == obj[o]
            blocks == [p \in {Block("string")} |-> text]
            properties == [f \in DOMAIN m.m_properties \cup {flag} |->
                             IF f = flag THEN Block("string") ELSE m.m_properties[f]]
            r == [m EXCEPT !.m_properties = properties]
<1>1. MemoryOK(mem, next) /\ bad = FALSE
  BY DEF OwnershipInv
<1>2. MessageOK(m, mem) /\ o \in Messages
  BY DEF OwnershipInv, ObjectsInv, SetString, Messages, Writable
<1>3. obj' = [obj EXCEPT ![o] = r] /\ UNCHANGED m_sendQueue
  BY DEF SetString
<1>4. PICK source : source \subseteq live /\ malloc(blocks, source)
  BY DEF SetString
<1>5. \A p \in DOMAIN blocks :
        \E field \in Field : p = Block(field) /\ DataOK(field, blocks[p])
  BY StringFlagsAssumption DEF Field, DataOK, PropertyKinds, Flags
<1>6. Block("string") \in DOMAIN blocks
  OBVIOUS
<1>7. /\ MemoryOK(mem', next') /\ bad' = FALSE
      /\ live' = live \cup DOMAIN blocks
      /\ \A p \in live : p \in live' /\ mem'[p] = mem[p]
      /\ \A field \in Field : Block(field) \in Pointer
  <2>. HIDE DEF blocks
  <2>. QED
    BY <1>1, <1>4, <1>5, MallocStep
<1>8. /\ Block("string") \in Pointer /\ Block("string") \in live'
      /\ Block("string")[2] \in PropertyKinds
  BY <1>6, <1>7 DEF Field, Block, PropertyKinds
<1>9. /\ DOMAIN m.m_properties \subseteq Flags
      /\ \A f \in DOMAIN m.m_properties :
           /\ m.m_properties[f] \in Pointer
           /\ m.m_properties[f] \in live'
           /\ m.m_properties[f][2] \in PropertyKinds
  BY <1>2, <1>7 DEF MessageOK, PropertiesOK, Properties, live
<1>10. properties \in [DOMAIN m.m_properties \cup {flag} -> Pointer]
  BY <1>8, <1>9
<1>11. properties \in Properties
  BY <1>9, <1>10 DEF Properties
<1>12. \A f \in DOMAIN properties :
         properties[f] \in live' /\ properties[f][2] \in PropertyKinds
  BY <1>8, <1>9
<1>13. /\ r \in MessageState /\ r.m_properties = properties
       /\ r.m_bodyHasBeenSet = m.m_bodyHasBeenSet /\ r.m_body = m.m_body
  BY <1>2, <1>11 DEF MessageOK, MessageState
<1>14. MessageOK(r, mem')
  <2>. HIDE DEF properties, r, m
  <2>. QED
    BY <1>2, <1>7, <1>11, <1>12, <1>13 DEF MessageOK, PropertiesOK, live
<1>15. r.m_bodyHasBeenSet => o \in WithBodies /\ r.m_body = obj[o].m_body
  BY <1>2, <1>13 DEF WithBodies
<1>. HIDE DEF r, m, properties, blocks
<1>. QED
  BY <1>3, <1>7, <1>13, <1>14, <1>15, ObjectStep

(* SetTimestamp changes no pointer. *)
LEMMA SetTimestampOwnership ==
  ASSUME OwnershipInv, NEW o \in Objects, NEW time \in Times, SetTimestamp(o, time)
  PROVE  OwnershipInv'
<1>. DEFINE r == [obj[o] EXCEPT !.timestamp = time]
<1>1. MessageOK(obj[o], mem) /\ o \in Messages /\ obj[o] \in MessageState
  BY DEF OwnershipInv, ObjectsInv, SetTimestamp, Messages, MessageOK, Writable
<1>2. obj' = [obj EXCEPT ![o] = r] /\ UNCHANGED <<mem, next, bad, m_sendQueue>>
  BY DEF SetTimestamp, memVars
<1>3. /\ r \in MessageState /\ r.m_properties = obj[o].m_properties
      /\ r.m_bodyHasBeenSet = obj[o].m_bodyHasBeenSet /\ r.m_body = obj[o].m_body
  BY <1>1 DEF MessageState, Timestamp
<1>4. MessageOK(r, mem')
  BY <1>1, <1>2, <1>3 DEF MessageOK
<1>5. r.m_bodyHasBeenSet => o \in WithBodies /\ r.m_body = obj[o].m_body
  BY <1>1, <1>3 DEF WithBodies
<1>6. MemoryOK(mem', next') /\ bad' = FALSE
  BY <1>2 DEF OwnershipInv
<1>. HIDE DEF r
<1>. QED
  BY <1>2, <1>3, <1>4, <1>5, <1>6, ObjectStep DEF live

(* The copy constructor: the copy has its own body and its own strings, and *)
(* the headers of the original.                                             *)
LEMMA CopyOwnership ==
  ASSUME OwnershipInv, Careful, NEW o \in Objects, NEW from \in Objects, Copy(o, from)
  PROVE  OwnershipInv'
<1>. DEFINE m == obj[from]
            properties == m.m_properties
            strings == Strings(properties)
            texts == ReadAll(strings)
            source == {m.m_body} \cup Pointers(strings)
            r == [m EXCEPT !.m_body = Block("body"),
                           !.m_properties = hare_basic_properties_malloc_dup(@)]
<1>1. MemoryOK(mem, next) /\ bad = FALSE
  BY DEF OwnershipInv
<1>2. MessageOK(m, mem) /\ m \in MessageState /\ m.m_bodyHasBeenSet
  BY DEF OwnershipInv, ObjectsInv, Copy, MayCopy, MessageOK, Careful, Cautions
<1>3. /\ obj' = [obj EXCEPT ![o] = r] /\ UNCHANGED m_sendQueue
      /\ malloc(DupBlocks(Bytes(m), texts), source)
      /\ next <= MaxAllocs
  BY DEF Copy, malloc
<1>4. /\ PropertiesOK(properties, mem)
      /\ PropertiesOK(strings, mem) /\ DOMAIN strings = DOMAIN properties \cap StringFlags
  BY <1>2, StringsInOrder DEF MessageOK
<1>5. Bytes(m) \in Payload /\ m.m_body \in live
  BY <1>1, <1>2, ReadsTheBody DEF MessageOK, Bytes, live
<1>6. /\ DOMAIN properties \subseteq Flags
      /\ \A flag \in DOMAIN properties :
           /\ properties[flag] \in Pointer /\ properties[flag] \in live
           /\ properties[flag][2] \in PropertyKinds
  BY <1>4 DEF PropertiesOK, Properties, live
<1>7. /\ hare_basic_properties_malloc_dup(properties) \in Properties
      /\ Block("body") \in Pointer
  BY <1>1, <1>3, <1>6, DupIsProperties
<1>8. /\ r \in MessageState /\ r.m_body = Block("body")
      /\ r.m_properties = hare_basic_properties_malloc_dup(properties)
  BY <1>2, <1>7 DEF MessageState
<1>. HIDE DEF strings
<1>9. /\ texts \in UNION {[flags -> Texts] : flags \in SUBSET Flags}
      /\ DOMAIN texts = DOMAIN strings
      /\ Pointers(strings) \subseteq live
  BY <1>1, <1>4, ReadsWhatIsThere
<1>10. source \subseteq live
  BY <1>5, <1>9
<1>11. \A flag \in DOMAIN r.m_properties :
         \/ flag \in DOMAIN texts /\ r.m_properties[flag] = Block(flag)
         \/ r.m_properties[flag] \in live /\ r.m_properties[flag][2] \in PropertyKinds
  <2>. HIDE DEF r, texts, properties
  <2>. QED
    BY <1>4, <1>6, <1>8, <1>9 DEF hare_basic_properties_malloc_dup
<1>. HIDE DEF m, properties, texts, source, r
<1>12. /\ MemoryOK(mem', next') /\ bad' = FALSE
       /\ \A p \in live : p \in live' /\ mem'[p] = mem[p]
       /\ Block("body") \notin live
       /\ MessageOK(r, mem')
  BY <1>1, <1>3, <1>5, <1>8, <1>9, <1>10, <1>11, NewCopy
<1>. QED
  BY <1>3, <1>8, <1>12, ObjectStep

(* Assigning a message without a body shares property pointers only. *)
LEMMA AssignOwnership ==
  ASSUME OwnershipInv, Careful, NEW o \in Objects, NEW from \in Objects, Assign(o, from)
  PROVE  OwnershipInv'
<1>1. MessageOK(obj[from], mem) /\ ~obj[from].m_bodyHasBeenSet /\ obj[from] \in MessageState
  BY DEF OwnershipInv, ObjectsInv, Assign, MessageOK, Careful, Cautions
<1>2. obj' = [obj EXCEPT ![o] = obj[from]] /\ UNCHANGED <<mem, next, bad, m_sendQueue>>
  BY DEF Assign, memVars
<1>3. MemoryOK(mem', next') /\ bad' = FALSE
  BY <1>2 DEF OwnershipInv
<1>. QED
  BY <1>1, <1>2, <1>3, ObjectStep DEF live

(* The Consumer's message has its own body and its own strings, and headers *)
(* in the pool of the envelope.                                             *)
LEMMA ReceiveOwnership ==
  ASSUME OwnershipInv, WireInv, NEW o \in Objects, Receive(o)
  PROVE  OwnershipInv' /\ obj'[o] \in MessageState /\ obj'[o].m_bodyHasBeenSet
<1>. DEFINE received == Head(wire).got
            texts == received.properties
            pooled == [flag \in DOMAIN texts |-> Block(flag)]
            r == [m_bodyHasBeenSet |-> TRUE, m_body |-> Block("body"),
                  m_properties |-> hare_basic_properties_malloc_dup(pooled),
                  timestamp |-> received.timestamp]
<1>1. MemoryOK(mem, next) /\ bad = FALSE
  BY DEF OwnershipInv
<1>2. Head(wire) \in Published
  BY DEF WireInv, Receive
<1>3. /\ received.body \in Payload /\ received.timestamp \in Timestamp
      /\ texts \in UNION {[flags -> Texts] : flags \in SUBSET Flags}
  BY <1>2 DEF Published, Content
<1>4. /\ obj' = [obj EXCEPT ![o] = r] /\ UNCHANGED m_sendQueue
      /\ malloc(DupBlocks(received.body, texts), {})
      /\ next <= MaxAllocs
  BY DEF Receive, malloc
<1>5. DOMAIN pooled = DOMAIN texts /\ DOMAIN texts \subseteq Flags
  BY <1>3
<1>6. \A flag \in DOMAIN pooled : pooled[flag] = Block(flag) /\ pooled[flag] \in Pointer
  BY <1>1, <1>4, <1>5, BlocksInUse DEF Block, Field
<1>7. hare_basic_properties_malloc_dup(pooled) \in Properties /\ Block("body") \in Pointer
  <2>. HIDE DEF pooled
  <2>. QED
    BY <1>1, <1>4, <1>5, <1>6, DupIsProperties
<1>8. /\ r \in MessageState /\ r.m_body = Block("body")
      /\ r.m_properties = hare_basic_properties_malloc_dup(pooled)
  BY <1>3, <1>7 DEF MessageState
<1>9. \A flag \in DOMAIN r.m_properties :
        flag \in DOMAIN texts /\ r.m_properties[flag] = Block(flag)
  <2>. HIDE DEF r, texts, pooled
  <2>. QED
    BY <1>5, <1>6, <1>8 DEF hare_basic_properties_malloc_dup
<1>10. PICK source : source \subseteq live /\ malloc(DupBlocks(received.body, texts), source)
  BY <1>4
<1>11. obj'[o] = r /\ r.m_bodyHasBeenSet
  BY <1>4 DEF OwnershipInv, ObjectsInv
<1>. HIDE DEF received, texts, pooled, r
<1>12. /\ MemoryOK(mem', next') /\ bad' = FALSE
       /\ \A p \in live : p \in live' /\ mem'[p] = mem[p]
       /\ Block("body") \notin live
       /\ MessageOK(r, mem')
  BY <1>1, <1>3, <1>8, <1>9, <1>10, NewCopy
<1>. QED
  BY <1>4, <1>8, <1>11, <1>12, ObjectStep

(* Blocks are freed while objects and queued messages are given up; nothing *)
(* that is left points to what is freed.                                    *)
LEMMA FreeOwnership ==
  ASSUME OwnershipInv, NEW pointers, NEW source, free(pointers, source),
         pointers \cup source \subseteq live,
         obj' \in [Objects -> MessageState \cup {NoMessage}],
         \A q \in Objects : obj'[q] = obj[q] \/ obj'[q] = NoMessage,
         m_sendQueue' = m_sendQueue
           \/ (m_sendQueue # <<>> /\ m_sendQueue' = Tail(m_sendQueue)),
         \A q \in Objects : obj'[q] # NoMessage => UsedBy(obj'[q]) \cap pointers = {},
         \A i \in DOMAIN m_sendQueue' : UsedByRaw(m_sendQueue'[i]) \cap pointers = {}
  PROVE  OwnershipInv'
<1>1. MemoryOK(mem, next) /\ bad = FALSE /\ OneOwner /\ m_sendQueue \in Seq(RawMessage)
  BY DEF OwnershipInv, QueueInv
<1>2. /\ MemoryOK(mem', next') /\ bad' = FALSE
      /\ \A p \in live \ pointers : p \in live' /\ mem'[p] = mem[p]
  BY <1>1, FreeStep
<1>3. ASSUME NEW q \in Objects, obj'[q] # NoMessage
      PROVE  obj'[q] = obj[q] /\ MessageOK(obj[q], mem')
  <2>1. obj'[q] = obj[q] /\ MessageOK(obj[q], mem)
    BY <1>3 DEF OwnershipInv, ObjectsInv, Exists
  <2>2. \A p \in UsedBy(obj[q]) : p \in DOMAIN mem => p \in DOMAIN mem'
    BY <1>2, <1>3, <2>1 DEF live
  <2>. QED
    BY <2>1, <2>2, MessageKept
<1>4. ObjectsInv'
  BY <1>3 DEF ObjectsInv, Exists
<1>5. /\ m_sendQueue' \in Seq(RawMessage)
      /\ \E d \in {0, 1} : \A i \in Slots' :
           i \in Nat /\ i + d \in Slots /\ m_sendQueue'[i] = m_sendQueue[i + d]
  <2>1. CASE m_sendQueue' = m_sendQueue
    <3>1. \A i \in Slots' : i \in Nat /\ i + 0 \in Slots /\ m_sendQueue'[i] = m_sendQueue[i + 0]
      BY <1>1, <2>1 DEF Slots
    <3>. QED
      BY <1>1, <2>1, <3>1
  <2>2. CASE m_sendQueue # <<>> /\ m_sendQueue' = Tail(m_sendQueue)
    <3>1. \A i \in Slots' : i \in Nat /\ i + 1 \in Slots /\ m_sendQueue'[i] = m_sendQueue[i + 1]
      BY <1>1, <2>2 DEF Slots
    <3>2. m_sendQueue' \in Seq(RawMessage)
      BY <1>1, <2>2
    <3>. QED
      BY <3>1, <3>2
  <2>. QED
    BY <2>1, <2>2
<1>6. PICK d \in {0, 1} : \A i \in Slots' :
        i \in Nat /\ i + d \in Slots /\ m_sendQueue'[i] = m_sendQueue[i + d]
  BY <1>5
<1>7. ASSUME NEW i \in Slots'
      PROVE  RawOK(m_sendQueue'[i], mem')
  <2>1. RawOK(m_sendQueue'[i], mem)
    BY <1>6 DEF OwnershipInv, QueueInv
  <2>2. \A p \in UsedByRaw(m_sendQueue'[i]) :
          p \in DOMAIN mem => p \in DOMAIN mem' /\ mem'[p] = mem[p]
    BY <1>2 DEF live, Slots
  <2>. QED
    BY <2>1, <2>2, RawKept
<1>8. QueueInv'
  BY <1>5, <1>7 DEF QueueInv
<1>9. \A q \in WithBodies' : q \in WithBodies /\ obj'[q] = obj[q]
  BY <1>3 DEF WithBodies, Messages, Exists
<1>10. \A q, w \in WithBodies' : obj'[q].m_body = obj'[w].m_body => q = w
  BY <1>1, <1>9 DEF OneOwner
<1>11. \A q \in WithBodies', i \in Slots' : obj'[q].m_body \notin Buffers(m_sendQueue'[i])
  BY <1>1, <1>6, <1>9 DEF OneOwner
<1>12. \A i, j \in Slots' :
         i # j => Buffers(m_sendQueue'[i]) \cap Buffers(m_sendQueue'[j]) = {}
  <2>. SUFFICES ASSUME NEW i \in Slots', NEW j \in Slots', i # j
                PROVE  Buffers(m_sendQueue'[i]) \cap Buffers(m_sendQueue'[j]) = {}
    OBVIOUS
  <2>1. i + d # j + d
    BY <1>6
  <2>. QED
    BY <1>1, <1>6, <2>1 DEF OneOwner
<1>13. OneOwner'
  BY <1>10, <1>11, <1>12 DEF OneOwner, Buffers
<1>. QED
  BY <1>2, <1>4, <1>8, <1>13 DEF OwnershipInv

(* The destructor frees a body that nobody else has. *)
LEMMA DestroyOwnership ==
  ASSUME OwnershipInv, NEW o \in Objects, Destroy(o)
  PROVE  OwnershipInv'
<1>. DEFINE pointers == IF obj[o].m_bodyHasBeenSet THEN {obj[o].m_body} ELSE {}
<1>1. /\ free(pointers, {}) /\ UNCHANGED m_sendQueue
      /\ obj' = [obj EXCEPT ![o] = NoMessage]
      /\ o \in Messages
  BY DEF Destroy, Messages, Writable
<1>2. obj \in [Objects -> MessageState \cup {NoMessage}] /\ OneOwner
  BY DEF OwnershipInv, ObjectsInv
<1>3. /\ obj' \in [Objects -> MessageState \cup {NoMessage}]
      /\ obj'[o] = NoMessage /\ \A q \in Objects \ {o} : obj'[q] = obj[q]
  BY <1>1, <1>2
<1>4. \A p \in pointers : p = obj[o].m_body /\ o \in WithBodies /\ p \in live /\ p[2] = "body"
  BY <1>1, KindsDiffer DEF WithBodies
<1>5. ASSUME NEW q \in Objects, obj'[q] # NoMessage
      PROVE  UsedBy(obj'[q]) \cap pointers = {}
  <2>1. q # o /\ obj'[q] = obj[q] /\ q \in Messages
    BY <1>3, <1>5 DEF Messages, Exists
  <2>2. obj[q].m_bodyHasBeenSet => obj[q].m_body \notin pointers
    BY <1>2, <1>4, <2>1 DEF OneOwner, WithBodies
  <2>3. \A p \in Pointers(obj[q].m_properties) : p[2] # "body"
    BY <2>1, KindsDiffer
  <2>. HIDE DEF pointers
  <2>. QED
    BY <1>4, <2>1, <2>2, <2>3 DEF UsedBy
<1>6. ASSUME NEW i \in Slots
      PROVE  UsedByRaw(m_sendQueue[i]) \cap pointers = {}
  <2>1. \A p \in Pointers(m_sendQueue[i].properties) : p[2] # "body"
    BY KindsDiffer
  <2>2. \A p \in pointers : p \notin Buffers(m_sendQueue[i])
    BY <1>2, <1>4 DEF OneOwner
  <2>. HIDE DEF pointers
  <2>. QED
    BY <1>4, <2>1, <2>2 DEF UsedByRaw
<1>7. PICK source : free(pointers, source) /\ pointers \cup source \subseteq live
  BY <1>1, <1>4
<1>. HIDE DEF pointers
<1>. QED
  BY <1>1, <1>3, <1>5, <1>6, <1>7, FreeOwnership DEF Slots

(* A careful application keeps its strings while anything points to them. *)
LEMMA DropStringOwnership ==
  ASSUME OwnershipInv, Careful, NEW s \in live, DropString(s)
  PROVE  OwnershipInv'
<1>1. /\ free({s}, {}) /\ s[2] = "string" /\ UNCHANGED <<obj, m_sendQueue>>
      /\ \A q \in Objects : Exists(q) => s \notin Pointers(obj[q].m_properties)
      /\ \A i \in Slots : s \notin Pointers(m_sendQueue[i].properties)
  <2>1. LetGo(s, NoMessage)
    BY DEF DropString, Careful, Cautions
  <2>. QED
    BY <2>1, NoMessageAssumption DEF DropString, LetGo, Slots
<1>2. obj \in [Objects -> MessageState \cup {NoMessage}]
  BY DEF OwnershipInv, ObjectsInv
<1>3. ASSUME NEW q \in Objects, obj[q] # NoMessage
      PROVE  UsedBy(obj[q]) \cap {s} = {}
  <2>1. q \in Messages
    BY <1>3 DEF Messages, Exists
  <2>2. obj[q].m_bodyHasBeenSet => obj[q].m_body # s
    BY <1>1, <2>1, KindsDiffer DEF WithBodies
  <2>. QED
    BY <1>1, <1>3, <2>2 DEF UsedBy, Exists
<1>4. ASSUME NEW i \in Slots
      PROVE  UsedByRaw(m_sendQueue[i]) \cap {s} = {}
  <2>1. s \notin Buffers(m_sendQueue[i])
    BY <1>1, KindsDiffer
  <2>. QED
    BY <1>1, <2>1 DEF UsedByRaw
<1>5. PICK pointers, source :
        pointers = {s} /\ free(pointers, source) /\ pointers \cup source \subseteq live
  BY <1>1
<1>. QED
  BY <1>1, <1>2, <1>3, <1>4, <1>5, FreeOwnership DEF Slots

(* What a careful application copied from newMessage is gone when           *)
(* pullNextMessage() destroys the envelope and newMessage.                  *)
LEMMA DestroyEnvelopeOwnership ==
  ASSUME OwnershipInv, EnvelopeInv, Careful, DestroyEnvelope
  PROVE  OwnershipInv'
<1>. DEFINE m == obj[envelope]
            headers == HeadersOf(m.m_properties)
            pointers == {m.m_body} \cup headers
<1>1. /\ envelope \in WithBodies /\ envelope \in Objects /\ envelope \in Messages
      /\ free(pointers, {}) /\ UNCHANGED m_sendQueue
      /\ obj' = [obj EXCEPT ![envelope] = NoMessage]
      /\ \A p \in headers : LetGo(p, envelope)
  BY DEF DestroyEnvelope, EnvelopeInv, Careful, Cautions, WithBodies, Messages
<1>2. obj \in [Objects -> MessageState \cup {NoMessage}] /\ OneOwner
  BY DEF OwnershipInv, ObjectsInv
<1>3. /\ obj' \in [Objects -> MessageState \cup {NoMessage}]
      /\ obj'[envelope] = NoMessage /\ \A q \in Objects \ {envelope} : obj'[q] = obj[q]
  BY <1>1, <1>2
<1>4. headers \subseteq Pointers(m.m_properties)
  BY DEF HeadersOf, Pointers
<1>5. \A p \in headers : p \in live /\ p[2] \in PropertyKinds
  BY <1>1, <1>4, KindsDiffer
<1>6. m.m_body \in live /\ m.m_body[2] = "body"
  BY <1>1, KindsDiffer
<1>7. ASSUME NEW q \in Objects, obj'[q] # NoMessage
      PROVE  UsedBy(obj'[q]) \cap pointers = {}
  <2>1. q # envelope /\ obj'[q] = obj[q] /\ q \in Messages /\ Exists(q)
    BY <1>3, <1>7 DEF Messages, Exists
  <2>2. obj[q].m_bodyHasBeenSet => obj[q].m_body # m.m_body /\ obj[q].m_body[2] = "body"
    BY <1>1, <1>2, <2>1, KindsDiffer DEF OneOwner, WithBodies
  <2>3. \A p \in Pointers(obj[q].m_properties) : p[2] # "body" /\ p \notin headers
    BY <1>1, <2>1, KindsDiffer DEF LetGo
  <2>4. "body" \notin PropertyKinds
    BY KindsDiffer
  <2>. HIDE DEF headers, m
  <2>. QED
    BY <1>5, <1>6, <2>1, <2>2, <2>3, <2>4 DEF UsedBy
<1>8. ASSUME NEW i \in Slots
      PROVE  UsedByRaw(m_sendQueue[i]) \cap pointers = {}
  <2>1. \A p \in Pointers(m_sendQueue[i].properties) : p[2] # "body" /\ p \notin headers
    BY <1>1, KindsDiffer DEF LetGo, Slots
  <2>2. m.m_body \notin Buffers(m_sendQueue[i])
    BY <1>1, <1>2 DEF OneOwner
  <2>3. \A p \in Buffers(m_sendQueue[i]) : p[2] \notin PropertyKinds
    BY KindsDiffer
  <2>. HIDE DEF headers, m
  <2>. QED
    BY <1>5, <1>6, <2>1, <2>2, <2>3 DEF UsedByRaw
<1>9. PICK source : free(pointers, source) /\ pointers \cup source \subseteq live
  BY <1>1, <1>5, <1>6
<1>10. \A q \in Objects : obj'[q] = obj[q] \/ obj'[q] = NoMessage
  BY <1>3
<1>. HIDE DEF pointers, headers, m
<1>. QED
  BY <1>1, <1>3, <1>7, <1>8, <1>9, <1>10, FreeOwnership DEF Slots

(* Popping a message frees buffers that nothing else in the queue, and no   *)
(* object, points to.                                                       *)
LEMMA PopOwnership ==
  ASSUME OwnershipInv, m_sendQueue # <<>>, NEW source, source \subseteq live,
         free(Buffers(Head(m_sendQueue)), source),
         m_sendQueue' = Tail(m_sendQueue), UNCHANGED obj
  PROVE  OwnershipInv'
<1>. DEFINE pointers == Buffers(Head(m_sendQueue))
<1>1. m_sendQueue \in Seq(RawMessage) /\ OneOwner
  BY DEF OwnershipInv, QueueInv
<1>2. 1 \in Slots /\ Head(m_sendQueue) = m_sendQueue[1]
  BY <1>1 DEF Slots
<1>3. \A p \in pointers : p \in live /\ p[2] \notin PropertyKinds
  BY <1>2, KindsDiffer
<1>4. \A i \in DOMAIN m_sendQueue' :
        i + 1 \in Slots /\ i + 1 # 1 /\ m_sendQueue'[i] = m_sendQueue[i + 1]
  BY <1>1 DEF Slots
<1>5. ASSUME NEW i \in DOMAIN m_sendQueue'
      PROVE  UsedByRaw(m_sendQueue'[i]) \cap pointers = {}
  <2>1. Buffers(m_sendQueue'[i]) \cap pointers = {}
    BY <1>1, <1>2, <1>4 DEF OneOwner
  <2>2. \A p \in Pointers(m_sendQueue'[i].properties) : p[2] \in PropertyKinds
    BY <1>4, KindsDiffer
  <2>. HIDE DEF pointers
  <2>. QED
    BY <1>3, <2>1, <2>2 DEF UsedByRaw
<1>6. ASSUME NEW q \in Objects, obj'[q] # NoMessage
      PROVE  UsedBy(obj'[q]) \cap pointers = {}
  <2>1. q \in Messages
    BY <1>6 DEF Messages, Exists
  <2>2. obj[q].m_bodyHasBeenSet => obj[q].m_body \notin pointers
    BY <1>1, <1>2, <2>1 DEF OneOwner, WithBodies
  <2>3. \A p \in Pointers(obj[q].m_properties) : p[2] \in PropertyKinds
    BY <2>1, KindsDiffer
  <2>. HIDE DEF pointers
  <2>. QED
    BY <1>3, <2>2, <2>3 DEF UsedBy
<1>7. obj' \in [Objects -> MessageState \cup {NoMessage}]
  BY DEF OwnershipInv, ObjectsInv
<1>8. pointers \cup source \subseteq live
  BY <1>3
<1>. HIDE DEF pointers
<1>9. free(pointers, source)
  BY DEF pointers
<1>. QED
  BY <1>5, <1>6, <1>7, <1>8, <1>9, FreeOwnership

-----------------------------------------------------------------------------
(* Steps of the Producer and the Consumer                                   *)

(* Send queues new buffers and borrows the properties. *)
LEMMA SendOwnership ==
  ASSUME OwnershipInv, Careful, NEW o \in Objects, Send(o)
  PROVE  OwnershipInv'
<1>. DEFINE m == obj[o]
            blocks == [p \in {Block("body"), Block("routing_key"), Block("exchange")} |->
                         IF p = Block("body") THEN Bytes(m) ELSE NoText]
            source == {m.m_body}
            raw == [message |-> Block("body"), routing_key |-> Block("routing_key"),
                    exchange |-> Block("exchange"), properties |-> m.m_properties,
                    timestamp |-> m.timestamp, sent |-> ContentOf(m)]
<1>1. /\ MemoryOK(mem, next) /\ bad = FALSE /\ OneOwner
      /\ m_sendQueue \in Seq(RawMessage)
      /\ \A i \in Slots : RawOK(m_sendQueue[i], mem)
  BY DEF OwnershipInv, QueueInv
<1>2. MessageOK(m, mem) /\ m \in MessageState /\ m.m_bodyHasBeenSet
  BY DEF OwnershipInv, ObjectsInv, Send, MaySend, MessageOK, Writable, Careful, Cautions
<1>3. /\ m_sendQueue' = Append(m_sendQueue, raw) /\ UNCHANGED obj
      /\ malloc(blocks, source)
  BY DEF Send
<1>4. Bytes(m) = mem[m.m_body] /\ Bytes(m) \in Payload /\ m.m_body \in live
  BY <1>1, <1>2, ReadsTheBody DEF MessageOK, Bytes, live
<1>5. PropertiesOK(m.m_properties, mem)
  BY <1>2 DEF MessageOK
<1>6. /\ ReadAll(m.m_properties) = [flag \in DOMAIN m.m_properties |-> mem[m.m_properties[flag]]]
      /\ ReadAll(m.m_properties) \in UNION {[flags -> Texts] : flags \in SUBSET Flags}
      /\ Pointers(m.m_properties) \subseteq live
  BY <1>1, <1>5, ReadsWhatIsThere
<1>7. /\ DOMAIN blocks = {Block("body"), Block("routing_key"), Block("exchange")}
      /\ blocks[Block("body")] = Bytes(m)
      /\ blocks[Block("routing_key")] = NoText
      /\ blocks[Block("exchange")] = NoText
  BY DEF Block
<1>8. \A p \in DOMAIN blocks :
        \E field \in Field : p = Block(field) /\ DataOK(field, blocks[p])
  <2>1. DataOK("body", Bytes(m)) /\ DataOK("routing_key", NoText) /\ DataOK("exchange", NoText)
    BY <1>4, StringFlagsAssumption DEF DataOK, PropertyKinds, Flags
  <2>. HIDE DEF blocks
  <2>. QED
    BY <1>7, <2>1 DEF Field
<1>9. source \subseteq live
  BY <1>4
<1>10. /\ MemoryOK(mem', next') /\ bad' = FALSE
       /\ live' = live \cup DOMAIN blocks
       /\ \A p \in live : p \notin DOMAIN blocks /\ p \in live' /\ mem'[p] = mem[p]
       /\ \A p \in DOMAIN blocks : mem'[p] = blocks[p]
       /\ \A field \in Field : Block(field) \in Pointer
  <2>. HIDE DEF blocks, source
  <2>. QED
    BY <1>1, <1>3, <1>8, <1>9, MallocStep
<1>11. /\ Block("body") \in Pointer /\ Block("routing_key") \in Pointer
       /\ Block("exchange") \in Pointer
       /\ Block("body")[2] = "body" /\ Block("routing_key")[2] = "routing_key"
       /\ Block("exchange")[2] = "exchange"
  BY <1>10 DEF Field, Block
<1>12. ContentOf(m) \in Content
  BY <1>2, <1>4, <1>6 DEF ContentOf, Content, MessageState
<1>13. raw \in RawMessage
  BY <1>2, <1>11, <1>12 DEF RawMessage, MessageState
<1>14. mem'[Block("body")] = Bytes(m)
  <2>. HIDE DEF blocks
  <2>. QED
    BY <1>7, <1>10
<1>15. Carries(raw, mem')
  <2>1. \A flag \in DOMAIN m.m_properties :
          mem'[m.m_properties[flag]] = mem[m.m_properties[flag]]
    BY <1>5, <1>10 DEF PropertiesOK, live
  <2>2. /\ raw.message = Block("body") /\ raw.properties = m.m_properties
        /\ raw.timestamp = m.timestamp /\ raw.sent.timestamp = m.timestamp
        /\ raw.sent.body = Bytes(m) /\ raw.sent.properties = ReadAll(m.m_properties)
    BY DEF ContentOf
  <2>. HIDE DEF raw, m, blocks
  <2>. QED
    BY <1>6, <1>14, <2>1, <2>2 DEF Carries
<1>16. PropertiesOK(m.m_properties, mem')
  BY <1>5, <1>10 DEF PropertiesOK, live
<1>17. RawOK(raw, mem')
  <2>1. /\ raw.message = Block("body") /\ raw.routing_key = Block("routing_key")
        /\ raw.exchange = Block("exchange") /\ raw.properties = m.m_properties
    OBVIOUS
  <2>. HIDE DEF raw, m, blocks
  <2>. QED
    BY <1>7, <1>10, <1>11, <1>13, <1>15, <1>16, <2>1 DEF RawOK, live
<1>18. Buffers(raw) = DOMAIN blocks
  BY <1>7 DEF Buffers
<1>. HIDE DEF raw, m, blocks, source
<1>19. /\ m_sendQueue' \in Seq(RawMessage)
       /\ Slots' = Slots \cup {Len(m_sendQueue) + 1}
       /\ Len(m_sendQueue) + 1 \notin Slots
       /\ m_sendQueue'[Len(m_sendQueue) + 1] = raw
       /\ \A i \in Slots : m_sendQueue'[i] = m_sendQueue[i]
  BY <1>1, <1>3, <1>13 DEF Slots
<1>20. \A i \in Slots : RawOK(m_sendQueue[i], mem')
  <2>. SUFFICES ASSUME NEW i \in Slots
                PROVE  RawOK(m_sendQueue[i], mem')
    OBVIOUS
  <2>1. RawOK(m_sendQueue[i], mem)
    BY <1>1
  <2>. QED
    BY <1>10, <2>1, RawKept DEF live
<1>21. QueueInv'
  BY <1>17, <1>19, <1>20 DEF QueueInv
<1>22. ObjectsInv'
  <2>. SUFFICES ASSUME NEW q \in Objects, obj[q] # NoMessage
                PROVE  MessageOK(obj[q], mem')
    BY <1>3 DEF ObjectsInv, OwnershipInv, Exists
  <2>1. MessageOK(obj[q], mem)
    BY DEF ObjectsInv, OwnershipInv, Exists
  <2>. QED
    BY <1>10, <2>1, MessageKept DEF live
<1>23. WithBodies' = WithBodies
  BY <1>3 DEF WithBodies, Messages, Exists
<1>24. \A q \in WithBodies : obj[q].m_body \in live
  BY KindsDiffer
<1>25. \A i \in Slots : Buffers(m_sendQueue[i]) \subseteq live
  BY KindsDiffer
<1>26. \A q \in WithBodies, i \in Slots' : obj[q].m_body \notin Buffers(m_sendQueue'[i])
  BY <1>1, <1>10, <1>18, <1>19, <1>24 DEF OneOwner
<1>27. \A i, j \in Slots' :
         i # j => Buffers(m_sendQueue'[i]) \cap Buffers(m_sendQueue'[j]) = {}
  <2>1. \A i \in Slots : Buffers(m_sendQueue'[i]) \cap Buffers(raw) = {}
    BY <1>10, <1>18, <1>19, <1>25
  <2>. QED
    BY <1>1, <1>19, <2>1 DEF OneOwner
<1>28. OneOwner'
  BY <1>1, <1>3, <1>23, <1>26, <1>27 DEF OneOwner, Buffers
<1>. QED
  BY <1>10, <1>21, <1>22, <1>28 DEF OwnershipInv

(* Stamping changes the timestamp of a message and nothing else. *)
LEMMA StampKeeps ==
  ASSUME NEW raw, NEW M, RawOK(raw, M)
  PROVE  /\ RawOK(Stamp(raw), M)
         /\ Buffers(Stamp(raw)) = Buffers(raw)
         /\ Stamp(raw).properties = raw.properties
         /\ Stamp(raw).message = raw.message
         /\ Stamp(raw).sent = raw.sent
         /\ Stamp(raw).timestamp =
              IF raw.sent.timestamp = NoTime THEN Now ELSE raw.sent.timestamp
<1>1. raw \in RawMessage
  BY DEF RawOK
<1>2. /\ Stamp(raw) \in RawMessage
      /\ Stamp(raw).message = raw.message /\ Stamp(raw).routing_key = raw.routing_key
      /\ Stamp(raw).exchange = raw.exchange /\ Stamp(raw).properties = raw.properties
      /\ Stamp(raw).sent = raw.sent
      /\ Stamp(raw).timestamp = IF raw.timestamp = NoTime THEN Now ELSE raw.timestamp
  BY <1>1 DEF Stamp, RawMessage, Timestamp
<1>3. Stamp(raw).timestamp =
        IF raw.sent.timestamp = NoTime THEN Now ELSE raw.sent.timestamp
  BY <1>2, TimesAssumption DEF RawOK, Carries
<1>4. Carries(Stamp(raw), M)
  BY <1>2, <1>3 DEF RawOK, Carries
<1>. QED
  BY <1>2, <1>3, <1>4 DEF RawOK, Buffers

(* A failed publish leaves a stamped message at the front. *)
LEMMA PublishFailsOwnership ==
  ASSUME OwnershipInv, PublishFails
  PROVE  OwnershipInv'
<1>1. /\ m_sendQueue # <<>> /\ m_sendQueue' = [m_sendQueue EXCEPT ![1] = Stamp(m_sendQueue[1])]
      /\ UNCHANGED <<mem, next, bad, obj>>
  BY DEF PublishFails, memVars
<1>2. /\ m_sendQueue \in Seq(RawMessage) /\ OneOwner
      /\ \A i \in Slots : RawOK(m_sendQueue[i], mem)
  BY DEF OwnershipInv, QueueInv
<1>3. 1 \in Slots
  BY <1>1, <1>2 DEF Slots
<1>4. /\ RawOK(Stamp(m_sendQueue[1]), mem) /\ Stamp(m_sendQueue[1]) \in RawMessage
      /\ Buffers(Stamp(m_sendQueue[1])) = Buffers(m_sendQueue[1])
  BY <1>2, <1>3, StampKeeps DEF RawOK
<1>5. /\ m_sendQueue' \in Seq(RawMessage) /\ Slots' = Slots
      /\ m_sendQueue'[1] = Stamp(m_sendQueue[1])
      /\ \A i \in Slots \ {1} : m_sendQueue'[i] = m_sendQueue[i]
  BY <1>1, <1>2, <1>3, <1>4 DEF Slots
<1>6. \A i \in Slots : /\ RawOK(m_sendQueue'[i], mem)
                       /\ Buffers(m_sendQueue'[i]) = Buffers(m_sendQueue[i])
  BY <1>2, <1>4, <1>5
<1>7. QueueInv'
  BY <1>1, <1>5, <1>6 DEF QueueInv
<1>8. ObjectsInv'
  BY <1>1 DEF OwnershipInv, ObjectsInv, Exists
<1>9. WithBodies' = WithBodies
  BY <1>1 DEF WithBodies, Messages, Exists
<1>10. OneOwner'
  BY <1>1, <1>2, <1>5, <1>6, <1>9 DEF OneOwner, Buffers
<1>. QED
  BY <1>1, <1>7, <1>8, <1>10 DEF OwnershipInv

(* Publish reads what is there, puts it on the wire and pops the message. *)
LEMMA PublishStep ==
  ASSUME OwnershipInv, WireInv, Publish
  PROVE  OwnershipInv' /\ WireInv'
<1>. DEFINE head == Head(m_sendQueue)
            raw == Stamp(head)
            entry == [got |-> [body |-> Read(raw.message, Payload),
                               properties |-> ReadAll(raw.properties),
                               timestamp |-> raw.timestamp],
                      sent |-> raw.sent]
            source == Pointers(raw.properties)
<1>1. /\ m_sendQueue # <<>> /\ m_sendQueue' = Tail(m_sendQueue) /\ UNCHANGED obj
      /\ wire' = Append(wire, entry)
      /\ free(Buffers(raw), source)
  BY DEF Publish, hare_free_message_risky, Buffers
<1>2. /\ m_sendQueue \in Seq(RawMessage) /\ MemoryOK(mem, next)
      /\ \A i \in Slots : RawOK(m_sendQueue[i], mem)
  BY DEF OwnershipInv, QueueInv
<1>3. RawOK(head, mem)
  BY <1>1, <1>2 DEF Slots
<1>4. /\ RawOK(raw, mem) /\ Buffers(raw) = Buffers(head)
      /\ raw.sent = head.sent
      /\ raw.timestamp = IF head.sent.timestamp = NoTime THEN Now ELSE head.sent.timestamp
  <2>. HIDE DEF head
  <2>. QED
    BY <1>3, StampKeeps
<1>. HIDE DEF head, raw
<1>5. /\ PropertiesOK(raw.properties, mem) /\ raw \in RawMessage
      /\ raw.message \in live /\ raw.message[2] = "body"
  BY <1>4 DEF RawOK, live
<1>6. /\ ReadAll(raw.properties) = [flag \in DOMAIN raw.properties |-> mem[raw.properties[flag]]]
      /\ ReadAll(raw.properties) \in UNION {[flags -> Texts] : flags \in SUBSET Flags}
      /\ source \subseteq live
  BY <1>2, <1>5, ReadsWhatIsThere
<1>7. Read(raw.message, Payload) = mem[raw.message] /\ mem[raw.message] \in Payload
  BY <1>2, <1>5, ReadsTheBody
<1>8. raw.sent.body = mem[raw.message] /\ raw.sent.properties = ReadAll(raw.properties)
  BY <1>4, <1>6 DEF RawOK, Carries
<1>9. entry \in Published
  BY <1>5, <1>6, <1>7 DEF Published, Content, RawMessage
<1>10. entry.got = [entry.sent EXCEPT !.timestamp = IF @ = NoTime THEN Now ELSE @]
  <2>1. raw.sent \in Content
    BY <1>5 DEF RawMessage
  <2>. QED
    BY <1>4, <1>7, <1>8, <2>1 DEF Content
<1>11. OwnershipInv'
  <2>. HIDE DEF source, entry
  <2>. QED
    BY <1>1, <1>4, <1>6, PopOwnership DEF head
<1>12. WireInv'
  <2>. HIDE DEF source, entry
  <2>1. wire \in Seq(Published) /\ CarriesWhatWasSent
    BY DEF WireInv
  <2>2. wire' \in Seq(Published)
    BY <1>1, <1>9, <2>1
  <2>3. \A i \in DOMAIN wire' : (i \in DOMAIN wire /\ wire'[i] = wire[i]) \/ wire'[i] = entry
    BY <1>1, <1>9, <2>1
  <2>4. CarriesWhatWasSent'
    BY <1>10, <2>1, <2>3 DEF CarriesWhatWasSent
  <2>. QED
    BY <2>2, <2>4 DEF WireInv
<1>. QED
  BY <1>11, <1>12

(* Purging pops without looking at the properties. *)
LEMMA PurgeOwnership ==
  ASSUME OwnershipInv, Purge
  PROVE  OwnershipInv'
<1>1. /\ m_sendQueue # <<>> /\ m_sendQueue' = Tail(m_sendQueue) /\ UNCHANGED obj
      /\ free(Buffers(Head(m_sendQueue)), {})
  BY DEF Purge, hare_free_message_risky, Buffers
<1>2. PICK source : source \subseteq live /\ free(Buffers(Head(m_sendQueue)), source)
  BY <1>1
<1>. QED
  BY <1>1, <1>2, PopOwnership

(* Receive takes the front of the wire. *)
LEMMA ReceiveWire ==
  ASSUME WireInv, NEW o \in Objects, Receive(o)
  PROVE  WireInv'
<1>1. wire # <<>> /\ wire' = Tail(wire)
  BY DEF Receive
<1>2. wire \in Seq(Published) /\ CarriesWhatWasSent
  BY DEF WireInv
<1>3. wire' \in Seq(Published)
  BY <1>1, <1>2
<1>4. \A i \in DOMAIN wire' : i + 1 \in DOMAIN wire /\ wire'[i] = wire[i + 1]
  BY <1>1, <1>2
<1>5. CarriesWhatWasSent'
  BY <1>2, <1>4 DEF CarriesWhatWasSent
<1>. QED
  BY <1>3, <1>5 DEF WireInv

(* Nobody but pullNextMessage() touches newMessage. *)
LEMMA EnvelopeKept ==
  ASSUME OwnershipInv, WireInv, EnvelopeInv, Next
  PROVE  EnvelopeInv'
<1>1. obj \in [Objects -> MessageState \cup {NoMessage}]
  BY DEF OwnershipInv, ObjectsInv
<1>2. ASSUME UNCHANGED envelope, envelope # NoMessage => obj'[envelope] = obj[envelope]
      PROVE  EnvelopeInv'
  BY <1>2 DEF EnvelopeInv, WithBodies, Messages, Exists
<1>3. ASSUME NEW o \in Objects, NEW value, obj' = [obj EXCEPT ![o] = value],
             ~Exists(o) \/ Writable(o), UNCHANGED envelope
      PROVE  EnvelopeInv'
  <2>1. envelope # NoMessage => envelope \in Objects /\ envelope # o
    BY <1>3 DEF EnvelopeInv, WithBodies, Messages, Writable
  <2>. QED
    BY <1>1, <1>2, <1>3, <2>1
<1>4. ASSUME NEW o \in Objects, Receive(o)
      PROVE  EnvelopeInv'
  BY <1>4, ReceiveOwnership, NoMessageAssumption
  DEF Receive, EnvelopeInv, WithBodies, Messages, Exists
<1>5. CASE DestroyEnvelope
  BY <1>5 DEF DestroyEnvelope, EnvelopeInv
<1>6. CASE UNCHANGED <<obj, envelope>>
  BY <1>2, <1>6
<1>7. ASSUME NEW o \in Objects,
             \/ ConstructBlank(o)
             \/ \E payload \in Payload : Construct(o, payload) \/ SetPayload(o, payload)
             \/ \E time \in Times : SetTimestamp(o, time)
             \/ \E from \in Objects : Copy(o, from) \/ Assign(o, from)
             \/ Destroy(o)
      PROVE  EnvelopeInv'
  <2>1. \E value : obj' = [obj EXCEPT ![o] = value]
    BY <1>7 DEF ConstructBlank, Construct, SetPayload, SetTimestamp, Copy, Assign, Destroy
  <2>2. (~Exists(o) \/ Writable(o)) /\ UNCHANGED envelope
    BY <1>7 DEF ConstructBlank, Construct, SetPayload, SetTimestamp, Copy, Assign, Destroy
  <2>. QED
    BY <1>3, <2>1, <2>2
<1>8. ASSUME NEW o \in Objects, NEW flag, NEW text, SetString(o, flag, text)
      PROVE  EnvelopeInv'
  BY <1>3, <1>8 DEF SetString
<1>. QED
  BY <1>4, <1>5, <1>6, <1>7, <1>8
  DEF Next, SetHeaders, Send, DropString, PublishFails, Publish, Purge

-----------------------------------------------------------------------------
(* The theorems                                                             *)

(* No step of a careful application, of the Producer or of the Consumer     *)
(* breaks the invariant.                                                    *)
LEMMA MessageInvKept ==
  ASSUME MessageInv, Careful, [Next]_vars
  PROVE  MessageInv'
<1>. USE DEF MessageInv
<1>0. EnvelopeInv'
  <2>1. CASE Next
    BY <2>1, EnvelopeKept
  <2>2. CASE UNCHANGED vars
    BY <2>2 DEF vars, EnvelopeInv, WithBodies, Messages, Exists
  <2>. QED
    BY <2>1, <2>2
<1>1. ASSUME NEW o \in Objects,
             ConstructBlank(o) \/ \E payload \in Payload : Construct(o, payload)
      PROVE  MessageInv'
  <2>1. OwnershipInv'
    BY <1>0, <1>1, ConstructOwnership
  <2>2. UNCHANGED wire
    BY <1>1 DEF ConstructBlank, Construct
  <2>. QED
    BY <1>0, <2>1, <2>2 DEF WireInv, CarriesWhatWasSent
<1>2. ASSUME NEW o \in Objects, NEW payload \in Payload, SetPayload(o, payload)
      PROVE  MessageInv'
  BY <1>0, <1>2, SetPayloadOwnership DEF SetPayload, WireInv, CarriesWhatWasSent
<1>3. ASSUME NEW o \in Objects, NEW text \in Texts,
             (\E flag \in StringFlags : SetString(o, flag, text)) \/ SetHeaders(o, text)
      PROVE  MessageInv'
  <2>1. PICK flag \in Flags : SetString(o, flag, text)
    BY <1>3 DEF SetHeaders, Flags
  <2>2. UNCHANGED wire
    BY <2>1 DEF SetString
  <2>. QED
    BY <1>0, <2>1, <2>2, SetStringOwnership DEF WireInv, CarriesWhatWasSent
<1>4. ASSUME NEW o \in Objects, NEW time \in Times, SetTimestamp(o, time)
      PROVE  MessageInv'
  BY <1>0, <1>4, SetTimestampOwnership DEF SetTimestamp, WireInv, CarriesWhatWasSent
<1>5. ASSUME NEW o \in Objects, NEW from \in Objects, Copy(o, from)
      PROVE  MessageInv'
  BY <1>0, <1>5, CopyOwnership DEF Copy, WireInv, CarriesWhatWasSent
<1>6. ASSUME NEW o \in Objects, NEW from \in Objects, Assign(o, from)
      PROVE  MessageInv'
  BY <1>0, <1>6, AssignOwnership DEF Assign, WireInv, CarriesWhatWasSent
<1>7. ASSUME NEW o \in Objects, Destroy(o)
      PROVE  MessageInv'
  BY <1>0, <1>7, DestroyOwnership DEF Destroy, WireInv, CarriesWhatWasSent
<1>8. ASSUME NEW o \in Objects, Send(o)
      PROVE  MessageInv'
  BY <1>0, <1>8, SendOwnership DEF Send, WireInv, CarriesWhatWasSent
<1>9. ASSUME NEW o \in Objects, Receive(o)
      PROVE  MessageInv'
  BY <1>0, <1>9, ReceiveOwnership, ReceiveWire
<1>10. ASSUME NEW p \in live, DropString(p)
       PROVE  MessageInv'
  BY <1>0, <1>10, DropStringOwnership DEF DropString, WireInv, CarriesWhatWasSent
<1>11. CASE PublishFails
  BY <1>0, <1>11, PublishFailsOwnership DEF PublishFails, WireInv, CarriesWhatWasSent
<1>12. CASE Publish
  BY <1>0, <1>12, PublishStep
<1>13. CASE Purge
  BY <1>0, <1>13, PurgeOwnership DEF Purge, WireInv, CarriesWhatWasSent
<1>14. CASE DestroyEnvelope
  BY <1>0, <1>14, DestroyEnvelopeOwnership DEF DestroyEnvelope, WireInv, CarriesWhatWasSent
<1>15. CASE UNCHANGED vars
  BY <1>0, <1>15 DEF vars, memVars, OwnershipInv, ObjectsInv, QueueInv, OneOwner, WithBodies,
               Messages, Exists, Slots, Buffers, WireInv, CarriesWhatWasSent
<1>. QED
  BY <1>1, <1>2, <1>3, <1>4, <1>5, <1>6, <1>7, <1>8, <1>9, <1>10, <1>11, <1>12, <1>13,
     <1>14, <1>15 DEF Next

(* In every state of a careful application, memory, objects, queue and wire *)
(* are in order.                                                            *)
THEOREM MessageInvariant ==
  ASSUME Careful
  PROVE  Spec => []MessageInv
<1>1. Init => MessageInv
  <2>. SUFFICES ASSUME Init
                PROVE  MessageInv
    OBVIOUS
  <2>1. /\ DOMAIN mem = {} /\ next = 1 /\ bad = FALSE
        /\ m_sendQueue = <<>> /\ envelope = NoMessage
        /\ wire = <<>> \/ \E content \in Foreign : wire = <<[got |-> content, sent |-> content]>>
        /\ obj = [o \in Objects |-> NoMessage]
    BY DEF Init
  <2>2. MemoryOK(mem, next)
    BY <2>1, MaxAllocsAssumption DEF MemoryOK
  <2>3. \A o \in Objects : ~Exists(o)
    BY <2>1 DEF Exists
  <2>4. ObjectsInv
    BY <2>1, <2>3 DEF ObjectsInv
  <2>5. Slots = {} /\ WithBodies = {}
    BY <2>1, <2>3 DEF Slots, WithBodies, Messages
  <2>6. QueueInv /\ OneOwner
    BY <2>1, <2>5 DEF QueueInv, OneOwner
  <2>7. WireInv
    <3>1. CASE wire = <<>>
      BY <3>1 DEF WireInv, CarriesWhatWasSent
    <3>2. ASSUME NEW content \in Foreign, wire = <<[got |-> content, sent |-> content]>>
          PROVE  WireInv
      <4>1. content \in Content /\ content.timestamp # NoTime
        BY ForeignAssumption
      <4>2. content = [content EXCEPT !.timestamp = IF @ = NoTime THEN Now ELSE @]
        BY <4>1 DEF Content
      <4>3. [got |-> content, sent |-> content] \in Published
        BY <4>1 DEF Published
      <4>. QED
        BY <3>2, <4>2, <4>3 DEF WireInv, CarriesWhatWasSent
    <3>. QED
      BY <2>1, <3>1, <3>2
  <2>. QED
    BY <2>1, <2>2, <2>4, <2>6, <2>7 DEF MessageInv, OwnershipInv, EnvelopeInv
<1>2. MessageInv /\ [Next]_vars => MessageInv'
  BY MessageInvKept
<1>. QED
  BY <1>1, <1>2, PTL DEF Spec

(* Every block holds what it was allocated for, and no pointer field has a  *)
(* value that no allocation gave it (Message.hpp, Message.cpp).             *)
THEOREM TypeCorrect ==
  ASSUME Careful
  PROVE  Spec => []TypeOK
<1>1. MessageInv => TypeOK
  <2>. SUFFICES ASSUME MessageInv
                PROVE  TypeOK
    OBVIOUS
  <2>1. MemoryOK(mem, next) /\ bad = FALSE
    BY DEF MessageInv, OwnershipInv
  <2>2. ASSUME NEW p \in live
        PROVE  mem[p] \in CASE p[2] = "body"                        -> Payload
                            [] p[2] \in {"routing_key", "exchange"} -> {NoText}
                            [] OTHER                                -> Texts
    <3>1. p[2] \in Field /\ DataOK(p[2], mem[p])
      BY <2>1 DEF MemoryOK, live
    <3>2. CASE p[2] = "body"
      BY <3>1, <3>2 DEF DataOK
    <3>3. CASE p[2] \in {"routing_key", "exchange"}
      BY <3>1, <3>3 DEF DataOK
    <3>4. CASE p[2] \notin {"body", "routing_key", "exchange"}
      BY <3>1, <3>4 DEF DataOK, PropertyKinds, Field
    <3>. QED
      BY <3>2, <3>3, <3>4
  <2>. QED
    BY <2>1, <2>2 DEF TypeOK, MessageInv, OwnershipInv, MemoryOK, ObjectsInv, QueueInv,
                      WireInv, EnvelopeInv, WithBodies, live
<1>. QED
  BY <1>1, MessageInvariant, PTL

(* A body or a queued buffer has one owner, so ~Message() and the pops of   *)
(* the Producer free it once.                                               *)
THEOREM BuffersHaveOneOwner ==
  ASSUME Careful
  PROVE  Spec => []OneOwner
<1>1. MessageInv => OneOwner
  BY DEF MessageInv, OwnershipInv
<1>. QED
  BY <1>1, MessageInvariant, PTL

(* Everything a message or a queued message points to is there, the headers *)
(* that copies share with a received message included: the copy             *)
(* constructor, Send and the Consumer copy the rest of what would go away,  *)
(* and a careful application does not keep what they do not copy.           *)
THEOREM NothingDangles ==
  ASSUME Careful
  PROVE  Spec => []NoDangling
<1>1. MessageInv => NoDangling
  BY KindsDiffer DEF MessageInv, NoDangling
<1>. QED
  BY <1>1, MessageInvariant, PTL

(* No double free and no read of a freed or uninitialised block, in any     *)
(* order of the calls of a careful application.                             *)
THEOREM NeverUndefined ==
  ASSUME Careful
  PROVE  Spec => []NoUndefined
<1>1. MessageInv => NoUndefined
  BY DEF MessageInv, OwnershipInv, NoUndefined
<1>. QED
  BY <1>1, MessageInvariant, PTL

(* publishNextInQueue() gives the broker what the message, headers          *)
(* included, said when a careful application called Send, with a timestamp. *)
THEOREM CarriesTheMessage ==
  ASSUME Careful
  PROVE  Spec => []CarriesWhatWasSent
<1>1. MessageInv => CarriesWhatWasSent
  BY DEF MessageInv, WireInv
<1>. QED
  BY <1>1, MessageInvariant, PTL

(* A buffer of the queue that a step leaves in use is still the queue's:    *)
(* only the pops take from it, and they free what they take.                *)
LEMMA QueueKeepsOrFrees ==
  ASSUME MessageInv, Next, NEW i \in Slots, NEW p \in Buffers(m_sendQueue[i]),
         p \in live'
  PROVE  \E j \in Slots' : p \in Buffers(m_sendQueue'[j])
<1>1. /\ m_sendQueue \in Seq(RawMessage)
      /\ \A j \in Slots : RawOK(m_sendQueue[j], mem)
  BY DEF MessageInv, OwnershipInv, QueueInv
<1>2. CASE m_sendQueue' = m_sendQueue
  BY <1>2 DEF Slots
<1>3. ASSUME NEW o \in Objects, Send(o)
      PROVE  \E j \in Slots' : p \in Buffers(m_sendQueue'[j])
  <2>1. PICK raw : m_sendQueue' = Append(m_sendQueue, raw)
    BY <1>3 DEF Send
  <2>2. i \in Slots' /\ m_sendQueue'[i] = m_sendQueue[i]
    BY <1>1, <2>1 DEF Slots
  <2>. QED
    BY <2>2
<1>4. CASE PublishFails
  <2>1. m_sendQueue' = [m_sendQueue EXCEPT ![1] = Stamp(m_sendQueue[1])]
    BY <1>4 DEF PublishFails
  <2>2. /\ i \in Slots'
        /\ \/ m_sendQueue'[i] = m_sendQueue[i]
           \/ m_sendQueue'[i] = Stamp(m_sendQueue[i])
    BY <1>1, <2>1 DEF Slots
  <2>3. Buffers(Stamp(m_sendQueue[i])) = Buffers(m_sendQueue[i])
    BY <1>1, StampKeeps
  <2>. QED
    BY <2>2, <2>3
<1>5. CASE Publish \/ Purge
  <2>1. /\ m_sendQueue' = Tail(m_sendQueue) /\ m_sendQueue # <<>>
        /\ live' \cap Buffers(Head(m_sendQueue)) = {}
    <3>1. CASE Purge
      <4>1. mem' = [b \in live \ Buffers(Head(m_sendQueue)) |-> mem[b]]
        BY <3>1 DEF Purge, hare_free_message_risky, free, Buffers
      <4>2. live' = live \ Buffers(Head(m_sendQueue))
        BY <4>1 DEF live
      <4>. QED
        BY <3>1, <4>2 DEF Purge
    <3>2. CASE Publish
      <4>1. mem' = [b \in live \ Buffers(Stamp(Head(m_sendQueue))) |-> mem[b]]
        BY <3>2 DEF Publish, hare_free_message_risky, free, Buffers
      <4>2. m_sendQueue' = Tail(m_sendQueue) /\ m_sendQueue # <<>>
        BY <3>2 DEF Publish
      <4>3. 1 \in Slots /\ Head(m_sendQueue) = m_sendQueue[1]
        BY <1>1, <4>2 DEF Slots
      <4>4. Buffers(Stamp(Head(m_sendQueue))) = Buffers(Head(m_sendQueue))
        BY <1>1, <4>3, StampKeeps
      <4>5. live' = live \ Buffers(Head(m_sendQueue))
        BY <4>1, <4>4 DEF live
      <4>. QED
        BY <4>2, <4>5
    <3>. QED
      BY <1>5, <3>1, <3>2
  <2>2. i # 1
    BY <1>1, <2>1 DEF Slots
  <2>3. i - 1 \in Slots' /\ m_sendQueue'[i - 1] = m_sendQueue[i]
    BY <1>1, <2>1, <2>2 DEF Slots
  <2>. QED
    BY <2>3
<1>6. \/ m_sendQueue' = m_sendQueue \/ PublishFails \/ Publish \/ Purge
      \/ \E o \in Objects : Send(o)
  BY DEF Next, ConstructBlank, Construct, SetPayload, SetHeaders, SetString,
         SetTimestamp, Copy, Assign, Destroy, Receive, DropString, DestroyEnvelope
<1>. QED
  BY <1>2, <1>3, <1>4, <1>5, <1>6

(* A setter leaves a message. *)
LEMMA SettersKeepTheObject ==
  ASSUME MessageInv, NEW o \in Objects,
         \/ \E payload \in Payload : SetPayload(o, payload)
         \/ \E flag \in Flags, text \in Texts : SetString(o, flag, text)
         \/ \E time \in Times : SetTimestamp(o, time)
  PROVE  obj'[o] \in MessageState
<1>1. /\ MemoryOK(mem, next)
      /\ obj \in [Objects -> MessageState \cup {NoMessage}]
      /\ obj[o] \in MessageState
  BY DEF MessageInv, OwnershipInv, ObjectsInv, SetPayload, SetString, SetTimestamp, Exists, Writable
<1>2. CASE \E payload \in Payload : SetPayload(o, payload)
  <2>1. next <= MaxAllocs /\ obj'[o] = WithBody(obj[o])
    BY <1>1, <1>2 DEF SetPayload, malloc
  <2>2. Block("body") \in Pointer
    BY <1>1, <2>1, BlocksInUse DEF Block, Field
  <2>. QED
    BY <1>1, <2>1, <2>2 DEF WithBody, MessageState
<1>3. ASSUME NEW flag \in Flags, NEW text \in Texts, SetString(o, flag, text)
      PROVE  obj'[o] \in MessageState
  <2>. DEFINE old == obj[o].m_properties
              properties == [f \in DOMAIN old \cup {flag} |->
                               IF f = flag THEN Block("string") ELSE old[f]]
  <2>1. next <= MaxAllocs /\ obj'[o] = [obj[o] EXCEPT !.m_properties = properties]
    BY <1>1, <1>3 DEF SetString, malloc
  <2>2. Block("string") \in Pointer
    BY <1>1, <2>1, BlocksInUse DEF Block, Field
  <2>3. DOMAIN old \subseteq Flags /\ \A f \in DOMAIN old : old[f] \in Pointer
    BY <1>1 DEF MessageState, Properties
  <2>4. properties \in [DOMAIN old \cup {flag} -> Pointer]
    BY <2>2, <2>3
  <2>5. properties \in Properties
    BY <2>3, <2>4 DEF Properties
  <2>. HIDE DEF properties
  <2>. QED
    BY <1>1, <2>1, <2>5 DEF MessageState
<1>4. ASSUME NEW time \in Times, SetTimestamp(o, time)
      PROVE  obj'[o] \in MessageState
  BY <1>1, <1>4 DEF SetTimestamp, MessageState, Timestamp
<1>. QED
  BY <1>2, <1>3, <1>4

(* An object that goes away was destroyed, and its body with it. *)
LEMMA GoneIsFreed ==
  ASSUME MessageInv, Next, NEW o \in WithBodies, obj'[o] = NoMessage
  PROVE  obj[o].m_body \notin live'
<1>1. /\ o \in Objects /\ Exists(o) /\ obj[o] # NoMessage /\ obj[o].m_bodyHasBeenSet
      /\ obj \in [Objects -> MessageState \cup {NoMessage}]
  BY DEF WithBodies, Messages, Exists, MessageInv, OwnershipInv, ObjectsInv
<1>2. \A q \in Objects : \A r : obj' = [obj EXCEPT ![q] = r] => q = o
  BY <1>1
<1>3. obj' # obj
  BY <1>1
<1>4. ASSUME NEW q \in Objects, ConstructBlank(q)
      PROVE  FALSE
  BY <1>1, <1>2, <1>4 DEF ConstructBlank
<1>5. ASSUME NEW q \in Objects, NEW payload \in Payload, Construct(q, payload)
      PROVE  FALSE
  BY <1>1, <1>2, <1>5 DEF Construct
<1>6. ASSUME NEW q \in Objects, NEW payload \in Payload, SetPayload(q, payload)
      PROVE  FALSE
  BY <1>2, <1>6, SettersKeepTheObject, NoMessageAssumption DEF SetPayload
<1>7. ASSUME NEW q \in Objects, NEW flag \in Flags, NEW text \in Texts,
             SetString(q, flag, text)
      PROVE  FALSE
  <2>1. q = o
    BY <1>1, <1>7 DEF SetString
  <2>. QED
    BY <1>7, <2>1, SettersKeepTheObject, NoMessageAssumption
<1>8. ASSUME NEW q \in Objects, NEW text \in Texts,
             (\E flag \in StringFlags : SetString(q, flag, text)) \/ SetHeaders(q, text)
      PROVE  FALSE
  BY <1>7, <1>8 DEF SetHeaders, Flags
<1>9. ASSUME NEW q \in Objects, NEW time \in Times, SetTimestamp(q, time)
      PROVE  FALSE
  <2>1. q = o
    BY <1>1, <1>9 DEF SetTimestamp
  <2>. QED
    BY <1>9, <2>1, SettersKeepTheObject, NoMessageAssumption
<1>10. ASSUME NEW q \in Objects, NEW from \in Objects, Copy(q, from) \/ Assign(q, from)
       PROVE  FALSE
  BY <1>1, <1>10 DEF Copy, Assign, Exists, Writable
<1>11. ASSUME NEW q \in Objects, Receive(q)
       PROVE  FALSE
  BY <1>1, <1>2, <1>11 DEF Receive
<1>12. CASE DestroyEnvelope
  <2>1. envelope = o
    BY <1>1, <1>2, <1>12 DEF DestroyEnvelope, MessageInv, EnvelopeInv, WithBodies, Messages
  <2>2. mem' = [p \in live \ ({obj[o].m_body} \cup HeadersOf(obj[o].m_properties)) |-> mem[p]]
    BY <1>12, <2>1 DEF DestroyEnvelope, free
  <2>. QED
    BY <2>2 DEF live
<1>13. ASSUME NEW q \in Objects, Destroy(q)
       PROVE  obj[o].m_body \notin live'
  <2>1. Destroy(o)
    BY <1>2, <1>13 DEF Destroy
  <2>2. mem' = [p \in live \ {obj[o].m_body} |-> mem[p]]
    BY <1>1, <2>1 DEF Destroy, free
  <2>. QED
    BY <2>2 DEF live
<1>. QED
  BY <1>3, <1>4, <1>5, <1>6, <1>8, <1>9, <1>10, <1>11, <1>12, <1>13
  DEF Next, Send, DropString, PublishFails, Publish, Purge

(* Only SetPayload loses a buffer: ~Message() and the pops free what they   *)
(* give up, and no other step gives anything up.                            *)
THEOREM LeaksOnlyInSetPayload ==
  ASSUME Careful
  PROVE  Spec => OnlySetPayloadLeaks
<1>. DEFINE Leak == \A p \in live : Owned(p) /\ p \in live' /\ ~Owned(p)' =>
                      \E o \in WithBodies : obj[o].m_body = p /\ obj'[o] # NoMessage
<1>1. ASSUME MessageInv, [Next]_vars
      PROVE  [Leak]_vars
  <2>1. CASE UNCHANGED vars
    BY <2>1
  <2>2. CASE Next
    <3>. SUFFICES ASSUME NEW p \in live, Owned(p), p \in live', ~Owned(p)'
                  PROVE  \E o \in WithBodies : obj[o].m_body = p /\ obj'[o] # NoMessage
      OBVIOUS
    <3>1. CASE \E i \in Slots : p \in Buffers(m_sendQueue[i])
      <4>1. \E j \in Slots' : p \in Buffers(m_sendQueue'[j])
        BY <1>1, <2>2, <3>1, QueueKeepsOrFrees
      <4>. QED
        BY <4>1 DEF Owned, Buffers
    <3>2. CASE \E o \in WithBodies : obj[o].m_body = p
      BY <1>1, <2>2, <3>2, GoneIsFreed
    <3>. QED
      BY <3>1, <3>2 DEF Owned
  <2>. QED
    BY <1>1, <2>1, <2>2
<1>. HIDE DEF Leak
<1>2. MessageInv /\ [Next]_vars => [Leak]_vars
  BY <1>1
<1>3. [][Leak]_vars <=> OnlySetPayloadLeaks
  BY DEF Leak, OnlySetPayloadLeaks
<1>. QED
  BY <1>2, <1>3, MessageInvariant, PTL DEF Spec
=============================================================================
