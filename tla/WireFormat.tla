----------------------------- MODULE WireFormat -----------------------------
(***************************************************************************)
(* Requests and responses as bytes: what serialize() of each class puts    *)
(* into a buffer and deserialize() takes out of it.                        *)
(*                                                                         *)
(* An object is its class and a record of its fields; a value that may be  *)
(* null is a sequence of at most one, a String its bytes.  Put... are the  *)
(* bytes of a value, Get... the value found at a position of a buffer and  *)
(* the position after it.  Numbers have their Java width, four or eight    *)
(* bytes, high byte first.                                                 *)
(***************************************************************************)
EXTENDS Integers, Sequences, SequencesExt

Byte    == 0 .. 255
MaxInt  == 2147483647
JavaInt == -MaxInt - 1 .. MaxInt

Null    == <<>>
Some(v) == <<v>>

(* Java arrays, and values that may be null.                               *)
Array(S)  == {s \in Seq(S) : Len(s) <= MaxInt}
OrNull(S) == {s \in Seq(S) : Len(s) <= 1}
String    == OrNull(Array(Byte))

(* What was read, and the position after it. *)
Got(v, p) == [value |-> v, next |-> p]

-----------------------------------------------------------------------------
(* ByteBuffer and ByteBufferUtil.                                          *)

(* Mutation: a byte keeps what does not fit into it. *)
Int32Untruncated(i) ==
  LET i1 == i \div 256
      i2 == i1 \div 256
  IN  <<i2 \div 256, i2, i1, i>>

(* putInt and getInt. *)
Int32(i) ==
  LET i1 == i \div 256
      i2 == i1 \div 256
  IN  <<(i2 \div 256) % 256, i2 % 256, i1 % 256, i % 256>>

IntAt(b, p) ==
  LET high == IF b[p] > 127 THEN b[p] - 256 ELSE b[p]
  IN  ((high * 256 + b[p + 1]) * 256 + b[p + 2]) * 256 + b[p + 3]

GetInt(b, p) == Got(IntAt(b, p), p + 4)

(* A long within the range of TLC's integers is a sign-extended int. *)
PutLong(l) == (IF l < 0 THEN <<255, 255, 255, 255>> ELSE <<0, 0, 0, 0>>) \o Int32(l)
GetLong(b, p) == Got(IntAt(b, p + 4), p + 8)

TrueByte  == 0
FalseByte == 255

PutBoolean(v) == <<IF v THEN TrueByte ELSE FalseByte>>
GetBoolean(b, p) == Got(b[p] = TrueByte, p + 1)

(* A byte array or a String: the length first, -1 for null. *)
PutBytes(v) == IF v = Null THEN Int32(-1) ELSE Int32(Len(v[1])) \o v[1]
GetBytes(b, p) ==
  LET n == IntAt(b, p)
  IN  IF n >= 0 THEN Got(Some(SubSeq(b, p + 4, p + 3 + n)), p + 4 + n)
                ELSE Got(Null, p + 4)

(* What else may be null has a flag before it. *)
PutNullable(Put(_), v) ==
  IF v = Null THEN <<FalseByte>> ELSE <<TrueByte>> \o Put(v[1])
GetNullable(Get(_, _), b, p) ==
  IF b[p] = TrueByte
  THEN LET r == Get(b, p + 1) IN Got(Some(r.value), r.next)
  ELSE Got(Null, p + 1)

PutInteger(v)       == PutNullable(Int32, v)
GetInteger(b, p)    == GetNullable(GetInt, b, p)
PutLongObject(v)    == PutNullable(PutLong, v)
GetLongObject(b, p) == GetNullable(GetLong, b, p)

(* A list: its length, and the items one after the other.                  *)
PutList(Put(_), v) == Int32(Len(v)) \o FlattenSeq([i \in DOMAIN v |-> Put(v[i])])
GetList(Get(_, _), b, p) ==
  LET n == IntAt(b, p)
      start[i \in 0 .. n] == IF i = 0 THEN p + 4 ELSE Get(b, start[i - 1]).next
  IN  IF n <= 0 THEN Got(<<>>, p + 4)
      ELSE Got([i \in 1 .. n |-> Get(b, start[i - 1]).value], start[n])

(* What an ObjectOutputStream writes is opaque.                            *)
PutAny(v) == Int32(Len(v)) \o v
GetAny(b, p) == LET r == GetBytes(b, p) IN Got(r.value[1], r.next)

-----------------------------------------------------------------------------
(* Data transfer objects.                                                  *)

QueueDto == [id : JavaInt, name : String]
PutQueueDto(q) == PutLong(q.id) \o PutBytes(q.name)
GetQueueDto(b, p) ==
  LET id   == GetLong(b, p)
      name == GetBytes(b, id.next)
  IN  Got([id |-> id.value, name |-> name.value], name.next)

ClientDto == [id : JavaInt, name : String]
PutClientDto(c) == PutLong(c.id) \o PutBytes(c.name)
GetClientDto(b, p) ==
  LET id   == GetLong(b, p)
      name == GetBytes(b, id.next)
  IN  Got([id |-> id.value, name |-> name.value], name.next)

PutQueue(v)     == PutNullable(PutQueueDto, v)
GetQueue(b, p)  == GetNullable(GetQueueDto, b, p)
PutClient(v)    == PutNullable(PutClientDto, v)
GetClient(b, p) == GetNullable(GetClientDto, b, p)

MessageDto ==
  [id : JavaInt, queue : OrNull(QueueDto), content : String, prio : JavaInt,
   sender : OrNull(ClientDto), conversationContext : OrNull(JavaInt)]
PutMessageDto(m) ==
  PutLong(m.id) \o PutQueue(m.queue) \o PutBytes(m.content) \o Int32(m.prio)
    \o PutClient(m.sender) \o PutInteger(m.conversationContext)
GetMessageDto(b, p) ==
  LET id      == GetLong(b, p)
      queue   == GetQueue(b, id.next)
      content == GetBytes(b, queue.next)
      prio    == GetInt(b, content.next)
      sender  == GetClient(b, prio.next)
      context == GetInteger(b, sender.next)
  IN  Got([id |-> id.value, queue |-> queue.value, content |-> content.value,
           prio |-> prio.value, sender |-> sender.value,
           conversationContext |-> context.value], context.next)

MessageQueryInfoDto ==
  [queue : OrNull(QueueDto), sender : OrNull(ClientDto),
   shouldOrderByPriority : BOOLEAN, conversationContext : OrNull(JavaInt)]
PutMessageQueryInfoDto(q) ==
  PutQueue(q.queue) \o PutClient(q.sender) \o PutBoolean(q.shouldOrderByPriority)
    \o PutInteger(q.conversationContext)

(* Mutation: deserialize() reads the sender first. *)
GetMessageQueryInfoDtoSwapped(b, p) ==
  LET sender  == GetClient(b, p)
      queue   == GetQueue(b, sender.next)
      order   == GetBoolean(b, queue.next)
      context == GetInteger(b, order.next)
  IN  Got([queue |-> queue.value, sender |-> sender.value,
           shouldOrderByPriority |-> order.value,
           conversationContext |-> context.value], context.next)

GetMessageQueryInfoDto(b, p) ==
  LET queue   == GetQueue(b, p)
      sender  == GetClient(b, queue.next)
      order   == GetBoolean(b, sender.next)
      context == GetInteger(b, order.next)
  IN  Got([queue |-> queue.value, sender |-> sender.value,
           shouldOrderByPriority |-> order.value,
           conversationContext |-> context.value], context.next)

PutQuery(v)    == PutNullable(PutMessageQueryInfoDto, v)
GetQuery(b, p) == GetNullable(GetMessageQueryInfoDto, b, p)
PutMessage(v)    == PutNullable(PutMessageDto, v)
GetMessage(b, p) == GetNullable(GetMessageDto, b, p)

-----------------------------------------------------------------------------
(* The fields of each request ...                                          *)

PutCreateQueueRequest(f) == PutBytes(f.queueName)
GetCreateQueueRequest(b, p) ==
  LET name == GetBytes(b, p) IN Got([queueName |-> name.value], name.next)

PutDeleteQueueRequest(f) == PutQueue(f.queue)
GetDeleteQueueRequest(b, p) ==
  LET queue == GetQueue(b, p) IN Got([queue |-> queue.value], queue.next)

PutDequeueMessageRequest(f) == PutQuery(f.messageQueryInfo)
GetDequeueMessageRequest(b, p) ==
  LET query == GetQuery(b, p) IN Got([messageQueryInfo |-> query.value], query.next)

PutPeekMessageRequest(f) == PutQuery(f.messageQueryInfo)
GetPeekMessageRequest(b, p) ==
  LET query == GetQuery(b, p) IN Got([messageQueryInfo |-> query.value], query.next)

PutQueuesWithPendingMessagesRequest(f) == Int32(f.maxNumQueues)
GetQueuesWithPendingMessagesRequest(b, p) ==
  LET max == GetInt(b, p) IN Got([maxNumQueues |-> max.value], max.next)

PutRegistrationRequest(f) == PutBytes(f.clientName)
GetRegistrationRequest(b, p) ==
  LET name == GetBytes(b, p) IN Got([clientName |-> name.value], name.next)

PutLookupClientRequest(f) == PutBytes(f.clientName)
GetLookupClientRequest(b, p) ==
  LET name == GetBytes(b, p) IN Got([clientName |-> name.value], name.next)

PutLookupQueueRequest(f) == PutBytes(f.queueName) \o PutLongObject(f.clientId)
GetLookupQueueRequest(b, p) ==
  LET name   == GetBytes(b, p)
      client == GetLongObject(b, name.next)
  IN  Got([queueName |-> name.value, clientId |-> client.value], client.next)

PutSendClientMessageRequest(f) ==
  PutLong(f.clientId) \o Int32(f.prio) \o PutBoolean(f.conversation)
    \o PutLongObject(f.conversationContext) \o PutBytes(f.content)
GetSendClientMessageRequest(b, p) ==
  LET client       == GetLong(b, p)
      prio         == GetInt(b, client.next)
      conversation == GetBoolean(b, prio.next)
      context      == GetLongObject(b, conversation.next)
      content      == GetBytes(b, context.next)
  IN  Got([clientId |-> client.value, prio |-> prio.value,
           conversation |-> conversation.value,
           conversationContext |-> context.value, content |-> content.value],
          content.next)

PutSendMessageRequest(f) ==
  PutList(PutLongObject, f.queueIds) \o PutBytes(f.content) \o Int32(f.prio)
GetSendMessageRequest(b, p) ==
  LET queues  == GetList(GetLongObject, b, p)
      content == GetBytes(b, queues.next)
      prio    == GetInt(b, content.next)
  IN  Got([queueIds |-> queues.value, content |-> content.value, prio |-> prio.value],
          prio.next)

(* ... and of each response.                                               *)

PutClientResponse(f) == PutClient(f.client)
GetClientResponse(b, p) ==
  LET client == GetClient(b, p) IN Got([client |-> client.value], client.next)

PutQueueResponse(f) == PutQueue(f.queue)
GetQueueResponse(b, p) ==
  LET queue == GetQueue(b, p) IN Got([queue |-> queue.value], queue.next)

PutExceptionResponse(f) == PutAny(f.exception)
GetExceptionResponse(b, p) ==
  LET exception == GetAny(b, p) IN Got([exception |-> exception.value], exception.next)

PutMessageResponse(f) == PutMessage(f.messageDto)
GetMessageResponse(b, p) ==
  LET message == GetMessage(b, p) IN Got([messageDto |-> message.value], message.next)

PutQueuesWithPendingMessagesResponse(f) ==
  Int32(f.numMessagesInMyQueue) \o PutList(PutQueue, f.queues)
GetQueuesWithPendingMessagesResponse(b, p) ==
  LET number == GetInt(b, p)
      queues == GetList(GetQueue, b, number.next)
  IN  Got([numMessagesInMyQueue |-> number.value, queues |-> queues.value], queues.next)

PutRegistrationResponse(f) == PutClient(f.clientDto) \o PutBoolean(f.isNewClient)
GetRegistrationResponse(b, p) ==
  LET client == GetClient(b, p)
      new    == GetBoolean(b, client.next)
  IN  Got([clientDto |-> client.value, isNewClient |-> new.value], new.next)

PutSendClientMessageResponse(f) == PutLongObject(f.conversationContext)
GetSendClientMessageResponse(b, p) ==
  LET context == GetLongObject(b, p)
  IN  Got([conversationContext |-> context.value], context.next)

(* DeleteQueueResponse and SendMessageResponse have none.                  *)
GetNothing(b, p) == Got(<<>>, p)

-----------------------------------------------------------------------------
(* RequestResponseFactory: the type ids, which are the serialVersionUIDs   *)
(* cast to int.                                                            *)
RequestTypes ==
  [CreateQueueRequest |-> 1697418827,
   DeleteQueueRequest |-> 134725004,
   DequeueMessageRequest |-> 604569271,
   PeekMessageRequest |-> -1791958407,
   QueuesWithPendingMessagesRequest |-> 1367616501,
   RegistrationRequest |-> -337807175,
   SendClientMessageRequest |-> -1650312686,
   SendMessageRequest |-> 1707814548,
   LookupQueueRequest |-> -2093177304,
   LookupClientRequest |-> -2093177305]

ResponseTypes ==
  [ClientResponse |-> 419233248,
   QueueResponse |-> -737083936,
   DeleteQueueResponse |-> 1028194166,
   ExceptionResponse |-> -1691128493,
   MessageResponse |-> -1232061587,
   QueuesWithPendingMessagesResponse |-> 1368665514,
   RegistrationResponse |-> 164070888,
   SendClientMessageResponse |-> 1330235140,
   SendMessageResponse |-> -2058348954]

Object(class, fields) == [class |-> class, fields |-> fields]
Objects(class, fields) == [class : {class}, fields : fields]

RequestObject ==
  Objects("CreateQueueRequest", [queueName : String])
    \cup Objects("DeleteQueueRequest", [queue : OrNull(QueueDto)])
    \cup Objects("DequeueMessageRequest", [messageQueryInfo : OrNull(MessageQueryInfoDto)])
    \cup Objects("PeekMessageRequest", [messageQueryInfo : OrNull(MessageQueryInfoDto)])
    \cup Objects("QueuesWithPendingMessagesRequest", [maxNumQueues : JavaInt])
    \cup Objects("RegistrationRequest", [clientName : String])
    \cup Objects("SendClientMessageRequest",
           [clientId : JavaInt, prio : JavaInt, conversation : BOOLEAN,
            conversationContext : OrNull(JavaInt), content : String])
    \cup Objects("SendMessageRequest",
           [queueIds : Array(OrNull(JavaInt)), content : String, prio : JavaInt])
    \cup Objects("LookupQueueRequest", [queueName : String, clientId : OrNull(JavaInt)])
    \cup Objects("LookupClientRequest", [clientName : String])

ResponseObject ==
  Objects("ClientResponse", [client : OrNull(ClientDto)])
    \cup Objects("QueueResponse", [queue : OrNull(QueueDto)])
    \cup Objects("DeleteQueueResponse", {<<>>})
    \cup Objects("ExceptionResponse", [exception : Array(Byte)])
    \cup Objects("MessageResponse", [messageDto : OrNull(MessageDto)])
    \cup Objects("QueuesWithPendingMessagesResponse",
           [numMessagesInMyQueue : JavaInt, queues : Array(OrNull(QueueDto))])
    \cup Objects("RegistrationResponse",
           [clientDto : OrNull(ClientDto), isNewClient : BOOLEAN])
    \cup Objects("SendClientMessageResponse", [conversationContext : OrNull(JavaInt)])
    \cup Objects("SendMessageResponse", {<<>>})

(* serialize and deserialize of each class.                                *)
PutRequest(class, f) ==
  CASE class = "CreateQueueRequest"    -> PutCreateQueueRequest(f)
    [] class = "DeleteQueueRequest"    -> PutDeleteQueueRequest(f)
    [] class = "DequeueMessageRequest" -> PutDequeueMessageRequest(f)
    [] class = "PeekMessageRequest"    -> PutPeekMessageRequest(f)
    [] class = "QueuesWithPendingMessagesRequest" -> PutQueuesWithPendingMessagesRequest(f)
    [] class = "RegistrationRequest"   -> PutRegistrationRequest(f)
    [] class = "SendClientMessageRequest" -> PutSendClientMessageRequest(f)
    [] class = "SendMessageRequest"    -> PutSendMessageRequest(f)
    [] class = "LookupQueueRequest"    -> PutLookupQueueRequest(f)
    [] class = "LookupClientRequest"   -> PutLookupClientRequest(f)

GetRequest(class, b, p) ==
  CASE class = "CreateQueueRequest"    -> GetCreateQueueRequest(b, p)
    [] class = "DeleteQueueRequest"    -> GetDeleteQueueRequest(b, p)
    [] class = "DequeueMessageRequest" -> GetDequeueMessageRequest(b, p)
    [] class = "PeekMessageRequest"    -> GetPeekMessageRequest(b, p)
    [] class = "QueuesWithPendingMessagesRequest" -> GetQueuesWithPendingMessagesRequest(b, p)
    [] class = "RegistrationRequest"   -> GetRegistrationRequest(b, p)
    [] class = "SendClientMessageRequest" -> GetSendClientMessageRequest(b, p)
    [] class = "SendMessageRequest"    -> GetSendMessageRequest(b, p)
    [] class = "LookupQueueRequest"    -> GetLookupQueueRequest(b, p)
    [] class = "LookupClientRequest"   -> GetLookupClientRequest(b, p)

PutResponse(class, f) ==
  CASE class = "ClientResponse"      -> PutClientResponse(f)
    [] class = "QueueResponse"       -> PutQueueResponse(f)
    [] class = "ExceptionResponse"   -> PutExceptionResponse(f)
    [] class = "MessageResponse"     -> PutMessageResponse(f)
    [] class = "QueuesWithPendingMessagesResponse" -> PutQueuesWithPendingMessagesResponse(f)
    [] class = "RegistrationResponse" -> PutRegistrationResponse(f)
    [] class = "SendClientMessageResponse" -> PutSendClientMessageResponse(f)
    [] class \in {"DeleteQueueResponse", "SendMessageResponse"} -> <<>>

GetResponse(class, b, p) ==
  CASE class = "ClientResponse"      -> GetClientResponse(b, p)
    [] class = "QueueResponse"       -> GetQueueResponse(b, p)
    [] class = "ExceptionResponse"   -> GetExceptionResponse(b, p)
    [] class = "MessageResponse"     -> GetMessageResponse(b, p)
    [] class = "QueuesWithPendingMessagesResponse" -> GetQueuesWithPendingMessagesResponse(b, p)
    [] class = "RegistrationResponse" -> GetRegistrationResponse(b, p)
    [] class = "SendClientMessageResponse" -> GetSendClientMessageResponse(b, p)
    [] class \in {"DeleteQueueResponse", "SendMessageResponse"} -> GetNothing(b, p)

(* serializeRequest, deserializeRequest; the class is the one that is      *)
(* registered under the type id.                                           *)
ClassOf(types, id) == CHOOSE n \in DOMAIN types : types[n] = id

SerializeRequest(o) == Int32(RequestTypes[o.class]) \o PutRequest(o.class, o.fields)
DeserializeRequest(b, p) ==
  LET class == ClassOf(RequestTypes, IntAt(b, p))
      body  == GetRequest(class, b, p + 4)
  IN  Got(Object(class, body.value), body.next)

SerializeResponse(o) == Int32(ResponseTypes[o.class]) \o PutResponse(o.class, o.fields)
DeserializeResponse(b, p) ==
  LET class == ClassOf(ResponseTypes, IntAt(b, p))
      body  == GetResponse(class, b, p + 4)
  IN  Got(Object(class, body.value), body.next)

HeaderLength == 4

(* serialize...WithHeader: the number of bytes that follow, and these.     *)
WithHeader(payload) == Int32(Len(payload)) \o payload
=============================================================================
