-------------------------- MODULE RequestExchange ---------------------------
(***************************************************************************)
(* Requests and responses between a client and the broker, byte by byte:   *)
(* ClientConnection.submitRequest writes a request, the reactor collects   *)
(* it in the receive buffer of the ConnectedClient, a worker decodes it    *)
(* and answers, and the client collects the response in its ioBuffer.      *)
(*                                                                         *)
(* TCP delivers the bytes in pieces of any size.  Timeouts are left to     *)
(* ClientConnection, the ways of the buffers to BrokerPipeline.            *)
(***************************************************************************)
EXTENDS WireFormat

CONSTANTS
  Requests, Responses,  \* the objects exchanged
  MaxMessageSize,       \* capacity of the broker's buffers
  ClientCapacity,       \* capacity of the client's ioBuffer
  MaxPieces             \* bound: reads of one message

ASSUME ExchangeAssumption ==
  /\ Requests \subseteq RequestObject /\ Responses \subseteq ResponseObject
  /\ MaxMessageSize \in 0 .. MaxInt /\ ClientCapacity \in 0 .. MaxInt
  /\ MaxPieces \in Nat

NONE == [class |-> "none"]

VARIABLES
  pc,        \* "idle", "sending", "working", "replying", "silent" or "failed"
  request,   \* submitted by the client
  handed,    \* decoded by the worker
  response,  \* the worker's answer
  result,    \* what submitRequest returned last, and the answer it was to be
  stream,    \* bytes written to the socket and not yet read
  buffer,    \* the buffer that is read into: receive buffer or ioBuffer
  position,  \* of that buffer
  pieces     \* reads so far

vars == <<pc, request, handed, response, result, stream, buffer, position, pieces>>

Init ==
  /\ pc = "idle" /\ request = NONE /\ handed = NONE /\ response = NONE
  /\ result = <<NONE, NONE>>
  /\ stream = <<>> /\ buffer = <<>> /\ position = 0 /\ pieces = 0

-----------------------------------------------------------------------------
(* RequestProcessor.process: the class of the response to each request,    *)
(* to which ClientImpl casts it.                                           *)
AnswerTo ==
  [CreateQueueRequest |-> "QueueResponse",
   DeleteQueueRequest |-> "DeleteQueueResponse",
   DequeueMessageRequest |-> "MessageResponse",
   PeekMessageRequest |-> "MessageResponse",
   QueuesWithPendingMessagesRequest |-> "QueuesWithPendingMessagesResponse",
   RegistrationRequest |-> "RegistrationResponse",
   SendClientMessageRequest |-> "SendClientMessageResponse",
   SendMessageRequest |-> "SendMessageResponse",
   LookupQueueRequest |-> "QueueResponse",
   LookupClientRequest |-> "ClientResponse"]

(* read(buffer): the next n bytes go where the position is, over what is   *)
(* there.                                                                  *)
Fits(n, capacity) == pieces < MaxPieces /\ n <= capacity - position
Filled(n) == SubSeq(buffer, 1, position) \o SubSeq(stream, 1, n)
               \o SubSeq(buffer, position + n + 1, Len(buffer))
Take(n) == stream' = SubSeq(stream, n + 1, Len(stream))

(* A cleared buffer. *)
Clear == buffer' = <<>> /\ position' = 0 /\ pieces' = 0

-----------------------------------------------------------------------------
(* submitRequest: the whole request is written, through ioBuffer. *)
SubmitRequest(r) ==
  /\ pc = "idle"
  /\ LET frame == WithHeader(SerializeRequest(r))
     IN /\ Len(frame) <= ClientCapacity
        /\ stream' = frame
  /\ request' = r
  /\ pc' = "sending"
  /\ Clear
  /\ result' = <<NONE, NONE>>
  /\ UNCHANGED <<handed, response>>

(* BufferOverflowException: no request is sent, and the scenario gives up  *)
(* (ioBuffer keeps what was put into it, for a caller that would not).     *)
RequestTooLarge(r) ==
  /\ pc = "idle"
  /\ Len(WithHeader(SerializeRequest(r))) > ClientCapacity
  /\ pc' = "failed"
  /\ UNCHANGED <<request, handed, response, result, stream, buffer, position, pieces>>

(* selectRead and hasReceivedMessage: with the length there, the position  *)
(* goes to 4, for the worker or to no purpose.                             *)
SelectRead(n) ==
  /\ pc = "sending"
  /\ Fits(n, MaxMessageSize)
  /\ Take(n)
  /\ buffer' = Filled(n)
  /\ pieces' = pieces + 1
  /\ LET end == position + n
     IN IF end < HeaderLength
        THEN pc' = pc /\ position' = end
        ELSE /\ pc' = IF IntAt(buffer', 1) <= end - HeaderLength
                      THEN "working" ELSE pc
             /\ position' = HeaderLength
  /\ UNCHANGED <<request, handed, response, result>>

(* What the worker decodes, and the answers the processor may give.        *)
Received == DeserializeRequest(buffer, position + 1).value
Answers  == {r \in Responses :
               r.class \in {AnswerTo[Received.class], "ExceptionResponse"}}

(* The response is put into the buffer of the request and sent ...         *)
Respond ==
  /\ pc = "working"
  /\ handed' = Received
  /\ \E r \in Answers :
       /\ stream' = WithHeader(SerializeResponse(r))
       /\ Len(stream') <= MaxMessageSize
       /\ response' = r
  /\ pc' = "replying"
  /\ Clear
  /\ UNCHANGED <<request, result>>

(* ... unless it does not fit: then the client hears nothing.              *)
ResponseTooLarge ==
  /\ pc = "working"
  /\ \E r \in Answers : Len(WithHeader(SerializeResponse(r))) > MaxMessageSize
  /\ pc' = "silent"
  /\ UNCHANGED <<request, handed, response, result, stream, buffer, position, pieces>>

(* The loop of submitRequest: the response is not complete, and never will *)
(* be if it does not fit into ioBuffer ...                                 *)
Complete(b, end) == end >= HeaderLength /\ end >= HeaderLength + IntAt(b, 1)

ReadMore(n) ==
  /\ pc = "replying" /\ Fits(n, ClientCapacity)
  /\ ~Complete(Filled(n), position + n)
  /\ Take(n)
  /\ buffer' = Filled(n)
  /\ position' = position + n
  /\ pieces' = pieces + 1
  /\ UNCHANGED <<pc, request, handed, response, result>>

(* Mutation: the header is not consumed before ioBuffer is compacted. *)
ReadLastUnconsumed(n) ==
  /\ pc = "replying" /\ Fits(n, ClientCapacity)
  /\ Complete(Filled(n), position + n)
  /\ Take(n)
  /\ LET d == DeserializeResponse(Filled(n), HeaderLength + 1)
     IN /\ result'   = <<d.value, response>>
        /\ buffer'   = SubSeq(Filled(n), d.next - HeaderLength, position + n)
        /\ position' = Len(buffer')
  /\ pieces' = 0
  /\ pc' = "idle"
  /\ request' = NONE /\ handed' = NONE /\ response' = NONE

(* ... or it is: it is decoded, and ioBuffer compacted.                    *)
ReadLast(n) ==
  /\ pc = "replying" /\ Fits(n, ClientCapacity)
  /\ Complete(Filled(n), position + n)
  /\ Take(n)
  /\ LET d == DeserializeResponse(Filled(n), HeaderLength + 1)
     IN /\ result'   = <<d.value, response>>
        /\ buffer'   = SubSeq(Filled(n), d.next, position + n)
        /\ position' = Len(buffer')
  /\ pieces' = 0
  /\ pc' = "idle"
  /\ request' = NONE /\ handed' = NONE /\ response' = NONE

Reactor == \E n \in 1 .. Len(stream) : SelectRead(n)
Worker  == Respond \/ ResponseTooLarge
Client  == \/ \E r \in Requests : SubmitRequest(r) \/ RequestTooLarge(r)
           \/ \E n \in 1 .. Len(stream) : ReadMore(n) \/ ReadLast(n)

Next == Client \/ Reactor \/ Worker

Spec == Init /\ [][Next]_vars

-----------------------------------------------------------------------------
(* Properties *)

(* Types; the position is within what has been put into the buffer, and    *)
(* only bytes are.                                                         *)
TypeOK ==
  /\ pc \in {"idle", "sending", "working", "replying", "silent", "failed"}
  /\ request \in Requests \cup {NONE}
  /\ response \in Responses \cup {NONE}
  /\ \A i \in DOMAIN stream : stream[i] \in Byte
  /\ position \in 0 .. Len(buffer)
  /\ pieces \in 0 .. MaxPieces

(* What a worker processes is what the client submitted, field by field,   *)
(* wherever TCP cut the request, and whatever an earlier piece left in the *)
(* buffer; and what submitRequest returns is what the worker answered to   *)
(* this request, wherever TCP cut the response.                            *)
BothIntact ==
  /\ pc = "replying" => handed = request
  /\ result[1] = result[2]

(* A client that has read all of the response does not wait for more of    *)
(* it, and keeps none of it for the next one.                              *)
ResponseCompletes ==
  /\ pc = "replying" => stream # <<>>
  /\ pc = "idle" => stream = <<>> /\ position = 0

(* "Not quite enough data received" (ConnectedClient:91) is said only      *)
(* until all of the request is there: the broker does not wait for more.   *)
RequestCompletes == pc = "sending" => stream # <<>>
=============================================================================
