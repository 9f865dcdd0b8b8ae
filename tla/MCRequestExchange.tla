-------------------------- MODULE MCRequestExchange -------------------------
(* Objects for small instances of RequestExchange: every class, with its   *)
(* optional fields there and not there.                                    *)
EXTENDS RequestExchange

Name  == <<97, 98>>
Names == {<<>>, Name}
Content == <<1, 255>>
Large   == [i \in 1 .. 20 |-> i]   \* can be sent, its delivery not received
Huge    == [i \in 1 .. 40 |-> i]   \* cannot be sent

Queue(id)  == [id |-> id, name |-> Null]
Sender(id) == [id |-> id, name |-> Null]

Named(id)  == [id |-> id, name |-> Some(Name)]

Message(content, context) ==
  [id |-> 70000, queue |-> Some(Queue(7)), content |-> Some(content), prio |-> 2,
   sender |-> Some(Sender(300)), conversationContext |-> context]

Queries ==
  [queue: {Null, Some(Queue(7))}, sender: {Null, Some(Sender(300))},
   shouldOrderByPriority: {TRUE}, conversationContext: {Null}]
    \cup {[queue |-> Some(Queue(7)), sender |-> Null,
           shouldOrderByPriority |-> FALSE, conversationContext |-> Some(5)]}

SomeRequests ==
  Objects("CreateQueueRequest", {[queueName |-> Some(n)] : n \in Names})
    \cup Objects("DeleteQueueRequest", {[queue |-> Some(Queue(7))]})
    \cup Objects("DequeueMessageRequest", {[messageQueryInfo |-> Some(q)] : q \in Queries})
    \cup Objects("PeekMessageRequest",
           {[messageQueryInfo |-> Some(q)] : q \in {r \in Queries : r.sender = Null}})
    \cup Objects("QueuesWithPendingMessagesRequest", {[maxNumQueues |-> -1]})
    \cup Objects("RegistrationRequest", {[clientName |-> Some(Name)]})
    \cup Objects("LookupClientRequest", {[clientName |-> Some(Name)]})
    \cup Objects("LookupQueueRequest",
           {[queueName |-> Some(Name), clientId |-> Null],
            [queueName |-> Null, clientId |-> Some(300)]})
    \cup Objects("SendMessageRequest",
           {[queueIds |-> <<Some(7)>>, content |-> Some(c), prio |-> 2] :
              c \in {Content, Large, Huge}}
             \cup {[queueIds |-> <<Some(7), Some(300)>>, content |-> Some(<<>>), prio |-> 2]})
    \cup Objects("SendClientMessageRequest",
           {[clientId |-> 300, prio |-> 2, conversation |-> c # Null,
             conversationContext |-> c, content |-> Some(Content)] :
              c \in {Null, Some(5)}})

SomeResponses ==
  Objects("QueueResponse", {[queue |-> q] : q \in {Null, Some(Named(7))}})
    \cup Objects("ClientResponse", {[client |-> c] : c \in {Null, Some(Named(300))}})
    \cup Objects("DeleteQueueResponse", {<<>>})
    \cup Objects("SendMessageResponse", {<<>>})
    \cup Objects("ExceptionResponse", {[exception |-> Content]})
    \cup Objects("MessageResponse", {[messageDto |-> Null],
           [messageDto |-> Some(Message(Content, Null))],
           [messageDto |-> Some(Message(Large, Null))],
           [messageDto |-> Some(Message(Large, Some(5)))]})
    \cup Objects("QueuesWithPendingMessagesResponse",
           {[numMessagesInMyQueue |-> 2, queues |-> qs] :
              qs \in {<<>>, <<Some(Queue(7)), Some(Queue(8))>>}})
    \cup Objects("RegistrationResponse",
           {[clientDto |-> Some(Named(300)), isNewClient |-> b] : b \in BOOLEAN})
    \cup Objects("SendClientMessageResponse",
           {[conversationContext |-> c] : c \in {Null, Some(5)}})
=============================================================================
