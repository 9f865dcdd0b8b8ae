------------------------------ MODULE Registry ------------------------------
(***************************************************************************)
(* Clients, their queues and public queues, as the requests of several     *)
(* connections (of one broker or several) create, find and delete them.    *)
(*                                                                         *)
(* Registration, createQueue and a message to a client each take two or    *)
(* three statements, committed one by one: between them the requests of    *)
(* other connections run, and a failure leaves what was done.              *)
(*                                                                         *)
(* Answers are left out, and with them the look-ups, which change nothing; *)
(* that a registration succeeded shows in the context of the connection.   *)
(***************************************************************************)
EXTENDS Naturals, FiniteSets

CONSTANTS
  Connections,   \* client connections; each has one request in progress
  ClientNames,   \* names clients register under
  QueueNames,    \* names createQueue is asked for
  NONE,          \* no name
  MaxIds,        \* bound: values drawn from either sequence
  MaxFailures    \* bound: statements that fail

Names == ClientNames \cup QueueNames
Ids   == 1 .. MaxIds
Null  == 0

ASSUME RegistryAssumption ==
  MaxIds \in Nat /\ MaxFailures \in Nat /\ NONE \notin Names

VARIABLES
  client,      \* table client
  queue,       \* table queue; client_id is Null for a public queue
  message,     \* table message, and the client each was sent to
  lastClient,  \* sequence client_id
  lastQueue,   \* sequence queue_id
  pc,          \* the next statement of each connection's request
  name,        \* the name it is about
  found,       \* the id its last statement returned
  to,          \* the client a message is for
  context,     \* ClientApplicationContext
  failures

tables   == <<client, queue, message, lastClient, lastQueue>>
requests == <<pc, name, found, to>>
vars     == <<tables, requests, context, failures>>

ClientRow  == [id: Ids, name: ClientNames]
QueueRow   == [id: Ids, name: Names, client_id: Ids \cup {Null}]
MessageRow == [queue_id: Ids, sender: Ids, to: Ids]
NoContext  == [client |-> Null, name |-> NONE, queue |-> Null]

Init ==
  /\ client = {} /\ queue = {} /\ message = {}
  /\ lastClient = 0 /\ lastQueue = 0
  /\ pc      = [c \in Connections |-> "idle"]
  /\ name    = [c \in Connections |-> NONE]
  /\ found   = [c \in Connections |-> Null]
  /\ to      = [c \in Connections |-> Null]
  /\ context = [c \in Connections |-> NoContext]
  /\ failures = 0

-----------------------------------------------------------------------------
IsRegistered(c) == context[c].queue # Null

(* The request of connection c is answered. *)
Answer(c) ==
  /\ pc'     = [pc EXCEPT ![c] = "idle"]
  /\ name'   = [name EXCEPT ![c] = NONE]
  /\ found'  = [found EXCEPT ![c] = Null]
  /\ to'     = [to EXCEPT ![c] = Null]

(* The request goes on with statement s, having found id i. *)
GoOn(c, s, i) ==
  /\ pc'    = [pc EXCEPT ![c] = s]
  /\ found' = [found EXCEPT ![c] = i]

ClientsNamed(n) == {r \in client : r.name = n}
QueuesNamed(n)  == {r \in queue : r.name = n}
QueuesOf(i)     == {r \in queue : r.client_id = i}

-----------------------------------------------------------------------------
(* Registration: getClientId(name) ...                                     *)
Register(c, n) ==
  /\ pc[c] = "idle"
  /\ name' = [name EXCEPT ![c] = n]
  /\ \/ ClientsNamed(n) = {} /\ GoOn(c, "insertClient", Null)
     \/ \E r \in ClientsNamed(n) : GoOn(c, "findQueue", r.id)
  /\ UNCHANGED <<tables, to, context, failures>>

(* ... createClient(name) if there is none: its INSERT draws an id before  *)
(* it finds that the name is taken by now ...                              *)
InsertClient(c) ==
  /\ pc[c] = "insertClient" /\ lastClient < MaxIds
  /\ lastClient' = lastClient + 1
  /\ \/ /\ ClientsNamed(name[c]) = {}
        /\ client' = client \cup {[id |-> lastClient', name |-> name[c]]}
        /\ GoOn(c, "insertClientQueue", lastClient')
        /\ UNCHANGED <<name, to>>
     \/ /\ ClientsNamed(name[c]) # {}
        /\ Answer(c)
        /\ UNCHANGED client
  /\ UNCHANGED <<queue, message, lastQueue, context, failures>>

(* createQueue(client, name), for registration and for public queues.      *)
InsertQueue(c, owner) ==
  /\ lastQueue < MaxIds
  /\ lastQueue' = lastQueue + 1
  /\ IF QueuesNamed(name[c]) = {}
     THEN queue' = queue \cup
            {[id |-> lastQueue', name |-> name[c], client_id |-> owner]}
     ELSE UNCHANGED queue
  /\ UNCHANGED <<client, message, lastClient>>

SetContext(c, i, q) ==
  context' = [context EXCEPT ![c] =
                [client |-> i, name |-> name[c], queue |-> q]]

(* ... and its queue, which gets the name of the client.  If that fails    *)
(* the client stays, without a queue.                                      *)
InsertClientQueue(c) ==
  /\ pc[c] = "insertClientQueue"
  /\ InsertQueue(c, found[c])
  /\ \/ /\ QueuesNamed(name[c]) = {}
        /\ SetContext(c, found[c], lastQueue')
        /\ Answer(c)
     \/ /\ QueuesNamed(name[c]) # {}
        /\ Answer(c)
        /\ UNCHANGED context
  /\ UNCHANGED failures

(* Mutation: the queue is looked up by the name of the client. *)
FindQueueByName(c) ==
  /\ pc[c] = "findQueue"
  /\ \/ /\ QueuesNamed(name[c]) = {}
        /\ Answer(c)
        /\ UNCHANGED context
     \/ \E r \in QueuesNamed(name[c]) :
          SetContext(c, found[c], r.id) /\ Answer(c)
  /\ UNCHANGED <<tables, failures>>

(* Mutation: a client without a queue is welcome all the same. *)
FindQueueOrNone(c) ==
  /\ pc[c] = "findQueue"
  /\ \/ /\ QueuesOf(found[c]) = {}
        /\ SetContext(c, found[c], Null)
        /\ Answer(c)
     \/ \E r \in QueuesOf(found[c]) :
          SetContext(c, found[c], r.id) /\ Answer(c)
  /\ UNCHANGED <<tables, failures>>

(* "Welcome back": a known client's queue, unless it has none (any more).  *)
FindQueue(c) ==
  /\ pc[c] = "findQueue"
  /\ \/ /\ QueuesOf(found[c]) = {}
        /\ Answer(c)
        /\ UNCHANGED context
     \/ \E r \in QueuesOf(found[c]) :
          SetContext(c, found[c], r.id) /\ Answer(c)
  /\ UNCHANGED <<tables, failures>>

-----------------------------------------------------------------------------
(* Public queues. *)

(* createQueue: nothing to do if there is a queue of that name, of whoever *)
(* it is.                                                                  *)
CreateQueue(c, n) ==
  /\ pc[c] = "idle" /\ IsRegistered(c)
  /\ QueuesNamed(n) = {}
  /\ name' = [name EXCEPT ![c] = n]
  /\ GoOn(c, "insertQueue", Null)
  /\ UNCHANGED to
  /\ UNCHANGED <<tables, context, failures>>

(* Mutation: a public queue belongs to the client that creates it. *)
InsertOwnQueue(c) ==
  /\ pc[c] = "insertQueue"
  /\ InsertQueue(c, context[c].client)
  /\ Answer(c)
  /\ UNCHANGED <<context, failures>>

InsertPublicQueue(c) ==
  /\ pc[c] = "insertQueue"
  /\ InsertQueue(c, Null)
  /\ Answer(c)
  /\ UNCHANGED <<context, failures>>

(* Any client may delete any queue; its messages go with it.               *)
DeleteQueue(c, i) ==
  /\ pc[c] = "idle" /\ IsRegistered(c)
  /\ queue'   = {r \in queue : r.id # i}
  /\ message' = {m \in message : m.queue_id # i}
  /\ Answer(c)
  /\ UNCHANGED <<client, lastClient, lastQueue, context, failures>>

-----------------------------------------------------------------------------
(* A message to a client: its queue is looked up, and the message inserted *)
(* with another statement; the queue may have been deleted by then.        *)
SendToClient(c, i) ==
  /\ pc[c] = "idle" /\ IsRegistered(c)
  /\ \E r \in QueuesOf(i) : GoOn(c, "insertMessage", r.id)
  /\ to' = [to EXCEPT ![c] = i]
  /\ UNCHANGED name
  /\ UNCHANGED <<tables, context, failures>>

(* Mutation: no foreign key on message.queue_id. *)
InsertMessageAnyway(c) ==
  /\ pc[c] = "insertMessage"
  /\ message' = message \cup
       {[queue_id |-> found[c], sender |-> context[c].client, to |-> to[c]]}
  /\ Answer(c)
  /\ UNCHANGED <<client, queue, lastClient, lastQueue, context, failures>>

InsertMessage(c) ==
  /\ pc[c] = "insertMessage"
  /\ \/ /\ \E r \in queue : r.id = found[c]
        /\ message' = message \cup
             {[queue_id |-> found[c], sender |-> context[c].client, to |-> to[c]]}
        /\ Answer(c)
     \/ /\ \A r \in queue : r.id # found[c]
        /\ Answer(c)
        /\ UNCHANGED message
  /\ UNCHANGED <<client, queue, lastClient, lastQueue, context, failures>>

-----------------------------------------------------------------------------
(* A statement fails, or the broker does, before it took effect ...        *)
StatementFails(c) ==
  /\ pc[c] # "idle" /\ failures < MaxFailures
  /\ failures' = failures + 1
  /\ Answer(c)
  /\ UNCHANGED <<tables, context>>

(* ... or after: the INSERT of the client's queue is not acknowledged.     *)
QueueInsertLost(c) ==
  /\ pc[c] = "insertClientQueue" /\ failures < MaxFailures
  /\ failures' = failures + 1
  /\ InsertQueue(c, found[c])
  /\ Answer(c)
  /\ UNCHANGED context

(* The client closes its connection, and opens another that takes its place. *)
Reconnect(c) ==
  /\ pc[c] = "idle"
  /\ context' = [context EXCEPT ![c] = NoContext]
  /\ UNCHANGED <<tables, requests, failures>>

-----------------------------------------------------------------------------
Registration(c) == \/ \E n \in ClientNames : Register(c, n)
                   \/ InsertClient(c) \/ InsertClientQueue(c) \/ FindQueue(c)

Queues(c) == \/ \E n \in QueueNames : CreateQueue(c, n)
             \/ InsertPublicQueue(c)
             \/ \E i \in Ids : DeleteQueue(c, i)

Sending(c) == (\E i \in Ids : SendToClient(c, i)) \/ InsertMessage(c)

Failing(c) == StatementFails(c) \/ QueueInsertLost(c)

Next == \E c \in Connections :
          \/ Registration(c) \/ Queues(c) \/ Sending(c)
          \/ Failing(c) \/ Reconnect(c)

Spec == Init /\ [][Next]_vars

-----------------------------------------------------------------------------
(* Properties *)

Statements == {"idle", "insertClient", "insertClientQueue", "findQueue",
               "insertQueue", "insertMessage"}
Contexts == [client: Ids, name: ClientNames, queue: Ids] \cup {NoContext}

(* Types; a context is either complete or empty.                           *)
TypeOK ==
  /\ client \subseteq ClientRow /\ queue \subseteq QueueRow
  /\ message \subseteq MessageRow
  /\ lastClient \in 0 .. MaxIds /\ lastQueue \in 0 .. MaxIds
  /\ pc \in [Connections -> Statements]
  /\ name \in [Connections -> Names \cup {NONE}]
  /\ found \in [Connections -> Ids \cup {Null}]
  /\ to \in [Connections -> Ids \cup {Null}]
  /\ context \in [Connections -> Contexts]
  /\ failures \in 0 .. MaxFailures

(* However registrations under one name interleave and fail, a client has  *)
(* one queue at most, so that messages to it and its own dequeues meet.    *)
OneQueuePerClient ==
  \A r, s \in queue : r.client_id = s.client_id /\ r.client_id # Null => r = s

(* A registered connection acts for the one client that is in the table    *)
(* under its name, and the queue it remembers is that client's, unless it  *)
(* has been deleted: never a public queue or that of another client, even  *)
(* if they share the name.                                                 *)
ContextSound ==
  \A c \in Connections : IsRegistered(c) =>
    /\ {k \in client : k.name = context[c].name}
         = {[id |-> context[c].client, name |-> context[c].name]}
    /\ \A r \in queue : r.id = context[c].queue
                          => r.client_id = context[c].client

(* A message to a client is in that client's queue or nowhere, also when   *)
(* the queue is deleted between its look-up and the INSERT.                *)
RightRecipient ==
  \A m \in message : \E r \in queue : r.id = m.queue_id /\ r.client_id = m.to
=============================================================================
