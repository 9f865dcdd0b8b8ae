--------------------------- MODULE RegistryProofs ---------------------------
(***************************************************************************)
(* Theorems about Registry, for any connections, names and bounds.         *)
(***************************************************************************)
EXTENDS Registry, TLAPS

(* The sequences never repeat an id, and no two clients share a name.      *)
KeysUnique ==
  /\ \A r \in client : r.id <= lastClient
  /\ \A r \in queue : r.id <= lastQueue /\ r.client_id <= lastClient
  /\ \A r, s \in client : r.id = s.id \/ r.name = s.name => r = s
  /\ \A r, s \in queue : r.id = s.id => r = s

(* A registration in progress is about a name; once it has found or made   *)
(* a client, about the row of that client.                                 *)
RequestSound ==
  \A c \in Connections :
    /\ pc[c] = "insertClient" => name[c] \in ClientNames
    /\ pc[c] = "insertQueue"  => name[c] \in Names
    /\ pc[c] \in {"insertClientQueue", "findQueue"} =>
         /\ name[c] \in ClientNames
         /\ [id |-> found[c], name |-> name[c]] \in client

(* Only the connection that inserted a client inserts its queue, once.     *)
OneInserter ==
  \A c \in Connections : pc[c] = "insertClientQueue" =>
    /\ \A r \in queue : r.client_id # found[c]
    /\ \A d \in Connections :
         pc[d] = "insertClientQueue" /\ found[d] = found[c] => d = c

(* The queue found for a message was drawn from the sequence, so no queue  *)
(* will get its id again; while it is there, it is the recipient's.        *)
SendingSound ==
  \A c \in Connections : pc[c] = "insertMessage" =>
    /\ IsRegistered(c) /\ to[c] # Null
    /\ found[c] # Null /\ found[c] <= lastQueue
    /\ \A r \in queue : r.id = found[c] => r.client_id = to[c]

(* A remembered queue was drawn from the sequence, too.                    *)
ContextKnown ==
  \A c \in Connections : IsRegistered(c) =>
    /\ [id |-> context[c].client, name |-> context[c].name] \in client
    /\ context[c].queue <= lastQueue
    /\ \A r \in queue : r.id = context[c].queue
                          => r.client_id = context[c].client

IInv ==
  /\ TypeOK /\ KeysUnique /\ RequestSound /\ OneInserter
  /\ SendingSound /\ ContextKnown /\ OneQueuePerClient /\ RightRecipient

-----------------------------------------------------------------------------
(* No table has a row, and no request is in progress.                      *)
LEMMA InitIInv == Init => IInv
BY RegistryAssumption DEF Init, IInv, TypeOK, KeysUnique, RequestSound, OneInserter,
   SendingSound, ContextKnown, OneQueuePerClient, RightRecipient, IsRegistered,
   NoContext, Ids, Names, Contexts, Statements, Null

-----------------------------------------------------------------------------
(* What the parts that several statements share do.                        *)

(* An answered connection has no request left, whatever it had.            *)
LEMMA Answered ==
  ASSUME TypeOK, NEW c \in Connections, Answer(c)
  PROVE  /\ pc' \in [Connections -> Statements]
         /\ name' \in [Connections -> Names \cup {NONE}]
         /\ found' \in [Connections -> Ids \cup {Null}]
         /\ to' \in [Connections -> Ids \cup {Null}]
         /\ pc'[c] = "idle"
         /\ \A d \in Connections \ {c} :
              /\ pc'[d] = pc[d] /\ name'[d] = name[d]
              /\ found'[d] = found[d] /\ to'[d] = to[d]
BY DEF TypeOK, Answer, Statements

(* createQueue draws an id, and adds one row at most, under that id.       *)
LEMMA QueueInserted ==
  ASSUME TypeOK, NEW c \in Connections, NEW owner \in Ids \cup {Null},
         name[c] \in Names, InsertQueue(c, owner)
  PROVE  /\ queue' \subseteq QueueRow
         /\ lastQueue' \in 0 .. MaxIds /\ lastQueue' \in Ids
         /\ lastQueue' = lastQueue + 1 /\ lastQueue \in Nat
         /\ \A r \in queue' \ queue : r.id = lastQueue' /\ r.client_id = owner
         /\ queue \subseteq queue'
         /\ UNCHANGED client /\ UNCHANGED message /\ UNCHANGED lastClient
<1>1. /\ lastQueue' \in 0 .. MaxIds /\ lastQueue' \in Ids
      /\ lastQueue' = lastQueue + 1 /\ lastQueue \in Nat
  BY RegistryAssumption DEF TypeOK, InsertQueue, Ids
<1>2. [id |-> lastQueue', name |-> name[c], client_id |-> owner] \in QueueRow
  BY <1>1 DEF QueueRow
<1> QED
  BY <1>1, <1>2 DEF TypeOK, InsertQueue

(* The new row disturbs neither the rows there are nor what others rely on. *)
LEMMA QueueInsertedSafely ==
  ASSUME IInv, NEW c \in Connections, NEW owner \in Ids \cup {Null},
         name[c] \in Names, InsertQueue(c, owner), owner <= lastClient,
         owner # Null => \A r \in queue : r.client_id # owner
  PROVE  KeysUnique' /\ OneQueuePerClient' /\ RightRecipient'
<1>1. /\ lastQueue' = lastQueue + 1 /\ lastQueue \in Nat
      /\ \A r \in queue' \ queue : r.id = lastQueue' /\ r.client_id = owner
      /\ queue \subseteq queue'
      /\ UNCHANGED client /\ UNCHANGED message /\ UNCHANGED lastClient
  BY QueueInserted DEF IInv
<1>2. \A r, s \in queue' \ queue : r = s
  BY DEF InsertQueue
<1>3. \A r \in queue : r.id \in Nat /\ r.id <= lastQueue /\ r.id # lastQueue'
  BY <1>1 DEF IInv, TypeOK, KeysUnique, QueueRow, Ids
<1>4. KeysUnique'
  BY <1>1, <1>2, <1>3 DEF IInv, KeysUnique
<1>5. OneQueuePerClient'
  BY <1>1, <1>2 DEF IInv, OneQueuePerClient
<1>6. RightRecipient'
  BY <1>1 DEF IInv, RightRecipient
<1> QED
  BY <1>4, <1>5, <1>6

(* What a connection remembers of a registration is complete.              *)
LEMMA Remembered ==
  ASSUME TypeOK, NEW c \in Connections, NEW i \in Ids, NEW q \in Ids,
         name[c] \in ClientNames, SetContext(c, i, q)
  PROVE  /\ context' \in [Connections -> Contexts]
         /\ context'[c] = [client |-> i, name |-> name[c], queue |-> q]
         /\ \A d \in Connections \ {c} : context'[d] = context[d]
BY DEF TypeOK, SetContext, Contexts

(* A registered connection acts for a client that has an id.               *)
LEMMA RegisteredClient ==
  ASSUME TypeOK, NEW c \in Connections, IsRegistered(c)
  PROVE  /\ context[c].client \in Ids /\ context[c].queue \in Ids
         /\ context[c].queue \in Nat
<1>1. context[c].client \in Ids /\ context[c].queue \in Ids
  BY DEF TypeOK, IsRegistered, Contexts, NoContext
<1> QED
  BY <1>1 DEF Ids

(* The ids in the tables are not Null.                                     *)
LEMMA RowIds ==
  ASSUME TypeOK
  PROVE  /\ \A r \in client : r.id \in Ids /\ r.name \in ClientNames
         /\ \A r \in queue : r.id \in Ids /\ r.client_id \in Ids \cup {Null}
         /\ Null \notin Ids
BY RegistryAssumption DEF TypeOK, ClientRow, QueueRow, Ids, Null

(* An answer without effect, whatever the statement before it found.       *)
LEMMA AnswerPreserves ==
  ASSUME IInv, NEW c \in Connections, Answer(c),
         UNCHANGED <<tables, context>>, failures' \in 0 .. MaxFailures
  PROVE  IInv'
<1> USE DEF tables
<1>1. TypeOK'
  BY Answered DEF IInv, TypeOK
<1>2. KeysUnique' /\ OneQueuePerClient' /\ RightRecipient'
  BY DEF IInv, KeysUnique, OneQueuePerClient, RightRecipient
<1>3. RequestSound' /\ OneInserter'
  BY Answered DEF IInv, RequestSound, OneInserter
<1>4. SendingSound'
  BY Answered DEF IInv, SendingSound, IsRegistered
<1>5. ContextKnown'
  BY DEF IInv, ContextKnown, IsRegistered
<1> QED
  BY <1>1, <1>2, <1>3, <1>4, <1>5 DEF IInv

-----------------------------------------------------------------------------
(* Each statement preserves the invariant.                                 *)

(* Registration begins: it goes on to insert a client, or with a row.      *)
LEMMA RegisterPreserves ==
  ASSUME IInv, NEW c \in Connections, NEW n \in ClientNames, Register(c, n)
  PROVE  IInv'
<1> USE DEF tables
<1>1. TypeOK'
  <2>1. /\ name' \in [Connections -> Names \cup {NONE}]
        /\ pc' \in [Connections -> Statements]
    BY DEF IInv, TypeOK, Register, GoOn, Statements, Names
  <2>2. found' \in [Connections -> Ids \cup {Null}]
    BY RowIds DEF IInv, TypeOK, Register, GoOn, ClientsNamed
  <2>3. UNCHANGED <<client, queue, message, lastClient, lastQueue, to, context,
                    failures>>
    BY DEF Register
  <2> QED
    BY <2>1, <2>2, <2>3 DEF IInv, TypeOK
<1>2. KeysUnique' /\ OneQueuePerClient' /\ RightRecipient'
  BY DEF IInv, Register, KeysUnique, OneQueuePerClient, RightRecipient
<1>3. RequestSound'
  BY DEF IInv, Register, RequestSound, TypeOK, GoOn, ClientsNamed, ClientRow
<1>4. OneInserter'
  BY DEF IInv, Register, OneInserter, TypeOK, GoOn
<1>5. SendingSound'
  BY DEF IInv, Register, SendingSound, TypeOK, GoOn, IsRegistered
<1>6. ContextKnown'
  BY DEF IInv, Register, ContextKnown, IsRegistered
<1> QED
  BY <1>1, <1>2, <1>3, <1>4, <1>5, <1>6 DEF IInv

(* The row of a new client has an id and a name that no row has.           *)
LEMMA InsertClientPreserves ==
  ASSUME IInv, NEW c \in Connections, InsertClient(c)
  PROVE  IInv'
<1> DEFINE row == [id |-> lastClient', name |-> name[c]]
<1>1. /\ lastClient' = lastClient + 1 /\ lastClient \in Nat
      /\ lastClient' \in 0 .. MaxIds /\ lastClient' \in Ids
      /\ UNCHANGED <<queue, message, lastQueue, context, failures>>
  BY RegistryAssumption DEF IInv, TypeOK, InsertClient, Ids
<1>2. name[c] \in ClientNames
  BY DEF IInv, RequestSound, InsertClient
<1>3. \A r \in client : r.id \in Nat /\ r.id <= lastClient
  BY RowIds DEF IInv, KeysUnique, Ids
<1>4. \A r \in queue : /\ r.client_id \in Nat /\ r.client_id <= lastClient
                       /\ r.id <= lastQueue
  BY RowIds DEF IInv, KeysUnique, Ids, Null
<1>5. CASE Answer(c) /\ UNCHANGED client
  <2>1. TypeOK'
    BY <1>1, <1>5, Answered DEF IInv, TypeOK
  <2>2. KeysUnique'
    BY <1>1, <1>3, <1>4, <1>5 DEF IInv, KeysUnique
  <2>3. OneQueuePerClient' /\ RightRecipient'
    BY <1>1 DEF IInv, OneQueuePerClient, RightRecipient
  <2>4. RequestSound' /\ OneInserter'
    BY <1>1, <1>5, Answered DEF IInv, RequestSound, OneInserter
  <2>5. SendingSound' /\ ContextKnown'
    BY <1>1, <1>5, Answered DEF IInv, SendingSound, ContextKnown, IsRegistered
  <2> QED
    BY <2>1, <2>2, <2>3, <2>4, <2>5 DEF IInv
<1>6. CASE /\ ClientsNamed(name[c]) = {} /\ client' = client \cup {row}
           /\ GoOn(c, "insertClientQueue", lastClient') /\ UNCHANGED <<name, to>>
  <2>1. TypeOK'
    <3>1. client' \subseteq ClientRow
      BY <1>1, <1>2, <1>6 DEF IInv, TypeOK, ClientRow
    <3>2. /\ pc' \in [Connections -> Statements]
          /\ found' \in [Connections -> Ids \cup {Null}]
      BY <1>1, <1>6 DEF IInv, TypeOK, GoOn, Statements
    <3> QED
      BY <1>1, <1>6, <3>1, <3>2 DEF IInv, TypeOK
  <2>2. KeysUnique'
    <3>1. \A r \in client : r.id # lastClient' /\ r.name # name[c]
      BY <1>1, <1>3, <1>6 DEF ClientsNamed
    <3>2. \A r \in client' : r.id <= lastClient'
      BY <1>1, <1>3, <1>6
    <3>3. \A r, s \in client' : r.id = s.id \/ r.name = s.name => r = s
      BY <1>6, <3>1 DEF IInv, KeysUnique
    <3>4. \A r \in queue' : r.id <= lastQueue' /\ r.client_id <= lastClient'
      BY <1>1, <1>4
    <3> QED
      BY <1>1, <3>2, <3>3, <3>4 DEF IInv, KeysUnique
  <2>3. OneQueuePerClient' /\ RightRecipient'
    BY <1>1 DEF IInv, OneQueuePerClient, RightRecipient
  <2>4. RequestSound'
    BY <1>1, <1>2, <1>6 DEF IInv, RequestSound, TypeOK, GoOn
  <2>5. OneInserter'
    <3>1. \A d \in Connections \ {c} :
            pc[d] = "insertClientQueue" => found[d] # lastClient'
      <4>1. \A d \in Connections : pc[d] = "insertClientQueue" =>
              \E r \in client : r.id = found[d]
        BY DEF IInv, RequestSound
      <4> QED
        BY <1>1, <1>3, <4>1
    <3>2. \A r \in queue : r.client_id # lastClient'
      BY <1>1, <1>4
    <3> QED
      BY <1>1, <1>6, <3>1, <3>2 DEF IInv, OneInserter, TypeOK, GoOn
  <2>6. SendingSound'
    BY <1>1, <1>6 DEF IInv, SendingSound, TypeOK, GoOn, IsRegistered
  <2>7. ContextKnown'
    BY <1>1, <1>6 DEF IInv, ContextKnown, IsRegistered
  <2> QED
    BY <2>1, <2>2, <2>3, <2>4, <2>5, <2>6, <2>7 DEF IInv
<1> QED
  BY <1>5, <1>6 DEF InsertClient

(* The queue of a new client is its first; with it the connection knows    *)
(* who it is.                                                              *)
LEMMA InsertClientQueuePreserves ==
  ASSUME IInv, NEW c \in Connections, pc[c] = "insertClientQueue",
         InsertQueue(c, found[c]), Answer(c), failures' \in 0 .. MaxFailures,
         \/ SetContext(c, found[c], lastQueue') /\ QueuesNamed(name[c]) = {}
         \/ UNCHANGED context
  PROVE  IInv'
<1>1. /\ name[c] \in ClientNames /\ name[c] \in Names
      /\ [id |-> found[c], name |-> name[c]] \in client
  BY DEF IInv, RequestSound, Names
<1>2. /\ found[c] \in Ids /\ found[c] \in Ids \cup {Null}
      /\ found[c] <= lastClient
  BY <1>1, RowIds DEF IInv, KeysUnique
<1>3. \A r \in queue : r.client_id # found[c]
  BY DEF IInv, OneInserter
<1>4. KeysUnique' /\ OneQueuePerClient' /\ RightRecipient'
  BY <1>1, <1>2, <1>3, QueueInsertedSafely
<1>5. /\ queue' \subseteq QueueRow
      /\ lastQueue' \in 0 .. MaxIds /\ lastQueue' \in Ids
      /\ lastQueue' = lastQueue + 1 /\ lastQueue \in Nat
      /\ \A r \in queue' \ queue : r.id = lastQueue' /\ r.client_id = found[c]
      /\ UNCHANGED client /\ UNCHANGED message /\ UNCHANGED lastClient
  BY <1>1, <1>2, QueueInserted DEF IInv
<1>6. /\ context' \in [Connections -> Contexts]
      /\ \A d \in Connections \ {c} : context'[d] = context[d]
      /\ \/ context'[c] = [client |-> found[c], name |-> name[c],
                           queue |-> lastQueue']
         \/ context'[c] = context[c]
  <2>1. CASE SetContext(c, found[c], lastQueue')
    BY <1>1, <1>2, <1>5, <2>1, Remembered DEF IInv
  <2>2. CASE UNCHANGED context
    BY <2>2 DEF IInv, TypeOK
  <2> QED
    BY <2>1, <2>2
<1>7. TypeOK'
  BY <1>5, <1>6, Answered DEF IInv, TypeOK
<1>8. RequestSound'
  BY <1>5, Answered DEF IInv, RequestSound
<1>9. OneInserter'
  BY <1>5, Answered DEF IInv, OneInserter
<1>10. SendingSound'
  <2>1. \A d \in Connections : pc[d] = "insertMessage" =>
          found[d] <= lastQueue' /\ found[d] # lastQueue'
    BY <1>5 DEF IInv, SendingSound, TypeOK, Ids, Null
  <2>2. \A d \in Connections : pc'[d] = "insertMessage" =>
          d # c /\ pc[d] = "insertMessage" /\ IsRegistered(d)'
    BY <1>6, Answered DEF IInv, SendingSound, IsRegistered
  <2> QED
    BY <1>5, <2>1, <2>2, Answered DEF IInv, SendingSound
<1>11. ContextKnown'
  <2>1. ASSUME NEW d \in Connections, IsRegistered(d)', context'[d] = context[d]
        PROVE  /\ [id |-> context[d].client, name |-> context[d].name] \in client
               /\ context[d].queue <= lastQueue' /\ context[d].queue # lastQueue'
               /\ \A r \in queue : r.id = context[d].queue
                                     => r.client_id = context[d].client
    <3>1. IsRegistered(d)
      BY <2>1 DEF IsRegistered
    <3>2. context[d].queue \in Nat /\ context[d].queue <= lastQueue
      BY <3>1, RegisteredClient DEF IInv, ContextKnown
    <3> QED
      BY <1>5, <3>1, <3>2 DEF IInv, ContextKnown
  <2>2. CASE context'[c] = [client |-> found[c], name |-> name[c],
                            queue |-> lastQueue']
    <3>1. \A r \in queue : r.id # lastQueue'
      BY <1>5, RowIds DEF IInv, KeysUnique, Ids
    <3>2. lastQueue' <= lastQueue'
      BY <1>5
    <3> QED
      BY <1>1, <1>5, <1>6, <2>1, <2>2, <3>1, <3>2 DEF ContextKnown
  <2> QED
    BY <1>5, <1>6, <2>1, <2>2 DEF ContextKnown
<1> QED
  BY <1>4, <1>7, <1>8, <1>9, <1>10, <1>11 DEF IInv

(* "Welcome back" remembers the one queue of the client that was found.    *)
LEMMA FindQueuePreserves ==
  ASSUME IInv, NEW c \in Connections, FindQueue(c)
  PROVE  IInv'
<1> USE DEF tables
<1>1. CASE UNCHANGED context
  BY <1>1, AnswerPreserves DEF FindQueue, IInv, TypeOK
<1>2. ASSUME NEW r \in QueuesOf(found[c]), SetContext(c, found[c], r.id), Answer(c)
      PROVE  IInv'
  <2>1. /\ name[c] \in ClientNames /\ r \in queue /\ r.client_id = found[c]
        /\ [id |-> found[c], name |-> name[c]] \in client
    BY DEF IInv, RequestSound, FindQueue, QueuesOf
  <2>2. found[c] \in Ids /\ r.id \in Ids /\ r.id <= lastQueue
    BY <2>1, RowIds DEF IInv, KeysUnique
  <2>3. /\ context' \in [Connections -> Contexts]
        /\ context'[c] = [client |-> found[c], name |-> name[c], queue |-> r.id]
        /\ \A d \in Connections \ {c} : context'[d] = context[d]
    BY <1>2, <2>1, <2>2, Remembered DEF IInv
  <2>4. TypeOK'
    BY <1>2, <2>3, Answered DEF IInv, TypeOK, FindQueue
  <2>5. KeysUnique' /\ OneQueuePerClient' /\ RightRecipient'
    BY DEF IInv, FindQueue, KeysUnique, OneQueuePerClient, RightRecipient
  <2>6. RequestSound' /\ OneInserter'
    BY <1>2, Answered DEF IInv, FindQueue, RequestSound, OneInserter
  <2>7. SendingSound'
    BY <1>2, <2>3, Answered DEF IInv, FindQueue, SendingSound, IsRegistered
  <2>8. ContextKnown'
    <3>1. \A s \in queue : s.id = r.id => s.client_id = found[c]
      BY <2>1 DEF IInv, KeysUnique
    <3> QED
      BY <2>1, <2>2, <2>3, <3>1 DEF IInv, FindQueue, ContextKnown, IsRegistered
  <2> QED
    BY <2>4, <2>5, <2>6, <2>7, <2>8 DEF IInv
<1> QED
  BY <1>1, <1>2 DEF FindQueue

(* A public queue belongs to nobody.                                       *)
LEMMA InsertPublicQueuePreserves ==
  ASSUME IInv, NEW c \in Connections, InsertPublicQueue(c)
  PROVE  IInv'
<1>1. /\ InsertQueue(c, Null) /\ Answer(c) /\ UNCHANGED context
      /\ UNCHANGED failures /\ name[c] \in Names
  BY DEF InsertPublicQueue, IInv, RequestSound
<1>2. Null \in Ids \cup {Null} /\ Null <= lastClient
  BY DEF IInv, TypeOK, Null
<1>3. KeysUnique' /\ OneQueuePerClient' /\ RightRecipient'
  BY <1>1, <1>2, QueueInsertedSafely
<1>4. /\ queue' \subseteq QueueRow
      /\ lastQueue' \in 0 .. MaxIds /\ lastQueue' \in Ids
      /\ lastQueue' = lastQueue + 1 /\ lastQueue \in Nat
      /\ \A r \in queue' \ queue : r.id = lastQueue' /\ r.client_id = Null
      /\ UNCHANGED client /\ UNCHANGED message /\ UNCHANGED lastClient
  BY <1>1, <1>2, QueueInserted DEF IInv
<1>5. TypeOK'
  BY <1>1, <1>4, Answered DEF IInv, TypeOK
<1>6. RequestSound'
  BY <1>1, <1>4, Answered DEF IInv, RequestSound
<1>7. OneInserter'
  <2>1. \A d \in Connections : pc[d] = "insertClientQueue" => found[d] # Null
    BY RowIds DEF IInv, RequestSound
  <2> QED
    BY <1>1, <1>4, <2>1, Answered DEF IInv, OneInserter
<1>8. SendingSound'
  <2>1. \A d \in Connections : pc[d] = "insertMessage" =>
          found[d] <= lastQueue' /\ found[d] # lastQueue'
    BY <1>4 DEF IInv, SendingSound, TypeOK, Ids, Null
  <2> QED
    BY <1>1, <1>4, <2>1, Answered DEF IInv, SendingSound, IsRegistered
<1>9. ContextKnown'
  <2>1. ASSUME NEW d \in Connections, IsRegistered(d)
        PROVE  context[d].queue <= lastQueue' /\ context[d].queue # lastQueue'
    <3>1. context[d].queue \in Nat /\ context[d].queue <= lastQueue
      BY <2>1, RegisteredClient DEF IInv, ContextKnown
    <3> QED
      BY <1>4, <3>1
  <2> QED
    BY <1>1, <1>4, <2>1 DEF IInv, ContextKnown, IsRegistered
<1> QED
  BY <1>3, <1>5, <1>6, <1>7, <1>8, <1>9 DEF IInv

(* createQueue begins with a look-up that finds nothing.                   *)
LEMMA CreateQueuePreserves ==
  ASSUME IInv, NEW c \in Connections, NEW n \in QueueNames, CreateQueue(c, n)
  PROVE  IInv'
<1> USE DEF tables
<1>1. TypeOK'
  BY DEF IInv, TypeOK, CreateQueue, GoOn, Statements, Names
<1>2. KeysUnique' /\ OneQueuePerClient' /\ RightRecipient'
  BY DEF IInv, CreateQueue, KeysUnique, OneQueuePerClient, RightRecipient
<1>3. RequestSound'
  BY DEF IInv, CreateQueue, RequestSound, TypeOK, GoOn, Names
<1>4. OneInserter'
  BY DEF IInv, CreateQueue, OneInserter, TypeOK, GoOn
<1>5. SendingSound' /\ ContextKnown'
  BY DEF IInv, CreateQueue, SendingSound, ContextKnown, TypeOK, GoOn, IsRegistered
<1> QED
  BY <1>1, <1>2, <1>3, <1>4, <1>5 DEF IInv

(* A queue goes with its messages; that no id is drawn twice keeps those   *)
(* who remember it from taking another queue for it.                       *)
LEMMA DeleteQueuePreserves ==
  ASSUME IInv, NEW c \in Connections, NEW i \in Ids, DeleteQueue(c, i)
  PROVE  IInv'
<1>1. TypeOK'
  BY Answered DEF IInv, TypeOK, DeleteQueue
<1>2. KeysUnique' /\ OneQueuePerClient' /\ RightRecipient'
  BY DEF IInv, DeleteQueue, KeysUnique, OneQueuePerClient, RightRecipient
<1>3. RequestSound' /\ OneInserter'
  BY Answered DEF IInv, DeleteQueue, RequestSound, OneInserter
<1>4. SendingSound' /\ ContextKnown'
  BY Answered DEF IInv, DeleteQueue, SendingSound, ContextKnown, IsRegistered
<1> QED
  BY <1>1, <1>2, <1>3, <1>4 DEF IInv

(* The look-up for a message finds a queue of the recipient.               *)
LEMMA SendToClientPreserves ==
  ASSUME IInv, NEW c \in Connections, NEW i \in Ids, SendToClient(c, i)
  PROVE  IInv'
<1> USE DEF tables
<1>1. PICK r \in QueuesOf(i) : GoOn(c, "insertMessage", r.id)
  BY DEF SendToClient
<1>2. /\ r \in queue /\ r.client_id = i /\ r.id \in Ids /\ r.id <= lastQueue
      /\ r.id # Null /\ i # Null
      /\ \A s \in queue : s.id = r.id => s.client_id = i
  BY <1>1, RowIds DEF IInv, QueuesOf, KeysUnique
<1>3. /\ pc' = [pc EXCEPT ![c] = "insertMessage"]
      /\ found' = [found EXCEPT ![c] = r.id] /\ to' = [to EXCEPT ![c] = i]
      /\ UNCHANGED <<name, context, failures>> /\ IsRegistered(c)
  BY <1>1 DEF SendToClient, GoOn
<1>4. TypeOK'
  BY <1>2, <1>3 DEF IInv, TypeOK, SendToClient, Statements
<1>5. KeysUnique' /\ OneQueuePerClient' /\ RightRecipient'
  BY DEF IInv, SendToClient, KeysUnique, OneQueuePerClient, RightRecipient
<1>6. RequestSound' /\ OneInserter'
  BY <1>3 DEF IInv, SendToClient, RequestSound, OneInserter, TypeOK
<1>7. SendingSound'
  BY <1>2, <1>3 DEF IInv, SendToClient, SendingSound, TypeOK, IsRegistered
<1>8. ContextKnown'
  BY <1>3 DEF IInv, SendToClient, ContextKnown, IsRegistered
<1> QED
  BY <1>4, <1>5, <1>6, <1>7, <1>8 DEF IInv

(* The INSERT fails if the queue is gone; if it is there, it is still that *)
(* of the recipient.                                                       *)
LEMMA InsertMessagePreserves ==
  ASSUME IInv, NEW c \in Connections, InsertMessage(c)
  PROVE  IInv'
<1> USE DEF tables
<1>1. CASE UNCHANGED message
  BY <1>1, AnswerPreserves DEF InsertMessage, IInv, TypeOK
<1>2. CASE /\ \E r \in queue : r.id = found[c]
           /\ message' = message \cup {[queue_id |-> found[c],
                            sender |-> context[c].client, to |-> to[c]]}
  <2>1. /\ Answer(c) /\ UNCHANGED <<client, queue, lastClient, lastQueue, context,
                                    failures>>
    BY DEF InsertMessage
  <2>2. /\ IsRegistered(c) /\ to[c] # Null /\ found[c] # Null
        /\ \A r \in queue : r.id = found[c] => r.client_id = to[c]
    BY DEF IInv, SendingSound, InsertMessage
  <2>3. context[c].client \in Ids /\ to[c] \in Ids /\ found[c] \in Ids
    BY <2>2, RegisteredClient DEF IInv, TypeOK
  <2>4. message' \subseteq MessageRow
    BY <1>2, <2>3 DEF IInv, TypeOK, MessageRow
  <2>5. TypeOK'
    BY <2>1, <2>4, Answered DEF IInv, TypeOK
  <2>6. RightRecipient'
    BY <1>2, <2>1, <2>2 DEF IInv, RightRecipient
  <2>7. KeysUnique' /\ OneQueuePerClient'
    BY <2>1 DEF IInv, KeysUnique, OneQueuePerClient
  <2>8. RequestSound' /\ OneInserter'
    BY <2>1, Answered DEF IInv, RequestSound, OneInserter
  <2>9. SendingSound' /\ ContextKnown'
    BY <2>1, Answered DEF IInv, SendingSound, ContextKnown, IsRegistered
  <2> QED
    BY <2>5, <2>6, <2>7, <2>8, <2>9 DEF IInv
<1> QED
  BY <1>1, <1>2 DEF InsertMessage

(* A failed statement answers the request and leaves the tables.           *)
LEMMA StatementFailsPreserves ==
  ASSUME IInv, NEW c \in Connections, StatementFails(c)
  PROVE  IInv'
<1>1. failures' \in 0 .. MaxFailures
  BY RegistryAssumption DEF IInv, TypeOK, StatementFails
<1> QED
  BY <1>1, AnswerPreserves DEF StatementFails

(* A new connection remembers nothing.                                     *)
LEMMA ReconnectPreserves ==
  ASSUME IInv, NEW c \in Connections, Reconnect(c)
  PROVE  IInv'
<1> USE DEF tables, requests
<1>1. /\ context'[c] = NoContext /\ \A d \in Connections \ {c} : context'[d] = context[d]
      /\ context' \in [Connections -> Contexts]
  BY DEF IInv, TypeOK, Reconnect, Contexts
<1>2. TypeOK'
  BY <1>1 DEF IInv, TypeOK, Reconnect
<1>3. KeysUnique' /\ OneQueuePerClient' /\ RightRecipient'
  BY DEF IInv, Reconnect, KeysUnique, OneQueuePerClient, RightRecipient
<1>4. RequestSound' /\ OneInserter'
  BY DEF IInv, Reconnect, RequestSound, OneInserter
<1>5. SendingSound'
  BY <1>1 DEF IInv, Reconnect, SendingSound, IsRegistered
<1>6. ContextKnown'
  BY <1>1 DEF IInv, Reconnect, ContextKnown, IsRegistered, NoContext
<1> QED
  BY <1>2, <1>3, <1>4, <1>5, <1>6 DEF IInv

(* The invariant is inductive.                                             *)
LEMMA NextIInv == IInv /\ [Next]_vars => IInv'
<1> SUFFICES ASSUME IInv, [Next]_vars PROVE IInv'
  OBVIOUS
<1>1. ASSUME NEW c \in Connections, Registration(c)
      PROVE  IInv'
  <2>1. CASE InsertClientQueue(c)
    <3>1. failures' \in 0 .. MaxFailures
      BY <2>1 DEF IInv, TypeOK, InsertClientQueue
    <3> QED
      BY <2>1, <3>1, InsertClientQueuePreserves DEF InsertClientQueue
  <2> QED
    BY <1>1, <2>1, RegisterPreserves, InsertClientPreserves, FindQueuePreserves
       DEF Registration
<1>2. ASSUME NEW c \in Connections, Queues(c)
      PROVE  IInv'
  BY <1>2, CreateQueuePreserves, InsertPublicQueuePreserves, DeleteQueuePreserves
     DEF Queues
<1>3. ASSUME NEW c \in Connections, Sending(c)
      PROVE  IInv'
  BY <1>3, SendToClientPreserves, InsertMessagePreserves DEF Sending
<1>4. ASSUME NEW c \in Connections, Failing(c)
      PROVE  IInv'
  <2>1. CASE QueueInsertLost(c)
    <3>1. failures' \in 0 .. MaxFailures
      BY <2>1, RegistryAssumption DEF IInv, TypeOK, QueueInsertLost
    <3> QED
      BY <2>1, <3>1, InsertClientQueuePreserves DEF QueueInsertLost
  <2> QED
    BY <1>4, <2>1, StatementFailsPreserves DEF Failing
<1>5. CASE UNCHANGED vars
  BY <1>5 DEF vars, tables, requests, IInv, TypeOK, KeysUnique, RequestSound,
     OneInserter, SendingSound, ContextKnown, OneQueuePerClient, RightRecipient,
     IsRegistered
<1> QED
  BY <1>1, <1>2, <1>3, <1>4, <1>5, ReconnectPreserves DEF Next

-----------------------------------------------------------------------------
(* The inductive invariant holds of the module.                            *)
THEOREM RegistryInvariant == Spec => []IInv
BY InitIInv, NextIInv, PTL DEF Spec

(* Types: ids within the sequences, contexts complete or empty.            *)
THEOREM RegistryTypeCorrect == Spec => []TypeOK
<1>1. IInv => TypeOK
  BY DEF IInv
<1> QED
  BY <1>1, RegistryInvariant, PTL

(* However registrations and failures interleave, a client has one queue.  *)
THEOREM RegistryOneQueue == Spec => []OneQueuePerClient
<1>1. IInv => OneQueuePerClient
  BY DEF IInv
<1> QED
  BY <1>1, RegistryInvariant, PTL

(* A registered connection acts for the one client of its name, and the    *)
(* queue it remembers is that client's for as long as it exists.           *)
THEOREM RegistryContextSound == Spec => []ContextSound
<1>1. ASSUME IInv, NEW c \in Connections, IsRegistered(c)
      PROVE  {k \in client : k.name = context[c].name}
               = {[id |-> context[c].client, name |-> context[c].name]}
  <2> DEFINE row == [id |-> context[c].client, name |-> context[c].name]
  <2>1. row \in client /\ row.name = context[c].name
    BY <1>1 DEF IInv, ContextKnown
  <2>2. \A k \in client : k.name = row.name => k = row
    BY <1>1, <2>1 DEF IInv, KeysUnique
  <2> HIDE DEF row
  <2> QED
    BY <2>1, <2>2 DEF row
<1>2. IInv => ContextSound
  BY <1>1 DEF IInv, ContextKnown, ContextSound
<1> QED
  BY <1>2, RegistryInvariant, PTL

(* A message to a client is in that client's queue or nowhere.             *)
THEOREM RegistryRightRecipient == Spec => []RightRecipient
<1>1. IInv => RightRecipient
  BY DEF IInv
<1> QED
  BY <1>1, RegistryInvariant, PTL
=============================================================================
