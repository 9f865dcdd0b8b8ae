--------------------------- MODULE BrokerPipeline ---------------------------
(***************************************************************************)
(* The way of a request through the broker: the reactor thread             *)
(* (BrokerNetworkInterface) reads it from a client's socket into a pooled  *)
(* buffer and queues a WorkerTask; a Worker takes the task, processes it   *)
(* and queues the response, written into the same buffer; the reactor      *)
(* empties the response queue and writes the buffer to the socket.         *)
(*                                                                         *)
(* Around it, the clients: each has one connection at a time and one       *)
(* request in flight, and closes its connection when it times out.         *)
(*                                                                         *)
(* What a request asks the database for is left to MessageStore, how its   *)
(* bytes are cut into reads to RequestExchange.                            *)
(***************************************************************************)
EXTENDS Naturals, Sequences, FiniteSets

CONSTANTS
  Clients, Workers,
  RequestQueueSize, ResponseQueueSize,
  MaxConnections,    \* bound: connections ever opened
  MaxRequests,       \* bound: requests ever sent
  MaxCloses,         \* bound: connections closed by clients (timeouts)
  MaxLost,           \* bound: responses a worker fails to serialize
  MaxAcceptFailures  \* bound: accept() calls that throw

ASSUME SizesAssumption ==
  /\ RequestQueueSize \in Nat \ {0} /\ ResponseQueueSize \in Nat \ {0}
  /\ MaxConnections \in Nat /\ MaxRequests \in Nat /\ MaxCloses \in Nat
  /\ MaxLost \in Nat /\ MaxAcceptFailures \in Nat

Handles  == 1 .. MaxConnections      \* clientNetworkHandle
Requests == 1 .. MaxRequests         \* a request, and the response to it
(* Enough buffers that an allocation never fails: two for each connection, *)
(* one replacement for each request.                                       *)
Buffers  == 1 .. (2 * MaxConnections + MaxRequests)
Null     == 0

VARIABLES
  (* clients *)
  cstate,      \* "away", "ready" (connected) or "waiting" for a response
  conn,        \* the connection of each client
  expect,      \* the request each client sent last
  (* sockets, per connection *)
  inbound,     \* request written by the client and not yet read
  outbound,    \* response that has reached the client
  fin,         \* closed by the client
  (* reactor *)
  rpc,         \* "select", "keys", "queue" or "dead"
  selected,    \* keys selected and not yet handled
  wakeup,      \* Selector.wakeup() is pending
  accepted,    \* clientCounter
  connected,   \* keys of connectedClients
  rx, tx,      \* buffers of each ConnectedClient
  out,         \* progress of the response in tx: "none", "fresh", "partial"
  (* buffers *)
  pool,        \* ByteBufferPool.pooledBuffers
  allocated,   \* buffers ever allocated
  content,     \* request or response a buffer holds
  (* queues and workers *)
  requests, responses,
  wpc,         \* "idle", "process" or "wake"
  task,        \* the WorkerTask in a worker's hands
  dropped,     \* history: tasks that a full queue has dropped
  (* bounds *)
  opened, sent, closes, lostResponses, acceptFailures

clientVars == <<cstate, conn, expect>>
socketVars == <<inbound, outbound, fin>>
loopVars   == <<rpc, selected, wakeup>>
tableVars  == <<accepted, connected, rx, tx, out>>
bufferVars == <<pool, allocated, content>>
workVars   == <<requests, responses, wpc, task, dropped>>
boundVars  == <<opened, sent, closes, lostResponses, acceptFailures>>
vars == <<clientVars, socketVars, loopVars, tableVars, bufferVars, workVars,
          boundVars>>

Task   == [handle: Handles, buf: Buffers]
NoTask == [handle |-> Null, buf |-> Null]

Init ==
  /\ cstate   = [c \in Clients |-> "away"]
  /\ conn     = [c \in Clients |-> Null]
  /\ expect   = [c \in Clients |-> Null]
  /\ inbound  = [h \in Handles |-> Null]
  /\ outbound = [h \in Handles |-> Null]
  /\ fin      = [h \in Handles |-> FALSE]
  /\ rpc = "select" /\ selected = {} /\ wakeup = FALSE
  /\ accepted = 0 /\ connected = {}
  /\ rx  = [h \in Handles |-> Null]
  /\ tx  = [h \in Handles |-> Null]
  /\ out = [h \in Handles |-> "none"]
  /\ pool = <<>> /\ allocated = 0
  /\ content = [b \in Buffers |-> Null]
  /\ requests = <<>> /\ responses = <<>>
  /\ wpc  = [w \in Workers |-> "idle"]
  /\ task = [w \in Workers |-> NoTask]
  /\ dropped = 0
  /\ opened = 0 /\ sent = 0 /\ closes = 0 /\ lostResponses = 0
  /\ acceptFailures = 0

-----------------------------------------------------------------------------
(* ByteBufferPool: a pooled buffer, or a new one when there are none.      *)
Acquired(i) == IF i <= Len(pool) THEN pool[i] ELSE allocated + i - Len(pool)

Acquire(n) ==
  /\ pool' = SubSeq(pool, n + 1, Len(pool))
  /\ allocated' = allocated + (IF n > Len(pool) THEN n - Len(pool) ELSE 0)

Cleared(bs) == [b \in Buffers |-> IF b \in bs THEN Null ELSE content[b]]

(* CloseableByteBuffer.close(), unless the reference b is null: the buffer *)
(* joins those of the pool p.                                              *)
Released(p, b) == IF b = Null THEN p ELSE Append(p, b)

(* Mutation: a queue without a capacity. *)
OfferedUnbounded(queue, t, size) == Append(queue, t)

(* enqueue() of either queue: a full queue drops the task.                 *)
Offered(queue, t, size) == IF Len(queue) < size THEN Append(queue, t) ELSE queue

DropIfFull(queue, size) ==
  dropped' = IF Len(queue) < size THEN dropped ELSE dropped + 1

-----------------------------------------------------------------------------
(* The clients. *)

(* connect(): the listening socket queues the connection.  accept() takes  *)
(* them in order, so the n-th to connect is the n-th to be accepted.       *)
Connect(c) ==
  /\ cstate[c] = "away" /\ opened < MaxConnections /\ rpc # "dead"
  /\ opened' = opened + 1
  /\ conn'   = [conn EXCEPT ![c] = opened + 1]
  /\ cstate' = [cstate EXCEPT ![c] = "ready"]
  /\ UNCHANGED <<expect, socketVars, loopVars, tableVars, bufferVars, workVars,
                 sent, closes, lostResponses, acceptFailures>>

SendRequest(c) ==
  /\ cstate[c] = "ready" /\ sent < MaxRequests
  /\ sent' = sent + 1
  /\ expect'  = [expect EXCEPT ![c] = sent + 1]
  /\ inbound' = [inbound EXCEPT ![conn[c]] = sent + 1]
  /\ cstate'  = [cstate EXCEPT ![c] = "waiting"]
  /\ UNCHANGED <<conn, outbound, fin, loopVars, tableVars, bufferVars, workVars,
                 opened, closes, lostResponses, acceptFailures>>

ReceiveResponse(c) ==
  /\ cstate[c] = "waiting" /\ outbound[conn[c]] # Null
  /\ outbound' = [outbound EXCEPT ![conn[c]] = Null]
  /\ cstate'   = [cstate EXCEPT ![c] = "ready"]
  /\ UNCHANGED <<conn, expect, inbound, fin, loopVars, tableVars, bufferVars,
                 workVars, boundVars>>

(* The response timeout closes the socket, and so does leaving.            *)
CloseConnection(c) ==
  /\ cstate[c] # "away" /\ closes < MaxCloses
  /\ closes' = closes + 1
  /\ fin'    = [fin EXCEPT ![conn[c]] = TRUE]
  /\ cstate' = [cstate EXCEPT ![c] = "away"]
  /\ UNCHANGED <<conn, expect, inbound, outbound, loopVars, tableVars,
                 bufferVars, workVars, opened, sent, lostResponses,
                 acceptFailures>>

-----------------------------------------------------------------------------
(* The reactor. *)

AcceptKey == <<"accept", Null>>
Ready ==
  {k \in {AcceptKey} : accepted < opened}
    \cup {<<"read", h>>  : h \in {h \in connected : inbound[h] # Null \/ fin[h]}}
    \cup {<<"write", h>> : h \in {h \in connected : out[h] # "none"}}

KeysOf(h) == {<<"read", h>>, <<"write", h>>}

(* select() blocks until a key is ready or wakeup() was called.            *)
Select ==
  /\ rpc = "select"
  /\ wakeup \/ Ready # {}
  /\ selected' = Ready
  /\ wakeup' = FALSE
  /\ rpc' = "keys"
  /\ UNCHANGED <<clientVars, socketVars, tableVars, bufferVars, workVars,
                 boundVars>>

(* Mutation: the keys of the client stay selected. *)
DisconnectUncancelled(h) ==
  /\ connected' = connected \ {h}
  /\ pool' = Released(Released(pool, rx[h]), tx[h])
  /\ rx'  = [rx EXCEPT ![h] = Null]
  /\ tx'  = [tx EXCEPT ![h] = Null]
  /\ out' = [out EXCEPT ![h] = "none"]
  /\ selected' = selected \ {<<"read", h>>}
  /\ UNCHANGED <<clientVars, socketVars, rpc, wakeup, accepted, allocated,
                 content, workVars, boundVars>>

(* disconnectCLient: close() gives the buffers back and cancels the key.   *)
Disconnect(h) ==
  /\ connected' = connected \ {h}
  /\ pool' = Released(Released(pool, rx[h]), tx[h])
  /\ rx'  = [rx EXCEPT ![h] = Null]
  /\ tx'  = [tx EXCEPT ![h] = Null]
  /\ out' = [out EXCEPT ![h] = "none"]
  /\ selected' = selected \ KeysOf(h)
  /\ UNCHANGED <<clientVars, socketVars, rpc, wakeup, accepted, allocated,
                 content, workVars, boundVars>>

SelectAccept ==
  /\ rpc = "keys" /\ AcceptKey \in selected
  /\ selected' = selected \ {AcceptKey}
  /\ LET h == accepted + 1
     IN /\ connected' = connected \cup {h}
        /\ rx' = [rx EXCEPT ![h] = Acquired(1)]
        /\ tx' = [tx EXCEPT ![h] = Acquired(2)]
  /\ accepted' = accepted + 1
  /\ Acquire(2)
  /\ content' = Cleared({Acquired(1), Acquired(2)})
  /\ UNCHANGED <<clientVars, socketVars, rpc, wakeup, out, workVars, boundVars>>

(* accept() throws: the handler disconnects the "client" of the key, but   *)
(* the key's channel is the server socket; the cast to SocketChannel ends  *)
(* the reactor thread.                                                     *)
AcceptFails ==
  /\ rpc = "keys" /\ AcceptKey \in selected
  /\ acceptFailures < MaxAcceptFailures
  /\ acceptFailures' = acceptFailures + 1
  /\ rpc' = "dead"
  /\ selected' = {}
  /\ UNCHANGED <<clientVars, socketVars, wakeup, tableVars, bufferVars, workVars,
                 opened, sent, closes, lostResponses>>

(* Mutation: the buffer of a written response is not given back. *)
WriteAllKeeping(h) ==
  /\ outbound' = IF fin[h] THEN outbound
                 ELSE [outbound EXCEPT ![h] = content[tx[h]]]
  /\ out' = [out EXCEPT ![h] = "none"]
  /\ tx'  = [tx EXCEPT ![h] = Null]
  /\ UNCHANGED pool

(* selectWrite: the socket takes all that remains of the response, and     *)
(* the buffer goes back to the pool ...                                    *)
WriteAll(h) ==
  /\ outbound' = IF fin[h] THEN outbound
                 ELSE [outbound EXCEPT ![h] = content[tx[h]]]
  /\ out'  = [out EXCEPT ![h] = "none"]
  /\ pool' = Released(pool, tx[h])
  /\ tx'   = [tx EXCEPT ![h] = Null]

(* ... or takes a part of it: a response needs at most two writes.         *)
WriteSome(h) ==
  /\ out[h] = "fresh"
  /\ out' = [out EXCEPT ![h] = "partial"]
  /\ UNCHANGED <<outbound, pool, tx>>

SelectWrite(h) ==
  /\ rpc = "keys" /\ <<"write", h>> \in selected
  /\ selected' = selected \ {<<"write", h>>}
  /\ WriteAll(h) \/ WriteSome(h)
  /\ UNCHANGED <<clientVars, inbound, fin, rpc, wakeup, accepted, connected, rx,
                 allocated, content, workVars, boundVars>>

(* Mutation: the message is not taken out of the receive buffer. *)
SelectReadAgain(h) ==
  /\ rpc = "keys" /\ <<"read", h>> \in selected /\ <<"write", h>> \notin selected
  /\ inbound[h] # Null
  /\ selected' = selected \ {<<"read", h>>}
  /\ IF Len(requests) < RequestQueueSize /\ allocated < Cardinality(Buffers)
     THEN /\ requests' = Append(requests, [handle |-> h, buf |-> rx[h]])
          /\ rx' = [rx EXCEPT ![h] = Acquired(1)]
          /\ Acquire(1)
          /\ content' = [Cleared({Acquired(1)}) EXCEPT ![rx[h]] = inbound[h]]
     ELSE UNCHANGED <<requests, rx, pool, allocated, content>>
  /\ UNCHANGED <<clientVars, socketVars, rpc, wakeup, accepted, connected, tx,
                 out, responses, wpc, task, dropped, boundVars>>

(* selectRead: a message is read; a fresh buffer replaces the one that     *)
(* goes to the workers with the task.  A full queue drops the task.        *)
SelectRead(h) ==
  /\ rpc = "keys" /\ <<"read", h>> \in selected /\ <<"write", h>> \notin selected
  /\ inbound[h] # Null
  /\ selected' = selected \ {<<"read", h>>}
  /\ inbound'  = [inbound EXCEPT ![h] = Null]
  /\ rx'       = [rx EXCEPT ![h] = Acquired(1)]
  /\ Acquire(1)
  /\ content'  = [Cleared({Acquired(1)}) EXCEPT ![rx[h]] = inbound[h]]
  /\ requests' = Offered(requests, [handle |-> h, buf |-> rx[h]], RequestQueueSize)
  /\ DropIfFull(requests, RequestQueueSize)
  /\ UNCHANGED <<clientVars, outbound, fin, rpc, wakeup, accepted, connected, tx,
                 out, responses, wpc, task, boundVars>>

(* The client has closed: read returns -1, or read or write throws.        *)
SelectDisconnect(h) ==
  /\ rpc = "keys" /\ KeysOf(h) \cap selected # {}
  /\ fin[h]
  /\ Disconnect(h)

KeysDone ==
  /\ rpc = "keys" /\ selected = {}
  /\ rpc' = "queue"
  /\ UNCHANGED <<clientVars, socketVars, selected, wakeup, tableVars, bufferVars,
                 workVars, boundVars>>

(* selectQueue, one turn of its loop. *)
QueueEmpty ==
  /\ rpc = "queue" /\ responses = <<>>
  /\ rpc' = "select"
  /\ UNCHANGED <<clientVars, socketVars, selected, wakeup, tableVars, bufferVars,
                 workVars, boundVars>>

(* Mutation: the task is disposed of while it still refers to the buffer. *)
SetResponseUnremoved ==
  /\ rpc = "queue" /\ responses # <<>>
  /\ LET h == Head(responses).handle
     IN /\ h \in connected
        /\ pool' = Released(Released(pool, Head(responses).buf), tx[h])
        /\ tx'   = [tx EXCEPT ![h] = Head(responses).buf]
        /\ out'  = [out EXCEPT ![h] = "fresh"]
  /\ responses' = Tail(responses)
  /\ UNCHANGED <<clientVars, socketVars, loopVars, accepted, connected, rx,
                 allocated, content, requests, wpc, task, dropped, boundVars>>

(* setResponse: the response replaces whatever the client's tx buffer was. *)
SetResponse ==
  /\ rpc = "queue" /\ responses # <<>>
  /\ LET h == Head(responses).handle
     IN /\ h \in connected
        /\ pool' = Released(pool, tx[h])
        /\ tx'   = [tx EXCEPT ![h] = Head(responses).buf]
        /\ out'  = [out EXCEPT ![h] = "fresh"]
  /\ responses' = Tail(responses)
  /\ UNCHANGED <<clientVars, socketVars, loopVars, accepted, connected, rx,
                 allocated, content, requests, wpc, task, dropped, boundVars>>

(* The client has gone: the task is disposed of, and the loop left.        *)
UnknownClient ==
  /\ rpc = "queue" /\ responses # <<>>
  /\ Head(responses).handle \notin connected
  /\ pool' = Released(pool, Head(responses).buf)
  /\ responses' = Tail(responses)
  /\ rpc' = "select"
  /\ UNCHANGED <<clientVars, socketVars, selected, wakeup, tableVars, allocated,
                 content, requests, wpc, task, dropped, boundVars>>

-----------------------------------------------------------------------------
(* The workers. *)

TakeTask(w) ==
  /\ wpc[w] = "idle" /\ requests # <<>>
  /\ task' = [task EXCEPT ![w] = Head(requests)]
  /\ requests' = Tail(requests)
  /\ wpc' = [wpc EXCEPT ![w] = "process"]
  /\ UNCHANGED <<clientVars, socketVars, loopVars, tableVars, bufferVars,
                 responses, dropped, boundVars>>

(* The response overwrites the request in its buffer.  A full queue drops  *)
(* it.                                                                     *)
Respond(w) ==
  /\ wpc[w] = "process"
  /\ responses' = Offered(responses, task[w], ResponseQueueSize)
  /\ DropIfFull(responses, ResponseQueueSize)
  /\ task' = [task EXCEPT ![w] = NoTask]
  /\ wpc'  = [wpc EXCEPT ![w] = "wake"]
  /\ UNCHANGED <<clientVars, socketVars, loopVars, tableVars, bufferVars,
                 requests, boundVars>>

(* An exception outside the processor's try block, such as a response that *)
(* does not fit the buffer, ends in the log only.                          *)
FailToRespond(w) ==
  /\ wpc[w] = "process" /\ lostResponses < MaxLost
  /\ lostResponses' = lostResponses + 1
  /\ task' = [task EXCEPT ![w] = NoTask]
  /\ wpc'  = [wpc EXCEPT ![w] = "idle"]
  /\ UNCHANGED <<clientVars, socketVars, loopVars, tableVars, bufferVars,
                 requests, responses, dropped, opened, sent, closes,
                 acceptFailures>>

(* Mutation: enqueue() does not wake the reactor. *)
LetReactorSleep(w) ==
  /\ wpc[w] = "wake"
  /\ wpc' = [wpc EXCEPT ![w] = "idle"]
  /\ UNCHANGED <<clientVars, socketVars, loopVars, tableVars, bufferVars,
                 requests, responses, task, dropped, boundVars>>

(* wakeupReactorRunnable, which teardown() has unset in a dead reactor.    *)
WakeReactor(w) ==
  /\ wpc[w] = "wake"
  /\ wakeup' = (rpc # "dead")
  /\ wpc' = [wpc EXCEPT ![w] = "idle"]
  /\ UNCHANGED <<clientVars, socketVars, rpc, selected, tableVars, bufferVars,
                 requests, responses, task, dropped, boundVars>>

-----------------------------------------------------------------------------
Client(c) == \/ Connect(c) \/ SendRequest(c) \/ ReceiveResponse(c)
             \/ CloseConnection(c)

Reactor == \/ Select \/ SelectAccept \/ AcceptFails \/ KeysDone
           \/ \E h \in Handles :
                SelectWrite(h) \/ SelectRead(h) \/ SelectDisconnect(h)
           \/ QueueEmpty \/ SetResponse \/ UnknownClient

Worker(w) == TakeTask(w) \/ Respond(w) \/ FailToRespond(w) \/ WakeReactor(w)

Next == \/ \E c \in Clients : Client(c)
        \/ Reactor
        \/ \E w \in Workers : Worker(w)

Spec == Init /\ [][Next]_vars

(* The reactor and the workers are threads that run, and a client that     *)
(* waits reads what arrives; whether it ever asks or leaves is open.       *)
Fairness ==
  /\ WF_vars(Reactor)
  /\ \A w \in Workers : WF_vars(TakeTask(w) \/ Respond(w) \/ WakeReactor(w))
  /\ \A c \in Clients : WF_vars(ReceiveResponse(c))

FairSpec == Spec /\ Fairness
-----------------------------------------------------------------------------
(* Properties *)

MaybeHandles == Handles \cup {Null}
MaybeBuffers == Buffers \cup {Null}
MaybeRequest == Requests \cup {Null}

(* Type correctness of every variable, the capacities of the two bounded   *)
(* queues included (ArrayBlockingQueue).                                   *)
TypeOK ==
  /\ cstate \in [Clients -> {"away", "ready", "waiting"}]
  /\ conn \in [Clients -> MaybeHandles]
  /\ expect \in [Clients -> MaybeRequest]
  /\ inbound \in [Handles -> MaybeRequest]
  /\ outbound \in [Handles -> MaybeRequest]
  /\ fin \in [Handles -> BOOLEAN]
  /\ rpc \in {"select", "keys", "queue", "dead"}
  /\ selected \subseteq {AcceptKey} \cup UNION {KeysOf(h) : h \in Handles}
  /\ wakeup \in BOOLEAN
  /\ accepted \in 0 .. opened /\ connected \subseteq 1 .. accepted
  /\ rx \in [Handles -> MaybeBuffers] /\ tx \in [Handles -> MaybeBuffers]
  /\ out \in [Handles -> {"none", "fresh", "partial"}]
  /\ pool \in Seq(Buffers)
  /\ allocated \in 0 .. Cardinality(Buffers)
  /\ content \in [Buffers -> MaybeRequest]
  /\ requests \in Seq(Task) /\ Len(requests) <= RequestQueueSize
  /\ responses \in Seq(Task) /\ Len(responses) <= ResponseQueueSize
  /\ wpc \in [Workers -> {"idle", "process", "wake"}]
  /\ task \in [Workers -> Task \cup {NoTask}]
  /\ dropped \in 0 .. 2 * MaxRequests
  /\ opened \in 0 .. MaxConnections /\ sent \in 0 .. MaxRequests
  /\ closes \in 0 .. MaxCloses /\ lostResponses \in 0 .. MaxLost
  /\ acceptFailures \in 0 .. MaxAcceptFailures

(* The places that can refer to a buffer, and the buffer each refers to.   *)
Places == ({"pool"} \X DOMAIN pool) \cup ({"rx", "tx"} \X Handles)
            \cup ({"request"} \X DOMAIN requests)
            \cup ({"response"} \X DOMAIN responses)
            \cup ({"task"} \X Workers)

BufferAt(p) ==
  CASE p[1] = "pool"     -> pool[p[2]]
    [] p[1] = "rx"       -> rx[p[2]]
    [] p[1] = "tx"       -> tx[p[2]]
    [] p[1] = "request"  -> requests[p[2]].buf
    [] p[1] = "response" -> responses[p[2]].buf
    [] p[1] = "task"     -> task[p[2]].buf

(* The buffers that nothing refers to.                                     *)
LostBuffers == {b \in 1 .. allocated : \A p \in Places : BufferAt(p) # b}

(* A buffer has one owner at a time, be it the pool, a connection, a       *)
(* queued task or a worker: close() is called once per acquisition, and    *)
(* the threads that hand a buffer on do not use it any more.  And "right   *)
(* before we lose the reference to the buffer it is put back to the pool"  *)
(* (part02-design.tex:36), except when a full queue drops the task or the  *)
(* worker fails to respond: each of these costs one buffer at most, and    *)
(* nothing else does, such as a client that leaves at any moment.          *)
BuffersAccountedFor ==
  /\ \A p, q \in Places : BufferAt(p) = BufferAt(q) /\ BufferAt(p) # Null => p = q
  /\ Cardinality(LostBuffers) <= dropped + lostResponses

(* What reaches a client is the response to the request it waits for, not  *)
(* that of another client or of its connection before a timeout.           *)
AnswersOwnRequest ==
  \A c \in Clients :
    cstate[c] = "waiting" /\ outbound[conn[c]] # Null
      => outbound[conn[c]] = expect[c]

(* A key selected for writing still has its response and buffer when its   *)
(* turn comes, and a key selected for reading still has its client,        *)
(* whatever the handlers of other keys and the response queue did in       *)
(* between.                                                                *)
SelectedKeysUsable ==
  \A h \in Handles :
    /\ <<"write", h>> \in selected =>
         h \in connected /\ out[h] # "none" /\ tx[h] # Null
    /\ <<"read", h>> \in selected => h \in connected /\ rx[h] # Null

(* A response that is being written is not replaced by another one before  *)
(* the client has all of it.                                               *)
NoTornResponse ==
  [][\A h \in connected :
       out[h] # "none" /\ out'[h] # "none" => tx'[h] = tx[h]]_vars

(* selectQueue "empties the response queue": when the reactor is back in   *)
(* select() with nothing that would make it return, no response waits.     *)
NoStrandedResponse ==
  rpc = "select" /\ ~wakeup /\ Ready = {} /\ (\A w \in Workers : wpc[w] # "wake")
    => responses = <<>>

(* "Each requests generates a response": a client that waits is answered,  *)
(* or closes its connection.                                               *)
EveryRequestAnswered ==
  \A c \in Clients : cstate[c] = "waiting" ~> cstate[c] # "waiting"
=============================================================================
