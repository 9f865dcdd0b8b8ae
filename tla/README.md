# MLMQ: models, checks and proofs

MLMQ (`src/code/mlmq`) is a message queue: client programs talk over TCP to a
broker, which keeps clients, queues and messages in a PostgreSQL database.
This directory holds TLA+ modules translated from its Java and SQL, the TLC
configurations that check them on small instances, and proofs of the main
results for every instance. `PROJECT.json` maps each definition to the lines
it stands for, and lists components, runs, mutations, hazards and theorems.

In the following, `processing/`, `db/` and `nio/` stand for the packages of
these names under `src/code/mlmq/src/ch/ethz/mlmq/`.

## 1. Inventory

| component | state | operations | talks to |
|---|---|---|---|
| message store: `MessageDao`, `QueueDao`, stored procedures in `resource/db` | tables `message`, `queue`, `client`; row locks; the transactions of up to one connection per worker | dequeue, peek, send, send to client, delete queue | called by workers through the request processor; several brokers share one database |
| connection pool: `DbConnectionPool`, `DbConnection` | queue of idle connections, `closed` of each | init, get, return (and replace), close | borrowed from by workers; closed by the thread that stops the broker |
| reactor: `BrokerNetworkInterface`, `ConnectedClient`, `ByteBufferPool` | selector, keys, connected clients with their receive and send buffers, pool of buffers | accept, read, write, disconnect, empty the response queue | sockets; the two worker queues |
| workers: `Worker`, `WorkerTask`, `WorkerTaskQueueImpl`, `NetworkIntefaceResponseQueue` | two bounded queues, the task in each worker's hands | take, process, respond, wake the reactor | reactor, request processor |
| request processor: `RequestProcessor`, `ClientApplicationContext` | what a connection registered as | registration, queue creation and deletion, look-ups | message store |
| client connection: `ClientConnection`, `ClientImpl` | socket, `ioBuffer`, `wasTimedOut`, a timer thread | connect, submit a request, time out | the broker; called by scenarios |
| scenarios: `scenario/impl` | one loop per client program; in pairs a counter, whose turn it is and the conversation | send, receive, converse in pairs, reconnect | client connection; the clients of one mapping, through their queues |
| wire format: `net/` | position and limit of a buffer | frame, encode, decode | reactor, client connection |
| start and stop: `BrokerImpl`, `CommandFileHandler`, `SimpleShutdownBroker`, `main/` | fields of the broker that are set during the start, a flag per thread, the time of the last command | start, wait for a timer, shut down, poll a file | all of the broker, from two threads |
| performance log: `logging/` | the writer | write, close | workers, shutdown |
| configuration, database scripts, log analyzer, mean value analysis, system model | none that outlives a call | sequential evaluation | - |

What is hard in it: requests of many workers meet in the database, where a
statement waits for row locks and goes on with what it then finds; the reactor
and the workers pass buffers to and fro without locks while clients come and
go; both queues are bounded and drop; timeouts close a connection from another
thread, and the client goes on while its request may still be executed;
connections break in every state; and the broker is stopped while it works, or
while it is still starting. Each place is listed under `hazards` in
`PROJECT.json`, at its line, with the properties that watch it.

What makes each component correct:

* store - a message is handed out at most once, in the order asked for, and
  leaves only by delivery, with its queue, or behind a failed commit;
* pool - every slot is accounted for, a connection belongs to one worker, a
  broken one is not handed out, and workers do not all wait for good;
* reactor and workers - a buffer has one owner, a client is sent its own
  response and only whole ones, keys are used while they are valid, and no
  response is forgotten;
* registration - a name is one client, a client has one queue, and what is
  sent to a client arrives there or nowhere;
* wire format - what one side decodes is what the other encoded, wherever TCP
  cuts it, and the end of a message is found;
* client connection - a response is matched with its request across timeouts,
  and every wait ends;
* scenarios - a pair agrees on its counter and plays on, a one-way message is
  never doubled;
* start and stop - a command is executed once and in order, a worker ends only
  when it is told to, the reactor then or by a failure of its own, and a broker
  that is told to ends.

## 2. Modules

### MessageContract and MessageStore

`MessageContract` is the store as its users see it: a message is published
once, stays, and is then delivered to one client, lost, or purged with its
queue. `MessageStore` is the store as written: one action per statement.

* A dequeue (`MessageDao.dequeueMessage`) is one transaction:
  `DequeueBegin`, `Fetch` (the `SELECT ... FOR UPDATE` of the stored procedure
  takes its snapshot and its first choice), `LockRow` (gets the lock, or finds
  the row deleted and moves on, as PostgreSQL does at READ COMMITTED, without
  reading the table again), `DeleteRow`, `DequeueCommit`; or `DequeueNothing`.
* A send is one autocommitted INSERT for each queue (`InsertBegin`,
  `InsertCommit`); the foreign key waits for a deletion of the queue to end
  and fails after it (`BeingDeleted`, `InsertViolatesKey`). A send that fails
  at its second queue leaves its first message in place.
* `deleteQueue` locks the queue and then its rows one by one (`LockQueue`,
  `CascadeRow`), waiting for dequeues that hold them.
* `ConnectionFails` and `CommitUnacknowledged` break the connection before a
  commit takes effect, or after it.

`sent_at` is `time without time zone`: `TimeOfDay` keeps an instant modulo
`DayLength`. `delivered`, `lost` and `purged` are history variables, which the
refinement maps to the contract's. Contents of messages are left out; a row is
told apart by its id.

### BrokerPipeline

The reactor's loop is a small state machine, `rpc`: `Select` returns with the
keys that are ready, one action handles each of them in any order
(`SelectAccept`, `SelectWrite`, `SelectRead`, `SelectDisconnect`), `KeysDone`
turns to the response queue, and `SetResponse`, `UnknownClient`, `QueueEmpty`
are the iterations of that loop. Workers take a task, respond into the buffer
the request came in, and wake the selector up in a step of its own, as
`Selector.wakeup()` follows the `offer`. Clients connect, send one request at
a time, receive, and may close their connection at any point.

A write may be partial once per response. `content` says which request, or
the response to which request, a buffer holds, so that an aliased buffer shows
as a foreign answer. What a request does in the database is left to
`MessageStore`; how a request is put together from its bytes to
`RequestExchange`. `dropped` is a history variable.

### DbConnectionPool

`getConnection` (blocking), the statements' success or failure,
`returnConnection` with its replacement of closed connections, the fill at the
start, and the shutdown: `WorkerPool.close()` sets the flags and interrupts,
`DbConnectionPool.close()` walks the idle connections while workers go on.
`DbConnection.closed` is a plain field: a worker may see a connection that the
pool has shut as open (`LooksOpen`) or closed (`LooksClosed`); it always sees
what it closed itself. The iterator of the queue is weakly consistent:
`MaySee` lets it see, or not, what is added while it runs.

### ClientConnection

Two threads, the scenario's and the timer's, share `clientSocket` and
`wasTimedOut`. `submitRequest` is cut at every point where the timer can come
between: `Write`, `Arm`, `Read` (half a response at a time), `CancelTimer`,
`Return`, or on an exception `Classify` and `Throw`; the timer is
`TimerStarts`, `TimerFlags`, `TimerCloses`. `Connect` is what `OneWayClient`
does after a timeout, with the registration that follows as the first request.
The socket field is not volatile; the timer closes the socket it reads.

### Registry

Registration and `createQueue` are a look-up and then one or two INSERTs,
committed separately; `SendToClient` looks the recipient's queue up and
`InsertMessage` inserts. Between these steps other connections (of any broker)
do the same, or delete queues. Clients' queues and public queues share one
name space (`queue.name` is UNIQUE). `StatementFails` and `QueueInsertLost`
are failures before and after a statement took effect. Answers and look-ups
change nothing and are left out.

### WireFormat and RequestExchange

`WireFormat` has two operators for each class: `PutX` is its `serialize()`,
the bytes of its fields in the order they are written; `GetX` is its
`deserialize()`, which reads a buffer from a position on, field by field in
the order of that method, and returns the object with the position behind it.
They rest on those for what `ByteBufferUtil` puts and gets: big-endian numbers
of their width, a flag before what may be null (0 is true, -1 false), a length
before an array or a list. `SerializeRequest` and `DeserializeRequest`, and
the same for responses, put the type id in front (`serialVersionUID` cast to
int) and choose the class by it; `WithHeader` puts the length in front of all.
A String is its bytes, an exception what Java serialization makes of it, a long
within the range of TLC's int.

`RequestExchange` sends such objects: `SubmitRequest` writes a request,
`SelectRead` puts the next bytes at the position of the receive buffer and is
`hasReceivedMessage` with what it does to that position, `Respond` decodes the
request and encodes an answer, `ReadMore` and `ReadLast` are the loop of
`submitRequest`. `RequestTooLarge` and `ResponseTooLarge` are the
BufferOverflowExceptions on either side. Timeouts are in `ClientConnection`:
here a client that is not answered stops.

### ClientScenarios

The clients of one mapping and the broker between them. `PairedClient` is
`LookupPartner`, then `SendCounter` and `ReceiveCounter` in turns, with the
fields `sending`, `messageCounter` and `context`; `OneWayClient` is
`SendInitialMessage`, then `ReceiveMessage` and `ForwardMessage`. A partner is
the other one of two places in the mapping, whatever its class. A request and
its answer are one step, for the client does nothing in between; or the client
gives up waiting (`TimeOut`), reconnects, and the request joins `late`, from
where the broker executes it whenever it likes (`ExecuteLate`) or never. A
timeout outside of the loop, or within its catch clause, and any other
exception end the program. What was dequeued and not yet sent on is dropped.
Queues are bags: the order of the store is `MessageStore`'s. `hops` and
`robbed` are history variables.

### CommandFile

The handler's thread, step by step: `prepareFile` (`LookForFile`,
`CreateFile`, `NoteTime`) and `checkFile` (`CheckFile`, `ReadFile`,
`OnCommand`, `NoteTime`). The operator empties the file and writes a command
into it, two steps that may fall anywhere between the handler's; the time of
modification has the file system's resolution (`Tick`). `Stop` is called by
any thread at any time, also before the handler has raised its flag. The names
that other modules have too (`Init`, `Next`, `TypeOK`, ...) have `File` in
them here, so that one module can prove things about this one and the next.

### BrokerLifecycle

`Main.mainScenario` on the main thread: `StartHandler`, `StartNetwork`,
`WaitForStartup`, `CheckAlive`, `CreateWorkerPool`, `StartWorker`,
`ListWorker`, then `Run` (and `Timer`) of `SimpleShutdownBroker`, and
`shutdown()`. The same `shutdown()` is called by the handler on a command
(`TakeCommand`), so its steps have the caller as their parameter: `StopHandler`,
`LookAtLog`, `CloseLog`, `CloseNetwork`, `ListWorkers`, `CloseWorker`,
`ClosePool`; `ShutdownFails` is the null field or the list that grew under the
iterator. Reactor and workers have their flags, wake-ups and interrupts, and
the log that workers write (`OpenLog`, `WriteLog`). The reactor may fail in its
setup (`ReactorBegin`), or while it runs (`ReactorFails`: an `accept()` that
throws, `BrokerPipeline`'s `AcceptFails`, or `select()` itself); nobody hears
of the latter. Closing the connections is `DbConnectionPool`'s. `rTold`, `told`
and `rFault` are history variables: they tell apart who was told to stop before
it had begun, and how the reactor has failed.

### MC modules

`MCMessageStore`, `MCBrokerPipeline`, `MCRegistry`, `MCRequestExchange`,
`MCClientScenarios` and `MCCommandFile` define the requests, scripts, mappings
and symmetries of the instances. Symmetry is used by runs
without liveness only. Operators introduced by a comment "Mutation:" are wrong
versions of the definition after them: each property of a passing run is
violated when the definition is replaced by the mutation `PROJECT.json` names.

## 3. Runs

| run | question | instance |
|---|---|---|
| `store_mixed` | Are messages handed out once, in order, lost only to failures; do lock waits end; is the contract implemented? | 2 workers, 2 queues, 2 messages, one deleted queue, a send to both queues, one broken connection |
| `pipeline_faults` | Do buffers keep one owner, and clients get their own, whole responses under faults? | 2 clients, 2 workers, queues of 1, 3 connections, one close, one lost response, one failed accept |
| `pipeline_steady` | Is everyone answered when nothing fails? | 2 clients, 2 workers, queues of 2, 3 requests |
| `pipeline_stranded` (violated) | Does the reactor never sleep on a response? | as before, with one client that leaves |
| `pool_borrow` | Are slots conserved, connections exclusive and open; do waiters get on? | 3 workers, 2 connections, 3 errors, 2 refusals, a shutdown |
| `client_timeouts` | Is a response matched with its request, and does every wait end? | 4 requests, 3 connections, one closed by the broker |
| `exchange` | Is what is decoded what was encoded, wherever it is cut, with nothing left over? | every class of request and response, 3 reads each; a request too large for the client, an answer too large for it, one too large for the broker |
| `exchange_pieces` (violated) | Is a request that has arrived seen as complete? | as before |
| `registry` | Is a name one client with one queue, and are recipients right? | 2 connections, 2 client names, one shared with a public queue, 3 ids, one failure |
| `scenarios` | Do pairs agree and play on; is a one-way message never doubled? | 5 mappings of up to 3 clients, counters up to 3, 2 timeouts or exceptions |
| `command_file` | Is a command executed once, in order, and at all? | every script of 3 commands, 4 units of time, a stop |
| `lifecycle` | Does no worker end untold, and the reactor only told or by its own failure; does the process end? | 2 workers, 1 request, 1 command, a port, database or accept that may fail |

**Bounds.** They are the fewest actors at which each hazard happens: two
workers for one row; a third worker for two connections, so that one waits
while the others fail; two clients and two workers, so that responses overtake
each other, with queues of one so that they overflow; a connection more than
clients, so that a client returns under another handle; requests enough that
one follows a timeout; two faults, so that a request that was sent twice meets
one whose answer was lost; two workers, so that one is started while the other
is being stopped. The mutations confirm that the instances are large
enough for every property to fail if the code were wrong. Deadlock is not
checked in runs whose bounds stop the system; it is checked for the store,
where an idle worker can always peek.

**Fairness.** `MessageStore`: statements run on, a lock wait ends once the
lock is free; nobody has to send requests. `BrokerPipeline`: the reactor and
the workers are running threads, and a waiting client reads; nothing is
assumed of clients' sending or leaving, nor of failures. `DbConnectionPool`:
weak fairness for a worker's step; `take()` of the pool's queue is not fair
among waiters, so the claim is that *some* worker gets on. `ClientConnection`:
both threads run; the broker need not answer, since it is the timer that ends
the wait. `ClientScenarios`: a client whose request can be answered gets the
answer or runs into a fault, of which there are finitely many; nothing is
assumed of late requests. `CommandFile`: the handler's thread runs; the
operator need not write and time may stand still. `BrokerLifecycle`: every
thread that can go on does; commands, requests, failures and the timer need
not come.

## 4. What the violated runs show

1. `pipeline_stranded`: a response for a client that has left ends the loop
   over the response queue (`BrokerNetworkInterface.java:205`); those behind
   it wait until some other event wakes the reactor.
2. `exchange_pieces`: `hasReceivedMessage` (`ConnectedClient.java:84`) sets
   the position of the receive buffer to 0, reads the length, and leaves the
   position behind it when the request is not complete. The next piece is put
   over the beginning of the body: a request cut anywhere behind its first
   byte of the body is never complete, and its client waits for its timeout.
   A request cut within or right behind its length is put together correctly
   (`BothIntact`); the client's own loop reads the length with `getInt(0)`
   and is right.

Met while modelling, without a run of their own:

* `sent_at` is a time of day (`001_table_create.sql:26`), and the statements
  order by it: a message sent after midnight goes before those of the day
  before, although `MessageQueryInfoDto.java:32` says "oldest". An instance of
  `MessageStore` whose `DayLength` is 2 shows it;
* a dequeue that waited for a row another worker then deleted goes on with the
  next row of its snapshot, and does not see rows committed after it: when all
  it saw are gone it answers "nothing", though a match may have been committed
  while it waited; the comment at `MessageDao.java:182` says that the queue is
  empty or the filter does not match. `GivesUpOnlyWhenGone` states what does
  hold;
* `cancel()` does not stop a timer task that has begun to run
  (`ClientConnection.java:121`): it closes the connection between requests, or
  under the next one, which then fails (`RequestEnds` covers that it ends);
* a connection that cannot be replaced is gone for good; when all are,
  `getConnection` (`DbConnectionPool.java:69`) blocks, where its comment names
  an OutOfConnectionsException (`WaitersProgress` excepts this case);
* the client's buffer holds 4000 bytes (`Protocol.java:7`), the broker's 5000
  in every configuration of the repository, and the answer that delivers a
  message is at least 23 bytes longer than its request: a message close to
  the limit can be sent and is deleted from the store, but never received;
* a request that is too large leaves its beginning in `ioBuffer`
  (`ClientConnection.java:137`), in front of the next one; the scenarios end
  at that exception (`OneWayClient.java:77`);
* a full request queue drops the task with its pooled buffer
  (`BrokerNetworkInterface.java:316`), which is then never reused;
  `BuffersAccountedFor` shows that nothing else leaks;
* a full response queue drops a response (`Worker.java:97`); its client waits
  for its timeout;
* a worker that is busy while the pool is closed returns its connection
  afterwards and leaves it open (`DbConnectionPool.java:112`);
* the timer raises its flag before it closes the socket
  (`ClientConnection.java:211`): an exception of another cause in between is
  taken for a timeout while the connection is still open;
* registration that fails between its INSERTs leaves a client without a queue,
  whose name can never register again (`RequestProcessor.java:342`); so does
  the deletion of a client's queue, which every client may ask for;
* a pair whose message is taken by a dequeue that timed out never plays on:
  both wait (`PairGoesOn` excepts it, and nothing else but the end of a
  program). A request that is executed twice does no harm, because the
  requester asks for its latest conversation only;
* the context of a conversation is a `long` that the requester casts to int
  (`PairedClient.java:138`);
* a client that is alone in its mapping ends with an exception
  (`OneWayClient.java:124`), a paired one without a partner with a log line;
* a command that is written in the same unit of file time in which the handler
  noted the time, or between its reading the file and noting the time, is
  passed over (`CommandFileHandler.java:138`). `CommandTaken` is about the
  others; `BrokerCommandFileHandlerTest.java:20` says that it "fails from time
  to time";
* a worker that is told to stop before it has begun raises its flag again and
  takes the interrupt for an empty queue: it never stops, and neither does the
  process (`Worker.java:47`). `ShutdownStops` excepts it (`Deaf`). The reactor
  is safe once it is past its start, because workers are started after it;
* an `accept()` that throws is handled as if a client's key had failed
  (`BrokerNetworkInterface.java:151`), the cast of the server's channel (line
  176) throws again, and the reactor ends. The broker stays up without it until
  its timer or a command ends it: `EndsToldOrFailed` and `ShutdownStops` hold
  of this broker too;
* `shutdown()` during the start throws at the first field that is null
  (`BrokerImpl.java:59`), and the start goes on; the handler is gone then, and
  the timer ends the broker;
* on the command "shutdown" main goes on to wait for its timer, so the process
  stays although the broker is down: the second part of `ShutdownStops`;
* `lock.wait()` is not in a loop (`SimpleShutdownBroker.java:47`): a spurious
  wake-up, which is not modelled, would end the broker early;
* a worker that logs after the close opens the log again
  (`PerformanceLoggerImpl.java:58`), and nobody closes it;
* `queuesWithPendingMessages` lists every queue with a message, those of other
  clients too, where its statement is named for public ones
  (`MessageDao.java:67`); `SimpleReceiveClient` looks its own queue up in each
  round and never keeps the answer.

## 5. Proofs

Eight modules of theorems hold for all values of the constants that satisfy
the named assumptions of their modules: clients, workers, queues, requests and
faults of any number (`DbConnectionPool` takes finitely many workers, because
its invariant counts them). Each is named after the module it is about with
`Proofs` added; `StartStopProofs` is about `CommandFile` and `BrokerLifecycle`,
the two parts of one component. For each module, the safety properties follow
from one inductive invariant, `IInv` (`FileIInv` for `CommandFile`), of which
every conjunct is a definition with a comment. TLC finds each `IInv` true in
all states of the instances of section 3 too (that of `BrokerPipeline` with the
first 14 buffers of the endless supply). Between them the theorems state every
invariant and every action property that passing runs check.

*MessageStore.* The safety properties follow from `IInv`, which adds to them
that ids tell rows apart, also from rows already gone and rows about to be
committed (`RowsDistinct`); that a request fits its statement (`JobFits`);
that a SELECT only knows rows that exist or are gone, skips only gone ones,
and wants the first of the others (`ScanSound`); and that a lock is held by
one transaction on a row of the table (`LocksSound`). Without `LocksSound` the
DELETE could count zero; without `ScanSound` the order could not be kept after
a wait. `StepEffect`-like lemmas (`RowEffect`, `OthersKeep`) reduce every
action to the few effects it can have, and one lemma per conjunct shows it
preserved. Proved: `TypesHold`, `DeletesOneRow`, `FatesAreDisjoint`,
`LossIsBounded`, `DequeuesInOrder`, `NothingLeftBehind`, and of steps
`HolderDeletes`, `AtMostOnce`, and `ImplementsContract`: every statement maps
to a step of `MessageContract` or to none.

*DbConnectionPool.* `IInv` adds that a worker has a connection exactly while
it uses or returns it (`BorrowsToUse`), that only created connections are
anywhere, so that a new one is new (`OnlyCreated`), and that a closed one is
not offered (`ClosedIsGone`). Proved: `PoolTypes`, `SlotsAddUp`,
`NeverShared`, `NeverOverfull`, `OnlyOpenOnes`.

*CommandFile.* What the file holds is the last command written
(`LastCommand`); if it has been executed already, the time noted is not before
the file's, or is about to be noted (`NotedWhenExecuted`); so what `checkFile`
decides to read is newer, and what it has read is later than all it has
executed (`ReadsLater`). That the operator empties the file only for a further
command (`InScript`) keeps the count within the script. Proved:
`HandlerTypes`, `OnceAndInOrder`, for every script, however long, and any
resolution of the clock.

*BrokerLifecycle.* A worker's flag is lowered by nobody but `shutdown()`
(`WorkersTold`), the reactor's by it and by the reactor's own end, so that a
dead reactor was told or has failed (`ReactorTold`); main starts workers only
after the reactor has begun (`ReactorBeforeWorkers`), and one that failed in
its setup stays dead, where main's look at it finds it (`NoneForFailedSetup`).
Proved: `LifecycleTypes`, which bounds the iterators of both shutdowns by the
list that grows under them, and `ThreadsEndToldOrFailed`, for any number of
workers, commands and requests, and a reactor that fails at any time.

*BrokerPipeline.* The pool hands out a buffer it has, or allocates one; the
proofs see both as one endless supply, `Slot(pool, allocated, i)`, of which
`acquire()` takes the first and to which `release()` adds, so that a buffer is
either free or has an owner. The two queues and the hands of the workers are
one set, `Tasks`: a step of a queue or a worker moves a task, adds one or
drops one. `BuffersDistinct` says that a buffer is in the supply, in one task,
or with one connection, and there either to read or to write;
`TasksDistinct` and `OneRequest` that a connection has one request under way,
be it unread, a task or a response, also when its client has left; `OwnRequest`
that, while the client is there, it is the one the client waits with. Without
`OneRequest` a second request could replace a response that is half written.
`Counted` bounds the buffers allocated by the connections and requests that
took them, and `FewLost` the buffers nobody has by the requests and responses
dropped. Proved: `PipelineTypeCorrect`, `PipelineAnswersOwnRequest`,
`PipelineBuffersAccountedFor`, `PipelineKeysUsable`, and of steps
`PipelineNoTornResponse`.

*ClientConnection.* On the socket in use the broker owes nothing but the
response to the current request, and none of it is left when a request begins
(`OneInFlight`): a request that timed out was sent on an earlier socket
(`SentInOrder`), which `Connect` has replaced, and what is still under way on
that one is not read any more. Proved:
`ClientTypeCorrect`, `ClientAnswersOwnRequest`, `ClientNoSocketLeak`.

*Registry.* Uniqueness of ids and names is the database's (`KeysUnique`). What
a connection found is still true when it uses it: the client it registers is in
the table (`RequestSound`); it alone inserts the queue of a client it has
inserted (`OneInserter`); and the id of a queue it looked up was drawn from the
sequence, so that after a deletion no other queue can get it (`SendingSound`,
`ContextKnown`). Proved: `RegistryTypeCorrect`, `RegistryOneQueue`,
`RegistryContextSound`, `RegistryRightRecipient`.

*ClientScenarios.* A one-way message is a set of copies, in queues, in hands
and in late requests: there is never more than one, and it says how often it
was sent (`MessagesSound`), also a late one, which says how often it was sent
until then. For pairs the invariant is about a requester that waits in a
conversation (`Conversations`): that conversation is its own, what is in it is
its request or the answer to it, queued, late or about to be sent by its
partner, and has its counter or one more. Requests that were sent twice are in
conversations of which nobody waits. That a conversation is new when it is
opened is `ContextsKnown`. Two lemmas about bags say what a queue that gains
or loses a message is; from them follows what each kind of step does to each
part. Proved: `ScenarioTypeCorrect`, `ScenarioCountersAgree`,
`ScenarioCountedOnce`.

*WireFormat and RequestExchange.* `At(b, p, s, q)` says that the bytes `s` are
in buffer `b` from position `p` to `q`, and `Reads` that a value written as `s`
is read as that value wherever `s` is in a buffer, whatever is around it, up to
its last byte. That is what makes codecs compose: what is put one after the
other is found one after the other (`AtTwo` to `AtSix`). From the numbers
(`IntCodec`: four bytes make the int again, its sign included) follow strings,
flagged values, lists of any length, transfer objects, and then each class that
has fields, by a lemma of its own. Lists are the one place where the data has
no fixed shape: the recursive functions behind `PutList` and `GetList` exist
and agree because there is no first item at which they would not (`NatLeast`,
in place of the library's induction theorems, which these provers cannot
instantiate). That the type
ids differ, so that the class found is the class written, is
`RequestTypeIds` and `ResponseTypeIds`. Proved: `RequestRoundTrip` and
`ResponseRoundTrip`, for all values of all fields: null or not, arrays and
strings of any length an int can state, numbers in all of their range.

For the exchange, the invariant says of each place of `pc` where the frame is.
What a client reads of a response is always a prefix of it, and the stream the
rest (`Intact`): so the length at its beginning is right as soon as four bytes
are there, and the response is complete exactly when the stream is empty. A
request the broker reads is intact only while its position is at most 4.
`hasReceivedMessage` then puts the position back (section 4), and from there
`Overtaken` holds: the header still states the length, and fewer bytes than
that are to come. Without this disjunct the invariant would be false, and
without its second half a request of which the middle was overwritten could
still become complete, and reach a worker: `BothIntact` holds because it
cannot. Proved: `TypesHold`, `ExchangeIntact`, `ResponseRead`, for any requests
and responses, any capacities of both buffers, and wherever TCP cuts.

TLC agrees with each property in the runs; `PROJECT.json` names the pairs.

Only model-checked: liveness (`EveryRequestIsAnswered`, `EveryRequestAnswered`,
`WaitersProgress`, `RequestEnds`, `PairGoesOn`, `CommandTaken`,
`ShutdownStops`), for the prover has neither fairness nor ENABLED.

## 6. Not modelled, and abstractions

* The list of queues with pending messages and look-ups are read-only.
* The server side of a connection whose statements could not be prepared:
  `Refuse` treats it as one that was not created.
* Closing a socket or a connection is one step.
* Message contents (outside `RequestExchange`), logging and timing measurements.
* The other scenarios (`SendReceiveClient`, `SimpleSendClient`,
  `SimpleReceiveClient`, the clients of public queues): loops of requests with
  no state between them; their requests are `MessageStore`'s, their reconnect
  `ClientConnection`'s.
* Reading of properties and arguments, database scripts, log analyzer, mean
  value analysis, system model: sequential, run once or by hand, in part in
  floating point.

## 7. Plan

1. Pure functions: the parser of the scenario mapping in `Configuration` and
   the buckets of the log analyzer.
2. Several brokers over one database, with their own pools, as one
   composition.
