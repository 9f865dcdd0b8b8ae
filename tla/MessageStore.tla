---------------------------- MODULE MessageStore ----------------------------
(***************************************************************************)
(* The table `message` of the broker's database and the statements that    *)
(* the broker's worker threads run on it: dequeueMessage, peekMessage,     *)
(* insertMessage (MessageDao) and deleteQueue (QueueDao).                  *)
(*                                                                         *)
(* Every worker owns one connection while it handles a request.  dequeue   *)
(* is one transaction of three statements; an insert is a transaction of   *)
(* its own for every queue of the request; deleteQueue cascades to the     *)
(* messages.  Transactions run at PostgreSQL's default level, READ         *)
(* COMMITTED: a statement reads a snapshot of the committed rows, FOR      *)
(* UPDATE waits for the transaction that holds the row's lock and then     *)
(* skips the row if that transaction deleted it.                           *)
(***************************************************************************)
EXTENDS Naturals, Sequences, FiniteSets

CONSTANTS
  Workers,       \* the worker threads, one connection each
  Queues,        \* ids a queue may have
  Clients,       \* ids of the sending clients
  Contexts,      \* conversation contexts
  Prios,         \* priorities of messages
  NONE,          \* SQL NULL
  OK, ERROR,     \* answers that carry no message: done, ExceptionResponse
  Queries,       \* the MessageQueryInfoDto values clients ask with
  Sends,         \* the send requests clients make
  Deletions,     \* the queues clients ask to delete
  DayLength,     \* instants in a day: the range of a `time without time zone`
  MaxMessages,   \* bound: rows ever inserted
  MaxFailures    \* bound: SQLExceptions raised by a broken connection

Query == [queue: Queues \cup {NONE}, sender: Clients \cup {NONE},
          context: Contexts \cup {NONE}, byPrio: BOOLEAN]
Send  == [queues: Seq(Queues), sender: Clients, prio: Prios,
          context: Contexts \cup {NONE}]

ASSUME WorkersAssumption == NONE \notin Workers
ASSUME KeysAssumption    == NONE \notin Queues \cup Clients \cup Contexts
ASSUME PriosAssumption   == Prios \subseteq Nat
ASSUME RequestAssumption == Queries \subseteq Query /\ Sends \subseteq Send
                              /\ Deletions \subseteq Queues
ASSUME DayAssumption     == DayLength \in Nat \ {0}
ASSUME BoundsAssumption  == MaxMessages \in Nat /\ MaxFailures \in Nat

(* A row of the table.  id numbers the inserts in the order they happen,   *)
(* so it also stands for the instant of the insert; sentAt is what the     *)
(* column sent_at keeps of that instant.                                   *)
Row == [id: Nat, queue: Queues, sender: Clients, prio: Prios,
        sentAt: Nat, context: Contexts \cup {NONE}]

ASSUME MarkersAssumption == NONE \notin Row /\ OK \notin Row /\ ERROR \notin Row

VARIABLES
  queue,      \* the committed rows of table queue
  message,    \* the committed rows of table message
  nextId,     \* sequence message_id, and the clock NOW() reads
  pc,         \* the statement each worker's connection is at
  job,        \* the request the worker is handling
  todo,       \* queues a send has still to insert into
  row,        \* the row an INSERT is about to make visible
  snapshot,   \* the matching rows that the worker's SELECT sees
  skipped,    \* rows of the snapshot the SELECT found deleted
  hit,        \* the row the SELECT wants, then holds
  held,       \* the row locks of the worker's transaction
  count,      \* the update count of the worker's DELETE
  answer,     \* what the worker's last request was answered with
  failures,   \* SQLExceptions so far (bounded)
  delivered,  \* history: rows answered to a client that dequeued them
  lost,       \* history: rows whose DELETE committed but whose answer is an error
  purged      \* history: rows deleted together with their queue

txVars   == <<pc, job, todo, row, snapshot, skipped, hit, held, count, answer>>
history  == <<delivered, lost, purged>>
vars     == <<queue, message, nextId, txVars, failures, history>>

Idle(w)  == pc[w] = "idle"
(* Mutation: a SELECT without FOR UPDATE. *)
LockedIgnored(m, w) == FALSE
Locked(m, w) == \E v \in Workers \ {w} : m \in held[v]

Matches(m, q) ==
  /\ q.queue   = NONE \/ m.queue   = q.queue
  /\ q.sender  = NONE \/ m.sender  = q.sender
  /\ q.context = NONE \/ m.context = q.context

(* ORDER BY prio DESC, or ORDER BY sent_at. *)
Before(m, n, q) == IF q.byPrio THEN m.prio > n.prio ELSE m.sentAt < n.sentAt

First(S, q) == {m \in S : \A n \in S : ~Before(n, m, q)}

(* What DEFAULT NOW() leaves in a column of type time: the time of day.    *)
TimeOfDay(now) == now % DayLength

Visible(q) == {m \in message : Matches(m, q)}

-----------------------------------------------------------------------------
Init ==
  /\ queue = Queues
  /\ message = {}
  /\ nextId = 0
  /\ pc       = [w \in Workers |-> "idle"]
  /\ job      = [w \in Workers |-> NONE]
  /\ todo     = [w \in Workers |-> <<>>]
  /\ row      = [w \in Workers |-> NONE]
  /\ snapshot = [w \in Workers |-> {}]
  /\ skipped  = [w \in Workers |-> {}]
  /\ hit      = [w \in Workers |-> NONE]
  /\ held     = [w \in Workers |-> {}]
  /\ count    = [w \in Workers |-> 0]
  /\ answer   = [w \in Workers |-> OK]
  /\ failures = 0
  /\ delivered = {} /\ lost = {} /\ purged = {}

(* Mutation: the transaction is left open. *)
FinishUncommitted(w, a) ==
  /\ pc'     = [pc EXCEPT ![w] = "idle"]
  /\ answer' = [answer EXCEPT ![w] = a]
  /\ job'    = [job EXCEPT ![w] = NONE]
  /\ todo'   = [todo EXCEPT ![w] = <<>>]
  /\ row'    = [row EXCEPT ![w] = NONE]
  /\ snapshot' = [snapshot EXCEPT ![w] = {}]
  /\ skipped'  = [skipped EXCEPT ![w] = {}]
  /\ hit'    = [hit EXCEPT ![w] = NONE]
  /\ count'  = [count EXCEPT ![w] = 0]
  /\ UNCHANGED held

(* The worker answers a and gives its connection back; a transaction that  *)
(* ends releases its row locks.                                            *)
Finish(w, a) ==
  /\ pc'       = [pc EXCEPT ![w] = "idle"]
  /\ answer'   = [answer EXCEPT ![w] = a]
  /\ job'      = [job EXCEPT ![w] = NONE]
  /\ todo'     = [todo EXCEPT ![w] = <<>>]
  /\ row'      = [row EXCEPT ![w] = NONE]
  /\ snapshot' = [snapshot EXCEPT ![w] = {}]
  /\ skipped'  = [skipped EXCEPT ![w] = {}]
  /\ hit'      = [hit EXCEPT ![w] = NONE]
  /\ held'     = [held EXCEPT ![w] = {}]
  /\ count'    = [count EXCEPT ![w] = 0]

-----------------------------------------------------------------------------
(* dequeueMessage.  BEGIN, then the SELECT ... FOR UPDATE takes its        *)
(* snapshot.                                                               *)
DequeueBegin(w, q) ==
  /\ Idle(w)
  /\ pc'       = [pc EXCEPT ![w] = "scan"]
  /\ job'      = [job EXCEPT ![w] = q]
  /\ snapshot' = [snapshot EXCEPT ![w] = Visible(q)]
  /\ UNCHANGED <<queue, message, nextId, todo, row, skipped, hit, held, count,
                 answer, failures, history>>

(* The SELECT turns to the next row of its snapshot in the requested order *)
Fetch(w) ==
  /\ pc[w] = "scan"
  /\ \E m \in First(snapshot[w] \ skipped[w], job[w]) :
       hit' = [hit EXCEPT ![w] = m]
  /\ pc' = [pc EXCEPT ![w] = "lock"]
  /\ UNCHANGED <<queue, message, nextId, job, todo, row, snapshot, skipped,
                 held, count, answer, failures, history>>

(* Mutation: FOR UPDATE SKIP LOCKED. *)
LockRowSkipLocked(w) ==
  /\ pc[w] = "lock"
  /\ IF hit[w] \in message /\ ~Locked(hit[w], w)
     THEN /\ held' = [held EXCEPT ![w] = @ \cup {hit[w]}]
          /\ pc'   = [pc EXCEPT ![w] = "delete"]
          /\ UNCHANGED <<skipped, hit>>
     ELSE /\ skipped' = [skipped EXCEPT ![w] = @ \cup {hit[w]}]
          /\ hit' = [hit EXCEPT ![w] = NONE]
          /\ pc'  = [pc EXCEPT ![w] = "scan"]
          /\ UNCHANGED held
  /\ UNCHANGED <<queue, message, nextId, job, todo, row, snapshot, count,
                 answer, failures, history>>

(* Mutation: the row is not looked at again after the wait. *)
LockRowUnchecked(w) ==
  /\ pc[w] = "lock"
  /\ ~Locked(hit[w], w)
  /\ held' = [held EXCEPT ![w] = @ \cup {hit[w]}]
  /\ pc'   = [pc EXCEPT ![w] = "delete"]
  /\ UNCHANGED <<queue, message, nextId, job, todo, row, snapshot, skipped, hit,
                 count, answer, failures, history>>

(* ... waits until no other transaction holds the row, and locks it, or    *)
(* skips it when the holder deleted it.                                    *)
LockRow(w) ==
  /\ pc[w] = "lock"
  /\ ~Locked(hit[w], w)
  /\ \/ /\ hit[w] \in message
        /\ held' = [held EXCEPT ![w] = @ \cup {hit[w]}]
        /\ pc'   = [pc EXCEPT ![w] = "delete"]
        /\ UNCHANGED <<skipped, hit>>
     \/ /\ hit[w] \notin message
        /\ skipped' = [skipped EXCEPT ![w] = @ \cup {hit[w]}]
        /\ hit' = [hit EXCEPT ![w] = NONE]
        /\ pc'  = [pc EXCEPT ![w] = "scan"]
        /\ UNCHANGED held
  /\ UNCHANGED <<queue, message, nextId, job, todo, row, snapshot, count,
                 answer, failures, history>>

(* The SELECT returned no row: COMMIT, and the answer carries no message.  *)
DequeueNothing(w) ==
  /\ pc[w] = "scan"
  /\ snapshot[w] \ skipped[w] = {}
  /\ Finish(w, NONE)
  /\ UNCHANGED <<queue, message, nextId, failures, history>>

(* DELETE FROM message WHERE id = ?, and its update count.                 *)
DeleteRow(w) ==
  /\ pc[w] = "delete"
  /\ count' = [count EXCEPT ![w] =
                 Cardinality({m \in message : m.id = hit[w].id})]
  /\ pc' = [pc EXCEPT ![w] = "commit"]
  /\ UNCHANGED <<queue, message, nextId, job, todo, row, snapshot, skipped,
                 hit, held, answer, failures, history>>

(* COMMIT: the delete takes effect.  An update count other than one is     *)
(* committed as well, and answered with an error.                          *)
DequeueCommit(w) ==
  /\ pc[w] = "commit"
  /\ message' = {m \in message : m.id # hit[w].id}
  /\ IF count[w] = 1
     THEN /\ Finish(w, hit[w])
          /\ delivered' = delivered \cup {hit[w]}
     ELSE /\ Finish(w, ERROR)
          /\ UNCHANGED delivered
  /\ UNCHANGED <<queue, nextId, failures, lost, purged>>

(* peekMessage: one statement, no lock.                                    *)
PeekMessage(w, q) ==
  /\ Idle(w)
  /\ IF Visible(q) = {}
     THEN answer' = [answer EXCEPT ![w] = NONE]
     ELSE \E m \in First(Visible(q), q) : answer' = [answer EXCEPT ![w] = m]
  /\ UNCHANGED <<queue, message, nextId, pc, job, todo, row, snapshot, skipped,
                 hit, held, count, failures, history>>

-----------------------------------------------------------------------------
(* insertMessage: an autocommitted INSERT for each queue of the request.   *)
(* The bound on rows counts the ones requests under way will insert.       *)
Promised == UNION {{w} \X DOMAIN todo[w] : w \in Workers}

SendBegin(w, s) ==
  /\ Idle(w)
  /\ nextId + Cardinality(Promised) + Len(s.queues) <= MaxMessages
  /\ pc'   = [pc EXCEPT ![w] = "send"]
  /\ job'  = [job EXCEPT ![w] = s]
  /\ todo' = [todo EXCEPT ![w] = s.queues]
  /\ UNCHANGED <<queue, message, nextId, row, snapshot, skipped, hit, held,
                 count, answer, failures, history>>

(* Mutation: the row names all queues of the request. *)
InsertBeginList(w) ==
  /\ pc[w] = "send"
  /\ todo[w] # <<>>
  /\ row' = [row EXCEPT ![w] =
               [id |-> nextId, queue |-> todo[w], sender |-> job[w].sender,
                prio |-> job[w].prio, sentAt |-> TimeOfDay(nextId),
                context |-> job[w].context]]
  /\ todo' = [todo EXCEPT ![w] = Tail(@)]
  /\ nextId' = nextId + 1
  /\ pc' = [pc EXCEPT ![w] = "insert"]
  /\ UNCHANGED <<queue, message, job, snapshot, skipped, hit, held, count,
                 answer, failures, history>>

(* The INSERT draws its id and reads the clock ...                         *)
InsertBegin(w) ==
  /\ pc[w] = "send"
  /\ todo[w] # <<>>
  /\ row' = [row EXCEPT ![w] =
               [id |-> nextId, queue |-> Head(todo[w]), sender |-> job[w].sender,
                prio |-> job[w].prio, sentAt |-> TimeOfDay(nextId),
                context |-> job[w].context]]
  /\ todo' = [todo EXCEPT ![w] = Tail(@)]
  /\ nextId' = nextId + 1
  /\ pc' = [pc EXCEPT ![w] = "insert"]
  /\ UNCHANGED <<queue, message, job, snapshot, skipped, hit, held, count,
                 answer, failures, history>>

(* A transaction that is deleting queue k holds its row.                   *)
BeingDeleted(k) == \E w \in Workers : pc[w] = "cascade" /\ job[w] = k

(* ... and commits once the foreign key on the queue is checked.           *)
InsertCommit(w) ==
  /\ pc[w] = "insert"
  /\ row[w].queue \in queue
  /\ ~BeingDeleted(row[w].queue)
  /\ message' = message \cup {row[w]}
  /\ row' = [row EXCEPT ![w] = NONE]
  /\ pc'  = [pc EXCEPT ![w] = "send"]
  /\ UNCHANGED <<queue, nextId, job, todo, snapshot, skipped, hit, held, count,
                 answer, failures, history>>

(* The queue is gone: the INSERT raises an SQLException; the rows that     *)
(* the request inserted before stay.                                       *)
InsertViolatesKey(w) ==
  /\ pc[w] = "insert"
  /\ row[w].queue \notin queue
  /\ Finish(w, ERROR)
  /\ UNCHANGED <<queue, message, nextId, failures, history>>

SendDone(w) ==
  /\ pc[w] = "send"
  /\ todo[w] = <<>>
  /\ Finish(w, OK)
  /\ UNCHANGED <<queue, message, nextId, failures, history>>

-----------------------------------------------------------------------------
(* deleteQueue: DELETE FROM queue, with ON DELETE CASCADE to the messages. *)
DeleteQueueBegin(w, k) ==
  /\ Idle(w)
  /\ pc'  = [pc EXCEPT ![w] = "delqueue"]
  /\ job' = [job EXCEPT ![w] = k]
  /\ UNCHANGED <<queue, message, nextId, todo, row, snapshot, skipped, hit,
                 held, count, answer, failures, history>>

(* The statement locks the queue's row, or finds none to delete.           *)
LockQueue(w) ==
  /\ pc[w] = "delqueue"
  /\ ~BeingDeleted(job[w])
  /\ \/ /\ job[w] \in queue
        /\ pc' = [pc EXCEPT ![w] = "cascade"]
        /\ UNCHANGED <<job, todo, row, snapshot, skipped, hit, held, count,
                       answer>>
     \/ /\ job[w] \notin queue
        /\ Finish(w, OK)
  /\ UNCHANGED <<queue, message, nextId, failures, history>>

RowsOf(k) == {m \in message : m.queue = k}

(* The cascade deletes the queue's rows one by one, each once it can lock  *)
(* it.                                                                     *)
CascadeRow(w) ==
  /\ pc[w] = "cascade"
  /\ \E m \in RowsOf(job[w]) \ held[w] :
       /\ ~Locked(m, w)
       /\ held' = [held EXCEPT ![w] = @ \cup {m}]
  /\ UNCHANGED <<queue, message, nextId, pc, job, todo, row, snapshot, skipped,
                 hit, count, answer, failures, history>>

DeleteQueueCommit(w) ==
  /\ pc[w] = "cascade"
  /\ RowsOf(job[w]) \subseteq held[w]
  /\ queue'   = queue \ {job[w]}
  /\ message' = message \ held[w]
  /\ purged'  = purged \cup held[w]
  /\ Finish(w, OK)
  /\ UNCHANGED <<nextId, failures, delivered, lost>>

-----------------------------------------------------------------------------
(* The connection breaks: the server rolls the transaction back and the    *)
(* client is answered with an error ...                                    *)
Fail(w) ==
  /\ failures < MaxFailures
  /\ failures' = failures + 1
  /\ Finish(w, ERROR)

ConnectionFails(w) ==
  /\ ~Idle(w)
  /\ Fail(w)
  /\ UNCHANGED <<queue, message, nextId, history>>

(* Mutation: DELETE FROM message WHERE queue_id = ?. *)
CommitUnacknowledgedByQueue(w) ==
  /\ Fail(w)
  /\ pc[w] = "commit"
  /\ message' = {m \in message : m.queue # hit[w].queue}
  /\ lost' = lost \cup (message \ message')
  /\ UNCHANGED <<queue, purged, nextId, delivered>>

(* ... even if it breaks after the server has committed.                   *)
CommitUnacknowledged(w) ==
  /\ Fail(w)
  /\ \/ /\ pc[w] = "commit"
        /\ message' = {m \in message : m.id # hit[w].id}
        /\ lost' = lost \cup (message \ message')
        /\ UNCHANGED <<queue, purged>>
     \/ /\ pc[w] = "insert"
        /\ row[w].queue \in queue /\ ~BeingDeleted(row[w].queue)
        /\ message' = message \cup {row[w]}
        /\ UNCHANGED <<queue, lost, purged>>
     \/ /\ pc[w] = "cascade"
        /\ RowsOf(job[w]) \subseteq held[w]
        /\ queue'   = queue \ {job[w]}
        /\ message' = message \ held[w]
        /\ purged'  = purged \cup held[w]
        /\ UNCHANGED lost
  /\ UNCHANGED <<nextId, delivered>>

-----------------------------------------------------------------------------
Request(w) ==
  \/ \E q \in Queries : DequeueBegin(w, q) \/ PeekMessage(w, q)
  \/ \E s \in Sends   : SendBegin(w, s)
  \/ \E k \in Deletions : DeleteQueueBegin(w, k)

Dequeue(w) == \/ Fetch(w) \/ LockRow(w) \/ DequeueNothing(w)
              \/ DeleteRow(w) \/ DequeueCommit(w)
Insert(w)  == \/ InsertBegin(w) \/ InsertCommit(w) \/ InsertViolatesKey(w)
              \/ SendDone(w)
Delete(w)  == LockQueue(w) \/ CascadeRow(w) \/ DeleteQueueCommit(w)

Failure(w) == ConnectionFails(w) \/ CommitUnacknowledged(w)

Next == \E w \in Workers :
          Request(w) \/ Dequeue(w) \/ Insert(w) \/ Delete(w) \/ Failure(w)

Spec == Init /\ [][Next]_vars

(* The database executes a statement it can execute; whether clients ask   *)
(* and connections break is left open.                                     *)
Fairness == \A w \in Workers : WF_vars(Dequeue(w) \/ Insert(w) \/ Delete(w))

FairSpec == Spec /\ Fairness
-----------------------------------------------------------------------------
(* Properties *)

Jobs    == Query \cup Send \cup Queues \cup {NONE}
Answers == Row \cup {NONE, OK, ERROR}
Statements == {"idle", "scan", "lock", "delete", "commit", "send", "insert",
               "delqueue", "cascade"}

(* Types: a worker is in one of the statements and its answer is a row or  *)
(* one of the three markers.                                               *)
TypeOK ==
  /\ queue \subseteq Queues
  /\ message \subseteq Row
  /\ nextId \in Nat
  /\ pc \in [Workers -> Statements]
  /\ job \in [Workers -> Jobs]
  /\ todo \in [Workers -> Seq(Queues)]
  /\ row \in [Workers -> Row \cup {NONE}]
  /\ snapshot \in [Workers -> SUBSET Row]
  /\ skipped \in [Workers -> SUBSET Row]
  /\ hit \in [Workers -> Row \cup {NONE}]
  /\ held \in [Workers -> SUBSET Row]
  /\ count \in [Workers -> Nat]
  /\ answer \in [Workers -> Answers]
  /\ failures \in Nat
  /\ delivered \subseteq Row /\ lost \subseteq Row /\ purged \subseteq Row

(* The error branch of dequeueMessage ("Dequeue did not work") is never    *)
(* taken: whatever other workers dequeue and whichever queues are deleted  *)
(* between the SELECT and the DELETE, the DELETE removes exactly one row.  *)
DeleteCountIsOne == \A w \in Workers : pc[w] = "commit" => count[w] = 1

(* Every row has one fate: it is in the table, or was delivered to one     *)
(* client, or was lost behind an unacknowledged commit, or went with its   *)
(* queue.  In particular no message is handed out a second time.           *)
OneFate ==
  /\ message \cap (delivered \cup lost \cup purged) = {}
  /\ delivered \cap (lost \cup purged) = {}
  /\ lost \cap purged = {}

(* A message is lost only to a connection that broke during a commit, and  *)
(* each broken connection loses at most one.                               *)
LossNeedsFailure == IsFiniteSet(lost) /\ Cardinality(lost) <= failures

(* Waiting for a row lock never makes a dequeue overtake: a row it has     *)
(* decided to delete comes, in the order it asked for, after no row that   *)
(* its SELECT saw and that is still in the table.                          *)
NoOvertaking ==
  \A w \in Workers : pc[w] \in {"delete", "commit"} =>
    \A m \in snapshot[w] \cap message : ~Before(m, hit[w], job[w])

(* A dequeue gives up only when every row it saw has been deleted.         *)
GivesUpOnlyWhenGone ==
  \A w \in Workers :
    pc[w] = "scan" /\ snapshot[w] \subseteq skipped[w]
      => snapshot[w] \cap message = {}

(* A row leaves the table only by the commit of the transaction that       *)
(* holds its lock, and no two transactions ever end up deleting it.        *)
OnlyTheHolderDeletes ==
  [][\A m \in message \ message' :
       \E w \in Workers : m \in held[w] /\ held'[w] = {}]_vars

(* A client is handed a message at most once: an answered dequeue carries  *)
(* a row that no earlier dequeue carried, and that matches the query.      *)
DeliversFreshMatch ==
  [][\A w \in Workers : pc[w] = "commit" /\ pc'[w] = "idle" /\ answer'[w] \in Row
       => /\ answer'[w] \notin delivered
          /\ Matches(answer'[w], job[w])]_vars

(* No request hangs in the database: lock waits among dequeues, inserts    *)
(* and queue deletions always end.                                         *)
EveryRequestIsAnswered == \A w \in Workers : ~Idle(w) ~> Idle(w)

-----------------------------------------------------------------------------
(* The inductive invariant behind the safety properties. *)

Gone == delivered \cup lost \cup purged

(* Rows are told apart by their ids, also from rows already gone and from  *)
(* rows whose INSERT has not committed.                                    *)
RowsDistinct ==
  /\ \A m \in message \cup Gone : m.id < nextId
  /\ \A m, n \in message \cup Gone : m.id = n.id => m = n
  /\ \A w \in Workers : pc[w] = "insert" =>
       /\ row[w] \in Row
       /\ row[w].id < nextId
       /\ \A m \in message \cup Gone : m.id # row[w].id
       /\ \A v \in Workers : pc[v] = "insert" /\ row[v].id = row[w].id => v = w

(* The request that goes with the statement. *)
JobFits ==
  \A w \in Workers :
    /\ pc[w] \in {"scan", "lock", "delete", "commit"} => job[w] \in Query
    /\ pc[w] \in {"send", "insert"} => job[w] \in Send
    /\ pc[w] \in {"delqueue", "cascade"} => job[w] \in Queues

(* What a SELECT knows: the rows it may return matched, those it skipped   *)
(* are gone, and the one it wants is the first of the others.              *)
ScanSound ==
  \A w \in Workers :
    /\ snapshot[w] \subseteq message \cup Gone
    /\ skipped[w] \subseteq Gone
    /\ \A m \in snapshot[w] : Matches(m, job[w])
    /\ pc[w] \notin {"scan", "lock", "delete", "commit"} => snapshot[w] = {}
    /\ pc[w] \in {"lock", "delete", "commit"} =>
         hit[w] \in First(snapshot[w] \ skipped[w], job[w])

(* A row lock is held by one transaction, on a row of the table, and a     *)
(* dequeue holds no lock but the one on its hit.                           *)
LocksSound ==
  \A w \in Workers :
    /\ held[w] \subseteq message
    /\ \A v \in Workers : v # w => held[v] \cap held[w] = {}
    /\ pc[w] \in {"delete", "commit"} => held[w] = {hit[w]}
    /\ pc[w] \notin {"delete", "commit", "cascade"} => held[w] = {}

(* Together: inductive for Spec.  Locks must be exclusive and on rows of    *)
(* the table, and a hit must be the first row not yet seen to be gone.     *)
IInv == /\ TypeOK /\ RowsDistinct /\ JobFits /\ ScanSound /\ LocksSound
        /\ OneFate /\ DeleteCountIsOne /\ LossNeedsFailure

-----------------------------------------------------------------------------
(* What the broker promises about messages, whatever statements implement  *)
(* it.                                                                     *)
Contract == INSTANCE MessageContract WITH stored <- message
ContractSpec == Contract!Spec
=============================================================================
