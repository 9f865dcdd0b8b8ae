-------------------------- MODULE DbConnectionPool --------------------------
(***************************************************************************)
(* The pool of database connections and the worker threads that borrow     *)
(* from it (RequestProcessor): each request takes a connection, runs its   *)
(* statements and gives the connection back; a connection on which a       *)
(* statement failed is closed first, and replaced when it is given back.   *)
(*                                                                         *)
(* Around it, the start of the pool and the shutdown of the broker, which  *)
(* tells the workers to stop and then closes the pooled connections while  *)
(* the workers may still be busy.                                          *)
(***************************************************************************)
EXTENDS Naturals, Sequences, FiniteSets

CONSTANTS
  Workers,
  PoolSize,
  MaxErrors,    \* bound: statements that fail while the pool is open
  MaxRefusals,  \* bound: connections that cannot be created
  MaxStops      \* bound: shutdowns of the broker, 0 or 1

ASSUME PoolAssumption ==
  /\ PoolSize \in Nat \ {0}
  /\ MaxErrors \in Nat /\ MaxRefusals \in Nat /\ MaxStops \in {0, 1}
  /\ IsFiniteSet(Workers)

(* Connections are numbered as they are created.                           *)
Connections == Nat \ {0}
None        == 0

VARIABLES
  phase,      \* "init", "running", "stopping", "closing", "closed" or "failed"
  idle,       \* DbConnectionPool.connections
  conn,       \* the connection a worker holds
  wpc,        \* "idle", "wait", "use", "return" or "stopped"
  told,       \* workers told to stop: running = false, and interrupted
  interrupted,\* workers whose interrupt has not been noticed
  closed,     \* connections closed by the worker that held them
  shut,       \* connections closed by the pool's close()
  visit,      \* connections close() has still to visit
  created,    \* connections ever created
  lost,       \* connections given back but not replaced
  errors, refusals, stops

workerVars == <<conn, wpc>>
stopVars   == <<told, interrupted, visit, shut>>
boundVars  == <<errors, refusals, stops>>
vars == <<phase, idle, workerVars, stopVars, closed, created, lost, boundVars>>

Init ==
  /\ phase = "init"
  /\ idle = <<>>
  /\ conn = [w \in Workers |-> None]
  /\ wpc  = [w \in Workers |-> "idle"]
  /\ told = {} /\ interrupted = {}
  /\ closed = {} /\ shut = {} /\ visit = {}
  /\ created = 0 /\ lost = 0
  /\ errors = 0 /\ refusals = 0 /\ stops = 0

-----------------------------------------------------------------------------
(* createConnection, and what adding the connection c to the queue does.   *)
Create  == created' = created + 1
Add(c)  == idle' = Append(idle, c)

(* DriverManager refuses, or a statement cannot be prepared.               *)
Refuse ==
  /\ refusals < MaxRefusals
  /\ refusals' = refusals + 1
  /\ UNCHANGED <<errors, stops>>

(* init: fill the pool, then the broker starts its workers.                *)
FillPool ==
  /\ phase = "init" /\ Len(idle) < PoolSize
  /\ Create /\ Add(created + 1)
  /\ UNCHANGED <<phase, workerVars, stopVars, closed, lost, boundVars>>

StartWorkers ==
  /\ phase = "init" /\ Len(idle) = PoolSize
  /\ phase' = "running"
  /\ UNCHANGED <<idle, workerVars, stopVars, closed, created, lost, boundVars>>

(* The start of the broker fails.                                          *)
InitFails ==
  /\ phase = "init" /\ Len(idle) < PoolSize
  /\ Refuse
  /\ phase' = "failed"
  /\ UNCHANGED <<idle, workerVars, stopVars, closed, created, lost>>

-----------------------------------------------------------------------------
(* A worker handles a request. *)
Started == phase \notin {"init", "failed"}

Process(w) ==
  /\ Started /\ wpc[w] = "idle" /\ w \notin told
  /\ wpc' = [wpc EXCEPT ![w] = "wait"]
  /\ UNCHANGED <<phase, idle, conn, stopVars, closed, created, lost, boundVars>>

(* Mutation: peek() in place of take(). *)
PeekConnection(w) ==
  /\ wpc[w] = "wait" /\ w \notin interrupted /\ idle # <<>>
  /\ conn' = [conn EXCEPT ![w] = Head(idle)]
  /\ wpc'  = [wpc EXCEPT ![w] = "use"]
  /\ UNCHANGED <<phase, idle, stopVars, closed, created, lost, boundVars>>

(* Mutation: the last connection is kept back. *)
GetConnectionOfMany(w) ==
  /\ wpc[w] = "wait" /\ w \notin interrupted /\ Len(idle) > 1
  /\ conn' = [conn EXCEPT ![w] = Head(idle)]
  /\ idle' = Tail(idle)
  /\ wpc'  = [wpc EXCEPT ![w] = "use"]
  /\ UNCHANGED <<phase, stopVars, closed, created, lost, boundVars>>

(* getConnection: blocks while the pool is empty.                          *)
GetConnection(w) ==
  /\ wpc[w] = "wait" /\ w \notin interrupted /\ idle # <<>>
  /\ conn' = [conn EXCEPT ![w] = Head(idle)]
  /\ idle' = Tail(idle)
  /\ wpc'  = [wpc EXCEPT ![w] = "use"]
  /\ UNCHANGED <<phase, stopVars, closed, created, lost, boundVars>>

(* take() is interrupted: the request is answered with an exception.       *)
GetInterrupted(w) ==
  /\ wpc[w] = "wait" /\ w \in interrupted
  /\ interrupted' = interrupted \ {w}
  /\ wpc' = [wpc EXCEPT ![w] = "idle"]
  /\ UNCHANGED <<phase, idle, conn, told, visit, shut, closed, created, lost,
                 boundVars>>

Succeed(w) ==
  /\ wpc[w] = "use" /\ conn[w] \notin shut
  /\ wpc' = [wpc EXCEPT ![w] = "return"]
  /\ UNCHANGED <<phase, idle, conn, stopVars, closed, created, lost, boundVars>>

(* Mutation: returnConnection outside of the finally block. *)
SqlFailsUnreturned(w) ==
  /\ wpc[w] = "use" /\ errors < MaxErrors
  /\ errors' = errors + 1
  /\ closed' = closed \cup {conn[w]}
  /\ conn' = [conn EXCEPT ![w] = None]
  /\ wpc' = [wpc EXCEPT ![w] = "idle"]
  /\ UNCHANGED <<phase, idle, stopVars, created, lost, refusals, stops>>

(* SQLException: the worker closes the connection.                         *)
SqlFails(w) ==
  /\ wpc[w] = "use"
  /\ \/ conn[w] \in shut /\ UNCHANGED errors
     \/ errors < MaxErrors /\ errors' = errors + 1
  /\ closed' = closed \cup {conn[w]}
  /\ wpc' = [wpc EXCEPT ![w] = "return"]
  /\ UNCHANGED <<phase, idle, conn, stopVars, created, lost, refusals, stops>>

(* Mutation: isClosed() is not asked. *)
LooksOpenAlways(w) == TRUE

(* returnConnection. A closed connection is recognised, for certain if     *)
(* this worker closed it; that the pool has shut it is read without a      *)
(* lock.                                                                   *)
LooksOpen(w)   == conn[w] \notin closed
LooksClosed(w) == conn[w] \in closed \cup shut

Returned(w) ==
  /\ wpc[w] = "return"
  /\ wpc'  = [wpc EXCEPT ![w] = "idle"]
  /\ conn' = [conn EXCEPT ![w] = None]

(* close() may or may not see a connection that is added while it runs.    *)
MaySee(c) == visit' \in {visit} \cup
                        (IF phase = "closing" THEN {visit \cup {c}} ELSE {})

GiveBack(w) ==
  /\ Returned(w) /\ LooksOpen(w)
  /\ Add(conn[w]) /\ MaySee(conn[w])
  /\ UNCHANGED <<phase, told, interrupted, shut, closed, created, lost,
                 boundVars>>

Replace(w) ==
  /\ Returned(w) /\ LooksClosed(w)
  /\ Create /\ Add(created + 1) /\ MaySee(created + 1)
  /\ UNCHANGED <<phase, told, interrupted, shut, closed, lost, boundVars>>

(* ... and the exception leaves nothing in the pool.                       *)
ReplaceFails(w) ==
  /\ Returned(w) /\ LooksClosed(w)
  /\ Refuse
  /\ lost' = lost + 1
  /\ UNCHANGED <<phase, idle, stopVars, closed, created>>

-----------------------------------------------------------------------------
(* Shutdown of the broker: WorkerPool.close(), DbConnectionPool.close().   *)
Shutdown ==
  /\ phase = "running" /\ stops < MaxStops
  /\ phase' = "stopping"
  /\ stops' = stops + 1
  /\ UNCHANGED <<idle, workerVars, stopVars, closed, created, lost, errors,
                 refusals>>

(* Mutation: the worker is interrupted but its flag stays set. *)
InterruptWorker(w) ==
  /\ phase = "stopping" /\ w \notin interrupted
  /\ interrupted' = interrupted \cup {w}
  /\ UNCHANGED <<phase, idle, workerVars, told, visit, shut, closed, created,
                 lost, boundVars>>

TellWorker(w) ==
  /\ phase = "stopping" /\ w \notin told
  /\ told' = told \cup {w}
  /\ interrupted' = interrupted \cup {w}
  /\ UNCHANGED <<phase, idle, workerVars, visit, shut, closed, created, lost,
                 boundVars>>

(* A worker leaves its loop, which it checks between requests.             *)
StopWorker(w) ==
  /\ wpc[w] = "idle" /\ w \in told
  /\ wpc' = [wpc EXCEPT ![w] = "stopped"]
  /\ UNCHANGED <<phase, idle, conn, stopVars, closed, created, lost, boundVars>>

CloseBegin ==
  /\ phase = "stopping" /\ told = Workers
  /\ phase' = "closing"
  /\ visit' = {idle[i] : i \in DOMAIN idle}
  /\ UNCHANGED <<idle, workerVars, told, interrupted, shut, closed, created,
                 lost, boundVars>>

(* The iterator reaches a connection; one that a worker has taken          *)
(* meanwhile may be visited or passed over.                                *)
CloseConnection ==
  /\ phase = "closing"
  /\ \E c \in visit :
       /\ visit' = visit \ {c}
       /\ \/ shut' = shut \cup {c}
          \/ c \notin {idle[i] : i \in DOMAIN idle} /\ UNCHANGED shut
  /\ UNCHANGED <<phase, idle, workerVars, told, interrupted, closed, created,
                 lost, boundVars>>

CloseEnd ==
  /\ phase = "closing" /\ visit = {}
  /\ phase' = "closed"
  /\ UNCHANGED <<idle, workerVars, stopVars, closed, created, lost, boundVars>>

-----------------------------------------------------------------------------
Handle(w) == \/ GetConnection(w) \/ GetInterrupted(w)
             \/ Succeed(w) \/ SqlFails(w)
             \/ GiveBack(w) \/ Replace(w) \/ ReplaceFails(w)

Start == FillPool \/ StartWorkers \/ InitFails

Stop == Shutdown \/ CloseBegin \/ CloseConnection \/ CloseEnd

Next == \/ Start \/ Stop
        \/ \E w \in Workers :
             Process(w) \/ Handle(w) \/ TellWorker(w) \/ StopWorker(w)

Spec == Init /\ [][Next]_vars

(* Threads run, and a statement returns or fails. Nothing is assumed of    *)
(* who gets a connection first: the queue's lock is not a fair one.        *)
Fairness == \A w \in Workers : WF_vars(Handle(w))

FairSpec == Spec /\ Fairness
-----------------------------------------------------------------------------
(* Properties *)

(* Type correctness; connections are numbered in the order of creation.    *)
TypeOK ==
  /\ phase \in {"init", "running", "stopping", "closing", "closed", "failed"}
  /\ idle \in Seq(Connections)
  /\ conn \in [Workers -> Connections \cup {None}]
  /\ wpc \in [Workers -> {"idle", "wait", "use", "return", "stopped"}]
  /\ told \subseteq Workers /\ interrupted \subseteq told
  /\ closed \subseteq Connections /\ shut \subseteq Connections
  /\ visit \subseteq Connections
  /\ created \in Nat /\ lost \in Nat
  /\ errors \in Nat /\ refusals \in Nat /\ stops \in Nat

Borrowers == {w \in Workers : conn[w] # None}

(* Every slot of the pool is accounted for: once the pool is filled, a     *)
(* connection is in the pool, or with a worker, or was lost because it     *)
(* could not be replaced - one for each refusal at most.                   *)
SlotsConserved ==
  Started => /\ Len(idle) + Cardinality(Borrowers) + lost = PoolSize
             /\ lost <= refusals

(* "Internal PoolException - too many connections returned" is never       *)
(* raised: there is room for every connection that is out.                 *)
RoomToReturn == \A w \in Borrowers : Len(idle) < PoolSize

(* A connection, and with it a transaction, belongs to one worker at a     *)
(* time.                                                                   *)
ExclusiveUse ==
  /\ \A i \in DOMAIN idle, w \in Workers : idle[i] # conn[w]
  /\ \A i, j \in DOMAIN idle : idle[i] = idle[j] => i = j
  /\ \A v, w \in Borrowers : conn[v] = conn[w] => v = w

(* Until the broker shuts down, no worker is handed a connection that has  *)
(* been closed, whatever failed before.                                    *)
HandsOutOpen ==
  phase \in {"init", "running"} =>
    /\ \A i \in DOMAIN idle : idle[i] \notin closed \cup shut
    /\ \A w \in Workers : wpc[w] = "use" => conn[w] \notin closed \cup shut

(* The workers never all wait for a connection for good, also during a     *)
(* shutdown, unless the database has refused to replace every one.         *)
Waiting == {w \in Workers : wpc[w] = "wait"}
WaitersProgress ==
  (Waiting # {}) ~> \/ Waiting = {}
                    \/ \E w \in Workers : wpc[w] = "use"
                    \/ lost = PoolSize

-----------------------------------------------------------------------------
(* The inductive invariant behind the safety properties. *)

(* A worker has a connection exactly while it uses it or gives it back,    *)
(* and none before the pool is filled; only then are workers told to stop. *)
BorrowsToUse ==
  /\ \A w \in Workers : conn[w] # None <=> wpc[w] \in {"use", "return"}
  /\ ~Started => \A w \in Workers : wpc[w] = "idle"
  /\ ~Started => told = {} /\ lost = 0 /\ Len(idle) <= PoolSize

(* Only connections that were created are anywhere.                        *)
OnlyCreated ==
  /\ \A i \in DOMAIN idle : idle[i] <= created
  /\ \A w \in Workers : conn[w] <= created
  /\ \A c \in closed \cup shut \cup visit : c <= created

(* A connection that its borrower closed is not offered again, and close() *)
(* shuts none before the broker stops.                                     *)
ClosedIsGone ==
  /\ \A i \in DOMAIN idle : idle[i] \notin closed
  /\ \A w \in Workers : wpc[w] = "use" => conn[w] \notin closed
  /\ phase \in {"init", "running", "stopping"} => shut = {}

(* Together: inductive for Spec.                                           *)
IInv == /\ TypeOK /\ BorrowsToUse /\ OnlyCreated /\ ClosedIsGone
        /\ ExclusiveUse /\ SlotsConserved
=============================================================================
