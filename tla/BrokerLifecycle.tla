--------------------------- MODULE BrokerLifecycle ---------------------------
(***************************************************************************)
(* How a broker starts and stops: Main.mainScenario runs SimpleShutdownBroker,*)
(* whose init() starts the command file handler and the broker's threads,  *)
(* whose run() waits for a timer, and whose shutdown() is called by main   *)
(* when run() returns, and by the handler on the command "shutdown", at    *)
(* any moment of the start as well.                                        *)
(*                                                                         *)
(* Handler and timer are daemon threads: the process ends with main, the   *)
(* reactor and the workers.  What reactor and workers do for clients is    *)
(* reduced to what keeps them busy; BrokerPipeline has the rest, and       *)
(* DbConnectionPool what closing the pool does.                            *)
(***************************************************************************)
EXTENDS Integers

CONSTANTS
  WorkerCount,  \* config workerThreadCount
  MaxTasks,     \* bound: requests that arrive
  MaxCommands   \* bound: shutdown commands the handler takes

ASSUME LifecycleBounds == {WorkerCount, MaxTasks, MaxCommands} \subseteq Nat

Workers == 0 .. WorkerCount - 1
Closers == {"main", "handler"}

VARIABLES
  hpc, hRunning, \* the handler thread and its flag; CommandFile has the rest
  commands,    \* shutdown commands so far
  mpc,         \* the main thread: see MainPlaces
  isTimedOut,  \* field of SimpleShutdownBroker
  spc, cursor, expected, \* shutdown(), per caller: place, iterator, modCount
  network,     \* BrokerImpl.networkInterface # null
  rpc, rRunning, wakeup, \* the reactor thread, its flag, its selector
  workerPool,  \* BrokerImpl.workerPool # null
  listed,      \* length of WorkerPool.workers
  wpc, wRunning, interrupted, \* the worker threads
  tasks,       \* length of the request queue
  arrived,     \* requests so far
  writer,      \* PerformanceLoggerImpl.writer # null
  rTold, told, \* history: who was told to stop, and how
  rFault       \* history: the reactor has failed in its setup, or while running

handlerVars == <<hpc, hRunning, commands>>
mainVars    == <<mpc, isTimedOut>>
closeVars   == <<spc, cursor, expected>>
reactorVars == <<network, rpc, rRunning, wakeup>>
workerVars  == <<workerPool, listed, wpc, wRunning, interrupted>>
taskVars    == <<tasks, arrived>>
toldVars    == <<rTold, told, rFault>>
vars == <<handlerVars, mainVars, closeVars, reactorVars, workerVars, taskVars,
          writer, toldVars>>

MainPlaces == {"init", "network", "wait", "alive", "pool", "workers", "lock",
               "waiting", "shutdown", "dead"}
WorkerPlaces == {"none", "begin", "loop", "take", "busy", "write", "dead"}

Init ==
  /\ hpc = "off" /\ hRunning = FALSE /\ commands = 0
  /\ mpc = "init" /\ isTimedOut = FALSE
  /\ spc = [t \in Closers |-> "off"]
  /\ cursor = [t \in Closers |-> 0] /\ expected = [t \in Closers |-> 0]
  /\ network = FALSE /\ rpc = "none" /\ rRunning = FALSE /\ wakeup = FALSE
  /\ workerPool = FALSE /\ listed = 0
  /\ wpc = [w \in Workers |-> "none"]
  /\ wRunning = [w \in Workers |-> FALSE]
  /\ interrupted = [w \in Workers |-> FALSE]
  /\ tasks = 0 /\ arrived = 0
  /\ writer = TRUE
  /\ rTold = "no" /\ told = [w \in Workers |-> "no"] /\ rFault = "no"

MainGoes(from, to) == mpc = from /\ mpc' = to
-----------------------------------------------------------------------------
(* The handler thread.                                                     *)

OthersOfHandler == <<mainVars, closeVars, reactorVars, workerVars, taskVars, writer,
                     toldVars>>

(* run() raises the flag, also when stop() has already lowered it.         *)
HandlerBegin ==
  /\ hpc = "begin" /\ hpc' = "loop"
  /\ hRunning' = TRUE
  /\ UNCHANGED <<commands, OthersOfHandler>>

HandlerLoop ==
  /\ hpc = "loop" /\ ~hRunning
  /\ hpc' = "dead"
  /\ UNCHANGED <<hRunning, commands, OthersOfHandler>>

(* A check of the file that began before the stop may find a command after *)
(* it.                                                                     *)
TakeCommand ==
  /\ hpc = "loop" /\ hpc' = "shutdown"
  /\ commands < MaxCommands
  /\ commands' = commands + 1
  /\ UNCHANGED <<hRunning, OthersOfHandler>>

HandlerStep == HandlerBegin \/ HandlerLoop
-----------------------------------------------------------------------------
(* The main thread: Scenario.init, BrokerImpl.startup, run. *)

(* The handler is started before the broker.  Without a database startup() *)
(* throws, and main ends: init() is not inside the try.                    *)
StartHandler ==
  /\ mpc = "init" /\ mpc' \in {"network", "dead"}
  /\ hpc' = "begin"
  /\ UNCHANGED <<hRunning, commands, isTimedOut, closeVars, reactorVars, workerVars, taskVars, writer, toldVars>>

StartNetwork ==
  /\ MainGoes("network", "wait")
  /\ network' = TRUE
  /\ rpc' = "begin"
  /\ UNCHANGED <<handlerVars, isTimedOut, closeVars, rRunning, wakeup, workerVars,
                 taskVars, writer, toldVars>>

(* waitForStartup: until the reactor runs or is dead ...                   *)
WaitForStartup ==
  /\ MainGoes("wait", "alive")
  /\ rRunning \/ rpc = "dead"
  /\ UNCHANGED <<handlerVars, isTimedOut, closeVars, reactorVars, workerVars,
                 taskVars, writer, toldVars>>

(* ... and a dead one is an exception, which ends main without shutdown(). *)
CheckAlive ==
  /\ MainGoes("alive", IF rpc = "dead" THEN "dead" ELSE "pool")
  /\ UNCHANGED <<handlerVars, isTimedOut, closeVars, reactorVars, workerVars,
                 taskVars, writer, toldVars>>

CreateWorkerPool ==
  /\ MainGoes("pool", "workers")
  /\ workerPool' = TRUE
  /\ UNCHANGED <<handlerVars, isTimedOut, closeVars, reactorVars, listed, wpc,
                 wRunning, interrupted, taskVars, writer, toldVars>>

(* A worker is started and then listed; it may run before it is listed.    *)
StartWorker ==
  /\ mpc = "workers"
  /\ listed < WorkerCount
  /\ wpc[listed] = "none"
  /\ wpc' = [wpc EXCEPT ![listed] = "begin"]
  /\ UNCHANGED <<handlerVars, mainVars, closeVars, reactorVars, workerPool, listed,
                 wRunning, interrupted, taskVars, writer, toldVars>>

ListWorker ==
  /\ mpc = "workers"
  /\ listed < WorkerCount
  /\ wpc[listed] # "none"
  /\ listed' = listed + 1
  /\ UNCHANGED <<handlerVars, mainVars, closeVars, reactorVars, workerPool, wpc,
                 wRunning, interrupted, taskVars, writer, toldVars>>

(* Mutation: main waits without a look at the flag.                        *)
RunUnchecked ==
  /\ \/ MainGoes("workers", "lock") /\ listed = WorkerCount /\ isTimedOut' = FALSE
     \/ MainGoes("lock", "waiting") /\ UNCHANGED isTimedOut
  /\ UNCHANGED <<handlerVars, closeVars, reactorVars, workerVars, taskVars, writer,
                 toldVars>>

(* run(): the timer is started before the lock is taken.                   *)
Run ==
  /\ \/ MainGoes("workers", "lock") /\ listed = WorkerCount /\ isTimedOut' = FALSE
     \/ MainGoes("lock", IF isTimedOut THEN "shutdown" ELSE "waiting")
          /\ UNCHANGED isTimedOut
  /\ UNCHANGED <<handlerVars, closeVars, reactorVars, workerVars, taskVars, writer,
                 toldVars>>

(* onTimeout: notify() reaches main only if it waits.                      *)
Timer ==
  /\ mpc \in {"lock", "waiting"}
  /\ ~isTimedOut
  /\ isTimedOut' = TRUE
  /\ mpc' = IF mpc = "waiting" THEN "shutdown" ELSE mpc
  /\ UNCHANGED <<handlerVars, closeVars, reactorVars, workerVars, taskVars, writer,
                 toldVars>>

MainStep ==
  \/ StartHandler \/ StartNetwork \/ WaitForStartup \/ CheckAlive
  \/ CreateWorkerPool \/ StartWorker \/ ListWorker \/ Run
-----------------------------------------------------------------------------
(* shutdown(), by main or by the handler. *)

Calls(t) == IF t = "main" THEN mpc = "shutdown" ELSE hpc = "shutdown"

ShutdownGoes(t, from, to) ==
  /\ Calls(t)
  /\ spc[t] = from
  /\ spc' = [spc EXCEPT ![t] = to]

(* An exception ends the thread, and the handler's finally clears its flag.*)
Returns(t) ==
  IF t = "main" THEN mpc' = "dead" /\ UNCHANGED <<hpc, hRunning>>
                ELSE hpc' = "loop" /\ UNCHANGED <<mpc, hRunning>>
Throws(t) ==
  IF t = "main" THEN mpc' = "dead" /\ UNCHANGED <<hpc, hRunning>>
                ELSE hpc' = "dead" /\ hRunning' = FALSE /\ UNCHANGED mpc

Unaffected == <<commands, isTimedOut, network, rpc, workerPool, listed, wpc,
                taskVars>>

(* Scenario.shutdown: CommandFileHandler.stop ...                          *)
StopHandler(t) ==
  /\ ShutdownGoes(t, "off", "log")
  /\ hRunning' = FALSE
  /\ UNCHANGED <<Unaffected, mpc, hpc, cursor, expected, rRunning, wakeup, wRunning,
                 interrupted, writer, toldVars>>

(* ... and PerformanceLogger.close, which is not synchronized: the other   *)
(* caller may close the file between the look at the field and its use.    *)
LookAtLog(t) ==
  /\ ShutdownGoes(t, "log", IF writer THEN "close" ELSE "network")
  /\ UNCHANGED <<Unaffected, mpc, hpc, hRunning, cursor, expected, rRunning, wakeup,
                 wRunning, interrupted, writer, toldVars>>

CloseLog(t) ==
  /\ writer
  /\ ShutdownGoes(t, "close", "network")
  /\ writer' = FALSE
  /\ UNCHANGED <<Unaffected, mpc, hpc, hRunning, cursor, expected, rRunning, wakeup,
                 wRunning, interrupted, toldVars>>

(* BrokerImpl.shutdown: the fields are null until startup() gets to them.  *)
CloseNetwork(t) ==
  /\ network
  /\ ShutdownGoes(t, "network", "list")
  /\ rRunning' = FALSE
  /\ wakeup' = (wakeup \/ rpc # "begin")
  /\ rTold' = IF rpc = "begin" THEN "early" ELSE "yes"
  /\ UNCHANGED <<Unaffected, mpc, hpc, hRunning, cursor, expected, wRunning,
                 interrupted, writer, told, rFault>>

(* WorkerPool.close iterates over a list that main may still extend.       *)
ListWorkers(t) ==
  /\ workerPool
  /\ ShutdownGoes(t, "list", "workers")
  /\ cursor' = [cursor EXCEPT ![t] = 0]
  /\ expected' = [expected EXCEPT ![t] = listed]
  /\ UNCHANGED <<Unaffected, mpc, hpc, hRunning, rRunning, wakeup, wRunning,
                 interrupted, writer, toldVars>>

CloseWorker(t) ==
  LET w == cursor[t] IN
  /\ w # listed
  /\ expected[t] = listed
  /\ ShutdownGoes(t, "workers", "workers")
  /\ cursor' = [cursor EXCEPT ![t] = @ + 1]
  /\ wRunning' = [wRunning EXCEPT ![w] = FALSE]
  /\ interrupted' = [interrupted EXCEPT ![w] = TRUE]
  /\ told' = [told EXCEPT ![w] = IF wpc[w] = "begin" THEN "early" ELSE "yes"]
  /\ UNCHANGED <<Unaffected, mpc, hpc, hRunning, expected, rRunning, wakeup, writer,
                 rTold, rFault>>

(* The pool is closed last.                                                *)
ClosePool(t) ==
  /\ cursor[t] = listed
  /\ ShutdownGoes(t, "workers", "off")
  /\ Returns(t)
  /\ UNCHANGED <<Unaffected, cursor, expected, rRunning, wakeup, wRunning,
                 interrupted, writer, toldVars>>

(* NullPointerException or ConcurrentModificationException.                *)
ShutdownFails(t) ==
  /\ \/ ~writer /\ ShutdownGoes(t, "close", "off")
     \/ ~network /\ ShutdownGoes(t, "network", "off")
     \/ ~workerPool /\ ShutdownGoes(t, "list", "off")
     \/ cursor[t] # listed /\ expected[t] # listed /\ ShutdownGoes(t, "workers", "off")
  /\ Throws(t)
  /\ UNCHANGED <<Unaffected, cursor, expected, rRunning, wakeup, wRunning,
                 interrupted, writer, toldVars>>

ShutdownStep(t) ==
  \/ StopHandler(t) \/ LookAtLog(t) \/ CloseLog(t) \/ CloseNetwork(t)
  \/ ListWorkers(t) \/ CloseWorker(t) \/ ClosePool(t) \/ ShutdownFails(t)
-----------------------------------------------------------------------------
(* The reactor. *)

ReactorGoes(from, to) == rpc = from /\ rpc' = to

(* setup() may fail; after it the flag is raised, whoever lowered it.      *)
ReactorBegin ==
  /\ \/ ReactorGoes("begin", "loop") /\ rRunning' = TRUE /\ rFault' = rFault
     \/ ReactorGoes("begin", "dead") /\ rRunning' = FALSE /\ rFault' = "setup"
  /\ UNCHANGED <<handlerVars, mainVars, closeVars, network, wakeup, workerVars,
                 taskVars, writer, rTold, told>>

ReactorLoop ==
  /\ ReactorGoes("loop", IF rRunning THEN "select" ELSE "dead")
  /\ UNCHANGED <<handlerVars, mainVars, closeVars, network, rRunning, wakeup,
                 workerVars, taskVars, writer, toldVars>>

WokenUp ==
  /\ wakeup
  /\ ReactorGoes("select", "loop")
  /\ wakeup' = FALSE
  /\ UNCHANGED <<handlerVars, mainVars, closeVars, network, rRunning, workerVars,
                 taskVars, writer, toldVars>>

RequestArrives ==
  /\ arrived < MaxTasks
  /\ ReactorGoes("select", "loop")
  /\ wakeup' = FALSE
  /\ arrived' = arrived + 1 /\ tasks' = tasks + 1
  /\ UNCHANGED <<handlerVars, mainVars, closeVars, network, rRunning, workerVars,
                 writer, toldVars>>

(* accept() throws: the handler of the exception takes the channel of the  *)
(* key for a client's, and the exception of that ends the loop.  One of    *)
(* select() does so at once.  Nobody is told: workers and main go on.      *)
ReactorFails ==
  /\ ReactorGoes("select", "dead")
  /\ rRunning' = FALSE
  /\ rFault' = "running"
  /\ UNCHANGED <<handlerVars, mainVars, closeVars, network, wakeup, workerVars,
                 taskVars, writer, rTold, told>>

ReactorStep == ReactorBegin \/ ReactorLoop \/ WokenUp
-----------------------------------------------------------------------------
(* A worker. *)

WorkerGoes(w, from, to) == wpc[w] = from /\ wpc' = [wpc EXCEPT ![w] = to]

(* run() raises the flag, also when close() has already lowered it.        *)
WorkerBegin(w) ==
  /\ WorkerGoes(w, "begin", "loop")
  /\ wRunning' = [wRunning EXCEPT ![w] = TRUE]
  /\ UNCHANGED <<handlerVars, mainVars, closeVars, reactorVars, workerPool, listed,
                 interrupted, taskVars, writer, toldVars>>

WorkerLoop(w) ==
  /\ WorkerGoes(w, "loop", IF wRunning[w] THEN "take" ELSE "dead")
  /\ UNCHANGED <<handlerVars, mainVars, closeVars, reactorVars, workerPool, listed,
                 wRunning, interrupted, taskVars, writer, toldVars>>

(* blockingDequeue returns null when it is interrupted.                    *)
TakeInterrupted(w) ==
  /\ interrupted[w]
  /\ WorkerGoes(w, "take", "loop")
  /\ interrupted' = [interrupted EXCEPT ![w] = FALSE]
  /\ UNCHANGED <<handlerVars, mainVars, closeVars, reactorVars, workerPool, listed,
                 wRunning, taskVars, writer, toldVars>>

(* Mutation: the worker does not wait for a task.                          *)
TakeTaskUnblocked(w) ==
  /\ ~interrupted[w]
  /\ WorkerGoes(w, "take", "busy")
  /\ tasks' = tasks - 1
  /\ UNCHANGED <<handlerVars, mainVars, closeVars, reactorVars, workerPool, listed,
                 wRunning, interrupted, arrived, writer, toldVars>>

TakeTask(w) ==
  /\ ~interrupted[w]
  /\ tasks > 0
  /\ WorkerGoes(w, "take", "busy")
  /\ tasks' = tasks - 1
  /\ UNCHANGED <<handlerVars, mainVars, closeVars, reactorVars, workerPool, listed,
                 wRunning, interrupted, arrived, writer, toldVars>>

(* The request is processed, then the time it took is logged: write()      *)
(* opens the file again if it was closed.  log() is synchronized ...       *)
OpenLog(w) ==
  /\ \A v \in Workers : wpc[v] # "write"
  /\ WorkerGoes(w, "busy", "write")
  /\ writer' = TRUE
  /\ UNCHANGED <<handlerVars, mainVars, closeVars, reactorVars, workerPool, listed,
                 wRunning, interrupted, taskVars, toldVars>>

(* Mutation: the exception is not caught.                                  *)
WriteLogUncaught(w) ==
  /\ WorkerGoes(w, "write", IF writer THEN "loop" ELSE "dead")
  /\ UNCHANGED <<handlerVars, mainVars, closeVars, reactorVars, workerPool, listed,
                 wRunning, interrupted, taskVars, writer, toldVars>>

(* ... and throws if it was closed in between, which run() catches.        *)
WriteLog(w) ==
  /\ WorkerGoes(w, "write", "loop")
  /\ UNCHANGED <<handlerVars, mainVars, closeVars, reactorVars, workerPool, listed,
                 wRunning, interrupted, taskVars, writer, toldVars>>

WorkerStep(w) ==
  \/ WorkerBegin(w) \/ WorkerLoop(w) \/ TakeInterrupted(w) \/ TakeTask(w)
  \/ OpenLog(w) \/ WriteLog(w)
-----------------------------------------------------------------------------
Gone(place) == place \in {"none", "dead"}
Down   == Gone(rpc) /\ \A w \in Workers : Gone(wpc[w])
Exited == mpc = "dead" /\ Down

Next ==
  /\ ~Exited
  /\ \/ HandlerStep \/ TakeCommand
     \/ MainStep \/ Timer
     \/ \E t \in Closers : ShutdownStep(t)
     \/ ReactorStep \/ RequestArrives \/ ReactorFails
     \/ \E w \in Workers : WorkerStep(w)

Spec == Init /\ [][Next]_vars

(* Every thread that can go on does; commands, requests, failures and the  *)
(* timer need not come.                                                    *)
Fairness ==
  /\ WF_vars(~Exited /\ HandlerStep)
  /\ WF_vars(MainStep)
  /\ \A t \in Closers : WF_vars(~Exited /\ ShutdownStep(t))
  /\ WF_vars(ReactorStep)
  /\ \A w \in Workers : WF_vars(WorkerStep(w))
FairSpec == Spec /\ Fairness
-----------------------------------------------------------------------------
TypeOK ==
  /\ hpc \in {"off", "begin", "loop", "shutdown", "dead"}
  /\ hRunning \in BOOLEAN
  /\ commands \in 0 .. MaxCommands
  /\ mpc \in MainPlaces
  /\ isTimedOut \in BOOLEAN
  /\ spc \in [Closers -> {"off", "log", "close", "network", "list", "workers"}]
  /\ cursor \in [Closers -> 0 .. listed] /\ expected \in [Closers -> 0 .. listed]
  /\ network \in BOOLEAN /\ workerPool \in BOOLEAN /\ writer \in BOOLEAN
  /\ rRunning \in BOOLEAN /\ wakeup \in BOOLEAN
  /\ rpc \in {"none", "begin", "loop", "select", "dead"}
  /\ listed \in 0 .. WorkerCount
  /\ wpc \in [Workers -> WorkerPlaces]
  /\ wRunning \in [Workers -> BOOLEAN]
  /\ interrupted \in [Workers -> BOOLEAN]
  /\ tasks \in 0 .. arrived /\ arrived \in 0 .. MaxTasks
  /\ rTold \in {"no", "early", "yes"}
  /\ told \in [Workers -> {"no", "early", "yes"}]
  /\ rFault \in {"no", "setup", "running"}

Started == mpc \in {"lock", "waiting"}

(* Threads that were told before they had begun: they raise the flag again *)
(* and never look at it.                                                   *)
Deaf == {w \in Workers : told[w] = "early"}

(* A worker ends only because it was told to, not by an exception such as  *)
(* that of a log closed under it; neither does the end of the reactor end  *)
(* one.  The reactor ends because it was told to, or by a failure of its   *)
(* own, of its setup or of accept(); and main starts workers only for a    *)
(* reactor whose setup succeeded, whoever lowers or raises flags meanwhile. *)
EndsToldOrFailed ==
  /\ \A w \in Workers : wpc[w] = "dead" => told[w] = "yes"
  /\ rpc = "dead" => rTold = "yes" \/ rFault # "no"
  /\ rFault = "setup" => \A w \in Workers : wpc[w] = "none"

(* "As soon as this method terminates the system will shutdown"            *)
(* (Scenario.run): once the timer has fired, or the start has failed, the  *)
(* process ends, whatever commands came in between; and the command        *)
(* "shutdown" stops a broker that is up without the timer.  Only a worker  *)
(* that was told to stop before it had begun stays.                        *)
ShutdownStops ==
  /\ (isTimedOut \/ mpc = "dead") ~> (Exited \/ Deaf # {})
  /\ (Started /\ hpc = "shutdown" /\ spc["handler"] = "off")
        ~> (Down \/ Deaf # {})
=============================================================================
