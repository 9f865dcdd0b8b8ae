-------------------------- MODULE StartStopProofs --------------------------
(***************************************************************************)
(* Theorems about what starts and stops a process: the command file, for   *)
(* any scripts and any number of units of file time; and the broker that   *)
(* takes commands from it, for any number of workers, requests and         *)
(* shutdown commands.                                                      *)
(*                                                                         *)
(* CommandFile and BrokerLifecycle share no variable: each has the part of *)
(* the handler's thread that the other leaves out.                         *)
(***************************************************************************)
EXTENDS CommandFile, BrokerLifecycle, SequenceTheorems, TLAPS

-----------------------------------------------------------------------------
(* CommandFile.                                                            *)

(* The file is emptied only when there is a command to write.              *)
InScript == writing => written < Len(script)

(* A file that is not empty holds the command written last.                *)
LastCommand == content # Empty => content = written

(* What is in the file has been executed only if the file is not newer     *)
(* than the time the handler has noted, or is about to note.               *)
NotedWhenExecuted ==
  (\E i \in DOMAIN executed : executed[i] = content)
    => fpc = "store" \/ mtime <= lastModified

(* What the handler has read is later than all it has executed.            *)
ReadsLater ==
  /\ fpc = "read" => mtime > lastModified
  /\ fpc = "command" /\ command # Empty
       => \A i \in DOMAIN executed : executed[i] < command

(* Inductive: no command is executed twice because none is read twice, and *)
(* none is read twice because the time of the file tells.                  *)
FileIInv ==
  /\ FileTypeOK /\ InScript /\ LastCommand /\ NotedWhenExecuted /\ ReadsLater
  /\ NoCommandTwice

(* The initial states satisfy the invariant.                               *)
LEMMA InitFileIInv == FileInit => FileIInv
<1> SUFFICES ASSUME FileInit PROVE FileIInv
  OBVIOUS
<1>1. Len(script) \in Nat
  BY ScriptsAssumption, LenProperties DEF FileInit
<1>2. executed \in Seq(1 .. written) /\ inTime \in Seq(BOOLEAN) /\ Len(inTime) = 0
  BY EmptySeq DEF FileInit
<1>3. FileTypeOK
  <2>1. /\ script \in Scripts /\ exists \in BOOLEAN /\ writing \in BOOLEAN
        /\ fpc \in HandlerPlaces /\ fRunning \in BOOLEAN
    BY DEF FileInit, HandlerPlaces
  <2>2. now = 0 /\ content = 0 /\ mtime = 0 /\ written = 0 /\ lastModified = 0 /\ command = 0
    BY DEF FileInit, Empty
  <2> QED
    BY <1>1, <1>2, <2>1, <2>2, CommandFileBounds DEF FileTypeOK
<1>4. DOMAIN executed = {}
  BY DEF FileInit
<1> QED
  BY <1>3, <1>4
  DEF FileInit, FileIInv, InScript, LastCommand, NotedWhenExecuted, ReadsLater,
      NoCommandTwice

(* The script is a sequence; its length is a number.                       *)
LEMMA ScriptLength == FileTypeOK => Len(script) \in Nat
BY ScriptsAssumption, LenProperties DEF FileTypeOK

(* The variables keep their types: the histories grow with what is written *)
(* and executed.                                                           *)
LEMMA FileTypeStep == FileTypeOK /\ InScript /\ [FileNext]_allVars => FileTypeOK' /\ InScript'
<1> SUFFICES ASSUME FileTypeOK, InScript, [FileNext]_allVars PROVE FileTypeOK' /\ InScript'
  OBVIOUS
<1> USE CommandFileBounds, ScriptLength DEF FileTypeOK, InScript, Empty
<1>1. CASE Tick
  BY <1>1 DEF Tick, threadVars
<1>2. CASE OpenFile
  BY <1>2 DEF OpenFile, threadVars
<1>3. CASE WriteCommand
  <2>1. /\ inTime' \in Seq(BOOLEAN)
        /\ Len(inTime') = written'
    <3>1. InGoodTime \in BOOLEAN
      BY DEF InGoodTime
    <3>2. inTime \in Seq(BOOLEAN) /\ Len(inTime) = written /\ written \in Nat
      BY DEF FileTypeOK
    <3>3. inTime' = Append(inTime, InGoodTime) /\ written' = written + 1
      BY <1>3 DEF WriteCommand
    <3> QED
      BY ONLY <3>1, <3>2, <3>3, AppendProperties
  <2>2. executed' \in Seq(1 .. written')
    <3>1. 1 .. written \subseteq 1 .. written'
      BY <1>3 DEF WriteCommand
    <3> QED
      BY <1>3, <3>1, SeqMonotonic DEF WriteCommand
  <2>3. written' \in 0 .. Len(script') /\ content' \in 0 .. written'
    BY <1>3 DEF WriteCommand
  <2>4. /\ UNCHANGED <<script, now, exists, threadVars>>
        /\ mtime' = now /\ writing' = FALSE /\ written' = written + 1
    BY <1>3 DEF WriteCommand
  <2>5. /\ script' \in Scripts /\ now' \in 0 .. MaxTime /\ exists' \in BOOLEAN
        /\ mtime' \in 0 .. now' /\ writing' = FALSE
    BY <2>4
  <2>6. /\ fpc' \in HandlerPlaces /\ fRunning' \in BOOLEAN
        /\ lastModified' \in 0 .. now' /\ command' \in 0 .. written'
    BY <2>3, <2>4 DEF threadVars
  <2> QED
    BY <2>1, <2>2, <2>3, <2>5, <2>6
<1>4. CASE Stop
  BY <1>4 DEF Stop, fileVars
<1>5. CASE PollStep
  <2> USE DEF Goes, HandlerPlaces, fileVars
  <2>1. CASE RunBegin
    BY <2>1 DEF RunBegin
  <2>2. CASE LookForFile
    BY <2>2 DEF LookForFile
  <2>3. CASE CreateFile
    <3>1. CASE exists
      BY <2>3, <3>1 DEF CreateFile
    <3>2. CASE ~exists
      BY <2>3, <3>2 DEF CreateFile
    <3> QED
      BY <3>1, <3>2
  <2>4. CASE NoteTime("stamp") \/ NoteTime("store")
    BY <2>4 DEF NoteTime
  <2>5. CASE LoopAgain
    BY <2>5 DEF LoopAgain
  <2>6. CASE SleepInterrupted
    BY <2>6 DEF SleepInterrupted
  <2>7. CASE CheckFile
    BY <2>7 DEF CheckFile
  <2>8. CASE ReadFile
    BY <2>8 DEF ReadFile
  <2>9. CASE OnCommand
    <3>1. command # Empty => command \in 1 .. written
      OBVIOUS
    <3>2. executed' \in Seq(1 .. written)
      BY <2>9, <3>1, AppendProperties DEF OnCommand
    <3>3. (fRunning /\ ~IsShutdown) \in BOOLEAN
      BY DEF IsShutdown
    <3> QED
      BY <2>9, <3>2, <3>3 DEF OnCommand
  <2> QED
    BY <1>5, <2>1, <2>2, <2>3, <2>4, <2>5, <2>6, <2>7, <2>8, <2>9 DEF PollStep
<1>6. CASE UNCHANGED allVars
  BY <1>6 DEF allVars, fileVars, threadVars
<1> QED
  BY <1>1, <1>2, <1>3, <1>4, <1>5, <1>6 DEF FileNext, Operator

(* What executed says of the commands in it.                               *)
LEMMA ExecutedWritten ==
  FileTypeOK => \A i \in DOMAIN executed : executed[i] \in 1 .. written
BY ElementOfSeq, LenProperties DEF FileTypeOK

(* The operator puts later commands into the file, or none.                *)
LEMMA OperatorKeepsIInv == FileIInv /\ (Tick \/ Operator \/ Stop) => FileIInv'
<1> SUFFICES ASSUME FileIInv, Tick \/ Operator \/ Stop PROVE FileIInv'
  OBVIOUS
<1>1. FileTypeOK /\ FileTypeOK' /\ InScript'
  BY FileTypeStep DEF FileIInv, FileNext
<1>2. \A i \in DOMAIN executed : executed[i] \in 1 .. written
  BY <1>1, ExecutedWritten
<1>3. executed' = executed /\ fpc' = fpc /\ lastModified' = lastModified /\ command' = command
  BY DEF Tick, Operator, OpenFile, WriteCommand, Stop, threadVars
<1>4. CASE Tick \/ Stop
  BY <1>1, <1>3, <1>4
  DEF Tick, Stop, fileVars, FileIInv, LastCommand, NotedWhenExecuted, ReadsLater,
      NoCommandTwice
<1>5. CASE OpenFile
  <2>1. content' = 0 /\ written' = written /\ mtime' >= mtime
    BY <1>1, <1>5 DEF OpenFile, Empty, FileTypeOK
  <2> QED
    BY <1>1, <1>2, <1>3, <2>1
    DEF FileTypeOK, FileIInv, LastCommand, NotedWhenExecuted, ReadsLater,
        NoCommandTwice, Empty
<1>6. CASE WriteCommand
  <2>1. content' = written + 1 /\ written' = written + 1 /\ mtime' >= mtime
    BY <1>1, <1>6 DEF WriteCommand, FileTypeOK
  <2> QED
    BY <1>1, <1>2, <1>3, <2>1
    DEF FileTypeOK, FileIInv, LastCommand, NotedWhenExecuted, ReadsLater,
        NoCommandTwice, Empty
<1> QED
  BY <1>4, <1>5, <1>6 DEF Operator

(* The handler reads only what it has not executed.                        *)
LEMMA HandlerKeepsIInv == FileIInv /\ PollStep => FileIInv'
<1> SUFFICES ASSUME FileIInv, PollStep PROVE FileIInv'
  OBVIOUS
<1>1. FileTypeOK /\ FileTypeOK' /\ InScript'
  BY FileTypeStep DEF FileIInv, FileNext
<1>2. \A i \in DOMAIN executed : executed[i] \in 1 .. written
  BY <1>1, ExecutedWritten
<1> USE DEF Goes, fileVars
<1>3. CASE RunBegin \/ LookForFile \/ LoopAgain \/ SleepInterrupted
  BY <1>1, <1>3
  DEF RunBegin, LookForFile, LoopAgain, SleepInterrupted, FileIInv, LastCommand,
      NotedWhenExecuted, ReadsLater, NoCommandTwice
<1>4. CASE CreateFile
  <2>1. \/ content' = content /\ mtime' = mtime
        \/ content' = 0
    BY <1>4 DEF CreateFile, Empty
  <2> QED
    BY <1>1, <1>2, <1>4, <2>1
    DEF CreateFile, FileTypeOK, FileIInv, LastCommand, NotedWhenExecuted,
        ReadsLater,
        NoCommandTwice, Empty
<1>5. CASE NoteTime("stamp") \/ NoteTime("store")
  BY <1>1, <1>5
  DEF NoteTime, FileTypeOK, FileIInv, LastCommand, NotedWhenExecuted, ReadsLater,
      NoCommandTwice
<1>6. CASE CheckFile
  BY <1>1, <1>6
  DEF CheckFile, IsModified, FileIInv, LastCommand, NotedWhenExecuted, ReadsLater,
      NoCommandTwice
<1>7. CASE ReadFile
  <2>1. ~ \E i \in DOMAIN executed : executed[i] = content
    BY <1>1, <1>7 DEF ReadFile, FileTypeOK, FileIInv, NotedWhenExecuted, ReadsLater
  <2>2. content # Empty => \A i \in DOMAIN executed : executed[i] < content
    <3>1. content # Empty => content = written
      BY DEF FileIInv, LastCommand
    <3>2. written \in Nat
      BY <1>1, ScriptLength DEF FileTypeOK
    <3> QED
      BY ONLY <1>2, <2>1, <3>1, <3>2
  <2>3. /\ fpc' = "command" /\ command' = content
        /\ UNCHANGED <<content, mtime, written, lastModified, executed>>
    BY <1>7 DEF ReadFile
  <2>4. LastCommand' /\ NoCommandTwice' /\ NotedWhenExecuted'
    BY <2>1, <2>3 DEF FileIInv, LastCommand, NoCommandTwice, NotedWhenExecuted
  <2>5. ReadsLater'
    BY <2>2, <2>3 DEF ReadsLater
  <2> QED
    BY <1>1, <2>4, <2>5 DEF FileIInv
<1>8. CASE OnCommand
  <2>1. fpc = "command" /\ fpc' = "store" /\ UNCHANGED <<content, mtime, written, lastModified>>
    BY <1>8 DEF OnCommand
  <2>2. NoCommandTwice'
    <3>1. CASE command = Empty
      BY <1>8, <3>1 DEF OnCommand, FileIInv, NoCommandTwice
    <3>2. CASE command # Empty
      <4>1. executed' = Append(executed, command) /\ command \in 1 .. written
        BY <1>1, <1>8, <3>2 DEF OnCommand, FileTypeOK, Empty
      <4>2. /\ Len(executed') = Len(executed) + 1
            /\ \A i \in 1 .. Len(executed) : executed'[i] = executed[i]
            /\ executed'[Len(executed) + 1] = command
            /\ DOMAIN executed' = 1 .. Len(executed')
            /\ DOMAIN executed = 1 .. Len(executed) /\ Len(executed) \in Nat
        <5>1. executed \in Seq(1 .. written)
          BY <1>1 DEF FileTypeOK
        <5> QED
          BY ONLY <4>1, <5>1, AppendProperties, LenProperties
      <4>3. \A i \in DOMAIN executed : executed[i] < command
        BY <2>1, <3>2 DEF FileIInv, ReadsLater
      <4>4. \A i, j \in DOMAIN executed : i < j => executed[i] < executed[j]
        BY DEF FileIInv, NoCommandTwice
      <4> SUFFICES ASSUME NEW i \in DOMAIN executed', NEW j \in DOMAIN executed', i < j
                   PROVE  executed'[i] < executed'[j]
        BY DEF NoCommandTwice
      <4>5. i \in 1 .. Len(executed)
        BY <4>2
      <4>6. CASE j = Len(executed) + 1
        BY <4>2, <4>3, <4>5, <4>6
      <4>7. CASE j \in 1 .. Len(executed)
        BY <4>2, <4>4, <4>5, <4>7
      <4> QED
        BY <4>2, <4>6, <4>7
    <3> QED
      BY <3>1, <3>2
  <2> QED
    BY <1>1, <2>1, <2>2 DEF FileIInv, LastCommand, NotedWhenExecuted, ReadsLater
<1> QED
  BY <1>3, <1>4, <1>5, <1>6, <1>7, <1>8 DEF PollStep

(* The invariant is inductive.                                             *)
LEMMA NextFileIInv == FileIInv /\ [FileNext]_allVars => FileIInv'
<1> SUFFICES ASSUME FileIInv, [FileNext]_allVars PROVE FileIInv'
  OBVIOUS
<1>1. CASE UNCHANGED allVars
  BY <1>1, FileTypeStep
  DEF allVars, fileVars, threadVars, FileIInv, LastCommand, NotedWhenExecuted,
      ReadsLater,
      NoCommandTwice
<1> QED
  BY <1>1, OperatorKeepsIInv, HandlerKeepsIInv DEF FileNext

(* The invariant holds in every reachable state.                           *)
LEMMA FileInvariance == FileSpec => []FileIInv
BY InitFileIInv, NextFileIInv, PTL DEF FileSpec

(* The state of the handler and of the file keeps its types.               *)
THEOREM HandlerTypes == FileSpec => []FileTypeOK
<1>1. FileIInv => FileTypeOK
  BY DEF FileIInv
<1> QED
  BY <1>1, FileInvariance, PTL

(* onCommand is called once for a command at most, and in the order of the *)
(* commands, wherever the writes fall between the steps of checkFile.      *)
THEOREM OnceAndInOrder == FileSpec => []NoCommandTwice
<1>1. FileIInv => NoCommandTwice
  BY DEF FileIInv
<1> QED
  BY <1>1, FileInvariance, PTL

-----------------------------------------------------------------------------
(* BrokerLifecycle.                                                        *)

(* A worker that has begun lowers neither its flag nor its arms by itself. *)
WorkersTold ==
  \A w \in Workers :
    wpc[w] \notin {"none", "begin"} /\ (wpc[w] = "dead" \/ ~wRunning[w])
      => told[w] = "yes"

(* The reactor runs only between its setup and its end.  It ends because   *)
(* its flag is down, which means that it was told, or by a failure.        *)
ReactorTold ==
  /\ rRunning => rpc \in {"loop", "select"}
  /\ rpc \in {"loop", "select"} /\ ~rRunning => rTold = "yes"
  /\ rpc = "dead" => rTold = "yes" \/ rFault # "no"

(* Main starts the reactor once, and workers after it.                     *)
ReactorBeforeWorkers ==
  /\ mpc \in {"init", "network"} => rpc = "none"
  /\ mpc \in {"alive", "pool", "workers", "lock", "waiting", "shutdown"}
       => rpc \notin {"none", "begin"}
  /\ rpc \in {"none", "begin"} => \A w \in Workers : wpc[w] = "none"

(* A reactor whose setup failed is dead from then on, and main does not get *)
(* past its look at it, by whichever way it left the wait for the start.   *)
NoneForFailedSetup ==
  rFault = "setup" => /\ rpc = "dead"
                      /\ mpc \notin {"pool", "workers", "lock", "waiting", "shutdown"}
                      /\ \A w \in Workers : wpc[w] = "none"

(* Inductive for Spec.                                                     *)
IInv == TypeOK /\ WorkersTold /\ ReactorTold /\ ReactorBeforeWorkers
        /\ NoneForFailedSetup

(* Nothing has been started.                                               *)
LEMMA InitIInv == Init => IInv
<1> SUFFICES ASSUME Init PROVE IInv
  OBVIOUS
<1>1. TypeOK
  <2>1. /\ listed = 0 /\ commands = 0 /\ tasks = 0 /\ arrived = 0
        /\ 0 \in 0 .. 0
        /\ 0 \in 0 .. WorkerCount /\ 0 \in 0 .. MaxTasks /\ 0 \in 0 .. MaxCommands
    BY LifecycleBounds DEF Init
  <2>2. /\ commands \in 0 .. MaxCommands /\ listed \in 0 .. WorkerCount
        /\ tasks \in 0 .. arrived /\ arrived \in 0 .. MaxTasks
    BY <2>1
  <2>3. /\ cursor = [t \in Closers |-> 0] /\ expected = [t \in Closers |-> 0]
    BY DEF Init
  <2>4. /\ cursor \in [Closers -> 0 .. listed] /\ expected \in [Closers -> 0 .. listed]
    BY <2>1, <2>3
  <2>5. /\ hpc = "off" /\ hRunning = FALSE /\ mpc \in MainPlaces
        /\ isTimedOut = FALSE /\ network = FALSE /\ workerPool = FALSE
        /\ writer = TRUE /\ rRunning = FALSE /\ wakeup = FALSE
        /\ rpc = "none" /\ rTold = "no" /\ rFault = "no"
    BY DEF Init, MainPlaces
  <2>6. /\ spc \in [Closers -> {"off", "log", "close", "network", "list", "workers"}]
        /\ wpc \in [Workers -> WorkerPlaces]
        /\ wRunning \in [Workers -> BOOLEAN]
        /\ interrupted \in [Workers -> BOOLEAN]
        /\ told \in [Workers -> {"no", "early", "yes"}]
    BY DEF Init, WorkerPlaces
  <2> QED
    BY <2>2, <2>4, <2>5, <2>6 DEF TypeOK
<1>2. WorkersTold
  BY DEF Init, WorkersTold
<1>3. ReactorTold /\ ReactorBeforeWorkers /\ NoneForFailedSetup
  BY DEF Init, ReactorTold, ReactorBeforeWorkers, NoneForFailedSetup
<1> QED
  BY <1>1, <1>2, <1>3 DEF IInv

(* A step of the handler or of main keeps the types.                       *)
LEMMA MainTypes ==
  TypeOK /\ (HandlerStep \/ TakeCommand \/ MainStep \/ Timer) => TypeOK'
<1> SUFFICES ASSUME TypeOK, HandlerStep \/ TakeCommand \/ MainStep \/ Timer
             PROVE  TypeOK'
  OBVIOUS
<1> USE LifecycleBounds
    DEF TypeOK, OthersOfHandler, MainGoes, MainPlaces, handlerVars, mainVars,
        closeVars, reactorVars, workerVars, taskVars, toldVars
<1>1. CASE HandlerBegin
  BY <1>1 DEF HandlerBegin
<1>2. CASE HandlerLoop
  BY <1>2 DEF HandlerLoop
<1>3. CASE TakeCommand
  BY <1>3 DEF TakeCommand
<1>4. CASE StartHandler
  BY <1>4 DEF StartHandler
<1>5. CASE StartNetwork
  BY <1>5 DEF StartNetwork
<1>6. CASE WaitForStartup
  BY <1>6 DEF WaitForStartup
<1>7. CASE CheckAlive
  BY <1>7 DEF CheckAlive
<1>8. CASE CreateWorkerPool
  BY <1>8 DEF CreateWorkerPool
<1>9. CASE StartWorker
  BY <1>9 DEF StartWorker, Workers, WorkerPlaces
<1>10. CASE ListWorker
  BY <1>10 DEF ListWorker, Workers
<1>11. CASE Run
  <2>1. mpc' \in MainPlaces /\ isTimedOut' \in BOOLEAN
    BY <1>11 DEF Run
  <2>2. UNCHANGED <<hpc, hRunning, commands, spc, cursor, expected,
                    network, rpc, rRunning, wakeup, workerPool, listed,
                    wpc, wRunning, interrupted, tasks, arrived, writer,
                    rTold, told, rFault>>
    BY <1>11 DEF Run
  <2> QED
    BY <2>1, <2>2
<1>12. CASE Timer
  BY <1>12 DEF Timer
<1> QED
  BY <1>1, <1>2, <1>3, <1>4, <1>5, <1>6, <1>7, <1>8, <1>9, <1>10, <1>11, <1>12
  DEF HandlerStep, MainStep

(* A step of shutdown() keeps the types.                                   *)
LEMMA ShutdownTypes ==
  ASSUME TypeOK, NEW t \in Closers, ShutdownStep(t)
  PROVE  TypeOK'
<1> USE LifecycleBounds DEF TypeOK, ShutdownGoes, Unaffected, taskVars, toldVars
<1>1. CASE StopHandler(t)
  <2>1. hRunning' \in BOOLEAN /\ spc' \in [Closers -> {"off", "log", "close", "network", "list", "workers"}]
    BY <1>1 DEF StopHandler
  <2>2. UNCHANGED <<hpc, commands, mpc, isTimedOut, cursor, expected,
                    network, rpc, rRunning, wakeup, workerPool, listed,
                    wpc, wRunning, interrupted, tasks, arrived, writer,
                    rTold, told, rFault>>
    BY <1>1 DEF StopHandler
  <2> QED
    BY <2>1, <2>2
<1>2. CASE LookAtLog(t)
  BY <1>2 DEF LookAtLog
<1>3. CASE CloseLog(t)
  <2>1. writer' \in BOOLEAN /\ spc' \in [Closers -> {"off", "log", "close", "network", "list", "workers"}]
    BY <1>3 DEF CloseLog
  <2>2. UNCHANGED <<hpc, hRunning, commands, mpc, isTimedOut, cursor,
                    expected, network, rpc, rRunning, wakeup, workerPool,
                    listed, wpc, wRunning, interrupted, tasks, arrived,
                    rTold, told, rFault>>
    BY <1>3 DEF CloseLog
  <2> QED
    BY <2>1, <2>2
<1>4. CASE CloseNetwork(t)
  BY <1>4 DEF CloseNetwork
<1>5. CASE ListWorkers(t)
  BY <1>5 DEF ListWorkers
<1>6. CASE CloseWorker(t)
  <2>1. cursor[t] \in Workers /\ cursor[t] + 1 \in 0 .. listed
    BY <1>6 DEF CloseWorker, Workers
  <2> QED
    BY <1>6, <2>1 DEF CloseWorker
<1>7. CASE ClosePool(t)
  BY <1>7 DEF ClosePool, Returns, MainPlaces
<1>8. CASE ShutdownFails(t)
  <2>1. spc' \in [Closers -> {"off", "log", "close", "network", "list", "workers"}]
    BY <1>8 DEF ShutdownFails
  <2>2. /\ mpc' \in MainPlaces /\ hRunning' \in BOOLEAN
        /\ hpc' \in {"off", "begin", "loop", "shutdown", "dead"}
    BY <1>8 DEF ShutdownFails, Throws, MainPlaces
  <2>3. UNCHANGED <<commands, isTimedOut, cursor, expected, network, rpc,
                    rRunning, wakeup, workerPool, listed, wpc, wRunning,
                    interrupted, tasks, arrived, writer, rTold, told, rFault>>
    BY <1>8 DEF ShutdownFails
  <2> QED
    BY <2>1, <2>2, <2>3
<1> QED
  BY <1>1, <1>2, <1>3, <1>4, <1>5, <1>6, <1>7, <1>8 DEF ShutdownStep

(* A step of the reactor keeps the types.                                  *)
LEMMA ReactorTypes ==
  TypeOK /\ (ReactorStep \/ RequestArrives \/ ReactorFails) => TypeOK'
<1> SUFFICES ASSUME TypeOK, ReactorStep \/ RequestArrives \/ ReactorFails
             PROVE  TypeOK'
  OBVIOUS
<1> USE LifecycleBounds
    DEF TypeOK, ReactorGoes, handlerVars, mainVars, closeVars, workerVars, taskVars,
        toldVars
<1>1. CASE ReactorBegin
  <2>1. /\ rpc' \in {"none", "begin", "loop", "select", "dead"} /\ rRunning' \in BOOLEAN
        /\ rFault' \in {"no", "setup", "running"}
    BY <1>1 DEF ReactorBegin
  <2>2. UNCHANGED <<hpc, hRunning, commands, mpc, isTimedOut, spc, cursor,
                    expected, network, wakeup, workerPool, listed, wpc,
                    wRunning, interrupted, tasks, arrived, writer, rTold,
                    told>>
    BY <1>1 DEF ReactorBegin
  <2> QED
    BY <2>1, <2>2
<1>2. CASE ReactorLoop
  BY <1>2 DEF ReactorLoop
<1>3. CASE WokenUp
  <2>1. /\ rpc' \in {"none", "begin", "loop", "select", "dead"} /\ wakeup' \in BOOLEAN
    BY <1>3 DEF WokenUp
  <2>2. UNCHANGED <<hpc, hRunning, commands, mpc, isTimedOut, spc, cursor,
                    expected, network, rRunning, workerPool, listed, wpc,
                    wRunning, interrupted, tasks, arrived, writer, rTold,
                    told, rFault>>
    BY <1>3 DEF WokenUp
  <2> QED
    BY <2>1, <2>2
<1>4. CASE RequestArrives
  <2>1. /\ arrived \in Nat /\ tasks \in Nat /\ tasks <= arrived
        /\ arrived < MaxTasks /\ arrived' = arrived + 1 /\ tasks' = tasks + 1
    BY <1>4 DEF RequestArrives
  <2>2. tasks' \in 0 .. arrived' /\ arrived' \in 0 .. MaxTasks
    BY ONLY <2>1, LifecycleBounds
  <2>3. /\ rpc' \in {"none", "begin", "loop", "select", "dead"} /\ wakeup' \in BOOLEAN
    BY <1>4 DEF RequestArrives
  <2>4. UNCHANGED <<hpc, hRunning, commands, mpc, isTimedOut, spc,
                    cursor, expected, network, rRunning, workerPool,
                    listed, wpc, wRunning, interrupted, writer, rTold,
                    told, rFault>>
    BY <1>4 DEF RequestArrives
  <2> QED
    BY <2>2, <2>3, <2>4
<1>5. CASE ReactorFails
  <2>1. UNCHANGED <<hpc, hRunning, commands, mpc, isTimedOut, spc, cursor,
                    expected, network, wakeup, workerPool, listed, wpc,
                    wRunning, interrupted, tasks, arrived, writer, rTold,
                    told>>
    BY <1>5 DEF ReactorFails
  <2> QED
    BY <1>5, <2>1 DEF ReactorFails
<1> QED
  BY <1>1, <1>2, <1>3, <1>4, <1>5 DEF ReactorStep

(* A step of a worker keeps the types.                                     *)
LEMMA WorkerTypes ==
  ASSUME TypeOK, NEW w \in Workers, WorkerStep(w)
  PROVE  TypeOK'
<1> USE LifecycleBounds
    DEF TypeOK, WorkerGoes, WorkerPlaces, handlerVars, mainVars, closeVars,
        reactorVars, taskVars, toldVars
<1>1. CASE WorkerBegin(w)
  BY <1>1 DEF WorkerBegin
<1>2. CASE WorkerLoop(w)
  BY <1>2 DEF WorkerLoop
<1>3. CASE TakeInterrupted(w)
  BY <1>3 DEF TakeInterrupted
<1>4. CASE TakeTask(w)
  BY <1>4 DEF TakeTask
<1>5. CASE OpenLog(w)
  BY <1>5 DEF OpenLog
<1>6. CASE WriteLog(w)
  BY <1>6 DEF WriteLog
<1> QED
  BY <1>1, <1>2, <1>3, <1>4, <1>5, <1>6 DEF WorkerStep

(* Types are kept by every step.                                           *)
LEMMA TypeStep == TypeOK /\ [Next]_vars => TypeOK'
<1> SUFFICES ASSUME TypeOK, [Next]_vars PROVE TypeOK'
  OBVIOUS
<1>1. CASE UNCHANGED vars
  BY <1>1
  DEF TypeOK, vars, handlerVars, mainVars, closeVars, reactorVars, workerVars,
      taskVars, toldVars
<1> QED
  BY <1>1, MainTypes, ShutdownTypes, ReactorTypes, WorkerTypes DEF Next

(* What the invariant is about, besides the types.                         *)
toldState == <<mpc, rpc, rRunning, rTold, rFault, wpc, wRunning, told>>

(* A step that touches none of it.                                         *)
LEMMA Untouched == IInv /\ TypeOK' /\ UNCHANGED toldState => IInv'
BY DEF IInv, toldState, WorkersTold, ReactorTold, ReactorBeforeWorkers, NoneForFailedSetup

(* Main starts workers after the reactor.                                  *)
LEMMA MainIInv ==
  IInv /\ TypeOK' /\ (HandlerStep \/ TakeCommand \/ MainStep \/ Timer) => IInv'
<1> SUFFICES ASSUME IInv, TypeOK', HandlerStep \/ TakeCommand \/ MainStep \/ Timer
             PROVE  IInv'
  OBVIOUS
<1>1. CASE HandlerStep \/ TakeCommand
  BY <1>1, Untouched
  DEF HandlerStep, HandlerBegin, HandlerLoop, TakeCommand, OthersOfHandler,
      mainVars, reactorVars, workerVars, toldVars, toldState
<1>2. CASE MainStep \/ Timer
  <2>1. WorkersTold'
    <3>1. CASE StartWorker
      <4>1. listed \in Workers
        BY <3>1, LifecycleBounds DEF StartWorker, Workers, IInv, TypeOK
      <4>2. \A w \in Workers : w # listed => wpc'[w] = wpc[w]
        BY <3>1 DEF StartWorker, IInv, TypeOK
      <4>3. wpc'[listed] = "begin"
        BY <3>1, <4>1 DEF StartWorker, IInv, TypeOK
      <4>4. wRunning' = wRunning /\ told' = told
        BY <3>1 DEF StartWorker, toldVars
      <4> QED
        BY <4>2, <4>3, <4>4 DEF IInv, WorkersTold
    <3>2. CASE ~StartWorker
      <4>1. UNCHANGED <<wpc, wRunning, told>>
        BY <1>2, <3>2
        DEF MainStep, StartHandler, StartNetwork, WaitForStartup, CheckAlive,
            CreateWorkerPool, ListWorker, Run, Timer, workerVars, toldVars
      <4> QED
        BY <4>1 DEF IInv, WorkersTold
    <3> QED
      BY <3>1, <3>2
  <2>2. ReactorTold' /\ ReactorBeforeWorkers' /\ NoneForFailedSetup'
    <3>1. CASE StartNetwork
      <4>1. mpc = "network" /\ mpc' = "wait" /\ rpc' = "begin"
        BY <3>1 DEF StartNetwork, MainGoes
      <4>2. UNCHANGED <<rRunning, rTold, rFault, wpc>>
        BY <3>1 DEF StartNetwork, workerVars, toldVars
      <4> QED
        BY <4>1, <4>2
        DEF IInv, ReactorTold, ReactorBeforeWorkers, NoneForFailedSetup
    <3>2. CASE StartWorker
      <4>1. UNCHANGED <<mpc, rpc, rRunning, rTold, rFault>> /\ mpc = "workers"
        BY <3>2 DEF StartWorker, mainVars, reactorVars, toldVars
      <4> QED
        BY <4>1 DEF IInv, ReactorTold, ReactorBeforeWorkers, NoneForFailedSetup
    <3>3. CASE (MainStep /\ ~StartNetwork /\ ~StartWorker) \/ Timer
      <4>1. UNCHANGED <<rpc, rRunning, rTold, rFault, wpc>>
        BY <3>3
        DEF MainStep, StartHandler, WaitForStartup, CheckAlive, CreateWorkerPool,
            ListWorker, Run, Timer, reactorVars, workerVars, toldVars
      <4>2. \/ mpc' = mpc
            \/ mpc' = "dead"
            \/ mpc = "init" /\ mpc' = "network"
            \/ mpc = "wait" /\ mpc' = "alive" /\ (rRunning \/ rpc = "dead")
            \/ mpc = "alive" /\ mpc' = "pool" /\ rpc # "dead"
            \/ /\ mpc \in {"pool", "workers", "lock", "waiting"}
               /\ mpc' \in {"workers", "lock", "waiting", "shutdown"}
        BY <3>3
        DEF MainStep, MainGoes, StartHandler, WaitForStartup, CheckAlive,
            CreateWorkerPool, ListWorker, Run, Timer, mainVars
      <4>3. ReactorTold'
        BY <4>1 DEF IInv, ReactorTold
      <4>4. ReactorBeforeWorkers'
        BY <4>1, <4>2 DEF IInv, ReactorTold, ReactorBeforeWorkers
      <4>5. NoneForFailedSetup'
        BY <4>1, <4>2 DEF IInv, NoneForFailedSetup
      <4> QED
        BY <4>3, <4>4, <4>5
    <3> QED
      BY <1>2, <3>1, <3>2, <3>3
  <2> QED
    BY <2>1, <2>2 DEF IInv
<1> QED
  BY <1>1, <1>2

(* A caller of shutdown() lowers flags, and says so.                       *)
LEMMA ShutdownIInv ==
  ASSUME IInv, TypeOK', NEW t \in Closers, ShutdownStep(t)
  PROVE  IInv'
<1>1. CASE StopHandler(t) \/ LookAtLog(t) \/ CloseLog(t) \/ ListWorkers(t)
  BY <1>1, Untouched
  DEF StopHandler, LookAtLog, CloseLog, ListWorkers, Unaffected, toldVars, toldState
<1>2. CASE CloseNetwork(t)
  <2>1. UNCHANGED <<mpc, rpc, rFault, wpc, wRunning, told>> /\ rRunning' = FALSE
    BY <1>2 DEF CloseNetwork, Unaffected
  <2>2. rTold' = IF rpc = "begin" THEN "early" ELSE "yes"
    BY <1>2 DEF CloseNetwork
  <2> QED
    BY <2>1, <2>2
    DEF IInv, WorkersTold, ReactorTold, ReactorBeforeWorkers, NoneForFailedSetup
<1>3. CASE CloseWorker(t)
  <2>1. UNCHANGED <<mpc, rpc, rRunning, rTold, rFault, wpc>>
    BY <1>3 DEF CloseWorker, Unaffected
  <2>2. /\ \A v \in Workers : v # cursor[t] => wRunning'[v] = wRunning[v]
                                             /\ told'[v] = told[v]
        /\ cursor[t] \in Workers /\ wpc[cursor[t]] # "begin"
             => told'[cursor[t]] = "yes"
    BY <1>3 DEF CloseWorker, IInv, TypeOK
  <2>3. WorkersTold'
    BY <2>1, <2>2 DEF IInv, WorkersTold
  <2> QED
    BY <2>1, <2>3 DEF IInv, ReactorTold, ReactorBeforeWorkers, NoneForFailedSetup
<1>4. CASE ClosePool(t) \/ ShutdownFails(t)
  <2>1. /\ UNCHANGED <<rpc, rRunning, rTold, rFault, wpc, wRunning, told>>
        /\ mpc' = mpc \/ mpc' = "dead"
    BY <1>4
    DEF ClosePool, ShutdownFails, Returns, Throws, Unaffected, toldVars
  <2> QED
    BY <2>1
    DEF IInv, WorkersTold, ReactorTold, ReactorBeforeWorkers, NoneForFailedSetup
<1> QED
  BY <1>1, <1>2, <1>3, <1>4 DEF ShutdownStep

(* The reactor raises its flag after the setup; it ends with its flag down *)
(* or with a failure.                                                      *)
LEMMA ReactorIInv ==
  IInv /\ TypeOK' /\ (ReactorStep \/ RequestArrives \/ ReactorFails) => IInv'
<1> SUFFICES ASSUME IInv, TypeOK', ReactorStep \/ RequestArrives \/ ReactorFails
             PROVE  IInv'
  OBVIOUS
<1>1. UNCHANGED <<mpc, rTold, wpc, wRunning, told>>
  BY DEF ReactorStep, ReactorBegin, ReactorLoop, WokenUp, RequestArrives,
         ReactorFails, mainVars, workerVars, toldVars
<1>2. \/ rpc = "begin" /\ rpc' = "loop" /\ rRunning' = TRUE /\ rFault' = rFault
      \/ rpc = "begin" /\ rpc' = "dead" /\ rRunning' = FALSE /\ rFault' = "setup"
      \/ rpc = "loop" /\ rRunning /\ rpc' = "select" /\ UNCHANGED <<rRunning, rFault>>
      \/ rpc = "loop" /\ ~rRunning /\ rpc' = "dead" /\ UNCHANGED <<rRunning, rFault>>
      \/ rpc = "select" /\ rpc' = "loop" /\ UNCHANGED <<rRunning, rFault>>
      \/ rpc = "select" /\ rpc' = "dead" /\ rRunning' = FALSE /\ rFault' = "running"
  BY DEF ReactorStep, ReactorGoes, ReactorBegin, ReactorLoop, WokenUp,
     RequestArrives, ReactorFails, toldVars
<1>3. WorkersTold'
  BY <1>1 DEF IInv, WorkersTold
<1>4. ReactorTold'
  BY <1>1, <1>2 DEF IInv, ReactorTold
<1>5. ReactorBeforeWorkers'
  BY <1>1, <1>2 DEF IInv, ReactorBeforeWorkers
<1>6. NoneForFailedSetup'
  <2>1. CASE rFault' = "setup" /\ rFault # "setup"
    <3>1. rpc = "begin" /\ rpc' = "dead"
      BY <1>2, <2>1
    <3> QED
      BY <1>1, <3>1 DEF IInv, ReactorBeforeWorkers, NoneForFailedSetup
  <2>2. CASE rFault' # "setup" \/ rFault = "setup"
    BY <1>1, <1>2, <2>2 DEF IInv, NoneForFailedSetup
  <2> QED
    BY <2>1, <2>2
<1> QED
  BY <1>3, <1>4, <1>5, <1>6 DEF IInv

(* A worker raises its flag when it begins, and ends when it is down.      *)
LEMMA WorkerIInv ==
  ASSUME IInv, TypeOK', NEW w \in Workers, WorkerStep(w)
  PROVE  IInv'
<1>1. UNCHANGED <<mpc, rpc, rRunning, rTold, rFault, told>>
  BY DEF WorkerStep, WorkerBegin, WorkerLoop, TakeInterrupted, TakeTask, OpenLog,
         WriteLog, mainVars, reactorVars, toldVars
<1>2. \A v \in Workers : v # w => wpc'[v] = wpc[v] /\ wRunning'[v] = wRunning[v]
  BY DEF WorkerStep, WorkerGoes, WorkerBegin, WorkerLoop, TakeInterrupted, TakeTask,
         OpenLog, WriteLog, IInv, TypeOK
<1>3. \/ wpc[w] = "begin" /\ wpc'[w] = "loop" /\ wRunning'[w]
      \/ /\ wpc[w] \notin {"none", "begin"} /\ wRunning'[w] = wRunning[w]
         /\ wpc'[w] = "dead" => ~wRunning[w]
  BY DEF WorkerStep, WorkerGoes, WorkerBegin, WorkerLoop, TakeInterrupted, TakeTask,
         OpenLog, WriteLog, IInv, TypeOK
<1>4. WorkersTold'
  BY <1>1, <1>2, <1>3 DEF IInv, WorkersTold
<1>5. wpc[w] # "none"
  BY <1>3
<1>6. ReactorBeforeWorkers' /\ NoneForFailedSetup'
  BY <1>1, <1>5 DEF IInv, ReactorBeforeWorkers, NoneForFailedSetup
<1> QED
  BY <1>1, <1>4, <1>6 DEF IInv, ReactorTold

(* The invariant is inductive.                                             *)
LEMMA NextIInv == IInv /\ [Next]_vars => IInv'
<1> SUFFICES ASSUME IInv, [Next]_vars PROVE IInv'
  OBVIOUS
<1>1. TypeOK'
  BY TypeStep DEF IInv
<1>2. CASE UNCHANGED vars
  BY <1>1, <1>2, Untouched
  DEF vars, mainVars, reactorVars, workerVars, toldVars, toldState
<1> QED
  BY <1>1, <1>2, MainIInv, ShutdownIInv, ReactorIInv, WorkerIInv DEF Next

(* The invariant holds in every reachable state.                           *)
LEMMA Invariance == Spec => []IInv
BY InitIInv, NextIInv, PTL DEF Spec

(* The state of the threads keeps its types; in particular the iterators   *)
(* of shutdown() stay within the list.                                     *)
THEOREM LifecycleTypes == Spec => []TypeOK
<1>1. IInv => TypeOK
  BY DEF IInv
<1> QED
  BY <1>1, Invariance, PTL

(* No worker ends unless it was told to, also when the reactor has failed;  *)
(* a reactor ends told or failed; and one that failed in its setup is left *)
(* without workers, however a start, failures, the commands and the timer  *)
(* interleave.                                                             *)
THEOREM ThreadsEndToldOrFailed == Spec => []EndsToldOrFailed
<1>1. IInv => EndsToldOrFailed
  BY DEF IInv, WorkersTold, ReactorTold, NoneForFailedSetup, EndsToldOrFailed
<1> QED
  BY <1>1, Invariance, PTL
=============================================================================
