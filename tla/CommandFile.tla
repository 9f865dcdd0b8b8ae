----------------------------- MODULE CommandFile -----------------------------
(***************************************************************************)
(* The command file of a broker or a client: an operator writes commands   *)
(* into it, the thread CommandFileHandler polls its time of modification.  *)
(*                                                                         *)
(* Writing is two steps, as the shell and FileOutputStream do it: opening  *)
(* the file empties it, and the command follows.  Each sets the time of    *)
(* modification, which the file system keeps in coarse units: now.         *)
(*                                                                         *)
(* Of what a command does only the stop of the handler itself is here; the *)
(* rest is in BrokerLifecycle, from whose names those of this module       *)
(* differ.                                                                 *)
(***************************************************************************)
EXTENDS Naturals, Sequences

CONSTANTS
  MaxWritten, \* bound: commands written
  Scripts,  \* sequences of commands, one of them is written
  MaxTime   \* bound: last unit of file time

Commands == {"shutdown", "logmemory"}

ASSUME CommandFileBounds == MaxWritten \in Nat /\ MaxTime \in Nat
ASSUME ScriptsAssumption ==
  \A s \in Scripts : s \in Seq(Commands) /\ Len(s) <= MaxWritten

VARIABLES
  script,       \* the commands the operator writes
  now,
  exists, content, mtime, \* the file; its content: 0 or the number of a command
  writing,      \* the operator has emptied the file
  written,      \* commands written so far
  fpc,          \* the handler thread: see HandlerPlaces
  fRunning,     \* field running
  lastModified, \* field lastModified
  command,      \* what checkFile has read
  executed,     \* history: commands passed to onCommand, in order
  inTime        \* history: whether each command was written in good time

fileVars    == <<script, now, exists, content, mtime, writing, written>>
threadVars == <<fpc, fRunning, lastModified, command>>
allVars == <<fileVars, threadVars, executed, inTime>>

Empty == 0

HandlerPlaces == {"begin", "prepare", "create", "stamp", "loop", "check", "read",
                  "command", "store", "dead"}

(* start() has been called.                                                *)
FileInit ==
  /\ script \in Scripts
  /\ now = 0
  /\ exists \in BOOLEAN /\ content = Empty /\ mtime = 0
  /\ writing = FALSE /\ written = 0
  /\ fpc = "begin" /\ fRunning = FALSE /\ lastModified = 0 /\ command = Empty
  /\ executed = <<>> /\ inTime = <<>>
-----------------------------------------------------------------------------
(* The operator and the clock. *)

Tick ==
  /\ now < MaxTime
  /\ now' = now + 1
  /\ UNCHANGED <<script, exists, content, mtime, writing, written, threadVars,
                 executed, inTime>>

OpenFile ==
  /\ ~writing
  /\ written < Len(script)
  /\ exists' = TRUE /\ content' = Empty /\ mtime' = now
  /\ writing' = TRUE
  /\ UNCHANGED <<script, now, written, threadVars, executed, inTime>>

(* A command comes in good time if the handler polls, is not between       *)
(* reading the file and noting the time of what it read, and its clock has *)
(* moved on since then.                                                    *)
InGoodTime == fpc \in {"loop", "check", "read"} /\ now > lastModified

WriteCommand ==
  /\ writing
  /\ content' = written + 1 /\ mtime' = now
  /\ written' = written + 1
  /\ writing' = FALSE
  /\ inTime' = Append(inTime, InGoodTime)
  /\ UNCHANGED <<script, now, exists, threadVars, executed>>

Operator == OpenFile \/ WriteCommand
-----------------------------------------------------------------------------
(* The handler thread: run(), prepareFile() and checkFile(). *)

Goes(from, to) == fpc = from /\ fpc' = to

(* run() raises the flag, also when stop() has already lowered it.         *)
RunBegin ==
  /\ Goes("begin", "prepare")
  /\ fRunning' = TRUE
  /\ UNCHANGED <<fileVars, lastModified, command, executed, inTime>>

LookForFile ==
  /\ Goes("prepare", IF exists THEN "stamp" ELSE "create")
  /\ UNCHANGED <<fileVars, fRunning, lastModified, command, executed, inTime>>

(* IOException ends the thread if the operator has created the file since. *)
CreateFile ==
  /\ Goes("create", IF exists THEN "dead" ELSE "stamp")
  /\ IF exists
       THEN fRunning' = FALSE /\ UNCHANGED <<exists, content, mtime>>
       ELSE exists' = TRUE /\ content' = Empty /\ mtime' = now /\ UNCHANGED fRunning
  /\ UNCHANGED <<script, now, writing, written, lastModified, command, executed, inTime>>

(* Mutation: the time is noted one unit ahead.                             *)
NoteTimeAhead(from) ==
  /\ Goes(from, "loop")
  /\ lastModified' = mtime + 1
  /\ UNCHANGED <<fileVars, fRunning, command, executed, inTime>>

(* Mutation: the time is noted at the start only.                          *)
NoteTimeOnce(from) ==
  /\ Goes(from, "loop")
  /\ lastModified' = IF from = "stamp" THEN mtime ELSE lastModified
  /\ UNCHANGED <<fileVars, fRunning, command, executed, inTime>>

(* lastModified is the time of the file now, after checkFile not that of   *)
(* what it read.                                                           *)
NoteTime(from) ==
  /\ Goes(from, "loop")
  /\ lastModified' = mtime
  /\ UNCHANGED <<fileVars, fRunning, command, executed, inTime>>

LoopAgain ==
  /\ Goes("loop", IF fRunning THEN "check" ELSE "dead")
  /\ UNCHANGED <<fileVars, fRunning, lastModified, command, executed, inTime>>

(* stop() interrupts the sleep before checkFile.                           *)
SleepInterrupted ==
  /\ ~fRunning
  /\ Goes("check", "loop")
  /\ UNCHANGED <<fileVars, fRunning, lastModified, command, executed, inTime>>

(* Mutation: the file must be newer by more than one unit.                 *)
IsModifiedLater == mtime > lastModified + 1

IsModified == mtime > lastModified

CheckFile ==
  /\ Goes("check", IF IsModified THEN "read" ELSE "loop")
  /\ UNCHANGED <<fileVars, fRunning, lastModified, command, executed, inTime>>

ReadFile ==
  /\ Goes("read", "command")
  /\ command' = content
  /\ UNCHANGED <<fileVars, fRunning, lastModified, executed, inTime>>

(* onCommand: what is not the shutdown command only logs.                  *)
IsShutdown == command # Empty /\ script[command] = "shutdown"

OnCommand ==
  /\ Goes("command", "store")
  /\ executed' = IF command # Empty THEN Append(executed, command) ELSE executed
  /\ fRunning' = (fRunning /\ ~IsShutdown)
  /\ UNCHANGED <<fileVars, lastModified, command, inTime>>

(* stop(), called by another thread.                                       *)
Stop ==
  /\ fRunning
  /\ fRunning' = FALSE
  /\ UNCHANGED <<fileVars, fpc, lastModified, command, executed, inTime>>

PollStep ==
  \/ RunBegin \/ LookForFile \/ CreateFile \/ NoteTime("stamp")
  \/ LoopAgain \/ SleepInterrupted \/ CheckFile \/ ReadFile
  \/ OnCommand \/ NoteTime("store")

FileNext == Tick \/ Operator \/ Stop \/ PollStep

FileSpec == FileInit /\ [][FileNext]_allVars

(* The handler thread goes on; nobody has to write, and time may stand.    *)
FairFileSpec == FileSpec /\ WF_allVars(PollStep)
-----------------------------------------------------------------------------
FileTypeOK ==
  /\ script \in Scripts
  /\ now \in 0 .. MaxTime
  /\ exists \in BOOLEAN
  /\ content \in 0 .. written
  /\ mtime \in 0 .. now
  /\ writing \in BOOLEAN
  /\ written \in 0 .. Len(script)
  /\ fpc \in HandlerPlaces
  /\ fRunning \in BOOLEAN
  /\ lastModified \in 0 .. now
  /\ command \in 0 .. written
  /\ executed \in Seq(1 .. written)
  /\ inTime \in Seq(BOOLEAN) /\ Len(inTime) = written

(* "Expect this method to be called just once"                             *)
(* (BrokerCommandFileHandlerTest): commands are executed in the order they *)
(* were written and none of them twice, wherever the writes fall between   *)
(* the steps of checkFile.                                                 *)
NoCommandTwice == \A i, j \in DOMAIN executed : i < j => executed[i] < executed[j]

Executed(w) == \E i \in DOMAIN executed : executed[i] = w

Excused(w) == content # w \/ ~fRunning

(* A command written in good time is executed, unless the operator goes on *)
(* to the next one or the handler is stopped.                              *)
CommandTaken ==
  \A w \in 1 .. MaxWritten :
    (w \in DOMAIN inTime /\ inTime[w]) ~> (Executed(w) \/ Excused(w))
=============================================================================
