------------------------- MODULE MessageStoreProofs -------------------------
(***************************************************************************)
(* Theorems about MessageStore, for any workers, queues, clients, requests *)
(* and bounds.                                                             *)
(***************************************************************************)
EXTENDS MessageStore, FiniteSetTheorems, TLAPS

(* The part of TypeOK that is about the workers' transactions. *)
TxTypeOK ==
  /\ pc \in [Workers -> Statements]
  /\ job \in [Workers -> Jobs]
  /\ todo \in [Workers -> Seq(Queues)]
  /\ row \in [Workers -> Row \cup {NONE}]
  /\ snapshot \in [Workers -> SUBSET Row]
  /\ skipped \in [Workers -> SUBSET Row]
  /\ hit \in [Workers -> Row \cup {NONE}]
  /\ held \in [Workers -> SUBSET Row]
  /\ count \in [Workers -> Nat]
  /\ answer \in [Workers -> Answers]

(* Ending a request resets the worker to well-typed values.                *)
LEMMA FinishType ==
  ASSUME TypeOK, NEW w \in Workers, NEW a \in Answers, Finish(w, a)
  PROVE  TxTypeOK'
BY DEF Finish, TypeOK, TxTypeOK, Statements, Jobs

(* Ending a request releases all row locks of the worker.                  *)
LEMMA FinishClears ==
  ASSUME TypeOK, NEW w \in Workers, NEW a, Finish(w, a)
  PROVE  pc'[w] = "idle" /\ held'[w] = {} /\ snapshot'[w] = {} /\ skipped'[w] = {}
BY DEF Finish, TypeOK

(* The empty store satisfies the invariant.                                *)
LEMMA InitIInv == Init => IInv
<1> SUFFICES ASSUME Init PROVE IInv
  OBVIOUS
<1>1. TypeOK
  BY DEF Init, TypeOK, Statements, Jobs, Answers
<1>2. RowsDistinct /\ JobFits /\ ScanSound /\ LocksSound
  BY DEF Init, RowsDistinct, JobFits, ScanSound, LocksSound, Gone
<1>3. LossNeedsFailure
  BY FS_EmptySet DEF Init, LossNeedsFailure
<1>4. OneFate /\ DeleteCountIsOne
  BY DEF Init, OneFate, DeleteCountIsOne
<1> QED
  BY <1>1, <1>2, <1>3, <1>4 DEF IInv

(* The row a DELETE is about to remove is in the table, and its id names   *)
(* no other row: the primary key at work.                                  *)
LEMMA HitIsTheRow ==
  ASSUME IInv, NEW w \in Workers, pc[w] \in {"delete", "commit"}
  PROVE  /\ hit[w] \in message
         /\ held[w] = {hit[w]}
         /\ {m \in message : m.id = hit[w].id} = {hit[w]}
         /\ {m \in message : m.id # hit[w].id} = message \ {hit[w]}
<1>1. hit[w] \in message /\ held[w] = {hit[w]}
  BY DEF IInv, LocksSound
<1>2. \A m \in message : m.id = hit[w].id => m = hit[w]
  BY <1>1 DEF IInv, RowsDistinct
<1> QED
  BY <1>1, <1>2

(* What an INSERT builds is a row with the drawn id. *)
LEMMA NewRow ==
  ASSUME IInv, NEW w \in Workers, InsertBegin(w)
  PROVE  /\ row'[w] \in Row /\ row'[w].id = nextId
         /\ row' = [row EXCEPT ![w] = row'[w]]
<1> USE DEF IInv, TypeOK
<1>1. job[w] \in Send
  BY DEF InsertBegin, JobFits
<1>2. Head(todo[w]) \in Queues
  BY DEF InsertBegin
<1>3. TimeOfDay(nextId) \in Nat
  BY DayAssumption DEF TimeOfDay
<1>4. [id |-> nextId, queue |-> Head(todo[w]), sender |-> job[w].sender,
       prio |-> job[w].prio, sentAt |-> TimeOfDay(nextId),
       context |-> job[w].context] \in Row
  BY <1>1, <1>2, <1>3 DEF Row, Send
<1>5. row'[w] = [id |-> nextId, queue |-> Head(todo[w]), sender |-> job[w].sender,
                 prio |-> job[w].prio, sentAt |-> TimeOfDay(nextId),
                 context |-> job[w].context]
      /\ row' = [row EXCEPT ![w] = row'[w]]
  BY DEF InsertBegin
<1> QED
  BY <1>4, <1>5

(* Every statement, commit and failure keeps the types.                    *)
LEMMA TypeStep == IInv /\ [Next]_vars => TypeOK'
<1> SUFFICES ASSUME IInv, [Next]_vars PROVE TypeOK'
  OBVIOUS
<1>0. TypeOK
  BY DEF IInv
<1> USE <1>0 DEF TypeOK
<1>1. ASSUME NEW w \in Workers, NEW q \in Queries, DequeueBegin(w, q)
      PROVE  TypeOK'
  BY <1>1, RequestAssumption DEF DequeueBegin, Visible, Jobs, history, Statements
<1>2. ASSUME NEW w \in Workers, NEW q \in Queries, PeekMessage(w, q)
      PROVE  TypeOK'
  BY <1>2 DEF PeekMessage, First, Visible, Answers, history, Statements
<1>3. ASSUME NEW w \in Workers, NEW s \in Sends, SendBegin(w, s)
      PROVE  TypeOK'
  BY <1>3, RequestAssumption DEF SendBegin, Jobs, Send, history, Statements
<1>4. ASSUME NEW w \in Workers, NEW k \in Deletions, DeleteQueueBegin(w, k)
      PROVE  TypeOK'
  BY <1>4, RequestAssumption DEF DeleteQueueBegin, Jobs, history, Statements
<1>5. ASSUME NEW w \in Workers, Fetch(w)
      PROVE  TypeOK'
  BY <1>5 DEF Fetch, First, history, Statements
<1>6. ASSUME NEW w \in Workers, LockRow(w)
      PROVE  TypeOK'
  <2>1. hit[w] \in Row
    BY <1>6 DEF LockRow, IInv, ScanSound, First
  <2>2. CASE hit[w] \in message
    <3>1. held[w] \cup {hit[w]} \in SUBSET Row
      BY <2>1
    <3>2. held' = [held EXCEPT ![w] = held[w] \cup {hit[w]}]
      BY <1>6, <2>2 DEF LockRow
    <3>3. held' \in [Workers -> SUBSET Row]
      BY <3>1, <3>2
    <3>4. pc' \in [Workers -> Statements]
      BY <1>6, <2>2 DEF LockRow, Statements
    <3> QED
      BY <1>6, <3>3, <3>4, <2>2 DEF LockRow, history
  <2>3. CASE hit[w] \notin message
    <3>1. skipped[w] \cup {hit[w]} \in SUBSET Row
      BY <2>1
    <3>2. skipped' = [skipped EXCEPT ![w] = skipped[w] \cup {hit[w]}]
      BY <1>6, <2>3 DEF LockRow
    <3>3. skipped' \in [Workers -> SUBSET Row]
      BY <3>1, <3>2
    <3>4. hit' \in [Workers -> Row \cup {NONE}] /\ pc' \in [Workers -> Statements]
      BY <1>6, <2>3 DEF LockRow, Statements
    <3> QED
      BY <1>6, <3>3, <3>4, <2>3 DEF LockRow, history
  <2> QED
    BY <2>2, <2>3
<1>7. ASSUME NEW w \in Workers, DequeueNothing(w)
      PROVE  TypeOK'
  <2>1. TxTypeOK'
    BY <1>7, FinishType DEF DequeueNothing, Answers
  <2> QED
    BY <1>7, <2>1 DEF DequeueNothing, TxTypeOK, history
<1>8. ASSUME NEW w \in Workers, DeleteRow(w)
      PROVE  TypeOK'
  <2>1. Cardinality({m \in message : m.id = hit[w].id}) = 1
    <3>1. {m \in message : m.id = hit[w].id} = {hit[w]}
      BY <1>8, HitIsTheRow DEF DeleteRow
    <3> QED
      BY <3>1, FS_Singleton
  <2> QED
    BY <1>8, <2>1 DEF DeleteRow, history, Statements
<1>9. ASSUME NEW w \in Workers, DequeueCommit(w)
      PROVE  TypeOK'
  <2>1. hit[w] \in Row
    BY <1>9 DEF DequeueCommit, IInv, ScanSound, First
  <2>2. TxTypeOK'
    BY <1>9, <2>1, FinishType DEF DequeueCommit, Answers
  <2> QED
    BY <1>9, <2>1, <2>2 DEF DequeueCommit, TxTypeOK
<1>10. ASSUME NEW w \in Workers, InsertBegin(w)
       PROVE  TypeOK'
  <2>1. todo' \in [Workers -> Seq(Queues)]
    BY <1>10 DEF InsertBegin
  <2>2. row' \in [Workers -> Row \cup {NONE}]
    BY <1>10, NewRow
  <2>3. pc' \in [Workers -> Statements] /\ nextId' \in Nat
    BY <1>10 DEF InsertBegin, Statements
  <2> QED
    BY <1>10, <2>1, <2>2, <2>3 DEF InsertBegin, history
<1>11. ASSUME NEW w \in Workers, InsertCommit(w)
       PROVE  TypeOK'
  <2>1. row[w] \in Row
    BY <1>11 DEF InsertCommit, IInv, RowsDistinct
  <2> QED
    BY <1>11, <2>1 DEF InsertCommit, history, Statements
<1>12. ASSUME NEW w \in Workers, InsertViolatesKey(w) \/ SendDone(w)
       PROVE  TypeOK'
  <2>1. TxTypeOK'
    BY <1>12, FinishType DEF InsertViolatesKey, SendDone, Answers
  <2> QED
    BY <1>12, <2>1 DEF InsertViolatesKey, SendDone, TxTypeOK, history
<1>13. ASSUME NEW w \in Workers, LockQueue(w)
       PROVE  TypeOK'
  <2>1. CASE job[w] \in queue
    BY <1>13, <2>1 DEF LockQueue, history, Statements
  <2>2. CASE job[w] \notin queue
    <3>1. TxTypeOK'
      BY <1>13, <2>2, FinishType DEF LockQueue, Answers
    <3> QED
      BY <1>13, <3>1 DEF LockQueue, TxTypeOK, history
  <2> QED
    BY <2>1, <2>2
<1>14. ASSUME NEW w \in Workers, CascadeRow(w)
       PROVE  TypeOK'
  BY <1>14 DEF CascadeRow, RowsOf, history, Statements
<1>15. ASSUME NEW w \in Workers, DeleteQueueCommit(w)
       PROVE  TypeOK'
  <2>1. TxTypeOK'
    BY <1>15, FinishType DEF DeleteQueueCommit, Answers
  <2> QED
    BY <1>15, <2>1 DEF DeleteQueueCommit, TxTypeOK
<1>16. ASSUME NEW w \in Workers, ConnectionFails(w)
       PROVE  TypeOK'
  <2>1. TxTypeOK'
    BY <1>16, FinishType DEF ConnectionFails, Fail, Answers
  <2> QED
    BY <1>16, <2>1 DEF ConnectionFails, Fail, TxTypeOK, history
<1>17. ASSUME NEW w \in Workers, CommitUnacknowledged(w)
       PROVE  TypeOK'
  <2>1. TxTypeOK' /\ failures' \in Nat
    BY <1>17, FinishType DEF CommitUnacknowledged, Fail, Answers
  <2>2. pc[w] = "insert" => row[w] \in Row
    BY DEF IInv, RowsDistinct
  <2> QED
    BY <1>17, <2>1, <2>2 DEF CommitUnacknowledged, TxTypeOK
<1>18. CASE UNCHANGED vars
  BY <1>18 DEF vars, txVars, history
<1> QED
  BY <1>1, <1>2, <1>3, <1>4, <1>5, <1>6, <1>7, <1>8, <1>9, <1>10, <1>11, <1>12,
     <1>13, <1>14, <1>15, <1>16, <1>17, <1>18
     DEF Next, Request, Dequeue, Insert, Delete, Failure
-----------------------------------------------------------------------------
(* Every step belongs to one worker ... *)
Step(w) == Request(w) \/ Dequeue(w) \/ Insert(w) \/ Delete(w) \/ Failure(w)

(* ... and leaves the other workers' transactions alone. *)
LEMMA OthersKeep ==
  ASSUME TypeOK, NEW w \in Workers, Step(w), NEW v \in Workers, v # w
  PROVE  /\ pc'[v] = pc[v] /\ job'[v] = job[v] /\ row'[v] = row[v]
         /\ snapshot'[v] = snapshot[v] /\ skipped'[v] = skipped[v]
         /\ hit'[v] = hit[v] /\ held'[v] = held[v] /\ count'[v] = count[v]
<1> USE DEF TypeOK
<1>1. CASE Request(w)
  BY <1>1 DEF Request, DequeueBegin, PeekMessage, SendBegin, DeleteQueueBegin
<1>2. CASE Dequeue(w)
  BY <1>2 DEF Dequeue, Fetch, LockRow, DequeueNothing, DeleteRow, DequeueCommit,
              Finish
<1>3. CASE Insert(w)
  BY <1>3 DEF Insert, InsertBegin, InsertCommit, InsertViolatesKey, SendDone,
              Finish
<1>4. CASE Delete(w)
  BY <1>4 DEF Delete, LockQueue, CascadeRow, DeleteQueueCommit, Finish
<1>5. CASE Failure(w)
  BY <1>5 DEF Failure, ConnectionFails, CommitUnacknowledged, Fail, Finish
<1> QED
  BY <1>1, <1>2, <1>3, <1>4, <1>5 DEF Step

(* What a step does to the rows: nothing, ... *)
Quiet(w) ==
  /\ UNCHANGED <<message, nextId, history>>
  /\ pc'[w] = "insert" => pc[w] = "insert" /\ row'[w] = row[w]

(* ... draw an id, ... *)
Draws(w) ==
  /\ UNCHANGED <<message, history>>
  /\ pc[w] # "insert" /\ row'[w] \in Row /\ row'[w].id = nextId
  /\ nextId' = nextId + 1

(* ... make a row visible, ... *)
Shows(w) ==
  /\ pc[w] = "insert" /\ pc'[w] # "insert"
  /\ message' = message \cup {row[w]}
  /\ UNCHANGED <<nextId, history>>

(* ... or remove the rows it has locked. *)
Removes(w) ==
  /\ pc[w] \in {"commit", "cascade"} /\ pc'[w] = "idle" /\ held'[w] = {}
  /\ message' = message \ held[w]
  /\ nextId' = nextId
  /\ \/ /\ delivered' = delivered \cup held[w] /\ pc[w] = "commit"
        /\ UNCHANGED <<lost, purged>>
     \/ /\ lost' = lost \cup held[w] /\ pc[w] = "commit"
        /\ failures' = failures + 1
        /\ UNCHANGED <<delivered, purged>>
     \/ /\ purged' = purged \cup held[w]
        /\ UNCHANGED <<delivered, lost>>

(* Every step has one of four effects on the table (see Quiet ... Removes). *)
LEMMA RowEffect ==
  ASSUME IInv, NEW w \in Workers, Step(w)
  PROVE  Quiet(w) \/ Draws(w) \/ Shows(w) \/ Removes(w)
<1> USE DEF TypeOK, IInv, Statements
<1>1. ASSUME Request(w)
      PROVE  Quiet(w)
  BY <1>1 DEF Request, DequeueBegin, PeekMessage, SendBegin, DeleteQueueBegin,
              Quiet, history
<1>2. ASSUME Fetch(w) \/ LockRow(w) \/ DequeueNothing(w) \/ DeleteRow(w)
      PROVE  Quiet(w)
  BY <1>2 DEF Fetch, LockRow, DequeueNothing, DeleteRow, Finish, Quiet, history
<1>3. ASSUME DequeueCommit(w)
      PROVE  Removes(w)
  <2>1. /\ count[w] = 1 /\ held[w] = {hit[w]}
        /\ message' = message \ held[w]
    BY <1>3, HitIsTheRow DEF DequeueCommit, DeleteCountIsOne
  <2> QED
    BY <1>3, <2>1 DEF DequeueCommit, Finish, Removes
<1>4. ASSUME InsertBegin(w)
      PROVE  Draws(w)
  BY <1>4, NewRow DEF InsertBegin, Draws, history
<1>5. ASSUME InsertCommit(w)
      PROVE  Shows(w)
  BY <1>5 DEF InsertCommit, Shows, history
<1>6. ASSUME InsertViolatesKey(w) \/ SendDone(w)
      PROVE  Quiet(w)
  BY <1>6 DEF InsertViolatesKey, SendDone, Finish, Quiet, history
<1>7. ASSUME LockQueue(w) \/ CascadeRow(w)
      PROVE  Quiet(w)
  BY <1>7 DEF LockQueue, CascadeRow, Finish, Quiet, history
<1>8. ASSUME DeleteQueueCommit(w)
      PROVE  Removes(w)
  BY <1>8 DEF DeleteQueueCommit, Finish, Removes
<1>9. ASSUME ConnectionFails(w)
      PROVE  Quiet(w)
  BY <1>9 DEF ConnectionFails, Fail, Finish, Quiet, history
<1>10. ASSUME CommitUnacknowledged(w)
       PROVE  Shows(w) \/ Removes(w)
  <2> USE <1>10 DEF CommitUnacknowledged, Fail, Finish
  <2>1. CASE pc[w] = "commit"
    <3>1. message' = message \ held[w] /\ held[w] \subseteq message
      BY <2>1, HitIsTheRow
    <3> QED
      BY <2>1, <3>1 DEF Removes
  <2>2. CASE pc[w] = "insert"
    BY <2>2 DEF Shows, history
  <2>3. CASE pc[w] = "cascade"
    BY <2>3 DEF Removes
  <2> QED
    BY <2>1, <2>2, <2>3
<1> QED
  BY <1>1, <1>2, <1>3, <1>4, <1>5, <1>6, <1>7, <1>8, <1>9, <1>10
     DEF Step, Dequeue, Insert, Delete, Failure

-----------------------------------------------------------------------------
(* The parts of the invariant, one lemma each. *)

(* Ids stay unique: an INSERT draws a fresh one.                           *)
LEMMA RowsDistinctStep ==
  ASSUME IInv, TypeOK', NEW w \in Workers, Step(w)
  PROVE  RowsDistinct'
<1> USE DEF RowsDistinct, Gone
<1>0. TypeOK /\ RowsDistinct /\ LocksSound
  BY DEF IInv
<1>1. \A v \in Workers \ {w} : pc'[v] = pc[v] /\ row'[v] = row[v]
  BY <1>0, OthersKeep
<1>2. CASE Quiet(w)
  BY <1>0, <1>1, <1>2 DEF Quiet, history
<1>3. CASE Draws(w)
  <2>1. \A m \in message \cup Gone : m \in Row
    BY <1>0 DEF TypeOK
  <2>2. \A m \in Row : m.id \in Nat
    BY DEF Row
  <2>3. nextId \in Nat
    BY <1>0 DEF TypeOK
  <2> QED
    BY <1>0, <1>1, <1>3, <2>1, <2>2, <2>3 DEF Draws, history
<1>4. CASE Shows(w)
  BY <1>0, <1>1, <1>4 DEF Shows, history
<1>5. CASE Removes(w)
  BY <1>0, <1>1, <1>5 DEF Removes, LocksSound
<1> QED
  BY <1>2, <1>3, <1>4, <1>5, RowEffect

(* A row that leaves the table gets exactly one fate.                      *)
LEMMA OneFateStep ==
  ASSUME IInv, NEW w \in Workers, Step(w)
  PROVE  OneFate'
<1> USE DEF OneFate
<1>0. OneFate /\ RowsDistinct /\ LocksSound
  BY DEF IInv
<1>2. CASE Quiet(w)
  BY <1>0, <1>2 DEF Quiet, history
<1>3. CASE Draws(w)
  BY <1>0, <1>3 DEF Draws, history
<1>4. CASE Shows(w)
  BY <1>0, <1>4 DEF Shows, history, RowsDistinct, Gone
<1>5. CASE Removes(w)
  BY <1>0, <1>5 DEF Removes, LocksSound
<1> QED
  BY <1>2, <1>3, <1>4, <1>5, RowEffect

(* A step counts one failure at most.                                      *)
LEMMA FailuresCount ==
  ASSUME TypeOK, NEW w \in Workers, Step(w)
  PROVE  failures' = failures \/ failures' = failures + 1
<1>1. CASE Request(w) \/ Dequeue(w) \/ Insert(w) \/ Delete(w)
  BY <1>1 DEF Request, DequeueBegin, PeekMessage, SendBegin, DeleteQueueBegin,
       Dequeue, Fetch, LockRow, DequeueNothing, DeleteRow, DequeueCommit,
       Insert, InsertBegin, InsertCommit, InsertViolatesKey, SendDone,
       Delete, LockQueue, CascadeRow, DeleteQueueCommit
<1>2. CASE Failure(w)
  BY <1>2 DEF Failure, ConnectionFails, CommitUnacknowledged, Fail
<1> QED
  BY <1>1, <1>2 DEF Step

(* At most one row is lost for each failure.                               *)
LEMMA LossStep ==
  ASSUME IInv, NEW w \in Workers, Step(w)
  PROVE  LossNeedsFailure'
<1>0. TypeOK /\ LossNeedsFailure /\ LocksSound
  BY DEF IInv
<1>1. failures \in Nat /\ (failures' = failures \/ failures' = failures + 1)
  BY <1>0, FailuresCount DEF TypeOK
<1>2. IsFiniteSet(lost) /\ Cardinality(lost) <= failures
  BY <1>0 DEF LossNeedsFailure
<1>3. Cardinality(lost) \in Nat
  BY <1>2, FS_CardinalityType
<1>4. CASE lost' = lost
  BY <1>1, <1>2, <1>3, <1>4 DEF LossNeedsFailure
<1>5. CASE lost' = lost \cup held[w] /\ failures' = failures + 1 /\ pc[w] = "commit"
  <2>1. held[w] = {hit[w]}
    BY <1>5, HitIsTheRow
  <2>2. /\ IsFiniteSet(lost \cup {hit[w]})
        /\ Cardinality(lost \cup {hit[w]}) =
             IF hit[w] \in lost THEN Cardinality(lost) ELSE Cardinality(lost) + 1
    BY <1>2, FS_AddElement
  <2>3. Cardinality(lost \cup {hit[w]}) <= Cardinality(lost) + 1
    BY <1>3, <2>2
  <2> QED
    BY <1>1, <1>2, <1>3, <1>5, <2>1, <2>2, <2>3 DEF LossNeedsFailure
<1> QED
  BY <1>4, <1>5, RowEffect DEF Quiet, Draws, Shows, Removes, history

(* A worker in the middle of a request has the job that belongs to it.     *)
LEMMA JobFitsStep ==
  ASSUME IInv, NEW w \in Workers, Step(w)
  PROVE  JobFits'
<1> USE DEF JobFits
<1>0. TypeOK /\ JobFits
  BY DEF IInv
<1>1. \A v \in Workers \ {w} : pc'[v] = pc[v] /\ job'[v] = job[v]
  BY <1>0, OthersKeep
<1>2. CASE Request(w)
  <2>1. ASSUME NEW q \in Queries, DequeueBegin(w, q)
        PROVE  JobFits'
    BY <1>0, <1>1, <2>1, RequestAssumption DEF DequeueBegin, TypeOK
  <2>2. ASSUME NEW q \in Queries, PeekMessage(w, q)
        PROVE  JobFits'
    BY <1>0, <2>2 DEF PeekMessage
  <2>3. ASSUME NEW s \in Sends, SendBegin(w, s)
        PROVE  JobFits'
    BY <1>0, <1>1, <2>3, RequestAssumption DEF SendBegin, TypeOK
  <2>4. ASSUME NEW k \in Deletions, DeleteQueueBegin(w, k)
        PROVE  JobFits'
    BY <1>0, <1>1, <2>4, RequestAssumption DEF DeleteQueueBegin, TypeOK
  <2> QED
    BY <1>2, <2>1, <2>2, <2>3, <2>4 DEF Request
<1>3. CASE pc'[w] = "idle"
  BY <1>0, <1>1, <1>3
<1>4. CASE Fetch(w) \/ LockRow(w) \/ DeleteRow(w)
  BY <1>0, <1>1, <1>4 DEF Fetch, LockRow, DeleteRow, TypeOK
<1>5. CASE InsertBegin(w) \/ InsertCommit(w)
  BY <1>0, <1>1, <1>5 DEF InsertBegin, InsertCommit, TypeOK
<1>6. CASE LockQueue(w) \/ CascadeRow(w)
  BY <1>0, <1>1, <1>3, <1>6 DEF LockQueue, CascadeRow, TypeOK, Finish
<1>7. CASE DequeueNothing(w) \/ DequeueCommit(w) \/ InsertViolatesKey(w)
           \/ SendDone(w) \/ DeleteQueueCommit(w) \/ Failure(w)
  <2>1. pc'[w] = "idle"
    BY <1>0, <1>7 DEF DequeueNothing, DequeueCommit, InsertViolatesKey, SendDone,
         DeleteQueueCommit, Failure, ConnectionFails, CommitUnacknowledged, Fail,
         Finish, TypeOK
  <2> QED
    BY <1>3, <2>1
<1> QED
  BY <1>2, <1>4, <1>5, <1>6, <1>7 DEF Step, Dequeue, Insert, Delete

(* Rows never come back: what was seen stays accounted for. *)
LEMMA RowsStay ==
  ASSUME IInv, NEW w \in Workers, Step(w)
  PROVE  /\ message \cup Gone \subseteq message' \cup Gone'
         /\ Gone \subseteq Gone'
BY RowEffect DEF Quiet, Draws, Shows, Removes, history, Gone

(* The statements of a dequeue, and what changes when w finishes. *)
LEMMA ScanSoundStep ==
  ASSUME IInv, NEW w \in Workers, Step(w)
  PROVE  ScanSound'
<1> DEFINE Scan(v) ==
      /\ snapshot[v] \subseteq message \cup Gone
      /\ skipped[v] \subseteq Gone
      /\ \A m \in snapshot[v] : Matches(m, job[v])
      /\ pc[v] \notin {"scan", "lock", "delete", "commit"} => snapshot[v] = {}
      /\ pc[v] \in {"lock", "delete", "commit"} =>
           hit[v] \in First(snapshot[v] \ skipped[v], job[v])
<1>0. TypeOK /\ \A v \in Workers : Scan(v)
  BY DEF IInv, ScanSound
<1>a. message \cup Gone \subseteq message' \cup Gone' /\ Gone \subseteq Gone'
  BY RowsStay
<1>1. ASSUME NEW v \in Workers, v # w
      PROVE  Scan(v)'
  <2>1. /\ pc'[v] = pc[v] /\ job'[v] = job[v] /\ hit'[v] = hit[v]
        /\ snapshot'[v] = snapshot[v] /\ skipped'[v] = skipped[v]
    BY <1>0, <1>1, OthersKeep
  <2> QED
    BY <1>0, <1>a, <2>1 DEF Matches, First, Before
<1>2. Scan(w)'
  <2> USE DEF TypeOK
  <2>1. ASSUME NEW q \in Queries, DequeueBegin(w, q)
        PROVE  Scan(w)'
    BY <1>0, <1>a, <2>1, RequestAssumption
       DEF DequeueBegin, ScanSound, IInv, Visible, Matches, First, Before
  <2>2. CASE Fetch(w)
    BY <1>0, <1>a, <2>2 DEF Fetch, Matches, First, Before
  <2>3. CASE LockRow(w)
    BY <1>0, <1>a, <2>3 DEF LockRow, Matches, First, Before
  <2>4. CASE DeleteRow(w)
    BY <1>0, <1>a, <2>4 DEF DeleteRow, Matches, First, Before
  <2>5. CASE /\ UNCHANGED <<snapshot, skipped>>
             /\ pc[w] \notin {"scan", "lock", "delete", "commit"}
             /\ pc'[w] \notin {"scan", "lock", "delete", "commit"}
    BY <1>0, <1>a, <2>5
  <2>6. CASE \E a : Finish(w, a)
    BY <1>0, <1>a, <2>6 DEF Finish
  <2>7. CASE \/ \E q \in Queries : PeekMessage(w, q)
             \/ \E s \in Sends : SendBegin(w, s)
             \/ \E k \in Deletions : DeleteQueueBegin(w, k)
    BY <1>0, <2>5, <2>7 DEF PeekMessage, SendBegin, DeleteQueueBegin, Idle
  <2>8. CASE Insert(w) \/ Delete(w)
    BY <1>0, <2>5, <2>6, <2>8
       DEF Insert, InsertBegin, InsertCommit, InsertViolatesKey, SendDone,
           Delete, LockQueue, CascadeRow, DeleteQueueCommit
  <2>9. CASE DequeueNothing(w) \/ DequeueCommit(w) \/ Failure(w)
    BY <2>6, <2>9 DEF DequeueNothing, DequeueCommit, Failure, ConnectionFails,
                      CommitUnacknowledged, Fail
  <2> QED
    BY <2>1, <2>2, <2>3, <2>4, <2>7, <2>8, <2>9 DEF Step, Request, Dequeue
<1> QED
  BY <1>1, <1>2 DEF ScanSound

(* No row is locked by two transactions, and locked rows are in the table. *)
LEMMA LocksSoundStep ==
  ASSUME IInv, NEW w \in Workers, Step(w)
  PROVE  LocksSound'
<1> DEFINE Locks(v) ==
      /\ held[v] \subseteq message
      /\ pc[v] \in {"delete", "commit"} => held[v] = {hit[v]}
      /\ pc[v] \notin {"delete", "commit", "cascade"} => held[v] = {}
    Apart(u, v) == held[u] \cap held[v] = {}
<1>0. TypeOK /\ LocksSound
  BY DEF IInv
<1>1. ASSUME NEW v \in Workers, v # w
      PROVE  Locks(v)' /\ held'[v] = held[v]
  <2>1. pc'[v] = pc[v] /\ hit'[v] = hit[v] /\ held'[v] = held[v]
    BY <1>0, <1>1, OthersKeep
  <2>2. held[v] \subseteq message'
    BY <1>0, <1>1, RowEffect
       DEF LocksSound, Quiet, Draws, Shows, Removes, history
  <2> QED
    BY <1>0, <2>1, <2>2 DEF LocksSound
<1>2. Locks(w)' /\ \A v \in Workers \ {w} : Apart(w, v)'
  <2> DEFINE Goal == Locks(w)' /\ \A v \in Workers \ {w} : Apart(w, v)'
  <2> USE DEF TypeOK
  <2>1. CASE LockRow(w)
    <3>0. held[w] = {}
      BY <1>0, <2>1 DEF LockRow, LocksSound
    <3>1. hit[w] \in message => held'[w] = {hit[w]} /\ pc'[w] = "delete"
      BY <1>0, <2>1, <3>0 DEF LockRow
    <3>2. hit[w] \notin message => held'[w] = {} /\ pc'[w] = "scan"
      BY <1>0, <2>1, <3>0 DEF LockRow
    <3>3. hit[w] \in message => hit'[w] = hit[w]
      BY <2>1 DEF LockRow
    <3>4. message' = message /\ \A v \in Workers \ {w} : hit[w] \notin held[v]
      BY <2>1 DEF LockRow, Locked
    <3> QED
      BY <1>1, <3>1, <3>2, <3>3, <3>4
  <2>2. CASE CascadeRow(w)
    <3>1. PICK m \in RowsOf(job[w]) \ held[w] :
            ~Locked(m, w) /\ held' = [held EXCEPT ![w] = @ \cup {m}]
      BY <2>2 DEF CascadeRow
    <3>2. pc'[w] = "cascade" /\ message' = message
      BY <2>2 DEF CascadeRow
    <3>3. held'[w] = held[w] \cup {m} /\ m \in message
      BY <1>0, <3>1 DEF RowsOf
    <3>4. \A v \in Workers \ {w} : m \notin held[v]
      BY <3>1 DEF Locked
    <3> QED
      BY <1>0, <1>1, <3>2, <3>3, <3>4 DEF LocksSound
  <2>3. CASE held'[w] = {} /\ pc'[w] \notin {"delete", "commit"}
    BY <2>3
  <2>4. CASE DeleteRow(w)
    BY <1>0, <1>1, <2>4 DEF DeleteRow, LocksSound
  <2>5. CASE LockQueue(w)
    BY <1>0, <2>3, <2>5, FinishClears DEF LockQueue, LocksSound
  <2>6. CASE Request(w) \/ Fetch(w) \/ InsertBegin(w) \/ InsertCommit(w)
    <3>1. pc[w] \in {"idle", "scan", "send", "insert"} /\ held' = held
      BY <2>6
         DEF Request, DequeueBegin, PeekMessage, SendBegin, DeleteQueueBegin,
             Idle, Fetch, InsertBegin, InsertCommit
    <3>2. pc'[w] \in {"idle", "scan", "lock", "send", "insert", "delqueue"}
      BY <1>0, <2>6
         DEF Request, DequeueBegin, PeekMessage, SendBegin, DeleteQueueBegin,
             Idle, Fetch, InsertBegin, InsertCommit
    <3> QED
      BY <1>0, <2>3, <3>1, <3>2 DEF LocksSound
  <2>7. CASE \E a : Finish(w, a)
    BY <1>0, <2>3, <2>7, FinishClears
  <2>8. CASE DequeueNothing(w) \/ DequeueCommit(w) \/ InsertViolatesKey(w)
             \/ SendDone(w) \/ DeleteQueueCommit(w) \/ Failure(w)
    BY <2>7, <2>8
       DEF DequeueNothing, DequeueCommit, InsertViolatesKey, SendDone,
           DeleteQueueCommit, Failure, ConnectionFails, CommitUnacknowledged, Fail
  <2> QED
    BY <2>1, <2>2, <2>4, <2>5, <2>6, <2>8 DEF Step, Dequeue, Insert, Delete
<1>3. \A v \in Workers : Locks(v)'
  BY <1>1, <1>2
<1>4. \A u, v \in Workers : u # v => Apart(u, v)'
  <2> SUFFICES ASSUME NEW u \in Workers, NEW v \in Workers, u # v
               PROVE  Apart(u, v)'
    OBVIOUS
  <2>1. CASE u = w \/ v = w
    BY <1>2, <2>1
  <2>2. CASE u # w /\ v # w
    BY <1>0, <1>1, <2>2 DEF LocksSound
  <2> QED
    BY <2>1, <2>2
<1> QED
  BY <1>3, <1>4 DEF LocksSound

(* A DELETE finds the one row that its worker has locked.                  *)
LEMMA DeleteCountStep ==
  ASSUME IInv, NEW w \in Workers, Step(w)
  PROVE  DeleteCountIsOne'
<1>0. TypeOK /\ DeleteCountIsOne
  BY DEF IInv
<1>1. ASSUME NEW v \in Workers, v # w, pc'[v] = "commit"
      PROVE  count'[v] = 1
  BY <1>0, <1>1, OthersKeep DEF DeleteCountIsOne
<1>2. CASE DeleteRow(w)
  <2>1. {m \in message : m.id = hit[w].id} = {hit[w]}
    BY <1>2, HitIsTheRow DEF DeleteRow
  <2>2. count'[w] = 1
    BY <1>0, <1>2, <2>1, FS_Singleton DEF DeleteRow, TypeOK
  <2> QED
    BY <1>1, <2>2 DEF DeleteCountIsOne
<1>3. CASE ~DeleteRow(w)
  <2>1. pc'[w] # "commit" \/ (pc'[w] = pc[w] /\ count'[w] = count[w])
    <3> USE <1>0, <1>3 DEF TypeOK
    <3>1. CASE Request(w)
      BY <3>1 DEF Request, DequeueBegin, PeekMessage, SendBegin, DeleteQueueBegin
    <3>2. CASE \E a : Finish(w, a)
      BY <3>2, FinishClears
    <3>3. CASE Fetch(w) \/ LockRow(w)
      BY <3>3 DEF Fetch, LockRow
    <3>4. CASE InsertBegin(w) \/ InsertCommit(w)
      BY <3>4 DEF InsertBegin, InsertCommit
    <3>5. CASE LockQueue(w) \/ CascadeRow(w)
      BY <3>2, <3>5 DEF LockQueue, CascadeRow
    <3>6. CASE DequeueNothing(w) \/ DequeueCommit(w) \/ InsertViolatesKey(w)
               \/ SendDone(w) \/ DeleteQueueCommit(w) \/ Failure(w)
      BY <3>2, <3>6
         DEF DequeueNothing, DequeueCommit, InsertViolatesKey, SendDone,
             DeleteQueueCommit, Failure, ConnectionFails, CommitUnacknowledged,
             Fail
    <3> QED
      BY <3>1, <3>3, <3>4, <3>5, <3>6, <1>3 DEF Step, Dequeue, Insert, Delete
  <2> QED
    BY <1>0, <1>1, <2>1 DEF DeleteCountIsOne
<1> QED
  BY <1>2, <1>3

-----------------------------------------------------------------------------
(* Stuttering steps keep the invariant. *)
LEMMA StutterIInv ==
  ASSUME IInv, UNCHANGED vars
  PROVE  IInv'
BY DEF vars, txVars, history, IInv, TypeOK, RowsDistinct, JobFits, ScanSound,
       LocksSound, OneFate, DeleteCountIsOne, LossNeedsFailure, Gone, First,
       Before, Matches

(* The invariant is inductive.                                             *)
LEMMA NextIInv == IInv /\ [Next]_vars => IInv'
<1> SUFFICES ASSUME IInv, [Next]_vars PROVE IInv'
  OBVIOUS
<1>1. ASSUME NEW w \in Workers, Step(w)
      PROVE  IInv'
  <2>1. TypeOK'
    BY <1>1, TypeStep DEF Next, Step
  <2> QED
    BY <1>1, <2>1, RowsDistinctStep, JobFitsStep, ScanSoundStep, LocksSoundStep,
       OneFateStep, DeleteCountStep, LossStep DEF IInv
<1> QED
  BY <1>1, StutterIInv DEF Next, Step

(* The invariant holds in every reachable state.                           *)
LEMMA Invariance == Spec => []IInv
BY InitIInv, NextIInv, PTL DEF Spec

-----------------------------------------------------------------------------
(* The variables always have their types: in particular the row a worker   *)
(* answers with is a row, never the marker of an absent one.               *)
THEOREM TypesHold == Spec => []TypeOK
BY Invariance, PTL DEF IInv

(* Mutual exclusion of dequeues: the broker never reaches the "Dequeue did *)
(* not work" branch.                                                       *)
THEOREM DeletesOneRow == Spec => []DeleteCountIsOne
BY Invariance, PTL DEF IInv

(* Every message has one fate, so none is delivered twice. *)
THEOREM FatesAreDisjoint == Spec => []OneFate
BY Invariance, PTL DEF IInv

(* At most one message is lost for each connection that breaks. *)
THEOREM LossIsBounded == Spec => []LossNeedsFailure
BY Invariance, PTL DEF IInv

(* Waiting for locks never lets a dequeue overtake. *)
THEOREM DequeuesInOrder == Spec => []NoOvertaking
<1>1. IInv => NoOvertaking
  <2> SUFFICES ASSUME IInv, NEW w \in Workers, pc[w] \in {"delete", "commit"},
                      NEW m \in snapshot[w] \cap message
               PROVE  ~Before(m, hit[w], job[w])
    BY DEF NoOvertaking
  <2>1. m \notin skipped[w]
    BY DEF IInv, ScanSound, OneFate, Gone
  <2> QED
    BY <2>1 DEF IInv, ScanSound, First
<1> QED
  BY <1>1, Invariance, PTL

(* An answer without message is given only when all that was seen is gone. *)
THEOREM NothingLeftBehind == Spec => []GivesUpOnlyWhenGone
<1>1. IInv => GivesUpOnlyWhenGone
  BY DEF IInv, ScanSound, OneFate, Gone, GivesUpOnlyWhenGone
<1> QED
  BY <1>1, Invariance, PTL

-----------------------------------------------------------------------------
(* Rows leave the table only by the commit of the transaction that holds   *)
(* their locks.                                                            *)
THEOREM HolderDeletes == Spec => OnlyTheHolderDeletes
<1>1. ASSUME IInv, [Next]_vars
      PROVE  [\A m \in message \ message' :
                \E w \in Workers : m \in held[w] /\ held'[w] = {}]_vars
  <2>1. ASSUME NEW w \in Workers, Step(w), NEW m \in message \ message'
        PROVE  m \in held[w] /\ held'[w] = {}
    BY <1>1, <2>1, RowEffect DEF Quiet, Draws, Shows, Removes, history
  <2> QED
    BY <1>1, <2>1 DEF Next, Step, vars
<1> QED
  BY <1>1, Invariance, PTL DEF Spec, OnlyTheHolderDeletes

(* An answered dequeue carries a message nobody was given before, and one  *)
(* the client asked for.                                                   *)
THEOREM AtMostOnce == Spec => DeliversFreshMatch
<1> DEFINE Delivers(w) == pc[w] = "commit" /\ pc'[w] = "idle" /\ answer'[w] \in Row
<1>1. ASSUME IInv, [Next]_vars
      PROVE  [\A w \in Workers :
                pc[w] = "commit" /\ pc'[w] = "idle" /\ answer'[w] \in Row
                  => /\ answer'[w] \notin delivered
                     /\ Matches(answer'[w], job[w])]_vars
  <2>0. TypeOK
    BY <1>1 DEF IInv
  <2>1. ASSUME NEW w \in Workers, NEW v \in Workers, Step(v), Delivers(w)
        PROVE  answer'[w] \notin delivered /\ Matches(answer'[w], job[w])
    <3>1. v = w
      BY <2>0, <2>1, OthersKeep
    <3>2. ~Failure(w)
      BY <2>0, <2>1, MarkersAssumption
         DEF Failure, ConnectionFails, CommitUnacknowledged, Fail, Finish, TypeOK
    <3>3. DequeueCommit(w)
      BY <2>1, <3>1, <3>2
         DEF Step, Request, DequeueBegin, PeekMessage, SendBegin, DeleteQueueBegin,
             Idle, Dequeue, Fetch, LockRow, DequeueNothing, DeleteRow, Insert,
             InsertBegin, InsertCommit, InsertViolatesKey, SendDone, Delete,
             LockQueue, CascadeRow, DeleteQueueCommit
    <3>4. answer'[w] = hit[w]
      BY <1>1, <2>0, <2>1, <3>3
         DEF DequeueCommit, Finish, TypeOK, IInv, DeleteCountIsOne
    <3>5. hit[w] \in message
      BY <1>1, <2>1, HitIsTheRow
    <3>6. hit[w] \in snapshot[w]
      BY <1>1, <2>1 DEF IInv, ScanSound, First
    <3> QED
      BY <1>1, <2>1, <3>4, <3>5, <3>6 DEF IInv, OneFate, ScanSound
  <2> QED
    BY <1>1, <2>1 DEF Next, Step, vars
<1> QED
  BY <1>1, Invariance, PTL DEF Spec, DeliversFreshMatch

(* The transactions implement the contract: each step publishes one        *)
(* message, delivers one, loses one, purges some, or changes nothing.      *)
THEOREM ImplementsContract == Spec => ContractSpec
<1> USE DEF Contract!Next, Contract!cvars, Contract!Publish, Contract!Deliver,
            Contract!Lose, Contract!Purge, Contract!Gone
<1>1. Init => Contract!Init
  BY DEF Init, Contract!Init
<1>2. ASSUME IInv, [Next]_vars
      PROVE  [Contract!Next]_(Contract!cvars)
  <2>1. ASSUME NEW w \in Workers, Step(w)
        PROVE  [Contract!Next]_(Contract!cvars)
    <3>1. CASE Quiet(w) \/ Draws(w)
      BY <3>1 DEF Quiet, Draws, history
    <3>2. CASE Shows(w)
      <4>1. row[w] \notin message \cup delivered \cup lost \cup purged
        BY <1>2, <3>2 DEF Shows, IInv, RowsDistinct, Gone
      <4> QED
        BY <3>2, <4>1 DEF Shows, history
    <3>3. CASE Removes(w)
      <4>1. held[w] \subseteq message
        BY <1>2 DEF IInv, LocksSound
      <4>2. CASE purged' = purged \cup held[w] /\ UNCHANGED <<delivered, lost>>
        <5>1. message \ message' = held[w]
          BY <3>3, <4>1 DEF Removes
        <5>2. Contract!Purge
          BY <3>3, <4>2, <5>1 DEF Removes
        <5> QED
          BY <5>2
      <4>3. CASE ~(purged' = purged \cup held[w] /\ UNCHANGED <<delivered, lost>>)
        <5>1. held[w] = {hit[w]} /\ hit[w] \in message
          BY <1>2, <3>3, <4>3, HitIsTheRow DEF Removes
        <5>2. Contract!Deliver(hit[w]) \/ Contract!Lose(hit[w])
          BY <3>3, <4>3, <5>1 DEF Removes
        <5> QED
          BY <5>1, <5>2
      <4> QED
        BY <4>2, <4>3
    <3> QED
      BY <1>2, <2>1, <3>1, <3>2, <3>3, RowEffect
  <2>2. CASE UNCHANGED vars
    BY <2>2 DEF vars, history
  <2> QED
    BY <1>2, <2>1, <2>2 DEF Next, Step
<1> QED
  BY <1>1, <1>2, Invariance, PTL DEF Spec, ContractSpec, Contract!Spec
=============================================================================
