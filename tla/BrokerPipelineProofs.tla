------------------------ MODULE BrokerPipelineProofs ------------------------
(***************************************************************************)
(* Theorems about BrokerPipeline, for any clients, workers, queue sizes    *)
(* and bounds.                                                             *)
(*                                                                         *)
(* The proofs see the pool and what is not allocated yet as one endless    *)
(* supply of buffers, and the two queues and the hands of the workers as   *)
(* one set of tasks.  What a step does to sequences is said by a lemma     *)
(* about these two; the invariant relates them to the connections.         *)
(***************************************************************************)
EXTENDS BrokerPipeline, FiniteSetTheorems, SequenceTheorems, TLAPS

(* The i-th buffer of the supply, when those of p are pooled and a have    *)
(* been allocated: Acquired(i) for the current ones.                       *)
Slots == Nat \ {0}
Slot(p, a, i)    == IF i <= Len(p) THEN p[i] ELSE a + i - Len(p)
FreeIn(p, a)     == {Slot(p, a, i) : i \in Slots}
DistinctIn(p, a) == \A i, j \in Slots : Slot(p, a, i) = Slot(p, a, j) => i = j

Free == FreeIn(pool, allocated)

(* The places a task can be in, and the tasks that are in one.             *)
WorkPlaces == ({"request"} \X DOMAIN requests)
                \cup ({"response"} \X DOMAIN responses)
                \cup ({"task"} \X Workers)
TaskAt == [p \in WorkPlaces |-> IF p[1] = "request" THEN requests[p[2]]
                                ELSE IF p[1] = "response" THEN responses[p[2]]
                                ELSE task[p[2]]]
Tasks == {TaskAt[p] : p \in WorkPlaces} \ {NoTask}

(* No buffer is in the supply twice, no connection has two tasks.          *)
SupplyDistinct == DistinctIn(pool, allocated)
TasksDistinct ==
  \A p, q \in WorkPlaces :
    TaskAt[p] # NoTask /\ TaskAt[q] # NoTask
      /\ TaskAt[p].handle = TaskAt[q].handle => p = q

(* A buffer is in the supply, or in a task, or with a connection.          *)
BuffersDistinct ==
  /\ \A g, h \in Handles : rx[g] = rx[h] /\ rx[g] # Null => g = h
  /\ \A g, h \in Handles : tx[g] = tx[h] /\ tx[g] # Null => g = h
  /\ \A g, h \in Handles : rx[g] = tx[h] => rx[g] = Null
  /\ \A h \in Handles : rx[h] \notin Free /\ tx[h] \notin Free
  /\ \A t \in Tasks : /\ t.buf \notin Free
                      /\ \A h \in Handles : rx[h] # t.buf /\ tx[h] # t.buf
                      /\ \A u \in Tasks : t.buf = u.buf => t = u

(* A connection has one request under way, be it still unread, a task, or  *)
(* a response about to be written or received; also after its client has   *)
(* left.                                                                   *)
OneRequest ==
  \A h \in Handles :
    /\ inbound[h] # Null => outbound[h] = Null /\ out[h] = "none"
    /\ outbound[h] # Null => out[h] = "none"
    /\ (\E t \in Tasks : t.handle = h) =>
         inbound[h] = Null /\ outbound[h] = Null /\ out[h] = "none"

(* As long as its client is there, it is the one the client waits for.     *)
OwnRequest ==
  \A c \in Clients : cstate[c] # "away" =>
    /\ inbound[conn[c]] # Null =>
         cstate[c] = "waiting" /\ inbound[conn[c]] = expect[c]
    /\ outbound[conn[c]] # Null =>
         cstate[c] = "waiting" /\ outbound[conn[c]] = expect[c]
    /\ out[conn[c]] # "none" =>
         cstate[c] = "waiting" /\ content[tx[conn[c]]] = expect[c]
    /\ \A t \in Tasks : t.handle = conn[c] =>
         cstate[c] = "waiting" /\ content[t.buf] = expect[c]

(* Connections are numbered as they open, each for one client; nothing is  *)
(* under way on one that is not open yet, and one waits for each accept.   *)
ClientsSound ==
  /\ \A c \in Clients : /\ conn[c] <= opened
                        /\ cstate[c] # "away" => conn[c] # Null
  /\ \A c, d \in Clients : conn[c] = conn[d] /\ conn[c] # Null => c = d
  /\ \A h \in Handles : inbound[h] # Null \/ outbound[h] # Null => h <= opened
  /\ \A t \in Tasks : t.handle <= accepted
  /\ AcceptKey \in selected => accepted < opened

(* Only a connected client has buffers, and one with a response to write   *)
(* has it in a buffer.                                                     *)
ConnectedSound ==
  \A h \in Handles :
    /\ h \in connected => rx[h] # Null
    /\ h \notin connected => rx[h] = Null /\ tx[h] = Null /\ out[h] = "none"
    /\ out[h] # "none" => tx[h] # Null

WorkersSound == \A w \in Workers : wpc[w] = "process" <=> task[w] # NoTask

(* Each connection takes two buffers, and each request read one more; a    *)
(* request is dropped once at most.                                        *)
Unread     == {h \in Handles : inbound[h] # Null}
Processing == {w \in Workers : wpc[w] = "process"}
Counted ==
  /\ allocated + Cardinality(Unread) <= 2 * accepted + sent
  /\ IsFiniteSet(Processing)
  /\ dropped + Cardinality(Unread) + Len(requests) + Cardinality(Processing) <= sent

(* Only a dropped task, or one that a worker fails to answer, costs a      *)
(* buffer.                                                                 *)
Lost == {b \in Buffers : /\ b \notin Free
                         /\ \A h \in Handles : rx[h] # b /\ tx[h] # b
                         /\ \A t \in Tasks : t.buf # b}
FewLost == Cardinality(Lost) <= dropped + lostResponses

IInv ==
  /\ TypeOK /\ SupplyDistinct /\ TasksDistinct /\ BuffersDistinct
  /\ OneRequest /\ OwnRequest
  /\ ClientsSound /\ ConnectedSound /\ WorkersSound
  /\ Counted /\ FewLost /\ SelectedKeysUsable

-----------------------------------------------------------------------------
(* The supply. *)

(* A buffer that is given back joins the supply, behind those pooled.      *)
LEMMA SupplyReleased ==
  ASSUME NEW p \in Seq(Buffers), NEW a \in Nat, NEW b \in Buffers,
         b \notin FreeIn(p, a), DistinctIn(p, a)
  PROVE  /\ Append(p, b) \in Seq(Buffers)
         /\ DistinctIn(Append(p, b), a)
         /\ FreeIn(Append(p, b), a) = FreeIn(p, a) \cup {b}
<1> DEFINE q == Append(p, b)
           n == Len(p)
<1>1. /\ q \in Seq(Buffers) /\ n \in Nat /\ Len(q) = n + 1 /\ q[n + 1] = b
      /\ \A i \in 1 .. n : q[i] = p[i]
  BY AppendProperties
<1> HIDE DEF q
<1>2. /\ \A i \in Slots : i <= n => Slot(q, a, i) = Slot(p, a, i)
      /\ Slot(q, a, n + 1) = b
      /\ \A i \in Slots : i > n + 1 => Slot(q, a, i) = Slot(p, a, i - 1)
  BY <1>1 DEF Slot, Slots
<1>3. /\ \A i \in Slots : Slot(p, a, i) # b
      /\ \A i, j \in Slots : Slot(p, a, i) = Slot(p, a, j) => i = j
  BY DEF FreeIn, DistinctIn
<1> HIDE DEF n
<1>4. \A i, j \in Slots : Slot(q, a, i) = Slot(q, a, j) => i = j
  <2> SUFFICES ASSUME NEW i \in Slots, NEW j \in Slots,
                      Slot(q, a, i) = Slot(q, a, j), i # j
               PROVE  FALSE
    OBVIOUS
  <2>1. /\ i \in Nat /\ i # 0 /\ j \in Nat /\ j # 0 /\ n \in Nat
        /\ i > n + 1 => i - 1 \in Slots
        /\ j > n + 1 => j - 1 \in Slots
    BY <1>1 DEF Slots
  <2>2. \/ i <= n \/ i = n + 1 \/ i > n + 1
    BY <2>1
  <2>3. \/ j <= n \/ j = n + 1 \/ j > n + 1
    BY <2>1
  <2> QED
    BY <1>2, <1>3, <2>1, <2>2, <2>3
<1>5. FreeIn(q, a) \subseteq FreeIn(p, a) \cup {b}
  <2> SUFFICES ASSUME NEW i \in Slots PROVE Slot(q, a, i) \in FreeIn(p, a) \cup {b}
    BY DEF FreeIn
  <2>1. i <= n \/ i = n + 1 \/ (i > n + 1 /\ i - 1 \in Slots)
    BY <1>1 DEF Slots
  <2> QED
    BY <1>2, <2>1 DEF FreeIn
<1>6. FreeIn(p, a) \cup {b} \subseteq FreeIn(q, a)
  <2>1. ASSUME NEW i \in Slots
        PROVE  Slot(p, a, i) \in FreeIn(q, a)
    <3>1. i <= n \/ (i + 1 \in Slots /\ i + 1 > n + 1 /\ (i + 1) - 1 = i)
      BY <1>1 DEF Slots
    <3> QED
      BY <1>2, <3>1 DEF FreeIn
  <2>2. n + 1 \in Slots
    BY <1>1 DEF Slots
  <2> QED
    BY <1>2, <2>1, <2>2 DEF FreeIn
<1> QED
  BY <1>1, <1>4, <1>5, <1>6 DEF DistinctIn, q

(* What is acquired leaves the supply, the first first.                    *)
LEMMA SupplyShifts ==
  ASSUME TypeOK, NEW n \in {1, 2}, Acquire(n)
  PROVE  /\ pool' \in Seq(Buffers)
         /\ allocated \in Nat /\ allocated' \in Nat /\ allocated' <= allocated + n
         /\ \A i \in Slots : Slot(pool', allocated', i) = Slot(pool, allocated, i + n)
<1>1. /\ pool \in Seq(Buffers) /\ Len(pool) \in Nat /\ allocated \in Nat
      /\ pool' = SubSeq(pool, n + 1, Len(pool))
      /\ allocated' = allocated + (IF n > Len(pool) THEN n - Len(pool) ELSE 0)
      /\ \A i \in 1 .. Len(pool) : pool[i] \in Buffers
  BY LenProperties, ElementOfSeq DEF TypeOK, Acquire
<1>2. \A i \in n + 1 .. Len(pool) : pool[i] \in Buffers
  BY <1>1
<1>3. /\ pool' \in Seq(Buffers)
      /\ Len(pool') = IF n + 1 <= Len(pool) THEN Len(pool) - (n + 1) + 1 ELSE 0
      /\ \A i \in 1 .. Len(pool) - (n + 1) + 1 : pool'[i] = pool[n + 1 + i - 1]
  <2>1. n + 1 \in Int /\ Len(pool) \in Int
    BY <1>1
  <2> QED
    BY ONLY <1>1, <1>2, <2>1, SubSeqProperties
<1>4. ASSUME NEW i \in Slots
      PROVE  Slot(pool', allocated', i) = Slot(pool, allocated, i + n)
  <2>1. i \in Nat /\ i >= 1
    BY DEF Slots
  <2>2. CASE i + n <= Len(pool)
    <3>1. /\ i \in 1 .. Len(pool) - (n + 1) + 1 /\ i <= Len(pool')
          /\ n + 1 + i - 1 = i + n
      BY <1>1, <1>3, <2>1, <2>2
    <3>2. pool'[i] = pool[i + n]
      BY <1>3, <3>1
    <3> QED
      BY <2>2, <3>1, <3>2 DEF Slot
  <2>3. CASE ~(i + n <= Len(pool))
    <3>1. ~(i <= Len(pool'))
      BY <1>1, <1>3, <2>1, <2>3
    <3>2. allocated' + i - Len(pool') = allocated + (i + n) - Len(pool)
      <4>0. /\ n \in Nat /\ i \in Nat /\ allocated \in Nat
            /\ Len(pool) \in Nat
        BY <1>1, <2>1
      <4>1. CASE n <= Len(pool)
        <5>1. Len(pool') = Len(pool) - n /\ allocated' = allocated
          BY <1>1, <1>3, <4>1
        <5> QED
          BY ONLY <4>0, <5>1
      <4>2. CASE ~(n <= Len(pool))
        <5>1. Len(pool') = 0 /\ allocated' = allocated + (n - Len(pool))
          BY <1>1, <1>3, <4>2
        <5> QED
          BY ONLY <4>0, <5>1
      <4> QED
        BY <4>1, <4>2
    <3> QED
      BY <2>3, <3>1, <3>2 DEF Slot
  <2> QED
    BY <2>2, <2>3
<1>5. allocated' \in Nat /\ allocated' <= allocated + n
  BY <1>1
<1> QED
  BY <1>1, <1>3, <1>4, <1>5

(* Nothing else leaves it, and what is acquired together is distinct.      *)
LEMMA SupplyAcquired ==
  ASSUME TypeOK, SupplyDistinct, NEW n \in {1, 2}, Acquire(n)
  PROVE  /\ SupplyDistinct'
         /\ Free' = Free \ {Acquired(i) : i \in 1 .. n}
         /\ \A i \in 1 .. n : Acquired(i) \in Free
         /\ \A i, j \in 1 .. n : Acquired(i) = Acquired(j) => i = j
<1> DEFINE S(i) == Slot(pool, allocated, i)
<1>1. \A i \in Slots : Slot(pool', allocated', i) = S(i + n) /\ i + n \in Slots
  <2>1. \A i \in Slots : i + n \in Slots
    BY DEF Slots
  <2> QED
    BY <2>1, SupplyShifts
<1>2. \A i, j \in Slots : S(i) = S(j) => i = j
  BY DEF SupplyDistinct, DistinctIn
<1>3. \A i \in Slots : Acquired(i) = S(i)
  BY DEF Acquired, Slot
<1>4. 1 .. n \subseteq Slots /\ \A i \in Slots : i + n \notin 1 .. n
  BY DEF Slots
<1>5. \A i, j \in Slots : i + n = j + n => i = j
  BY DEF Slots
<1>6. \A i \in Slots : i \notin 1 .. n => i - n \in Slots /\ (i - n) + n = i
  BY DEF Slots
<1> HIDE DEF S
<1>7. \A i, j \in Slots : Slot(pool', allocated', i) = Slot(pool', allocated', j) => i = j
  BY <1>1, <1>2, <1>5
<1>8. Free' = {S(i + n) : i \in Slots}
  BY <1>1 DEF Free, FreeIn
<1>9. Free = {S(i) : i \in Slots} /\ {Acquired(i) : i \in 1 .. n} = {S(i) : i \in 1 .. n}
  BY <1>3, <1>4 DEF Free, FreeIn, S
<1>10. {S(i + n) : i \in Slots} = {S(i) : i \in Slots} \ {S(i) : i \in 1 .. n}
  <2>1. \A i \in Slots : \A j \in 1 .. n : S(i + n) # S(j)
    BY <1>1, <1>2, <1>4
  <2>2. \A i \in Slots : i \notin 1 .. n => \E j \in Slots : S(j + n) = S(i)
    BY <1>6
  <2> QED
    BY <1>1, <2>1, <2>2
<1> QED
  BY <1>2, <1>3, <1>4, <1>7, <1>8, <1>9, <1>10 DEF SupplyDistinct, DistinctIn

(* The same for a reference that may be null.                              *)
LEMMA SupplyGivenBack ==
  ASSUME NEW p \in Seq(Buffers), NEW a \in Nat, NEW b \in MaybeBuffers,
         b \notin FreeIn(p, a), DistinctIn(p, a)
  PROVE  /\ Released(p, b) \in Seq(Buffers)
         /\ DistinctIn(Released(p, b), a)
         /\ FreeIn(Released(p, b), a) = FreeIn(p, a) \cup ({b} \ {Null})
<1>1. CASE b = Null
  BY <1>1 DEF Released
<1>2. CASE b # Null
  BY <1>2, SupplyReleased DEF Released, MaybeBuffers
<1> QED
  BY <1>1, <1>2

(* Buffers are numbered from 1.                                            *)
LEMMA BufferCount ==
  /\ Cardinality(Buffers) = 2 * MaxConnections + MaxRequests
  /\ Cardinality(Buffers) \in Nat /\ Buffers = 1 .. Cardinality(Buffers)
<1> DEFINE n == 2 * MaxConnections + MaxRequests
<1>1. n \in Nat
  BY SizesAssumption
<1>2. Buffers = 1 .. n
  BY DEF Buffers
<1> HIDE DEF n
<1>3. Cardinality(1 .. n) = IF 1 > n THEN 0 ELSE n - 1 + 1
  <2>1. 1 \in Int /\ n \in Int
    BY <1>1
  <2> QED
    BY ONLY <2>1, FS_Interval
<1>4. Cardinality(Buffers) = n
  BY <1>1, <1>2, <1>3
<1> QED
  BY <1>1, <1>2, <1>4 DEF n

(* The supply never holds Null, and a buffer drawn from it is one of the   *)
(* buffers as long as there are any left.                                  *)
LEMMA SupplyBuffers ==
  ASSUME TypeOK, NEW i \in Slots
  PROVE  /\ Null \notin Free
         /\ allocated + i <= Cardinality(Buffers) => Acquired(i) \in Buffers
<1>1. /\ Len(pool) \in Nat /\ allocated \in Nat
      /\ \A j \in 1 .. Len(pool) : pool[j] \in Buffers
  BY LenProperties, ElementOfSeq, BufferCount DEF TypeOK
<1>2. ASSUME NEW j \in Slots
      PROVE  Slot(pool, allocated, j) # Null
  <2>1. j \in Nat /\ j >= 1
    BY DEF Slots
  <2>2. CASE j <= Len(pool)
    BY <1>1, <2>1, <2>2 DEF Slot, Null, Buffers
  <2>3. CASE ~(j <= Len(pool))
    BY <1>1, <2>1, <2>3 DEF Slot, Null
  <2> QED
    BY <2>2, <2>3
<1>3. ASSUME allocated + i <= Cardinality(Buffers)
      PROVE  Acquired(i) \in Buffers
  <2>1. i \in Nat /\ i >= 1
    BY DEF Slots
  <2>2. CASE i <= Len(pool)
    BY <1>1, <2>1, <2>2 DEF Acquired
  <2>3. CASE ~(i <= Len(pool))
    <3>1. allocated + i - Len(pool) \in 1 .. Cardinality(Buffers)
      BY <1>1, <1>3, <2>1, <2>3, BufferCount
    <3> QED
      BY <2>3, <3>1, BufferCount DEF Acquired
  <2> QED
    BY <2>2, <2>3
<1> QED
  BY <1>2, <1>3 DEF Free, FreeIn

-----------------------------------------------------------------------------
(* The tasks. *)

(* Tasks that move from places of their own to others, except for those in *)
(* the places D, stay distinct, and no other is gone.                      *)
LEMMA TasksMoved ==
  ASSUME NEW P, NEW Q, NEW f, NEW g, NEW n, NEW D \in SUBSET P,
         \A p, q \in P : f[p] # NoTask /\ f[q] # NoTask
                           /\ f[p].handle = f[q].handle => p = q,
         \A q \in Q : g[q] # NoTask => \E p \in P \ D : n[p] = q /\ f[p] = g[q],
         \A p \in P \ D : f[p] # NoTask => n[p] \in Q /\ g[n[p]] = f[p]
  PROVE  /\ \A p, q \in Q : g[p] # NoTask /\ g[q] # NoTask
                             /\ g[p].handle = g[q].handle => p = q
         /\ {g[q] : q \in Q} \ {NoTask}
              = ({f[p] : p \in P} \ {NoTask}) \ {f[d] : d \in D}
<1>1. \A p, q \in Q : g[p] # NoTask /\ g[q] # NoTask
                        /\ g[p].handle = g[q].handle => p = q
  OBVIOUS
<1>2. ASSUME NEW q \in Q, g[q] # NoTask
      PROVE  g[q] \in {f[p] : p \in P} /\ g[q] \notin {f[d] : d \in D}
  <2>1. PICK p \in P \ D : n[p] = q /\ f[p] = g[q]
    BY <1>2
  <2>2. \A d \in D : f[d] # f[p]
    BY <1>2, <2>1
  <2> QED
    BY <2>1, <2>2
<1>3. ASSUME NEW p \in P, f[p] # NoTask, f[p] \notin {f[d] : d \in D}
      PROVE  f[p] \in {g[q] : q \in Q}
  <2>1. p \in P \ D
    BY <1>3
  <2> QED
    BY <1>3, <2>1
<1> QED
  BY <1>1, <1>2, <1>3

(* Taking the first task of a queue moves the others up.                   *)
LEMMA Taken ==
  ASSUME NEW s \in Seq(Task), s # <<>>
  PROVE  /\ Head(s) \in Task /\ Tail(s) \in Seq(Task)
         /\ Head(s) = s[1] /\ 1 \in DOMAIN s
         /\ Len(Tail(s)) = Len(s) - 1 /\ Len(s) \in Nat
         /\ \A i \in DOMAIN Tail(s) : /\ i \in Nat /\ i + 1 \in DOMAIN s /\ i + 1 # 1
                                      /\ (i + 1) - 1 = i /\ Tail(s)[i] = s[i + 1]
         /\ \A i \in DOMAIN s : i # 1 => i - 1 \in DOMAIN Tail(s)
                                           /\ Tail(s)[i - 1] = s[i]
BY HeadTailProperties

(* Queueing a task leaves the others where they are.                       *)
LEMMA Queued ==
  ASSUME NEW s \in Seq(Task), NEW t \in Task
  PROVE  /\ Append(s, t) \in Seq(Task) /\ Len(Append(s, t)) = Len(s) + 1
         /\ Len(s) \in Nat /\ DOMAIN Append(s, t) = DOMAIN s \cup {Len(s) + 1}
         /\ \A i \in DOMAIN s : Append(s, t)[i] = s[i] /\ i # Len(s) + 1
         /\ Append(s, t)[Len(s) + 1] = t
BY AppendProperties

(* A queued task is a task; NoTask is none.                                *)
LEMMA QueuedIsTask ==
  ASSUME TypeOK
  PROVE  /\ \A i \in DOMAIN requests : requests[i] \in Task
         /\ \A i \in DOMAIN responses : responses[i] \in Task
         /\ NoTask \notin Task
         /\ \A t \in Tasks : t \in Task
<1>1. /\ \A i \in DOMAIN requests : requests[i] \in Task
      /\ \A i \in DOMAIN responses : responses[i] \in Task
  BY ElementOfSeq, LenProperties DEF TypeOK
<1>2. NoTask \notin Task
  BY DEF NoTask, Task, Handles, Null
<1>3. \A p \in WorkPlaces : TaskAt[p] \in Task \cup {NoTask}
  BY <1>1 DEF TypeOK, WorkPlaces, TaskAt
<1> QED
  BY <1>1, <1>2, <1>3 DEF Tasks

(* A task refers to a buffer, and no other to the same connection.         *)
LEMMA TaskFacts ==
  ASSUME TypeOK, TasksDistinct
  PROVE  /\ \A t \in Tasks : /\ t.handle \in Handles /\ t.buf \in Buffers
                             /\ t.handle # Null /\ t.buf # Null
         /\ \A t, u \in Tasks : t.handle = u.handle => t = u
<1>1. \A t \in Tasks : t.handle \in Handles /\ t.buf \in Buffers
  BY QueuedIsTask DEF Task
<1>2. \A t, u \in Tasks : t.handle = u.handle => t = u
  BY DEF Tasks, TasksDistinct
<1>3. Null \notin Handles /\ Null \notin Buffers
  BY DEF Null, Handles, Buffers
<1> QED
  BY <1>1, <1>2, <1>3

(* An idle worker takes the first task.                                    *)
LEMMA TaskTaken ==
  ASSUME TypeOK, TasksDistinct, NEW w \in Workers, task[w] = NoTask,
         requests # <<>>, requests' = Tail(requests), UNCHANGED responses,
         task' = [task EXCEPT ![w] = Head(requests)]
  PROVE  TasksDistinct' /\ Tasks' = Tasks
<1> DEFINE P == WorkPlaces
           n == [p \in P |-> IF p[1] # "request" THEN p
                             ELSE IF p[2] = 1 THEN <<"task", w>>
                             ELSE <<"request", p[2] - 1>>]
<1>1. /\ Head(requests) = requests[1] /\ 1 \in DOMAIN requests
      /\ \A i \in DOMAIN requests' : /\ i \in Nat /\ i + 1 \in DOMAIN requests
                                     /\ i + 1 # 1 /\ (i + 1) - 1 = i
                                     /\ requests'[i] = requests[i + 1]
      /\ \A i \in DOMAIN requests : i # 1 => i - 1 \in DOMAIN requests'
                                           /\ requests'[i - 1] = requests[i]
  BY Taken DEF TypeOK
<1>2. /\ task'[w] = requests[1] /\ \A v \in Workers : v # w => task'[v] = task[v]
  BY <1>1 DEF TypeOK
<1>3. ASSUME NEW q \in WorkPlaces', TaskAt'[q] # NoTask
      PROVE  \E p \in P \ {<<"task", w>>} : n[p] = q /\ TaskAt[p] = TaskAt'[q]
  <2>1. CASE q[1] = "request"
    <3>1. q = <<"request", q[2]>> /\ q[2] \in DOMAIN requests'
      BY <2>1 DEF WorkPlaces
    <3>2. <<"request", q[2] + 1>> \in P /\ n[<<"request", q[2] + 1>>] = q
      BY <1>1, <3>1 DEF WorkPlaces
    <3>3. TaskAt[<<"request", q[2] + 1>>] = TaskAt'[q]
      BY <1>1, <3>1, <3>2 DEF TaskAt
    <3> QED
      BY <3>2, <3>3
  <2>2. CASE q = <<"task", w>>
    <3>1. <<"request", 1>> \in P /\ n[<<"request", 1>>] = q
      BY <1>1, <2>2 DEF WorkPlaces
    <3>2. TaskAt[<<"request", 1>>] = TaskAt'[q]
      BY <1>1, <1>2, <2>2, <3>1 DEF TaskAt
    <3> QED
      BY <3>1, <3>2
  <2>3. CASE q[1] # "request" /\ q # <<"task", w>>
    <3>1. q \in P /\ n[q] = q
      BY <2>3 DEF WorkPlaces
    <3>2. TaskAt[q] = TaskAt'[q]
      BY <1>2, <2>3, <3>1 DEF TaskAt, WorkPlaces
    <3> QED
      BY <2>3, <3>1, <3>2
  <2> QED
    BY <2>1, <2>2, <2>3
<1>4. ASSUME NEW p \in P \ {<<"task", w>>}, TaskAt[p] # NoTask
      PROVE  n[p] \in WorkPlaces' /\ TaskAt'[n[p]] = TaskAt[p]
  <2>1. CASE p[1] = "request" /\ p[2] # 1
    <3>1. p = <<"request", p[2]>> /\ p[2] \in DOMAIN requests
      BY <2>1 DEF WorkPlaces
    <3>2. n[p] = <<"request", p[2] - 1>> /\ n[p] \in WorkPlaces'
      BY <1>1, <2>1, <3>1 DEF WorkPlaces
    <3> QED
      BY <1>1, <2>1, <3>1, <3>2 DEF TaskAt
  <2>2. CASE p[1] = "request" /\ p[2] = 1
    <3>1. n[p] = <<"task", w>> /\ n[p] \in WorkPlaces'
      BY <2>2 DEF WorkPlaces
    <3> QED
      BY <1>2, <2>2, <3>1 DEF TaskAt
  <2>3. CASE p[1] # "request"
    <3>1. n[p] = p /\ p \in WorkPlaces'
      BY <2>3 DEF WorkPlaces
    <3> QED
      BY <1>2, <2>3, <3>1 DEF TaskAt, WorkPlaces
  <2> QED
    BY <2>1, <2>2, <2>3
<1> HIDE DEF n
<1>5. /\ <<"task", w>> \in P /\ TaskAt[<<"task", w>>] = NoTask
      /\ {<<"task", w>>} \in SUBSET P
  BY DEF WorkPlaces, TaskAt
<1>6. /\ \A p, q \in WorkPlaces' : TaskAt'[p] # NoTask /\ TaskAt'[q] # NoTask
                                     /\ TaskAt'[p].handle = TaskAt'[q].handle => p = q
      /\ Tasks' = Tasks \ {TaskAt[d] : d \in {<<"task", w>>}}
  BY <1>3, <1>4, <1>5, TasksMoved DEF TasksDistinct, Tasks
<1>7. Tasks' = Tasks
  BY <1>5, <1>6 DEF Tasks
<1> QED
  BY <1>6, <1>7 DEF TasksDistinct

(* The first response leaves its queue.                                    *)
LEMMA ResponseTaken ==
  ASSUME TypeOK, TasksDistinct, responses # <<>>, responses' = Tail(responses),
         UNCHANGED <<requests, task>>
  PROVE  /\ TasksDistinct' /\ Head(responses) \in Tasks
         /\ Tasks' = Tasks \ {Head(responses)}
<1> DEFINE P == WorkPlaces
           d == <<"response", 1>>
           n == [p \in P |-> IF p[1] # "response" THEN p
                             ELSE <<"response", p[2] - 1>>]
<1>1. /\ Head(responses) = responses[1] /\ 1 \in DOMAIN responses
      /\ \A i \in DOMAIN responses' : /\ i \in Nat /\ i + 1 \in DOMAIN responses
                                      /\ i + 1 # 1 /\ (i + 1) - 1 = i
                                      /\ responses'[i] = responses[i + 1]
      /\ \A i \in DOMAIN responses : i # 1 => i - 1 \in DOMAIN responses'
                                           /\ responses'[i - 1] = responses[i]
  BY Taken DEF TypeOK
<1>2. /\ d \in P /\ TaskAt[d] = Head(responses) /\ {d} \in SUBSET P
  BY <1>1 DEF WorkPlaces, TaskAt
<1>3. ASSUME NEW q \in WorkPlaces', TaskAt'[q] # NoTask
      PROVE  \E p \in P \ {d} : n[p] = q /\ TaskAt[p] = TaskAt'[q]
  <2>1. CASE q[1] = "response"
    <3>1. q = <<"response", q[2]>> /\ q[2] \in DOMAIN responses'
      BY <2>1 DEF WorkPlaces
    <3>2. <<"response", q[2] + 1>> \in P \ {d} /\ n[<<"response", q[2] + 1>>] = q
      BY <1>1, <3>1 DEF WorkPlaces
    <3>3. TaskAt[<<"response", q[2] + 1>>] = TaskAt'[q]
      BY <1>1, <3>1, <3>2 DEF TaskAt
    <3> QED
      BY <3>2, <3>3
  <2>2. CASE q[1] # "response"
    <3>1. q \in P \ {d} /\ n[q] = q
      BY <2>2 DEF WorkPlaces
    <3>2. TaskAt[q] = TaskAt'[q]
      BY <2>2, <3>1 DEF TaskAt, WorkPlaces
    <3> QED
      BY <3>1, <3>2
  <2> QED
    BY <2>1, <2>2
<1>4. ASSUME NEW p \in P \ {d}, TaskAt[p] # NoTask
      PROVE  n[p] \in WorkPlaces' /\ TaskAt'[n[p]] = TaskAt[p]
  <2>1. CASE p[1] = "response"
    <3>1. p = <<"response", p[2]>> /\ p[2] \in DOMAIN responses /\ p[2] # 1
      BY <2>1 DEF WorkPlaces
    <3>2. n[p] = <<"response", p[2] - 1>> /\ n[p] \in WorkPlaces'
      BY <1>1, <3>1 DEF WorkPlaces
    <3> QED
      BY <1>1, <3>1, <3>2 DEF TaskAt
  <2>2. CASE p[1] # "response"
    <3>1. n[p] = p /\ p \in WorkPlaces'
      BY <2>2 DEF WorkPlaces
    <3> QED
      BY <2>2, <3>1 DEF TaskAt, WorkPlaces
  <2> QED
    BY <2>1, <2>2
<1> HIDE DEF n
<1>5. /\ \A p, q \in WorkPlaces' : TaskAt'[p] # NoTask /\ TaskAt'[q] # NoTask
                                     /\ TaskAt'[p].handle = TaskAt'[q].handle => p = q
      /\ Tasks' = Tasks \ {TaskAt[e] : e \in {d}}
  BY <1>2, <1>3, <1>4, TasksMoved DEF TasksDistinct, Tasks
<1>6. Head(responses) \in Tasks
  BY <1>1, <1>2, QueuedIsTask DEF Tasks
<1> QED
  BY <1>2, <1>5, <1>6 DEF TasksDistinct

(* A worker queues its response, or lets go of its task.                   *)
LEMMA TaskDone ==
  ASSUME TypeOK, TasksDistinct, NEW w \in Workers, task[w] # NoTask,
         task' = [task EXCEPT ![w] = NoTask], UNCHANGED requests
  PROVE  /\ responses' = Append(responses, task[w]) =>
              TasksDistinct' /\ Tasks' = Tasks
         /\ UNCHANGED responses => TasksDistinct' /\ Tasks' = Tasks \ {task[w]}
<1> DEFINE P == WorkPlaces
           d == <<"task", w>>
<1>1. /\ task'[w] = NoTask /\ task[w] \in Task
      /\ \A v \in Workers : v # w => task'[v] = task[v]
  BY DEF TypeOK
<1>2. /\ d \in P /\ TaskAt[d] = task[w] /\ {d} \in SUBSET P
  BY DEF WorkPlaces, TaskAt
<1>3. ASSUME UNCHANGED responses
      PROVE  TasksDistinct' /\ Tasks' = Tasks \ {task[w]}
  <2> DEFINE n == [p \in P |-> p]
  <2>1. WorkPlaces' = P
    BY <1>3 DEF WorkPlaces
  <2>2. TaskAt'[d] = NoTask
    BY <1>1, <1>2, <2>1 DEF TaskAt
  <2>3. \A p \in P \ {d} : TaskAt'[p] = TaskAt[p]
    BY <1>1, <1>3, <2>1 DEF TaskAt, WorkPlaces
  <2>4. /\ \A q \in WorkPlaces' : TaskAt'[q] # NoTask =>
             \E p \in P \ {d} : n[p] = q /\ TaskAt[p] = TaskAt'[q]
        /\ \A p \in P \ {d} : TaskAt[p] # NoTask =>
             n[p] \in WorkPlaces' /\ TaskAt'[n[p]] = TaskAt[p]
    BY <2>1, <2>2, <2>3
  <2> HIDE DEF n
  <2>5. /\ \A p, q \in WorkPlaces' : TaskAt'[p] # NoTask /\ TaskAt'[q] # NoTask
                                       /\ TaskAt'[p].handle = TaskAt'[q].handle => p = q
        /\ Tasks' = Tasks \ {TaskAt[e] : e \in {d}}
    BY <1>2, <2>4, TasksMoved DEF TasksDistinct, Tasks
  <2> QED
    BY <1>2, <2>5 DEF TasksDistinct
<1>4. ASSUME responses' = Append(responses, task[w])
      PROVE  TasksDistinct' /\ Tasks' = Tasks
  <2> DEFINE k == Len(responses) + 1
             e == <<"response", k>>
             n == [p \in P |-> IF p = d THEN e ELSE p]
  <2>1. /\ DOMAIN responses' = DOMAIN responses \cup {k} /\ responses'[k] = task[w]
        /\ \A i \in DOMAIN responses : responses'[i] = responses[i] /\ i # k
    BY <1>1, <1>4, Queued DEF TypeOK
  <2> HIDE DEF k
  <2>2. WorkPlaces' = P \cup {e} /\ e \notin P
    BY <2>1 DEF WorkPlaces
  <2>3. TaskAt'[d] = NoTask /\ TaskAt'[e] = task[w]
    BY <1>1, <1>2, <2>1, <2>2 DEF TaskAt
  <2>4. \A p \in P \ {d} : TaskAt'[p] = TaskAt[p]
    BY <1>1, <2>1, <2>2 DEF TaskAt, WorkPlaces
  <2>5. /\ \A q \in WorkPlaces' : TaskAt'[q] # NoTask =>
             \E p \in P \ {} : n[p] = q /\ TaskAt[p] = TaskAt'[q]
        /\ \A p \in P \ {} : TaskAt[p] # NoTask =>
             n[p] \in WorkPlaces' /\ TaskAt'[n[p]] = TaskAt[p]
    BY <1>2, <2>2, <2>3, <2>4
  <2> HIDE DEF n
  <2>6. /\ \A p, q \in WorkPlaces' : TaskAt'[p] # NoTask /\ TaskAt'[q] # NoTask
                                       /\ TaskAt'[p].handle = TaskAt'[q].handle => p = q
        /\ Tasks' = Tasks \ {TaskAt[x] : x \in {}}
    BY <2>5, TasksMoved DEF TasksDistinct, Tasks
  <2> QED
    BY <2>6 DEF TasksDistinct
<1> QED
  BY <1>3, <1>4

(* A request that has been read is queued as a task of its connection.     *)
LEMMA TaskQueued ==
  ASSUME TypeOK, TasksDistinct, NEW t \in Task, requests' = Append(requests, t),
         \A u \in Tasks : u.handle # t.handle, UNCHANGED <<responses, task>>
  PROVE  TasksDistinct' /\ Tasks' = Tasks \cup {t}
<1> DEFINE k == Len(requests) + 1
           e == <<"request", k>>
<1>1. /\ DOMAIN requests' = DOMAIN requests \cup {k} /\ requests'[k] = t
      /\ \A i \in DOMAIN requests : requests'[i] = requests[i] /\ i # k
  BY Queued DEF TypeOK
<1> HIDE DEF k
<1>2. WorkPlaces' = WorkPlaces \cup {e} /\ e \notin WorkPlaces
  BY <1>1 DEF WorkPlaces
<1>3. TaskAt'[e] = t /\ \A p \in WorkPlaces : TaskAt'[p] = TaskAt[p]
  BY <1>1, <1>2 DEF TaskAt, WorkPlaces
<1> HIDE DEF e
<1>4. t # NoTask
  BY QueuedIsTask
<1>5. Tasks' = Tasks \cup {t}
  BY <1>2, <1>3, <1>4 DEF Tasks
<1>6. \A p \in WorkPlaces : TaskAt[p] # NoTask => TaskAt[p].handle # t.handle
  BY DEF Tasks
<1> QED
  BY <1>2, <1>3, <1>5, <1>6 DEF TasksDistinct

(* What a step does not touch stays as it is.                              *)
LEMMA WorkUnchanged ==
  ASSUME UNCHANGED <<requests, responses, task>>
  PROVE  Tasks' = Tasks /\ (TasksDistinct => TasksDistinct')
<1>1. WorkPlaces' = WorkPlaces
  BY DEF WorkPlaces
<1>2. TaskAt' = TaskAt
  BY <1>1 DEF TaskAt
<1> QED
  BY <1>1, <1>2 DEF Tasks, TasksDistinct

-----------------------------------------------------------------------------
(* Counting. *)

(* There are finitely many of what is counted.                             *)
LEMMA Counts ==
  ASSUME TypeOK
  PROVE  /\ IsFiniteSet(Unread) /\ Cardinality(Unread) \in Nat
         /\ IsFiniteSet(Lost) /\ Cardinality(Lost) \in Nat
         /\ IsFiniteSet(Processing) => Cardinality(Processing) \in Nat
         /\ Len(requests) \in Nat
<1>1. IsFiniteSet(Handles) /\ IsFiniteSet(Buffers)
  BY SizesAssumption, FS_Interval DEF Handles, Buffers
<1>2. Unread \in SUBSET Handles /\ Lost \in SUBSET Buffers
  BY DEF Unread, Lost
<1>3. Len(requests) \in Nat
  BY LenProperties DEF TypeOK
<1> QED
  BY <1>1, <1>2, <1>3, FS_Subset, FS_CardinalityType

(* A step that loses no buffer keeps the account.                          *)
LEMMA NoneLost ==
  ASSUME TypeOK, FewLost, Lost' \subseteq Lost,
         UNCHANGED <<dropped, lostResponses>>
  PROVE  FewLost'
<1>1. Cardinality(Lost') <= Cardinality(Lost) /\ Cardinality(Lost') \in Nat
  BY Counts, FS_Subset, FS_CardinalityType
<1> QED
  BY <1>1, Counts DEF TypeOK, FewLost

(* One that drops a task or its response loses one buffer.                 *)
LEMMA OneLost ==
  ASSUME TypeOK, FewLost, NEW b, Lost' \subseteq Lost \cup {b},
         \/ dropped' = dropped + 1 /\ lostResponses' = lostResponses
         \/ dropped' = dropped /\ lostResponses' = lostResponses + 1
  PROVE  FewLost'
<1>1. /\ IsFiniteSet(Lost \cup {b})
      /\ Cardinality(Lost \cup {b}) \in Nat
      /\ Cardinality(Lost \cup {b}) <= Cardinality(Lost) + 1
  <2>1. IsFiniteSet(Lost) /\ Cardinality(Lost) \in Nat
    BY Counts
  <2> QED
    BY <2>1, FS_AddElement
<1>2. Cardinality(Lost') <= Cardinality(Lost) + 1 /\ Cardinality(Lost') \in Nat
  <2>1. /\ IsFiniteSet(Lost') /\ Cardinality(Lost') <= Cardinality(Lost \cup {b})
    BY <1>1, FS_Subset
  <2> QED
    BY <1>1, <2>1, Counts, FS_CardinalityType
<1>3. /\ Cardinality(Lost) <= dropped + lostResponses
      /\ dropped \in Nat /\ lostResponses \in Nat /\ Cardinality(Lost) \in Nat
  BY Counts DEF TypeOK, FewLost
<1> QED
  BY <1>2, <1>3 DEF FewLost

(* A step that moves no buffer and no task.                                *)
LEMMA BuffersUnchanged ==
  ASSUME UNCHANGED <<pool, allocated, rx, tx, requests, responses, task>>
  PROVE  /\ Free' = Free /\ Tasks' = Tasks /\ Lost' = Lost
         /\ SupplyDistinct => SupplyDistinct'
         /\ TasksDistinct => TasksDistinct'
         /\ BuffersDistinct => BuffersDistinct'
<1>1. Free' = Free /\ Tasks' = Tasks
  BY WorkUnchanged DEF Free
<1> QED
  BY <1>1, WorkUnchanged DEF SupplyDistinct, BuffersDistinct, Lost

(* A step that neither reads a request nor drops one.                      *)
LEMMA CountsUnchanged ==
  ASSUME Counted, Processing' = Processing,
         UNCHANGED <<allocated, inbound, accepted, sent, dropped, requests>>
  PROVE  Counted'
BY DEF Counted, Unread

-----------------------------------------------------------------------------
(* The clients. *)

(* A new connection has a number that none had, and nothing under way.     *)
LEMMA ConnectPreserves ==
  ASSUME IInv, NEW c \in Clients, Connect(c)
  PROVE  IInv'
<1> USE DEF clientVars, socketVars, loopVars, tableVars, bufferVars, workVars
<1>1. /\ opened' = opened + 1 /\ opened \in Nat /\ opened' \in Handles
      /\ opened' # Null /\ opened' \in 0 .. MaxConnections
      /\ conn' = [conn EXCEPT ![c] = opened'] /\ cstate' = [cstate EXCEPT ![c] = "ready"]
      /\ UNCHANGED <<expect, inbound, outbound, fin, rpc, selected, wakeup>>
      /\ UNCHANGED <<accepted, connected, rx, tx, out, pool, allocated, content>>
      /\ UNCHANGED <<requests, responses, wpc, task, dropped, sent, closes,
                     lostResponses, acceptFailures>>
  BY SizesAssumption DEF Connect, IInv, TypeOK, Handles, Null
<1>2. /\ Free' = Free /\ Tasks' = Tasks /\ Lost' = Lost
      /\ SupplyDistinct' /\ TasksDistinct' /\ BuffersDistinct'
  BY <1>1, BuffersUnchanged DEF IInv
<1>3. TypeOK'
  <2>1. /\ conn' \in [Clients -> MaybeHandles]
        /\ cstate' \in [Clients -> {"away", "ready", "waiting"}]
    BY <1>1 DEF IInv, TypeOK, MaybeHandles
  <2>2. accepted' \in 0 .. opened'
    BY <1>1 DEF IInv, TypeOK
  <2> QED
    BY <1>1, <2>1, <2>2 DEF IInv, TypeOK
<1>4. \A h \in Handles : h <= opened => h # opened'
  BY <1>1 DEF Handles
<1>5. /\ inbound[opened'] = Null /\ outbound[opened'] = Null /\ out[opened'] = "none"
      /\ \A t \in Tasks : t.handle # opened'
  <2>1. inbound[opened'] = Null /\ outbound[opened'] = Null
    BY <1>1, <1>4 DEF IInv, ClientsSound
  <2>2. accepted <= opened /\ accepted \in Nat /\ connected \subseteq 1 .. accepted
    BY DEF IInv, TypeOK
  <2>3. out[opened'] = "none"
    BY <1>1, <2>2 DEF IInv, ConnectedSound
  <2>4. \A t \in Tasks : t.handle \in Nat /\ t.handle <= accepted
    BY QueuedIsTask DEF IInv, ClientsSound, Task, Handles
  <2> QED
    BY <1>1, <2>1, <2>2, <2>3, <2>4
<1>6. OneRequest'
  BY <1>1, <1>2 DEF IInv, OneRequest
<1>7. OwnRequest'
  BY <1>1, <1>2, <1>5 DEF IInv, TypeOK, OwnRequest
<1>8. ClientsSound'
  <2>1. \A d \in Clients : conn[d] \in Nat /\ conn[d] <= opened
    BY DEF IInv, TypeOK, ClientsSound, MaybeHandles, Handles, Null
  <2>2. \A d \in Clients : conn'[d] <= opened' /\ (d # c => conn'[d] # opened')
    BY <1>1, <2>1 DEF IInv, TypeOK
  <2>3. \A d \in Clients : cstate'[d] # "away" => conn'[d] # Null
    BY <1>1 DEF IInv, TypeOK, ClientsSound
  <2>4. \A d, e \in Clients : conn'[d] = conn'[e] /\ conn'[d] # Null => d = e
    BY <1>1, <2>2 DEF IInv, TypeOK, ClientsSound
  <2>5. \A h \in Handles : h <= opened => h <= opened'
    BY <1>1 DEF Handles
  <2>6. AcceptKey \in selected' => accepted' < opened'
    BY <1>1 DEF IInv, TypeOK, ClientsSound
  <2> QED
    BY <1>1, <1>2, <2>2, <2>3, <2>4, <2>5, <2>6 DEF IInv, ClientsSound
<1>9. ConnectedSound' /\ WorkersSound' /\ SelectedKeysUsable'
  BY <1>1 DEF IInv, ConnectedSound, WorkersSound, SelectedKeysUsable
<1>10. Counted'
  BY <1>1, CountsUnchanged DEF IInv, Processing
<1>11. FewLost'
  BY <1>1, <1>2, NoneLost DEF IInv
<1> QED
  BY <1>2, <1>3, <1>6, <1>7, <1>8, <1>9, <1>10, <1>11 DEF IInv

(* A client that is ready has nothing under way; its next request is the   *)
(* one it waits for.                                                       *)
LEMMA SendRequestPreserves ==
  ASSUME IInv, NEW c \in Clients, SendRequest(c)
  PROVE  IInv'
<1> USE DEF clientVars, socketVars, loopVars, tableVars, bufferVars, workVars
<1> DEFINE h == conn[c]
<1>1. /\ cstate[c] = "ready" /\ h \in Handles /\ h <= opened
      /\ \A d \in Clients : conn[d] = h => d = c
  BY DEF SendRequest, IInv, TypeOK, ClientsSound, MaybeHandles, Null
<1>2. /\ sent' = sent + 1 /\ sent \in Nat /\ sent' \in Requests /\ sent' # Null
      /\ sent' \in 0 .. MaxRequests
      /\ expect' = [expect EXCEPT ![c] = sent'] /\ inbound' = [inbound EXCEPT ![h] = sent']
      /\ cstate' = [cstate EXCEPT ![c] = "waiting"]
      /\ UNCHANGED <<conn, outbound, fin, rpc, selected, wakeup>>
      /\ UNCHANGED <<accepted, connected, rx, tx, out, pool, allocated, content>>
      /\ UNCHANGED <<requests, responses, wpc, task, dropped, opened, closes,
                     lostResponses, acceptFailures>>
  BY SizesAssumption DEF SendRequest, IInv, TypeOK, Requests, Null
<1>3. /\ Free' = Free /\ Tasks' = Tasks /\ Lost' = Lost
      /\ SupplyDistinct' /\ TasksDistinct' /\ BuffersDistinct'
  BY <1>2, BuffersUnchanged DEF IInv
<1>4. /\ inbound[h] = Null /\ outbound[h] = Null /\ out[h] = "none"
      /\ \A t \in Tasks : t.handle # h
  BY <1>1 DEF IInv, OwnRequest
<1> HIDE DEF h
<1>5. /\ inbound'[h] = sent' /\ \A g \in Handles : g # h => inbound'[g] = inbound[g]
  BY <1>1, <1>2 DEF IInv, TypeOK
<1>6. TypeOK'
  <2>1. /\ expect' \in [Clients -> MaybeRequest]
        /\ inbound' \in [Handles -> MaybeRequest]
        /\ cstate' \in [Clients -> {"away", "ready", "waiting"}]
    BY <1>1, <1>2 DEF IInv, TypeOK, MaybeRequest
  <2> QED
    BY <1>2, <2>1 DEF IInv, TypeOK
<1>7. OneRequest'
  BY <1>2, <1>3, <1>4, <1>5 DEF IInv, OneRequest
<1>8. OwnRequest'
  <2>1. ASSUME NEW d \in Clients, d # c, cstate[d] # "away"
        PROVE  conn[d] # h /\ conn[d] \in Handles
    BY <1>1, <2>1 DEF IInv, TypeOK, ClientsSound, MaybeHandles
  <2>2. /\ cstate'[c] = "waiting" /\ expect'[c] = sent' /\ conn[c] = h
        /\ \A d \in Clients : d # c => cstate'[d] = cstate[d] /\ expect'[d] = expect[d]
    BY <1>2 DEF IInv, TypeOK, h
  <2> QED
    BY <1>2, <1>3, <1>4, <1>5, <2>1, <2>2 DEF IInv, OwnRequest
<1>9. ClientsSound'
  BY <1>1, <1>2, <1>3, <1>5 DEF IInv, TypeOK, ClientsSound
<1>10. ConnectedSound' /\ WorkersSound' /\ SelectedKeysUsable'
  BY <1>2 DEF IInv, ConnectedSound, WorkersSound, SelectedKeysUsable
<1>11. Counted'
  <2>1. Unread' = Unread \cup {h}
    BY <1>1, <1>2, <1>5 DEF Unread
  <2>2. Cardinality(Unread') \in Nat /\ Cardinality(Unread') <= Cardinality(Unread) + 1
    <3>1. IsFiniteSet(Unread) /\ Cardinality(Unread) \in Nat
      BY Counts DEF IInv
    <3>2. IsFiniteSet(Unread \cup {h})
      BY <3>1, FS_AddElement
    <3> QED
      BY ONLY <2>1, <3>1, <3>2, FS_AddElement, FS_CardinalityType
  <2>3. Processing' = Processing
    BY <1>2 DEF Processing
  <2>4. /\ Cardinality(Unread) \in Nat /\ Cardinality(Processing) \in Nat
        /\ Len(requests) \in Nat /\ allocated \in Nat /\ accepted \in Nat /\ dropped \in Nat
    BY Counts, BufferCount DEF IInv, TypeOK, Counted
  <2>5. allocated + Cardinality(Unread') <= 2 * accepted + (sent + 1)
    BY <1>2, <2>2, <2>4 DEF IInv, Counted
  <2>6. dropped + Cardinality(Unread') + Len(requests) + Cardinality(Processing)
          <= sent + 1
    BY <1>2, <2>2, <2>4 DEF IInv, Counted
  <2> QED
    BY <1>2, <2>3, <2>5, <2>6 DEF IInv, Counted
<1>12. FewLost'
  BY <1>2, <1>3, NoneLost DEF IInv
<1> QED
  BY <1>3, <1>6, <1>7, <1>8, <1>9, <1>10, <1>11, <1>12 DEF IInv

(* A client that has its response has nothing under way.                   *)
LEMMA ReceiveResponsePreserves ==
  ASSUME IInv, NEW c \in Clients, ReceiveResponse(c)
  PROVE  IInv'
<1> USE DEF clientVars, socketVars, loopVars, tableVars, bufferVars, workVars,
            boundVars
<1> DEFINE h == conn[c]
<1>1. /\ cstate[c] = "waiting" /\ h \in Handles /\ outbound[h] # Null
      /\ \A d \in Clients : conn[d] = h => d = c
  BY DEF ReceiveResponse, IInv, TypeOK, ClientsSound, MaybeHandles, Null
<1>2. /\ outbound' = [outbound EXCEPT ![h] = Null]
      /\ cstate' = [cstate EXCEPT ![c] = "ready"]
      /\ UNCHANGED <<conn, expect, inbound, fin, rpc, selected, wakeup>>
      /\ UNCHANGED <<accepted, connected, rx, tx, out, pool, allocated, content>>
      /\ UNCHANGED <<requests, responses, wpc, task, dropped, opened, sent, closes,
                     lostResponses, acceptFailures>>
  BY DEF ReceiveResponse
<1>3. /\ Free' = Free /\ Tasks' = Tasks /\ Lost' = Lost
      /\ SupplyDistinct' /\ TasksDistinct' /\ BuffersDistinct'
  BY <1>2, BuffersUnchanged DEF IInv
<1>4. inbound[h] = Null /\ out[h] = "none" /\ \A t \in Tasks : t.handle # h
  BY <1>1 DEF IInv, OneRequest
<1> HIDE DEF h
<1>5. /\ outbound'[h] = Null /\ \A g \in Handles : g # h => outbound'[g] = outbound[g]
  BY <1>1, <1>2 DEF IInv, TypeOK
<1>6. TypeOK'
  <2>1. /\ outbound' \in [Handles -> MaybeRequest]
        /\ cstate' \in [Clients -> {"away", "ready", "waiting"}]
    BY <1>1, <1>2 DEF IInv, TypeOK, MaybeRequest
  <2> QED
    BY <1>2, <2>1 DEF IInv, TypeOK
<1>7. OneRequest'
  BY <1>2, <1>3, <1>4, <1>5 DEF IInv, OneRequest
<1>8. OwnRequest'
  <2>1. ASSUME NEW d \in Clients, d # c, cstate[d] # "away"
        PROVE  conn[d] # h /\ conn[d] \in Handles
    BY <1>1, <2>1 DEF IInv, TypeOK, ClientsSound, MaybeHandles
  <2>2. conn[c] = h /\ \A d \in Clients : d # c => cstate'[d] = cstate[d]
    BY <1>2 DEF IInv, TypeOK, h
  <2> QED
    BY <1>2, <1>3, <1>4, <1>5, <2>1, <2>2 DEF IInv, OwnRequest
<1>9. ClientsSound'
  BY <1>1, <1>2, <1>3, <1>5 DEF IInv, TypeOK, ClientsSound
<1>10. ConnectedSound' /\ WorkersSound' /\ SelectedKeysUsable'
  BY <1>2 DEF IInv, ConnectedSound, WorkersSound, SelectedKeysUsable
<1>11. Counted'
  BY <1>2, CountsUnchanged DEF IInv, Processing
<1>12. FewLost'
  BY <1>2, <1>3, NoneLost DEF IInv
<1> QED
  BY <1>3, <1>6, <1>7, <1>8, <1>9, <1>10, <1>11, <1>12 DEF IInv

(* Closing takes back nothing of what is under way.                        *)
LEMMA CloseConnectionPreserves ==
  ASSUME IInv, NEW c \in Clients, CloseConnection(c)
  PROVE  IInv'
<1> USE DEF clientVars, socketVars, loopVars, tableVars, bufferVars, workVars
<1>1. /\ cstate' = [cstate EXCEPT ![c] = "away"]
      /\ UNCHANGED <<conn, expect, inbound, outbound, rpc, selected, wakeup>>
      /\ UNCHANGED <<accepted, connected, rx, tx, out, pool, allocated, content>>
      /\ UNCHANGED <<requests, responses, wpc, task, dropped, opened, sent,
                     lostResponses, acceptFailures>>
  BY DEF CloseConnection
<1>2. /\ Free' = Free /\ Tasks' = Tasks /\ Lost' = Lost
      /\ SupplyDistinct' /\ TasksDistinct' /\ BuffersDistinct'
  BY <1>1, BuffersUnchanged DEF IInv
<1>3. TypeOK'
  <2>1. /\ fin' \in [Handles -> BOOLEAN]
        /\ cstate' \in [Clients -> {"away", "ready", "waiting"}]
    BY <1>1 DEF CloseConnection, IInv, TypeOK
  <2>2. closes' \in 0 .. MaxCloses
    BY SizesAssumption DEF CloseConnection, IInv, TypeOK
  <2> QED
    BY <1>1, <2>1, <2>2 DEF IInv, TypeOK
<1>4. OneRequest' /\ ConnectedSound' /\ WorkersSound' /\ SelectedKeysUsable'
  BY <1>1, <1>2
     DEF IInv, OneRequest, ConnectedSound, WorkersSound, SelectedKeysUsable
<1>5. OwnRequest' /\ ClientsSound'
  <2>1. \A d \in Clients : cstate'[d] # "away" => d # c /\ cstate'[d] = cstate[d]
    BY <1>1 DEF IInv, TypeOK
  <2> QED
    BY <1>1, <1>2, <2>1 DEF IInv, OwnRequest, ClientsSound
<1>6. Counted'
  BY <1>1, CountsUnchanged DEF IInv, Processing
<1>7. FewLost'
  BY <1>1, <1>2, NoneLost DEF IInv
<1> QED
  BY <1>2, <1>3, <1>4, <1>5, <1>6, <1>7 DEF IInv

-----------------------------------------------------------------------------
(* The reactor. *)

(* Only a ready key is selected; a step of the reactor's loop, or of a     *)
(* worker that wakes it, that handles no key and no response leaves        *)
(* everything else as it is.                                               *)
LEMMA LoopPreserves ==
  ASSUME IInv,
         \/ Select \/ AcceptFails \/ KeysDone \/ QueueEmpty
         \/ \E w \in Workers : WakeReactor(w)
  PROVE  IInv'
<1> USE DEF clientVars, socketVars, loopVars, tableVars, bufferVars, workVars,
            boundVars
<1>1. /\ UNCHANGED <<cstate, conn, expect, inbound, outbound, fin>>
      /\ UNCHANGED <<accepted, connected, rx, tx, out, pool, allocated, content>>
      /\ UNCHANGED <<requests, responses, task, dropped, opened, sent, closes,
                     lostResponses>>
  BY DEF Select, AcceptFails, KeysDone, QueueEmpty, WakeReactor
<1>2. /\ rpc' \in {"select", "keys", "queue", "dead"} /\ wakeup' \in BOOLEAN
      /\ wpc' \in [Workers -> {"idle", "process", "wake"}]
      /\ \A w \in Workers : wpc'[w] = "process" <=> wpc[w] = "process"
  BY DEF Select, AcceptFails, KeysDone, QueueEmpty, WakeReactor, IInv, TypeOK
<1>3. acceptFailures' \in 0 .. MaxAcceptFailures
  BY SizesAssumption
     DEF Select, AcceptFails, KeysDone, QueueEmpty, WakeReactor, IInv, TypeOK
<1>4. /\ Free' = Free /\ Tasks' = Tasks /\ Lost' = Lost
      /\ SupplyDistinct' /\ TasksDistinct' /\ BuffersDistinct'
  BY <1>1, BuffersUnchanged DEF IInv
<1>5. selected' \subseteq selected \cup Ready
  BY DEF Select, AcceptFails, KeysDone, QueueEmpty, WakeReactor
<1>6. connected \subseteq Handles
  BY SizesAssumption DEF IInv, TypeOK, Handles
<1>7. TypeOK'
  <2>1. Ready \subseteq {AcceptKey} \cup UNION {KeysOf(h) : h \in Handles}
    BY <1>6 DEF Ready, KeysOf
  <2>2. selected' \subseteq {AcceptKey} \cup UNION {KeysOf(h) : h \in Handles}
    BY <1>5, <2>1 DEF IInv, TypeOK
  <2> QED
    BY <1>1, <1>2, <1>3, <2>2 DEF IInv, TypeOK
<1>8. SelectedKeysUsable'
  <2>1. \A h \in Handles :
          /\ <<"write", h>> \in Ready => h \in connected /\ out[h] # "none"
          /\ <<"read", h>> \in Ready => h \in connected
    BY DEF Ready, AcceptKey
  <2> QED
    BY <1>1, <1>5, <2>1 DEF IInv, SelectedKeysUsable, ConnectedSound
<1>9. OneRequest' /\ OwnRequest' /\ ClientsSound' /\ ConnectedSound' /\ WorkersSound'
  <2>1. AcceptKey \in Ready => accepted < opened
    BY DEF Ready, AcceptKey
  <2> QED
    BY <1>1, <1>2, <1>4, <1>5, <2>1
       DEF IInv, OneRequest, OwnRequest, ClientsSound, ConnectedSound, WorkersSound
<1>10. Counted'
  BY <1>1, <1>2, CountsUnchanged DEF IInv, Processing
<1>11. FewLost'
  BY <1>1, <1>4, NoneLost DEF IInv
<1> QED
  BY <1>4, <1>7, <1>8, <1>9, <1>10, <1>11 DEF IInv

(* A client that has closed is disconnected: its buffers join the supply.  *)
LEMMA SelectDisconnectPreserves ==
  ASSUME IInv, NEW h \in Handles, SelectDisconnect(h)
  PROVE  IInv'
<1> USE DEF clientVars, socketVars, loopVars, tableVars, bufferVars, workVars,
            boundVars
<1>1. /\ connected' = connected \ {h}
      /\ pool' = Released(Released(pool, rx[h]), tx[h])
      /\ rx' = [rx EXCEPT ![h] = Null] /\ tx' = [tx EXCEPT ![h] = Null]
      /\ out' = [out EXCEPT ![h] = "none"]
      /\ selected' = selected \ KeysOf(h)
      /\ UNCHANGED <<cstate, conn, expect, inbound, outbound, fin, rpc, wakeup>>
      /\ UNCHANGED <<accepted, allocated, content, requests, responses, wpc, task>>
      /\ UNCHANGED <<dropped, opened, sent, closes, lostResponses, acceptFailures>>
  BY DEF SelectDisconnect, Disconnect
<1>2. /\ rx'[h] = Null /\ tx'[h] = Null /\ out'[h] = "none"
      /\ \A g \in Handles : g # h => rx'[g] = rx[g] /\ tx'[g] = tx[g] /\ out'[g] = out[g]
  BY <1>1 DEF IInv, TypeOK
<1>3. /\ rx[h] \in MaybeBuffers /\ tx[h] \in MaybeBuffers
      /\ rx[h] \notin Free /\ tx[h] \notin Free /\ (rx[h] = tx[h] => rx[h] = Null)
  BY DEF IInv, TypeOK, BuffersDistinct
<1>4. pool \in Seq(Buffers) /\ allocated \in Nat
  BY BufferCount DEF IInv, TypeOK
<1>5. /\ pool' \in Seq(Buffers) /\ SupplyDistinct'
      /\ Free' = Free \cup ({rx[h], tx[h]} \ {Null})
  <2> DEFINE p == Released(pool, rx[h])
  <2>1. /\ p \in Seq(Buffers) /\ DistinctIn(p, allocated)
        /\ FreeIn(p, allocated) = Free \cup ({rx[h]} \ {Null})
    BY <1>3, <1>4, SupplyGivenBack DEF IInv, SupplyDistinct, Free
  <2>2. tx[h] \notin FreeIn(p, allocated)
    BY <1>3, <2>1
  <2> HIDE DEF p
  <2>3. /\ Released(p, tx[h]) \in Seq(Buffers)
        /\ DistinctIn(Released(p, tx[h]), allocated)
        /\ FreeIn(Released(p, tx[h]), allocated)
             = FreeIn(p, allocated) \cup ({tx[h]} \ {Null})
    BY <1>3, <1>4, <2>1, <2>2, SupplyGivenBack
  <2> QED
    BY <1>1, <2>1, <2>3 DEF SupplyDistinct, Free, p
<1>6. Tasks' = Tasks /\ TasksDistinct'
  BY <1>1, WorkUnchanged DEF IInv
<1>7. TypeOK'
  <2>1. /\ rx' \in [Handles -> MaybeBuffers] /\ tx' \in [Handles -> MaybeBuffers]
        /\ out' \in [Handles -> {"none", "fresh", "partial"}]
        /\ connected' \subseteq 1 .. accepted'
        /\ selected' \subseteq {AcceptKey} \cup UNION {KeysOf(g) : g \in Handles}
    BY <1>1 DEF IInv, TypeOK, MaybeBuffers
  <2> QED
    BY <1>1, <1>5, <2>1 DEF IInv, TypeOK
<1>8. BuffersDistinct'
  <2>1. Null \notin Free /\ \A t \in Tasks : t.buf # Null
    BY SupplyBuffers, TaskFacts DEF IInv, Slots
  <2> QED
    BY <1>2, <1>3, <1>5, <1>6, <2>1 DEF IInv, BuffersDistinct
<1>9. OneRequest' /\ OwnRequest'
  <2>1. \A g \in Handles : out'[g] # "none" => out[g] # "none" /\ tx'[g] = tx[g]
    BY <1>2
  <2>2. \A c \in Clients : cstate[c] # "away" => conn[c] \in Handles
    BY DEF IInv, TypeOK, ClientsSound, MaybeHandles
  <2> QED
    BY <1>1, <1>6, <2>1, <2>2 DEF IInv, OneRequest, OwnRequest
<1>10. ClientsSound' /\ ConnectedSound' /\ WorkersSound' /\ SelectedKeysUsable'
  <2>1. ClientsSound' /\ WorkersSound'
    BY <1>1, <1>6 DEF IInv, ClientsSound, WorkersSound
  <2>2. ConnectedSound'
    BY <1>1, <1>2 DEF IInv, ConnectedSound
  <2>3. SelectedKeysUsable'
    BY <1>1, <1>2 DEF IInv, SelectedKeysUsable, KeysOf
  <2> QED
    BY <2>1, <2>2, <2>3
<1>11. Counted'
  BY <1>1, CountsUnchanged DEF IInv, Processing
<1>12. FewLost'
  <2>1. Lost' \subseteq Lost
    <3>1. \A b \in Buffers : b # Null
      BY DEF Buffers, Null
    <3> QED
      BY <1>2, <1>5, <1>6, <3>1 DEF Lost
  <2> QED
    BY <1>1, <2>1, NoneLost DEF IInv
<1> QED
  BY <1>5, <1>6, <1>7, <1>8, <1>9, <1>10, <1>11, <1>12 DEF IInv

(* A client that is accepted takes two buffers from the supply.            *)
LEMMA SelectAcceptPreserves ==
  ASSUME IInv, SelectAccept
  PROVE  IInv'
<1> USE DEF clientVars, socketVars, loopVars, tableVars, bufferVars, workVars,
            boundVars
<1> DEFINE h == accepted + 1
           r == Acquired(1)
           s == Acquired(2)
<1>1. /\ AcceptKey \in selected /\ selected' = selected \ {AcceptKey}
      /\ connected' = connected \cup {h} /\ accepted' = h /\ Acquire(2)
      /\ rx' = [rx EXCEPT ![h] = r] /\ tx' = [tx EXCEPT ![h] = s]
      /\ content' = Cleared({r, s})
      /\ UNCHANGED <<cstate, conn, expect, inbound, outbound, fin, rpc, wakeup>>
      /\ UNCHANGED <<out, requests, responses, wpc, task, dropped>>
      /\ UNCHANGED <<opened, sent, closes, lostResponses, acceptFailures>>
  BY DEF SelectAccept
<1>2. /\ accepted \in Nat /\ opened \in Nat /\ opened <= MaxConnections
      /\ sent \in Nat /\ sent <= MaxRequests /\ accepted < opened
      /\ allocated \in Nat /\ h \in Handles /\ h \notin connected /\ h <= opened
      /\ MaxConnections \in Nat /\ MaxRequests \in Nat
  <2>1. /\ accepted \in Nat /\ opened \in Nat /\ opened <= MaxConnections
        /\ sent \in Nat /\ sent <= MaxRequests /\ allocated \in Nat
        /\ MaxConnections \in Nat /\ MaxRequests \in Nat
    BY SizesAssumption, BufferCount DEF IInv, TypeOK
  <2>2. accepted < opened /\ connected \subseteq 1 .. accepted
    BY <1>1 DEF IInv, ClientsSound, TypeOK
  <2> QED
    BY <2>1, <2>2 DEF Handles
<1>3. /\ rx[h] = Null /\ tx[h] = Null /\ out[h] = "none"
  BY <1>2 DEF IInv, ConnectedSound
<1>4. allocated + 2 <= Cardinality(Buffers)
  <2>1. /\ allocated + Cardinality(Unread) <= 2 * accepted + sent
        /\ Cardinality(Unread) \in Nat
    BY Counts DEF IInv, Counted
  <2>2. Cardinality(Buffers) = 2 * MaxConnections + MaxRequests
    BY BufferCount
  <2> QED
    BY ONLY <1>2, <2>1, <2>2
<1> HIDE DEF h
<1>5. r \in Buffers /\ s \in Buffers /\ Null \notin Free
  <2>1. 1 \in Slots /\ 2 \in Slots /\ allocated + 1 <= Cardinality(Buffers)
    BY <1>2, <1>4, BufferCount DEF Slots
  <2> QED
    BY <1>4, <2>1, SupplyBuffers DEF IInv
<1>6. /\ SupplyDistinct' /\ Free' = Free \ {r, s}
      /\ r \in Free /\ s \in Free /\ r # s
  <2>1. /\ SupplyDistinct' /\ Free' = Free \ {Acquired(i) : i \in 1 .. 2}
        /\ \A i \in 1 .. 2 : Acquired(i) \in Free
        /\ \A i, j \in 1 .. 2 : Acquired(i) = Acquired(j) => i = j
    BY <1>1, SupplyAcquired DEF IInv
  <2>2. 1 .. 2 = {1, 2}
    OBVIOUS
  <2> QED
    BY <2>1, <2>2
<1>7. /\ pool' \in Seq(Buffers) /\ allocated' \in Nat /\ allocated' <= allocated + 2
  BY <1>1, SupplyShifts DEF IInv
<1> HIDE DEF r, s
<1>8. /\ rx'[h] = r /\ tx'[h] = s
      /\ \A g \in Handles : g # h => rx'[g] = rx[g] /\ tx'[g] = tx[g]
      /\ \A b \in Buffers : b \notin Free => content'[b] = content[b]
  BY <1>1, <1>2, <1>6 DEF IInv, TypeOK, Cleared
<1>9. Tasks' = Tasks /\ TasksDistinct'
  BY <1>1, WorkUnchanged DEF IInv
<1>10. TypeOK'
  <2>1. /\ rx' \in [Handles -> MaybeBuffers] /\ tx' \in [Handles -> MaybeBuffers]
        /\ content' \in [Buffers -> MaybeRequest]
        /\ selected' \subseteq {AcceptKey} \cup UNION {KeysOf(g) : g \in Handles}
    BY <1>1, <1>5 DEF IInv, TypeOK, MaybeBuffers, MaybeRequest, Cleared
  <2>2. accepted' \in 0 .. opened'
    BY <1>1, <1>2 DEF h
  <2>3. connected' \subseteq 1 .. accepted'
    BY <1>1, <1>2 DEF IInv, TypeOK, h
  <2>4. allocated' \in 0 .. Cardinality(Buffers)
    BY <1>2, <1>4, <1>7, BufferCount
  <2> QED
    BY <1>1, <1>7, <2>1, <2>2, <2>3, <2>4 DEF IInv, TypeOK
<1>11. BuffersDistinct'
  <2>1. \A t \in Tasks : t.buf # r /\ t.buf # s
    BY <1>6 DEF IInv, BuffersDistinct
  <2>2. \A g \in Handles : g # h => /\ rx'[g] \notin Free /\ tx'[g] \notin Free
                                   /\ rx'[g] # r /\ rx'[g] # s
                                   /\ tx'[g] # r /\ tx'[g] # s
    BY <1>6, <1>8 DEF IInv, BuffersDistinct
  <2> QED
    BY <1>5, <1>6, <1>8, <1>9, <2>1, <2>2 DEF IInv, BuffersDistinct
<1>12. OneRequest'
  BY <1>1, <1>9 DEF IInv, OneRequest
<1>13. OwnRequest'
  <2>1. \A c \in Clients : cstate[c] # "away" => conn[c] \in Handles
    BY DEF IInv, TypeOK, ClientsSound, MaybeHandles
  <2>2. \A g \in Handles : out[g] # "none" =>
          tx'[g] = tx[g] /\ content'[tx[g]] = content[tx[g]]
    <3>1. \A g \in Handles : out[g] # "none" => tx[g] \in Buffers /\ tx[g] \notin Free
      BY DEF IInv, TypeOK, ConnectedSound, BuffersDistinct, MaybeBuffers
    <3> QED
      BY <1>3, <1>8, <3>1
  <2>3. \A t \in Tasks : content'[t.buf] = content[t.buf]
    BY <1>8, TaskFacts DEF IInv, BuffersDistinct
  <2> QED
    BY <1>1, <1>9, <2>1, <2>2, <2>3 DEF IInv, OwnRequest
<1>14. ClientsSound'
  <2>1. \A t \in Tasks : t.handle <= accepted'
    <3>1. \A t \in Tasks : t.handle \in Nat /\ t.handle <= accepted
      BY TaskFacts DEF IInv, ClientsSound, Handles
    <3> QED
      BY <1>1, <1>2, <3>1 DEF h
  <2> QED
    BY <1>1, <1>9, <2>1 DEF IInv, ClientsSound
<1>15. ConnectedSound'
  BY <1>1, <1>3, <1>5, <1>6, <1>8 DEF IInv, ConnectedSound
<1>16. WorkersSound' /\ SelectedKeysUsable'
  <2>1. \A g \in Handles : g \in connected => rx'[g] = rx[g] /\ tx'[g] = tx[g]
    BY <1>2, <1>8
  <2> QED
    BY <1>1, <2>1 DEF IInv, WorkersSound, SelectedKeysUsable
<1>17. Counted'
  <2>1. Unread' = Unread /\ Processing' = Processing /\ UNCHANGED <<dropped, requests, sent>>
    BY <1>1 DEF Unread, Processing
  <2>2. /\ allocated + Cardinality(Unread) <= 2 * accepted + sent
        /\ Cardinality(Unread) \in Nat /\ accepted' = accepted + 1
    BY <1>1, Counts DEF IInv, Counted, h
  <2>3. allocated' + Cardinality(Unread) <= 2 * accepted' + sent
    BY ONLY <1>2, <1>7, <2>2
  <2> QED
    BY <2>1, <2>3 DEF IInv, Counted
<1>18. FewLost'
  <2>1. Lost' \subseteq Lost
    <3>1. \A b \in Buffers : b # Null
      BY DEF Buffers, Null
    <3> QED
      BY <1>2, <1>3, <1>6, <1>8, <1>9, <3>1 DEF Lost
  <2> QED
    BY <1>1, <2>1, NoneLost DEF IInv
<1> QED
  BY <1>6, <1>9, <1>10, <1>11, <1>12, <1>13, <1>14, <1>15, <1>16, <1>17, <1>18 DEF IInv

(* A response that is written reaches the client, and its buffer joins the *)
(* supply; one that is written in part stays where it is.                  *)
LEMMA SelectWritePreserves ==
  ASSUME IInv, NEW h \in Handles, SelectWrite(h)
  PROVE  IInv'
<1> USE DEF clientVars, socketVars, loopVars, tableVars, bufferVars, workVars,
            boundVars
<1>1. /\ selected' = selected \ {<<"write", h>>} /\ <<"write", h>> \in selected
      /\ WriteAll(h) \/ WriteSome(h)
      /\ UNCHANGED <<cstate, conn, expect, inbound, fin, rpc, wakeup>>
      /\ UNCHANGED <<accepted, connected, rx, allocated, content>>
      /\ UNCHANGED <<requests, responses, wpc, task, dropped>>
      /\ UNCHANGED <<opened, sent, closes, lostResponses, acceptFailures>>
  BY DEF SelectWrite
<1>2. Tasks' = Tasks /\ TasksDistinct'
  BY <1>1, WorkUnchanged DEF IInv
<1>3. /\ h \in connected /\ out[h] # "none" /\ tx[h] \in Buffers /\ tx[h] \notin Free
      /\ inbound[h] = Null /\ \A t \in Tasks : t.handle # h
  <2>1. h \in connected /\ out[h] # "none" /\ tx[h] # Null
    BY <1>1 DEF IInv, SelectedKeysUsable
  <2>2. tx[h] \in Buffers /\ tx[h] \notin Free
    BY <2>1 DEF IInv, TypeOK, MaybeBuffers, BuffersDistinct
  <2> QED
    BY <2>1, <2>2 DEF IInv, OneRequest
<1>4. \A c \in Clients : cstate[c] # "away" => conn[c] \in Handles
  BY DEF IInv, TypeOK, ClientsSound, MaybeHandles
<1>5. WorkersSound' /\ Counted'
  BY <1>1, CountsUnchanged DEF IInv, WorkersSound, Processing
<1>6. CASE WriteSome(h)
  <2>1. /\ UNCHANGED <<outbound, pool, tx>> /\ out' = [out EXCEPT ![h] = "partial"]
    BY <1>6 DEF WriteSome
  <2>2. \A g \in Handles : out'[g] = "none" <=> out[g] = "none"
    BY <1>3, <2>1 DEF IInv, TypeOK
  <2>3. /\ Free' = Free /\ Lost' = Lost /\ SupplyDistinct' /\ BuffersDistinct'
    BY <1>1, <2>1, BuffersUnchanged DEF IInv
  <2>4. TypeOK'
    <3>1. /\ out' \in [Handles -> {"none", "fresh", "partial"}]
          /\ selected' \subseteq {AcceptKey} \cup UNION {KeysOf(g) : g \in Handles}
      BY <1>1, <2>1 DEF IInv, TypeOK
    <3> QED
      BY <1>1, <2>1, <3>1 DEF IInv, TypeOK
  <2>5. OneRequest' /\ ClientsSound' /\ ConnectedSound'
    BY <1>1, <1>2, <2>1, <2>2 DEF IInv, OneRequest, ClientsSound, ConnectedSound
  <2>6. OwnRequest'
    BY <1>1, <1>2, <1>4, <2>1, <2>2 DEF IInv, OwnRequest
  <2>7. SelectedKeysUsable'
    BY <1>1, <2>1, <2>2 DEF IInv, SelectedKeysUsable
  <2>8. FewLost'
    BY <1>1, <2>3, NoneLost DEF IInv
  <2> QED
    BY <1>2, <1>5, <2>3, <2>4, <2>5, <2>6, <2>7, <2>8 DEF IInv
<1>7. CASE WriteAll(h)
  <2>1. /\ outbound' = IF fin[h] THEN outbound
                       ELSE [outbound EXCEPT ![h] = content[tx[h]]]
        /\ out' = [out EXCEPT ![h] = "none"] /\ tx' = [tx EXCEPT ![h] = Null]
        /\ pool' = Released(pool, tx[h])
    BY <1>7 DEF WriteAll
  <2>2. /\ out'[h] = "none" /\ tx'[h] = Null
        /\ outbound'[h] = outbound[h] \/ outbound'[h] = content[tx[h]]
        /\ \A g \in Handles : g # h => /\ out'[g] = out[g] /\ tx'[g] = tx[g]
                                       /\ outbound'[g] = outbound[g]
    BY <2>1 DEF IInv, TypeOK
  <2>3. /\ pool' \in Seq(Buffers) /\ SupplyDistinct' /\ Free' = Free \cup {tx[h]}
    <3>1. pool \in Seq(Buffers) /\ allocated \in Nat
      BY BufferCount DEF IInv, TypeOK
    <3>2. /\ tx[h] \in MaybeBuffers /\ tx[h] # Null
          /\ tx[h] \notin FreeIn(pool, allocated) /\ DistinctIn(pool, allocated)
      BY <1>3 DEF IInv, SupplyDistinct, Free, MaybeBuffers, Buffers, Null
    <3>3. /\ Released(pool, tx[h]) \in Seq(Buffers)
          /\ DistinctIn(Released(pool, tx[h]), allocated)
          /\ FreeIn(Released(pool, tx[h]), allocated)
               = FreeIn(pool, allocated) \cup ({tx[h]} \ {Null})
      BY <3>1, <3>2, SupplyGivenBack
    <3> QED
      BY <1>1, <2>1, <3>2, <3>3 DEF SupplyDistinct, Free
  <2>4. TypeOK'
    <3>1. /\ outbound' \in [Handles -> MaybeRequest]
          /\ out' \in [Handles -> {"none", "fresh", "partial"}]
          /\ tx' \in [Handles -> MaybeBuffers]
          /\ selected' \subseteq {AcceptKey} \cup UNION {KeysOf(g) : g \in Handles}
      BY <1>1, <1>3, <2>1 DEF IInv, TypeOK, MaybeBuffers
    <3> QED
      BY <1>1, <2>3, <3>1 DEF IInv, TypeOK
  <2>5. BuffersDistinct'
    <3>1. Null \notin Free /\ tx[h] # Null /\ \A t \in Tasks : t.buf # Null
      BY <1>3, SupplyBuffers, TaskFacts DEF IInv, Slots, Buffers, Null
    <3> QED
      BY <1>1, <1>2, <2>2, <2>3, <3>1 DEF IInv, BuffersDistinct
  <2>6. OneRequest'
    BY <1>1, <1>2, <1>3, <2>2 DEF IInv, OneRequest
  <2>7. OwnRequest'
    BY <1>1, <1>2, <1>3, <1>4, <2>2 DEF IInv, OwnRequest
  <2>8. ClientsSound'
    <3>1. h <= opened
      BY <1>3 DEF IInv, TypeOK
    <3> QED
      BY <1>1, <1>2, <2>2, <3>1 DEF IInv, ClientsSound
  <2>9. ConnectedSound'
    BY <1>1, <1>3, <2>2 DEF IInv, ConnectedSound
  <2>10. SelectedKeysUsable'
    BY <1>1, <2>2 DEF IInv, SelectedKeysUsable
  <2>11. FewLost'
    <3>1. Lost' \subseteq Lost
      <4>1. \A b \in Buffers : b # Null
        BY DEF Buffers, Null
      <4> QED
        BY <1>1, <1>2, <2>2, <2>3, <4>1 DEF Lost
    <3> QED
      BY <1>1, <3>1, NoneLost DEF IInv
  <2> QED
    BY <1>2, <1>5, <2>3, <2>4, <2>5, <2>6, <2>7, <2>8, <2>9, <2>10, <2>11 DEF IInv
<1> QED
  BY <1>1, <1>6, <1>7

(* The first response goes to its client, whose request it answers: none   *)
(* of that client is being written.                                        *)
LEMMA SetResponsePreserves ==
  ASSUME IInv, SetResponse
  PROVE  IInv'
<1> USE DEF clientVars, socketVars, loopVars, tableVars, bufferVars, workVars,
            boundVars
<1> DEFINE t == Head(responses)
           h == t.handle
<1>1. /\ responses # <<>> /\ responses' = Tail(responses)
      /\ h \in connected /\ pool' = Released(pool, tx[h])
      /\ tx' = [tx EXCEPT ![h] = t.buf] /\ out' = [out EXCEPT ![h] = "fresh"]
      /\ UNCHANGED <<cstate, conn, expect, inbound, outbound, fin, rpc, selected, wakeup>>
      /\ UNCHANGED <<accepted, connected, rx, allocated, content>>
      /\ UNCHANGED <<requests, wpc, task, dropped>>
      /\ UNCHANGED <<opened, sent, closes, lostResponses, acceptFailures>>
  BY DEF SetResponse
<1>2. t \in Tasks /\ Tasks' = Tasks \ {t} /\ TasksDistinct'
  BY <1>1, ResponseTaken DEF IInv
<1>3. responses' \in Seq(Task) /\ Len(responses') <= ResponseQueueSize
  <2>1. /\ responses' \in Seq(Task) /\ Len(responses') = Len(responses) - 1
        /\ Len(responses) \in Nat
    BY <1>1, Taken DEF IInv, TypeOK
  <2>2. Len(responses) <= ResponseQueueSize /\ ResponseQueueSize \in Nat
    BY SizesAssumption DEF IInv, TypeOK
  <2> QED
    BY ONLY <2>1, <2>2
<1> HIDE DEF t
<1>4. /\ h \in Handles /\ t.buf \in Buffers /\ t.buf # Null /\ t.buf \notin Free
      /\ \A u \in Tasks : u.handle = h => u = t
      /\ \A u \in Tasks : u.buf = t.buf => u = t
  BY <1>2, TaskFacts DEF IInv, BuffersDistinct
<1>5. inbound[h] = Null /\ outbound[h] = Null /\ out[h] = "none"
  BY <1>2, <1>4 DEF IInv, OneRequest
<1> HIDE DEF h
<1>6. /\ tx'[h] = t.buf /\ out'[h] = "fresh" /\ h = t.handle
      /\ \A g \in Handles : g # h => tx'[g] = tx[g] /\ out'[g] = out[g]
  BY <1>1, <1>4 DEF IInv, TypeOK, h
<1>7. /\ pool' \in Seq(Buffers) /\ SupplyDistinct'
      /\ Free' = Free \cup ({tx[h]} \ {Null})
  <2>1. /\ pool \in Seq(Buffers) /\ allocated \in Nat /\ tx[h] \in MaybeBuffers
        /\ tx[h] \notin FreeIn(pool, allocated) /\ DistinctIn(pool, allocated)
    BY <1>4, BufferCount DEF IInv, TypeOK, SupplyDistinct, BuffersDistinct, Free
  <2> QED
    BY <1>1, <2>1, SupplyGivenBack DEF SupplyDistinct, Free
<1>8. TypeOK'
  <2>1. /\ tx' \in [Handles -> MaybeBuffers]
        /\ out' \in [Handles -> {"none", "fresh", "partial"}]
    BY <1>1, <1>4 DEF IInv, TypeOK, MaybeBuffers
  <2> QED
    BY <1>1, <1>3, <1>7, <2>1 DEF IInv, TypeOK
<1>9. BuffersDistinct'
  <2>1. \A g \in Handles : rx[g] # t.buf /\ tx[g] # t.buf
    BY <1>2 DEF IInv, BuffersDistinct
  <2>2. /\ \A g, i \in Handles : rx'[g] = rx'[i] /\ rx'[g] # Null => g = i
        /\ \A g, i \in Handles : tx'[g] = tx'[i] /\ tx'[g] # Null => g = i
        /\ \A g, i \in Handles : rx'[g] = tx'[i] => rx'[g] = Null
    BY <1>1, <1>4, <1>6, <2>1 DEF IInv, BuffersDistinct
  <2>3. \A g \in Handles : rx'[g] \notin Free' /\ tx'[g] \notin Free'
    BY <1>1, <1>4, <1>6, <1>7, <2>1 DEF IInv, BuffersDistinct
  <2>4. \A u \in Tasks' : /\ u.buf \notin Free'
                          /\ \A g \in Handles : rx'[g] # u.buf /\ tx'[g] # u.buf
                          /\ \A v \in Tasks' : u.buf = v.buf => u = v
    BY <1>1, <1>2, <1>4, <1>6, <1>7 DEF IInv, BuffersDistinct
  <2> QED
    BY <2>2, <2>3, <2>4 DEF BuffersDistinct
<1>10. OneRequest'
  BY <1>1, <1>2, <1>4, <1>5, <1>6 DEF IInv, OneRequest
<1>11. OwnRequest'
  <2>1. \A c \in Clients : cstate[c] # "away" => conn[c] \in Handles
    BY DEF IInv, TypeOK, ClientsSound, MaybeHandles
  <2> QED
    BY <1>1, <1>2, <1>6, <2>1 DEF IInv, OwnRequest
<1>12. ClientsSound' /\ WorkersSound'
  BY <1>1, <1>2 DEF IInv, ClientsSound, WorkersSound
<1>13. ConnectedSound' /\ SelectedKeysUsable'
  BY <1>1, <1>4, <1>6 DEF IInv, ConnectedSound, SelectedKeysUsable, h
<1>14. Counted'
  BY <1>1, CountsUnchanged DEF IInv, Processing
<1>15. FewLost'
  <2>1. Lost' \subseteq Lost
    <3>1. \A b \in Buffers : b # Null
      BY DEF Buffers, Null
    <3> QED
      BY <1>1, <1>2, <1>4, <1>6, <1>7, <3>1 DEF Lost
  <2> QED
    BY <1>1, <2>1, NoneLost DEF IInv
<1> QED
  BY <1>2, <1>7, <1>8, <1>9, <1>10, <1>11, <1>12, <1>13, <1>14, <1>15 DEF IInv

(* A response to a client that has gone: its buffer joins the supply.      *)
LEMMA UnknownClientPreserves ==
  ASSUME IInv, UnknownClient
  PROVE  IInv'
<1> USE DEF clientVars, socketVars, loopVars, tableVars, bufferVars, workVars,
            boundVars
<1> DEFINE t == Head(responses)
<1>1. /\ responses # <<>> /\ responses' = Tail(responses) /\ rpc' = "select"
      /\ pool' = Released(pool, t.buf)
      /\ UNCHANGED <<cstate, conn, expect, inbound, outbound, fin, selected, wakeup>>
      /\ UNCHANGED <<accepted, connected, rx, tx, out, allocated, content>>
      /\ UNCHANGED <<requests, wpc, task, dropped>>
      /\ UNCHANGED <<opened, sent, closes, lostResponses, acceptFailures>>
  BY DEF UnknownClient
<1>2. t \in Tasks /\ Tasks' = Tasks \ {t} /\ TasksDistinct'
  BY <1>1, ResponseTaken DEF IInv
<1>3. responses' \in Seq(Task) /\ Len(responses') <= ResponseQueueSize
  <2>1. /\ responses' \in Seq(Task) /\ Len(responses') = Len(responses) - 1
        /\ Len(responses) \in Nat
    BY <1>1, Taken DEF IInv, TypeOK
  <2>2. Len(responses) <= ResponseQueueSize /\ ResponseQueueSize \in Nat
    BY SizesAssumption DEF IInv, TypeOK
  <2> QED
    BY ONLY <2>1, <2>2
<1> HIDE DEF t
<1>4. /\ t.buf \in Buffers /\ t.buf # Null /\ t.buf \notin Free
      /\ \A g \in Handles : rx[g] # t.buf /\ tx[g] # t.buf
      /\ \A u \in Tasks : u.buf = t.buf => u = t
  BY <1>2, TaskFacts DEF IInv, BuffersDistinct
<1>5. /\ pool' \in Seq(Buffers) /\ SupplyDistinct' /\ Free' = Free \cup {t.buf}
  <2>1. /\ pool \in Seq(Buffers) /\ allocated \in Nat /\ t.buf \in MaybeBuffers
        /\ t.buf \notin FreeIn(pool, allocated) /\ DistinctIn(pool, allocated)
    BY <1>4, BufferCount DEF IInv, TypeOK, SupplyDistinct, Free, MaybeBuffers
  <2>2. /\ Released(pool, t.buf) \in Seq(Buffers)
        /\ DistinctIn(Released(pool, t.buf), allocated)
        /\ FreeIn(Released(pool, t.buf), allocated)
             = FreeIn(pool, allocated) \cup ({t.buf} \ {Null})
    BY <2>1, SupplyGivenBack
  <2> QED
    BY <1>1, <1>4, <2>2 DEF SupplyDistinct, Free
<1>6. TypeOK'
  BY <1>1, <1>3, <1>5 DEF IInv, TypeOK
<1>7. BuffersDistinct'
  BY <1>1, <1>2, <1>4, <1>5 DEF IInv, BuffersDistinct
<1>8. OneRequest' /\ OwnRequest' /\ ClientsSound'
  BY <1>1, <1>2 DEF IInv, OneRequest, OwnRequest, ClientsSound
<1>9. ConnectedSound' /\ WorkersSound' /\ SelectedKeysUsable'
  BY <1>1 DEF IInv, ConnectedSound, WorkersSound, SelectedKeysUsable
<1>10. Counted'
  BY <1>1, CountsUnchanged DEF IInv, Processing
<1>11. FewLost'
  <2>1. Lost' \subseteq Lost
    BY <1>1, <1>2, <1>5 DEF Lost
  <2> QED
    BY <1>1, <2>1, NoneLost DEF IInv
<1> QED
  BY <1>2, <1>5, <1>6, <1>7, <1>8, <1>9, <1>10, <1>11 DEF IInv

(* A request that is read leaves its connection with the buffer it is in,  *)
(* and another buffer replaces that one; a full queue loses it.            *)
LEMMA SelectReadPreserves ==
  ASSUME IInv, NEW h \in Handles, SelectRead(h)
  PROVE  IInv'
<1> USE DEF clientVars, socketVars, loopVars, tableVars, bufferVars, workVars,
            boundVars
<1> DEFINE a == Acquired(1)
           r == rx[h]
           t == [handle |-> h, buf |-> r]
<1>1. /\ <<"read", h>> \in selected /\ inbound[h] # Null
      /\ selected' = selected \ {<<"read", h>>}
      /\ inbound' = [inbound EXCEPT ![h] = Null]
      /\ rx' = [rx EXCEPT ![h] = a] /\ Acquire(1)
      /\ content' = [Cleared({a}) EXCEPT ![r] = inbound[h]]
      /\ \/ /\ Len(requests) < RequestQueueSize
            /\ requests' = Append(requests, t) /\ dropped' = dropped
         \/ requests' = requests /\ dropped' = dropped + 1
      /\ UNCHANGED <<cstate, conn, expect, outbound, fin, rpc, wakeup>>
      /\ UNCHANGED <<accepted, connected, tx, out, responses, wpc, task>>
      /\ UNCHANGED <<opened, sent, closes, lostResponses, acceptFailures>>
  BY DEF SelectRead, Offered, DropIfFull
<1>2. /\ h \in connected /\ r \in Buffers /\ r # Null /\ r \notin Free
      /\ outbound[h] = Null /\ out[h] = "none" /\ h <= accepted
      /\ \A u \in Tasks : u.handle # h /\ u.buf # r
  <2>1. h \in connected /\ r # Null
    BY <1>1 DEF IInv, SelectedKeysUsable
  <2>2. r \in Buffers /\ r \notin Free /\ h <= accepted
    BY <2>1 DEF IInv, TypeOK, MaybeBuffers, BuffersDistinct
  <2>3. \A u \in Tasks : u.handle # h /\ u.buf # r
    BY <1>1 DEF IInv, OneRequest, BuffersDistinct
  <2> QED
    BY <1>1, <2>1, <2>2, <2>3 DEF IInv, OneRequest
<1>3. /\ accepted \in Nat /\ accepted <= MaxConnections
      /\ sent \in Nat /\ sent <= MaxRequests /\ allocated \in Nat
      /\ MaxConnections \in Nat /\ MaxRequests \in Nat
      /\ dropped \in Nat /\ Len(requests) \in Nat
      /\ Cardinality(Unread) \in Nat /\ Cardinality(Processing) \in Nat
  BY SizesAssumption, BufferCount, Counts DEF IInv, TypeOK, Counted
<1>4. /\ Unread' = Unread \ {h} /\ Cardinality(Unread) >= 1
      /\ Cardinality(Unread') = Cardinality(Unread) - 1
  <2>1. Unread' = Unread \ {h} /\ h \in Unread
    BY <1>1 DEF Unread, IInv, TypeOK
  <2>2. IsFiniteSet(Unread)
    BY Counts DEF IInv
  <2>3. /\ IsFiniteSet(Unread') /\ Cardinality(Unread') = Cardinality(Unread) - 1
    BY <2>1, <2>2, FS_RemoveElement
  <2>4. Cardinality(Unread') \in Nat
    BY ONLY <2>3, FS_CardinalityType
  <2> QED
    BY <1>3, <2>1, <2>3, <2>4
<1>5. /\ allocated + Cardinality(Unread) <= 2 * accepted + sent
      /\ dropped + Cardinality(Unread) + Len(requests) + Cardinality(Processing) <= sent
  BY DEF IInv, Counted
<1>6. allocated + 1 <= Cardinality(Buffers)
  <2>1. Cardinality(Buffers) = 2 * MaxConnections + MaxRequests
    BY BufferCount
  <2> QED
    BY ONLY <1>3, <1>4, <1>5, <2>1
<1>7. a \in Buffers /\ Null \notin Free
  <2>1. 1 \in Slots
    BY DEF Slots
  <2> QED
    BY <1>6, <2>1, SupplyBuffers DEF IInv
<1>8. SupplyDistinct' /\ Free' = Free \ {a} /\ a \in Free
  <2>1. /\ SupplyDistinct' /\ Free' = Free \ {Acquired(i) : i \in 1 .. 1}
        /\ \A i \in 1 .. 1 : Acquired(i) \in Free
    BY <1>1, SupplyAcquired DEF IInv
  <2>2. 1 .. 1 = {1}
    OBVIOUS
  <2> QED
    BY <2>1, <2>2
<1>9. /\ pool' \in Seq(Buffers) /\ allocated' \in Nat /\ allocated' <= allocated + 1
  BY <1>1, SupplyShifts DEF IInv
<1>10. t \in Task
  BY <1>2 DEF Task
<1>11. /\ TasksDistinct' /\ requests' \in Seq(Task) /\ Len(requests') <= RequestQueueSize
       /\ \/ /\ Tasks' = Tasks \cup {t}
             /\ Len(requests') = Len(requests) + 1 /\ dropped' = dropped
          \/ /\ Tasks' = Tasks
             /\ Len(requests') = Len(requests) /\ dropped' = dropped + 1
  <2>1. CASE /\ Len(requests) < RequestQueueSize
             /\ requests' = Append(requests, t) /\ dropped' = dropped
    <3>1. TasksDistinct' /\ Tasks' = Tasks \cup {t}
      BY <1>1, <1>2, <1>10, <2>1, TaskQueued DEF IInv
    <3>2. requests' \in Seq(Task) /\ Len(requests') = Len(requests) + 1
      BY <1>10, <2>1, Queued DEF IInv, TypeOK
    <3>3. Len(requests') <= RequestQueueSize
      BY <1>3, <2>1, <3>2, SizesAssumption
    <3> QED
      BY <2>1, <3>1, <3>2, <3>3
  <2>2. CASE requests' = requests /\ dropped' = dropped + 1
    BY <1>1, <2>2, WorkUnchanged DEF IInv, TypeOK
  <2> QED
    BY <1>1, <2>1, <2>2
<1>12. /\ rx'[h] = a /\ inbound'[h] = Null /\ content'[r] = inbound[h] /\ a # r
       /\ \A g \in Handles : g # h => rx'[g] = rx[g] /\ inbound'[g] = inbound[g]
       /\ \A b \in Buffers : b \notin Free /\ b # r => content'[b] = content[b]
  <2>1. a # r
    BY <1>2, <1>8
  <2>2. /\ content' \in [Buffers -> MaybeRequest] /\ content'[r] = inbound[h]
        /\ \A b \in Buffers : b # r => content'[b] = Cleared({a})[b]
    BY <1>1, <1>2 DEF IInv, TypeOK, Cleared, MaybeRequest
  <2>3. \A b \in Buffers : b \notin Free => Cleared({a})[b] = content[b]
    BY <1>8 DEF Cleared
  <2> QED
    BY <1>1, <2>1, <2>2, <2>3 DEF IInv, TypeOK
<1>13. t.handle = h /\ t.buf = r
  OBVIOUS
<1> HIDE DEF a, t
<1>14. Counted'
  <2>1. allocated' + Cardinality(Unread') <= 2 * accepted + sent
    BY <1>3, <1>4, <1>5, <1>9
  <2>2. dropped' + Len(requests') = dropped + Len(requests) + 1
        /\ dropped' \in Nat /\ Len(requests') \in Nat
    BY <1>3, <1>11
  <2>3. dropped' + Cardinality(Unread') + Len(requests') + Cardinality(Processing) <= sent
    BY ONLY <1>3, <1>4, <1>5, <2>2
  <2>4. Processing' = Processing
    BY <1>1 DEF Processing
  <2> QED
    BY <1>1, <2>1, <2>3, <2>4 DEF IInv, Counted
<1>15. TypeOK'
  <2>1. /\ rx' \in [Handles -> MaybeBuffers] /\ inbound' \in [Handles -> MaybeRequest]
        /\ selected' \subseteq {AcceptKey} \cup UNION {KeysOf(g) : g \in Handles}
    BY <1>1, <1>7 DEF IInv, TypeOK, MaybeBuffers, MaybeRequest
  <2>2. content' \in [Buffers -> MaybeRequest]
    BY <1>1, <1>2 DEF IInv, TypeOK, Cleared, MaybeRequest
  <2>3. allocated' \in 0 .. Cardinality(Buffers)
    BY <1>3, <1>6, <1>9, BufferCount
  <2>4. dropped' \in 0 .. 2 * MaxRequests
    <3>1. dropped' \in Nat /\ dropped' <= dropped + 1
      BY <1>3, <1>11
    <3> QED
      BY ONLY <1>3, <1>4, <1>5, <3>1
  <2> QED
    BY <1>1, <1>9, <1>11, <2>1, <2>2, <2>3, <2>4 DEF IInv, TypeOK
<1>16. BuffersDistinct'
  <2>1. \A g \in Handles : /\ g # h => rx[g] # r /\ rx[g] # a
                           /\ tx[g] # r /\ tx[g] # a
    BY <1>2, <1>8 DEF IInv, BuffersDistinct
  <2>2. /\ \A g, i \in Handles : rx'[g] = rx'[i] /\ rx'[g] # Null => g = i
        /\ \A g, i \in Handles : tx'[g] = tx'[i] /\ tx'[g] # Null => g = i
        /\ \A g, i \in Handles : rx'[g] = tx'[i] => rx'[g] = Null
    BY <1>1, <1>12, <2>1 DEF IInv, BuffersDistinct
  <2>3. \A g \in Handles : rx'[g] \notin Free' /\ tx'[g] \notin Free'
    BY <1>1, <1>8, <1>12 DEF IInv, BuffersDistinct
  <2>4. \A u \in Tasks \cup {t} :
          /\ u.buf \notin Free'
          /\ \A g \in Handles : rx'[g] # u.buf /\ tx'[g] # u.buf
          /\ \A v \in Tasks \cup {t} : u.buf = v.buf => u = v
    BY <1>1, <1>2, <1>8, <1>12, <1>13, <2>1 DEF IInv, BuffersDistinct
  <2>5. Tasks' \subseteq Tasks \cup {t}
    BY <1>11
  <2> QED
    BY <2>2, <2>3, <2>4, <2>5 DEF BuffersDistinct
<1>17. OneRequest'
  BY <1>1, <1>2, <1>11, <1>12, <1>13 DEF IInv, OneRequest
<1>18. OwnRequest'
  <2>1. \A c \in Clients : cstate[c] # "away" => conn[c] \in Handles
    BY DEF IInv, TypeOK, ClientsSound, MaybeHandles
  <2>2. \A g \in Handles : out[g] # "none" => content'[tx[g]] = content[tx[g]]
    <3>1. \A g \in Handles : out[g] # "none" =>
            tx[g] \in Buffers /\ tx[g] \notin Free /\ tx[g] # r
      BY <1>2 DEF IInv, TypeOK, ConnectedSound, BuffersDistinct, MaybeBuffers
    <3> QED
      BY <1>12, <3>1
  <2>3. \A u \in Tasks : content'[u.buf] = content[u.buf]
    BY <1>2, <1>12, TaskFacts DEF IInv, BuffersDistinct
  <2>4. ASSUME NEW c \in Clients, cstate[c] # "away", NEW u \in Tasks',
               u.handle = conn[c]
        PROVE  cstate[c] = "waiting" /\ content'[u.buf] = expect[c]
    <3>1. CASE u = t
      BY <1>1, <1>12, <1>13, <2>4, <3>1 DEF IInv, OwnRequest
    <3>2. CASE u # t
      BY <1>11, <2>3, <2>4, <3>2 DEF IInv, OwnRequest
    <3> QED
      BY <3>1, <3>2
  <2>5. ASSUME NEW c \in Clients, cstate[c] # "away"
        PROVE  /\ inbound'[conn[c]] # Null =>
                    cstate[c] = "waiting" /\ inbound'[conn[c]] = expect[c]
               /\ outbound[conn[c]] # Null =>
                    cstate[c] = "waiting" /\ outbound[conn[c]] = expect[c]
               /\ out[conn[c]] # "none" =>
                    cstate[c] = "waiting" /\ content'[tx[conn[c]]] = expect[c]
    BY <1>12, <2>1, <2>2, <2>5 DEF IInv, OwnRequest
  <2>6. UNCHANGED <<cstate, conn, expect>> /\ UNCHANGED <<outbound, out, tx>>
    BY <1>1
  <2> QED
    BY <2>4, <2>5, <2>6 DEF OwnRequest
<1>19. ClientsSound'
  BY <1>1, <1>2, <1>11, <1>12, <1>13 DEF IInv, ClientsSound
<1>20. ConnectedSound' /\ WorkersSound' /\ SelectedKeysUsable'
  <2>1. a # Null
    BY <1>7, <1>8
  <2> QED
    BY <1>1, <1>2, <1>12, <2>1
       DEF IInv, ConnectedSound, WorkersSound, SelectedKeysUsable
<1>21. FewLost'
  <2>1. Lost' \subseteq Lost \cup {r}
    BY <1>1, <1>8, <1>11, <1>12 DEF Lost
  <2>2. Tasks' = Tasks \cup {t} => Lost' \subseteq Lost
    BY <1>1, <1>8, <1>12, <1>13, <2>1 DEF Lost
  <2>3. CASE Tasks' = Tasks \cup {t} /\ dropped' = dropped
    BY <1>1, <2>2, <2>3, NoneLost DEF IInv
  <2>4. CASE Tasks' = Tasks /\ dropped' = dropped + 1
    BY <1>1, <2>1, <2>4, OneLost DEF IInv
  <2> QED
    BY <1>11, <2>3, <2>4
<1> QED
  BY <1>8, <1>11, <1>14, <1>15, <1>16, <1>17, <1>18, <1>19, <1>20, <1>21 DEF IInv

-----------------------------------------------------------------------------
(* The workers. *)

(* A step that moves no buffer and adds no task keeps buffers apart.       *)
LEMMA FewerTasks ==
  ASSUME IInv, Tasks' \subseteq Tasks, UNCHANGED <<pool, allocated, rx, tx>>
  PROVE  SupplyDistinct' /\ BuffersDistinct' /\ Free' = Free
<1>1. Free' = Free /\ SupplyDistinct'
  BY DEF Free, SupplyDistinct, IInv
<1> QED
  BY <1>1 DEF IInv, BuffersDistinct

(* An idle worker takes the first request: the same tasks are under way.   *)
LEMMA TakeTaskPreserves ==
  ASSUME IInv, NEW w \in Workers, TakeTask(w)
  PROVE  IInv'
<1> USE DEF clientVars, socketVars, loopVars, tableVars, bufferVars, workVars,
            boundVars
<1>1. /\ wpc[w] = "idle" /\ requests # <<>> /\ requests' = Tail(requests)
      /\ task' = [task EXCEPT ![w] = Head(requests)]
      /\ wpc' = [wpc EXCEPT ![w] = "process"]
      /\ UNCHANGED <<cstate, conn, expect, inbound, outbound, fin, rpc, selected, wakeup>>
      /\ UNCHANGED <<accepted, connected, rx, tx, out, pool, allocated, content>>
      /\ UNCHANGED <<responses, dropped, opened, sent, closes, lostResponses,
                     acceptFailures>>
  BY DEF TakeTask
<1>2. task[w] = NoTask
  BY <1>1 DEF IInv, WorkersSound
<1>3. TasksDistinct' /\ Tasks' = Tasks
  BY <1>1, <1>2, TaskTaken DEF IInv
<1>4. SupplyDistinct' /\ BuffersDistinct' /\ Free' = Free
  BY <1>1, <1>3, FewerTasks
<1>5. /\ requests' \in Seq(Task) /\ Head(requests) \in Task /\ NoTask \notin Task
      /\ Len(requests') = Len(requests) - 1 /\ Len(requests) \in Nat
  BY <1>1, Taken, QueuedIsTask DEF IInv, TypeOK
<1>6. TypeOK'
  <2>1. /\ task' \in [Workers -> Task \cup {NoTask}]
        /\ wpc' \in [Workers -> {"idle", "process", "wake"}]
    BY <1>1, <1>5 DEF IInv, TypeOK
  <2>2. Len(requests') <= RequestQueueSize
    <3>1. Len(requests) <= RequestQueueSize /\ RequestQueueSize \in Nat
      BY SizesAssumption DEF IInv, TypeOK
    <3> QED
      BY ONLY <1>5, <3>1
  <2> QED
    BY <1>1, <1>5, <2>1, <2>2 DEF IInv, TypeOK
<1>7. OneRequest' /\ OwnRequest' /\ ClientsSound' /\ ConnectedSound' /\ SelectedKeysUsable'
  BY <1>1, <1>3
     DEF IInv, OneRequest, OwnRequest, ClientsSound, ConnectedSound, SelectedKeysUsable
<1>8. WorkersSound'
  <2>1. /\ wpc'[w] = "process" /\ task'[w] # NoTask
        /\ \A v \in Workers : v # w => wpc'[v] = wpc[v] /\ task'[v] = task[v]
    BY <1>1, <1>5 DEF IInv, TypeOK
  <2> QED
    BY <2>1 DEF IInv, WorkersSound
<1>9. Counted'
  <2>1. Unread' = Unread /\ Processing' = Processing \cup {w}
    BY <1>1 DEF Unread, Processing, IInv, TypeOK
  <2>2. IsFiniteSet(Processing) /\ Cardinality(Processing) \in Nat
    BY Counts DEF IInv, Counted
  <2>3. IsFiniteSet(Processing \cup {w})
    BY <2>2, FS_AddElement
  <2>4. /\ IsFiniteSet(Processing') /\ Cardinality(Processing') \in Nat
        /\ Cardinality(Processing') <= Cardinality(Processing) + 1
    BY ONLY <2>1, <2>2, <2>3, FS_AddElement, FS_CardinalityType
  <2>5. /\ dropped + Cardinality(Unread) + Len(requests) + Cardinality(Processing) <= sent
        /\ dropped \in Nat /\ Cardinality(Unread) \in Nat /\ sent \in Nat
    BY Counts DEF IInv, Counted, TypeOK
  <2>6. dropped + Cardinality(Unread) + Len(requests') + Cardinality(Processing') <= sent
    BY ONLY <1>5, <2>2, <2>4, <2>5
  <2> QED
    BY <1>1, <2>1, <2>4, <2>6 DEF IInv, Counted
<1>10. FewLost'
  <2>1. Lost' = Lost
    BY <1>1, <1>3, <1>4 DEF Lost
  <2> QED
    BY <1>1, <2>1, NoneLost DEF IInv
<1> QED
  BY <1>3, <1>4, <1>6, <1>7, <1>8, <1>9, <1>10 DEF IInv

(* A worker is done with its task: the response is queued, or else it is   *)
(* lost with its buffer, and counted.                                      *)
LEMMA WorkerDonePreserves ==
  ASSUME IInv, NEW w \in Workers, Respond(w) \/ FailToRespond(w)
  PROVE  IInv'
<1> USE DEF clientVars, socketVars, loopVars, tableVars, bufferVars, workVars,
            boundVars
<1>1. /\ wpc[w] = "process" /\ task' = [task EXCEPT ![w] = NoTask]
      /\ wpc' = [wpc EXCEPT ![w] = "wake"] \/ wpc' = [wpc EXCEPT ![w] = "idle"]
      /\ \/ /\ Len(responses) < ResponseQueueSize
            /\ responses' = Append(responses, task[w])
            /\ UNCHANGED <<dropped, lostResponses>>
         \/ /\ responses' = responses
            /\ dropped' = dropped + 1 /\ lostResponses' = lostResponses
         \/ /\ responses' = responses /\ lostResponses < MaxLost
            /\ dropped' = dropped /\ lostResponses' = lostResponses + 1
      /\ UNCHANGED <<cstate, conn, expect, inbound, outbound, fin, rpc, selected, wakeup>>
      /\ UNCHANGED <<accepted, connected, rx, tx, out, pool, allocated, content>>
      /\ UNCHANGED <<requests, opened, sent, closes, acceptFailures>>
  BY DEF Respond, FailToRespond, Offered, DropIfFull
<1>2. task[w] # NoTask /\ task[w] \in Task
  BY <1>1 DEF IInv, WorkersSound, TypeOK
<1>3. /\ TasksDistinct' /\ responses' \in Seq(Task)
      /\ Len(responses') <= ResponseQueueSize
      /\ \/ /\ Tasks' = Tasks /\ UNCHANGED <<dropped, lostResponses>>
         \/ /\ Tasks' = Tasks \ {task[w]}
            /\ \/ dropped' = dropped + 1 /\ lostResponses' = lostResponses
               \/ /\ dropped' = dropped /\ lostResponses' = lostResponses + 1
                  /\ lostResponses < MaxLost
  <2>1. CASE /\ Len(responses) < ResponseQueueSize
             /\ responses' = Append(responses, task[w])
             /\ UNCHANGED <<dropped, lostResponses>>
    <3>1. TasksDistinct' /\ Tasks' = Tasks
      BY <1>1, <1>2, <2>1, TaskDone DEF IInv
    <3>2. /\ responses' \in Seq(Task) /\ Len(responses') = Len(responses) + 1
          /\ Len(responses) \in Nat
      BY <1>2, <2>1, Queued DEF IInv, TypeOK
    <3>3. Len(responses') <= ResponseQueueSize
      BY <2>1, <3>2, SizesAssumption
    <3> QED
      BY <2>1, <3>1, <3>2, <3>3
  <2>2. CASE responses' = responses
    <3>1. TasksDistinct' /\ Tasks' = Tasks \ {task[w]}
      BY <1>1, <1>2, <2>2, TaskDone DEF IInv
    <3>2. responses' # Append(responses, task[w])
      <4>1. /\ Len(Append(responses, task[w])) = Len(responses) + 1
            /\ Len(responses) \in Nat
        BY <1>2, Queued DEF IInv, TypeOK
      <4> QED
        BY <2>2, <4>1
    <3> QED
      BY <1>1, <2>2, <3>1, <3>2 DEF IInv, TypeOK
  <2> QED
    BY <1>1, <2>1, <2>2
<1>4. SupplyDistinct' /\ BuffersDistinct' /\ Free' = Free
  <2>1. Tasks' \subseteq Tasks
    BY <1>3
  <2> QED
    BY <1>1, <2>1, FewerTasks
<1>5. /\ dropped \in Nat /\ sent \in Nat /\ sent <= MaxRequests /\ MaxRequests \in Nat
      /\ lostResponses \in Nat /\ MaxLost \in Nat /\ lostResponses <= MaxLost
      /\ Cardinality(Unread) \in Nat /\ Len(requests) \in Nat
  BY SizesAssumption, Counts DEF IInv, TypeOK
<1>6. /\ dropped' \in Nat /\ dropped' <= dropped + 1
      /\ lostResponses' \in 0 .. MaxLost
  BY <1>3, <1>5
<1>7. Counted' /\ dropped' <= sent
  <2>1. Unread' = Unread /\ Processing' = Processing \ {w} /\ w \in Processing
    BY <1>1 DEF Unread, Processing, IInv, TypeOK
  <2>2. IsFiniteSet(Processing) /\ Cardinality(Processing) \in Nat
    BY Counts DEF IInv, Counted
  <2>3. /\ IsFiniteSet(Processing') /\ Cardinality(Processing') = Cardinality(Processing) - 1
    BY ONLY <2>1, <2>2, FS_RemoveElement
  <2>4. Cardinality(Processing') \in Nat
    BY ONLY <2>3, FS_CardinalityType
  <2>5. dropped + Cardinality(Unread) + Len(requests) + Cardinality(Processing) <= sent
    BY DEF IInv, Counted
  <2>6. /\ dropped' + Cardinality(Unread) + Len(requests) + Cardinality(Processing') <= sent
        /\ dropped' <= sent
    BY ONLY <1>5, <1>6, <2>2, <2>3, <2>4, <2>5
  <2> QED
    BY <1>1, <2>1, <2>3, <2>6 DEF IInv, Counted
<1>8. TypeOK'
  <2>1. /\ task' \in [Workers -> Task \cup {NoTask}]
        /\ wpc' \in [Workers -> {"idle", "process", "wake"}]
    BY <1>1 DEF IInv, TypeOK
  <2>2. dropped' \in 0 .. 2 * MaxRequests
    BY ONLY <1>5, <1>6, <1>7
  <2> QED
    BY <1>1, <1>3, <1>6, <2>1, <2>2 DEF IInv, TypeOK
<1>9. OneRequest' /\ OwnRequest' /\ ClientsSound' /\ ConnectedSound' /\ SelectedKeysUsable'
  <2>1. Tasks' \subseteq Tasks
    BY <1>3
  <2> QED
    BY <1>1, <2>1
       DEF IInv, OneRequest, OwnRequest, ClientsSound, ConnectedSound, SelectedKeysUsable
<1>10. WorkersSound'
  <2>1. /\ wpc'[w] # "process" /\ task'[w] = NoTask
        /\ \A v \in Workers : v # w => wpc'[v] = wpc[v] /\ task'[v] = task[v]
    BY <1>1 DEF IInv, TypeOK
  <2> QED
    BY <2>1 DEF IInv, WorkersSound
<1>11. FewLost'
  <2>1. Tasks' = Tasks => Lost' = Lost
    BY <1>1, <1>4 DEF Lost
  <2>2. Tasks' = Tasks \ {task[w]} => Lost' \subseteq Lost \cup {task[w].buf}
    BY <1>1, <1>4 DEF Lost
  <2>3. CASE Tasks' = Tasks /\ UNCHANGED <<dropped, lostResponses>>
    BY <2>1, <2>3, NoneLost DEF IInv
  <2>4. CASE Tasks' = Tasks \ {task[w]} /\ ~UNCHANGED <<dropped, lostResponses>>
    BY <1>3, <2>2, <2>4, OneLost DEF IInv
  <2>5. UNCHANGED <<dropped, lostResponses>> => Tasks' = Tasks
    BY <1>3, <1>5
  <2> QED
    BY <1>3, <2>3, <2>4, <2>5
<1> QED
  BY <1>3, <1>4, <1>7, <1>8, <1>9, <1>10, <1>11 DEF IInv

-----------------------------------------------------------------------------
(* The broker starts without connections, tasks or buffers.                *)
LEMMA InitInvariant == Init => IInv
<1> SUFFICES ASSUME Init PROVE IInv
  OBVIOUS
<1>1. /\ pool = <<>> /\ allocated = 0 /\ Len(pool) = 0
      /\ requests = <<>> /\ responses = <<>>
      /\ DOMAIN requests = {} /\ DOMAIN responses = {}
      /\ Len(requests) = 0 /\ Len(responses) = 0
  BY DEF Init
<1>2. \A i \in Slots : Slot(pool, allocated, i) = i
  BY <1>1 DEF Slot, Slots
<1>3. SupplyDistinct /\ Free = Slots
  BY <1>2 DEF SupplyDistinct, DistinctIn, Free, FreeIn
<1>4. Tasks = {} /\ TasksDistinct
  <2>1. \A p \in WorkPlaces : TaskAt[p] = NoTask
    BY <1>1 DEF Init, WorkPlaces, TaskAt
  <2> QED
    BY <2>1 DEF Tasks, TasksDistinct
<1>5. TypeOK
  <2>1. /\ requests \in Seq(Task) /\ responses \in Seq(Task) /\ pool \in Seq(Buffers)
    BY <1>1, EmptySeq
  <2>2. /\ Len(requests) <= RequestQueueSize /\ Len(responses) <= ResponseQueueSize
        /\ allocated \in 0 .. Cardinality(Buffers) /\ dropped \in 0 .. 2 * MaxRequests
        /\ opened \in 0 .. MaxConnections /\ sent \in 0 .. MaxRequests
        /\ closes \in 0 .. MaxCloses /\ lostResponses \in 0 .. MaxLost
        /\ acceptFailures \in 0 .. MaxAcceptFailures
        /\ accepted \in 0 .. opened /\ connected \subseteq 1 .. accepted
    BY <1>1, SizesAssumption, BufferCount DEF Init
  <2>3. /\ cstate \in [Clients -> {"away", "ready", "waiting"}]
        /\ conn \in [Clients -> MaybeHandles] /\ expect \in [Clients -> MaybeRequest]
        /\ inbound \in [Handles -> MaybeRequest] /\ outbound \in [Handles -> MaybeRequest]
        /\ fin \in [Handles -> BOOLEAN]
        /\ rpc \in {"select", "keys", "queue", "dead"} /\ wakeup \in BOOLEAN
        /\ selected \subseteq {AcceptKey} \cup UNION {KeysOf(h) : h \in Handles}
        /\ rx \in [Handles -> MaybeBuffers] /\ tx \in [Handles -> MaybeBuffers]
        /\ out \in [Handles -> {"none", "fresh", "partial"}]
        /\ content \in [Buffers -> MaybeRequest]
        /\ wpc \in [Workers -> {"idle", "process", "wake"}]
        /\ task \in [Workers -> Task \cup {NoTask}]
    BY DEF Init, MaybeHandles, MaybeRequest, MaybeBuffers
  <2> QED
    BY <2>1, <2>2, <2>3 DEF TypeOK
<1>6. BuffersDistinct
  <2>1. Null \notin Slots
    BY DEF Null, Slots
  <2> QED
    BY <1>3, <1>4, <2>1 DEF Init, BuffersDistinct
<1>7. OneRequest /\ OwnRequest /\ ConnectedSound /\ WorkersSound /\ SelectedKeysUsable
  BY <1>4 DEF Init, OneRequest, OwnRequest, ConnectedSound, WorkersSound,
              SelectedKeysUsable
<1>8. ClientsSound
  BY <1>4 DEF Init, ClientsSound, Null
<1>9. Counted
  <2>1. Unread = {} /\ Processing = {}
    BY DEF Init, Unread, Processing
  <2>2. IsFiniteSet(Processing) /\ Cardinality(Unread) = 0 /\ Cardinality(Processing) = 0
    BY <2>1, FS_EmptySet
  <2> QED
    BY <1>1, <2>2 DEF Init, Counted
<1>10. FewLost
  <2>1. \A b \in Buffers : b \in Slots
    BY SizesAssumption DEF Buffers, Slots
  <2>2. Lost = {}
    BY <1>3, <2>1 DEF Lost
  <2> QED
    BY <2>2, FS_EmptySet DEF Init, FewLost
<1> QED
  BY <1>3, <1>4, <1>5, <1>6, <1>7, <1>8, <1>9, <1>10 DEF IInv

(* No step of a client, of the reactor or of a worker breaks it.           *)
LEMMA NextInvariant == IInv /\ [Next]_vars => IInv'
<1> SUFFICES ASSUME IInv, [Next]_vars PROVE IInv'
  OBVIOUS
<1>1. CASE \E c \in Clients : Client(c)
  BY <1>1, ConnectPreserves, SendRequestPreserves, ReceiveResponsePreserves,
     CloseConnectionPreserves DEF Client
<1>2. CASE Reactor
  BY <1>2, LoopPreserves, SelectAcceptPreserves, SelectWritePreserves,
     SelectReadPreserves, SelectDisconnectPreserves, SetResponsePreserves,
     UnknownClientPreserves DEF Reactor
<1>3. CASE \E w \in Workers : Worker(w)
  BY <1>3, LoopPreserves, TakeTaskPreserves, WorkerDonePreserves DEF Worker
<1>4. CASE UNCHANGED vars
  <2>1. /\ UNCHANGED <<cstate, conn, expect, inbound, outbound, fin, rpc, selected, wakeup>>
        /\ UNCHANGED <<accepted, connected, rx, tx, out, pool, allocated, content>>
        /\ UNCHANGED <<requests, responses, wpc, task, dropped, opened, sent, closes,
                       lostResponses, acceptFailures>>
    BY <1>4 DEF vars, clientVars, socketVars, loopVars, tableVars, bufferVars,
                workVars, boundVars
  <2>2. /\ Free' = Free /\ Tasks' = Tasks /\ Lost' = Lost
        /\ SupplyDistinct' /\ TasksDistinct' /\ BuffersDistinct'
    BY <2>1, BuffersUnchanged DEF IInv
  <2>3. Counted' /\ FewLost'
    BY <2>1, <2>2, CountsUnchanged, NoneLost DEF IInv, Processing
  <2>4. TypeOK'
    BY <2>1 DEF IInv, TypeOK
  <2>5. OneRequest' /\ OwnRequest' /\ ClientsSound'
    BY <2>1, <2>2 DEF IInv, OneRequest, OwnRequest, ClientsSound
  <2>6. ConnectedSound' /\ WorkersSound' /\ SelectedKeysUsable'
    BY <2>1 DEF IInv, ConnectedSound, WorkersSound, SelectedKeysUsable
  <2> QED
    BY <2>2, <2>3, <2>4, <2>5, <2>6 DEF IInv
<1> QED
  BY <1>1, <1>2, <1>3, <1>4 DEF Next

-----------------------------------------------------------------------------
(* The inductive invariant holds of the reactor, the workers and the       *)
(* clients together, in whatever order their steps come.                   *)
THEOREM PipelineInvariant == Spec => []IInv
<1>1. Init => IInv
  BY InitInvariant
<1>2. IInv /\ [Next]_vars => IInv'
  BY NextInvariant
<1> QED
  BY <1>1, <1>2, PTL DEF Spec

(* Type correctness; no queue exceeds the capacity of its                  *)
(* ArrayBlockingQueue, and an allocation always finds a number.            *)
THEOREM PipelineTypeCorrect == Spec => []TypeOK
<1>1. IInv => TypeOK
  BY DEF IInv
<1> QED
  BY <1>1, PipelineInvariant, PTL

(* A key that select() returned is still usable when its turn comes,       *)
(* whatever the handlers of the keys before it did.                        *)
THEOREM PipelineKeysUsable == Spec => []SelectedKeysUsable
<1>1. IInv => SelectedKeysUsable
  BY DEF IInv
<1> QED
  BY <1>1, PipelineInvariant, PTL

(* No client ever receives the response to another one's request, or to    *)
(* one it has given up with its connection.                                *)
THEOREM PipelineAnswersOwnRequest == Spec => []AnswersOwnRequest
<1>1. IInv => AnswersOwnRequest
  BY DEF IInv, OwnRequest, AnswersOwnRequest
<1> QED
  BY <1>1, PipelineInvariant, PTL

(* What is found at each of the places that can refer to a buffer.         *)
LEMMA PlaceFacts ==
  ASSUME TypeOK, NEW p \in Places
  PROVE  \/ /\ p = <<"pool", p[2]>> /\ p[2] \in Slots /\ BufferAt(p) \in Free
            /\ BufferAt(p) = Slot(pool, allocated, p[2])
         \/ p = <<"rx", p[2]>> /\ p[2] \in Handles /\ BufferAt(p) = rx[p[2]]
         \/ p = <<"tx", p[2]>> /\ p[2] \in Handles /\ BufferAt(p) = tx[p[2]]
         \/ p \in WorkPlaces /\ BufferAt(p) = TaskAt[p].buf
<1>1. CASE p \in {"pool"} \X DOMAIN pool
  <2>1. p = <<"pool", p[2]>> /\ p[2] \in DOMAIN pool /\ BufferAt(p) = pool[p[2]]
    BY <1>1 DEF BufferAt
  <2>2. p[2] \in Slots /\ p[2] <= Len(pool)
    BY <2>1, LenProperties DEF TypeOK, Slots
  <2> QED
    BY <2>1, <2>2 DEF Free, FreeIn, Slot
<1>2. CASE p \in {"rx", "tx"} \X Handles
  BY <1>2 DEF BufferAt
<1>3. CASE p \in {"request"} \X DOMAIN requests
  BY <1>3 DEF BufferAt, WorkPlaces, TaskAt
<1>4. CASE p \in {"response"} \X DOMAIN responses
  BY <1>4 DEF BufferAt, WorkPlaces, TaskAt
<1>5. CASE p \in {"task"} \X Workers
  BY <1>5 DEF BufferAt, WorkPlaces, TaskAt
<1> QED
  BY <1>1, <1>2, <1>3, <1>4, <1>5 DEF Places

(* Two places never refer to the same buffer.                              *)
LEMMA OneOwner ==
  ASSUME IInv, NEW p \in Places, NEW q \in Places,
         BufferAt(p) = BufferAt(q), BufferAt(p) # Null
  PROVE  p = q
<1>1. \A x \in Places : x \in WorkPlaces /\ BufferAt(x) = TaskAt[x].buf
                          /\ BufferAt(x) # Null
                        => TaskAt[x] # NoTask /\ TaskAt[x] \in Tasks
  BY DEF Tasks, NoTask
<1>2. \A x \in Places : ~(x \in WorkPlaces /\ BufferAt(x) = TaskAt[x].buf)
                        => \A t \in Tasks : t.buf # BufferAt(x)
  <2> SUFFICES ASSUME NEW x \in Places, NEW t \in Tasks,
                      ~(x \in WorkPlaces /\ BufferAt(x) = TaskAt[x].buf)
               PROVE  t.buf # BufferAt(x)
    OBVIOUS
  <2>1. \/ BufferAt(x) \in Free
        \/ \E h \in Handles : BufferAt(x) = rx[h] \/ BufferAt(x) = tx[h]
    BY PlaceFacts DEF IInv
  <2> QED
    BY <2>1 DEF IInv, BuffersDistinct
<1>3. CASE p \in WorkPlaces /\ BufferAt(p) = TaskAt[p].buf
  <2>1. CASE q \in WorkPlaces /\ BufferAt(q) = TaskAt[q].buf
    <3>1. TaskAt[p] = TaskAt[q]
      BY <1>1, <1>3, <2>1 DEF IInv, BuffersDistinct
    <3> QED
      BY <1>1, <1>3, <2>1, <3>1 DEF IInv, TasksDistinct
  <2>2. CASE ~(q \in WorkPlaces /\ BufferAt(q) = TaskAt[q].buf)
    BY <1>1, <1>2, <1>3, <2>2
  <2> QED
    BY <2>1, <2>2
<1>4. CASE q \in WorkPlaces /\ BufferAt(q) = TaskAt[q].buf
  <2>1. CASE ~(p \in WorkPlaces /\ BufferAt(p) = TaskAt[p].buf)
    BY <1>1, <1>2, <1>4, <2>1
  <2> QED
    BY <1>3, <2>1
<1>5. CASE /\ ~(p \in WorkPlaces /\ BufferAt(p) = TaskAt[p].buf)
           /\ ~(q \in WorkPlaces /\ BufferAt(q) = TaskAt[q].buf)
  BY <1>5, PlaceFacts DEF IInv, BuffersDistinct, SupplyDistinct, DistinctIn
<1> QED
  BY <1>3, <1>4, <1>5

(* A buffer that no place refers to is not in the supply either.           *)
LEMMA LostBuffersLost ==
  ASSUME IInv
  PROVE  LostBuffers \subseteq Lost
<1> SUFFICES ASSUME NEW b \in 1 .. allocated, \A p \in Places : BufferAt(p) # b
             PROVE  b \in Lost
  BY DEF LostBuffers
<1>1. /\ allocated \in Nat /\ allocated <= Cardinality(Buffers)
      /\ Cardinality(Buffers) \in Nat /\ Buffers = 1 .. Cardinality(Buffers)
      /\ Len(pool) \in Nat /\ DOMAIN pool = 1 .. Len(pool)
  BY BufferCount, LenProperties DEF IInv, TypeOK
<1>2. b \in Buffers /\ b # Null
  BY <1>1 DEF Null
<1>3. \A i \in Slots : Slot(pool, allocated, i) # b
  <2> SUFFICES ASSUME NEW i \in Slots PROVE Slot(pool, allocated, i) # b
    OBVIOUS
  <2>1. CASE i <= Len(pool)
    <3>1. i \in DOMAIN pool
      BY <1>1, <2>1 DEF Slots
    <3>2. <<"pool", i>> \in Places /\ BufferAt(<<"pool", i>>) = pool[i]
      BY <3>1 DEF Places, BufferAt
    <3> QED
      BY <2>1, <3>2 DEF Slot
  <2>2. CASE ~(i <= Len(pool))
    BY <1>1, <2>2 DEF Slot, Slots
  <2> QED
    BY <2>1, <2>2
<1>4. \A h \in Handles : rx[h] # b /\ tx[h] # b
  <2>1. \A h \in Handles : /\ <<"rx", h>> \in Places /\ BufferAt(<<"rx", h>>) = rx[h]
                           /\ <<"tx", h>> \in Places /\ BufferAt(<<"tx", h>>) = tx[h]
    BY DEF Places, BufferAt
  <2> QED
    BY <2>1
<1>5. \A t \in Tasks : t.buf # b
  <2>1. \A p \in WorkPlaces : p \in Places /\ BufferAt(p) = TaskAt[p].buf
    BY DEF WorkPlaces, Places, BufferAt, TaskAt
  <2> QED
    BY <2>1 DEF Tasks
<1> QED
  BY <1>2, <1>3, <1>4, <1>5 DEF Lost, Free, FreeIn

(* A buffer has one owner at a time, and none is lost but with a task that *)
(* a full queue drops or that a worker fails to answer, whatever clients   *)
(* come and go meanwhile.                                                  *)
THEOREM PipelineBuffersAccountedFor == Spec => []BuffersAccountedFor
<1>1. IInv => BuffersAccountedFor
  <2> SUFFICES ASSUME IInv PROVE BuffersAccountedFor
    OBVIOUS
  <2>1. \A p, q \in Places :
          BufferAt(p) = BufferAt(q) /\ BufferAt(p) # Null => p = q
    BY OneOwner
  <2>2. /\ IsFiniteSet(Lost) /\ Cardinality(Lost) \in Nat
        /\ Cardinality(Lost) <= dropped + lostResponses
        /\ dropped \in Nat /\ lostResponses \in Nat
    BY Counts DEF IInv, FewLost, TypeOK
  <2>3. LostBuffers \subseteq Lost
    BY LostBuffersLost
  <2>4. /\ Cardinality(LostBuffers) <= Cardinality(Lost)
        /\ Cardinality(LostBuffers) \in Nat
    BY <2>2, <2>3, FS_Subset, FS_CardinalityType
  <2>5. Cardinality(LostBuffers) <= dropped + lostResponses
    BY ONLY <2>2, <2>4
  <2> QED
    BY <2>1, <2>5 DEF BuffersAccountedFor
<1> QED
  BY <1>1, PipelineInvariant, PTL

(* selectQueue() never replaces a response that is still being written:    *)
(* a connection has one request under way, so the response that is taken   *)
(* from the queue is the only one of its connection.                       *)
THEOREM PipelineNoTornResponse == Spec => NoTornResponse
<1> DEFINE Kept == \A h \in connected :
                     out[h] # "none" /\ out'[h] # "none" => tx'[h] = tx[h]
<1>1. IInv /\ [Next]_vars => [Kept]_vars
  <2> SUFFICES ASSUME IInv, Next PROVE Kept
    OBVIOUS
  <2> USE DEF clientVars, socketVars, loopVars, tableVars, bufferVars, workVars,
              boundVars
  <2>0. connected \subseteq Handles /\ accepted + 1 \notin connected
    BY SizesAssumption DEF IInv, TypeOK, Handles
  <2>1. CASE SetResponse
    <3> DEFINE t == Head(responses)
    <3>1. /\ t \in Tasks /\ t.handle \in connected
          /\ tx' = [tx EXCEPT ![t.handle] = t.buf]
          /\ out' = [out EXCEPT ![t.handle] = "fresh"]
      BY <2>1, ResponseTaken DEF SetResponse, IInv
    <3>2. out[t.handle] = "none"
      BY <2>0, <3>1 DEF IInv, OneRequest
    <3> HIDE DEF t
    <3> QED
      BY <2>0, <3>1, <3>2 DEF IInv, TypeOK
  <2>2. ASSUME NEW h \in Handles, SelectWrite(h) PROVE Kept
    BY <2>0, <2>2 DEF SelectWrite, WriteAll, WriteSome, IInv, TypeOK
  <2>3. ASSUME NEW h \in Handles, SelectDisconnect(h) PROVE Kept
    BY <2>0, <2>3 DEF SelectDisconnect, Disconnect, IInv, TypeOK
  <2>4. CASE SelectAccept
    BY <2>0, <2>4 DEF SelectAccept, IInv, TypeOK
  <2>5. ASSUME NEW h \in Handles, SelectRead(h) PROVE Kept
    BY <2>5 DEF SelectRead
  <2>6. CASE \/ Select \/ AcceptFails \/ KeysDone \/ QueueEmpty \/ UnknownClient
    BY <2>6 DEF Select, AcceptFails, KeysDone, QueueEmpty, UnknownClient
  <2>7. ASSUME NEW c \in Clients, Client(c) PROVE Kept
    BY <2>7 DEF Client, Connect, SendRequest, ReceiveResponse, CloseConnection
  <2>8. ASSUME NEW w \in Workers, Worker(w) PROVE Kept
    BY <2>8 DEF Worker, TakeTask, Respond, FailToRespond, WakeReactor
  <2> HIDE DEF Kept
  <2> QED
    BY <2>1, <2>2, <2>3, <2>4, <2>5, <2>6, <2>7, <2>8 DEF Next, Reactor
<1> QED
  BY <1>1, PipelineInvariant, PTL DEF Spec, NoTornResponse
=============================================================================
