----------------------- MODULE DbConnectionPoolProofs -----------------------
(***************************************************************************)
(* Theorems about DbConnectionPool, for any finite set of workers and any  *)
(* size of the pool.                                                       *)
(***************************************************************************)
EXTENDS DbConnectionPool, FiniteSetTheorems, SequenceTheorems, TLAPS

(* What adding a connection, and taking the first one, do to the queue.    *)
LEMMA Appended ==
  ASSUME NEW s \in Seq(Connections), NEW c \in Connections
  PROVE  /\ Append(s, c) \in Seq(Connections)
         /\ Len(Append(s, c)) = Len(s) + 1
         /\ DOMAIN Append(s, c) = DOMAIN s \cup {Len(s) + 1}
         /\ \A i \in DOMAIN s : Append(s, c)[i] = s[i]
         /\ Append(s, c)[Len(s) + 1] = c
BY AppendProperties

(* Taking the first element moves the others up by one.                    *)
LEMMA Taken ==
  ASSUME NEW s \in Seq(Connections), s # <<>>
  PROVE  /\ Head(s) \in Connections /\ Tail(s) \in Seq(Connections)
         /\ Len(Tail(s)) = Len(s) - 1
         /\ 1 \in DOMAIN s /\ Head(s) = s[1]
         /\ \A i \in DOMAIN Tail(s) : i + 1 \in DOMAIN s /\ i + 1 # 1
                                        /\ Tail(s)[i] = s[i + 1]
BY HeadTailProperties

(* One worker more, or less, holds a connection.                           *)
LEMMA Borrowed ==
  ASSUME TypeOK, NEW w \in Workers, conn[w] = None, NEW c \in Connections,
         conn' = [conn EXCEPT ![w] = c]
  PROVE  Cardinality(Borrowers)' = Cardinality(Borrowers) + 1
<1>1. Borrowers' = Borrowers \cup {w} /\ w \notin Borrowers
  BY DEF TypeOK, Borrowers, Connections, None
<1>2. IsFiniteSet(Borrowers)
  BY PoolAssumption, FS_Subset DEF Borrowers
<1> QED
  BY <1>1, <1>2, FS_AddElement

(* One worker fewer holds a connection.                                    *)
LEMMA Released ==
  ASSUME TypeOK, NEW w \in Workers, conn[w] # None,
         conn' = [conn EXCEPT ![w] = None]
  PROVE  /\ Cardinality(Borrowers)' = Cardinality(Borrowers) - 1
         /\ Cardinality(Borrowers) \in Nat /\ Cardinality(Borrowers) # 0
<1>1. Borrowers' = Borrowers \ {w} /\ w \in Borrowers
  BY DEF TypeOK, Borrowers
<1>2. IsFiniteSet(Borrowers)
  BY PoolAssumption, FS_Subset DEF Borrowers
<1> QED
  BY <1>1, <1>2, FS_RemoveElement, FS_EmptySet, FS_CardinalityType

(* The empty pool satisfies the invariant.                                 *)
LEMMA InitIInv == Init => IInv
<1> SUFFICES ASSUME Init PROVE IInv
  OBVIOUS
<1>1. TypeOK
  BY EmptySeq DEF Init, TypeOK, Connections
<1>2. BorrowsToUse /\ OnlyCreated /\ ClosedIsGone /\ ExclusiveUse
  BY PoolAssumption DEF Init, BorrowsToUse, OnlyCreated, ClosedIsGone, ExclusiveUse,
     Borrowers, Started, None
<1>3. SlotsConserved
  BY DEF Init, SlotsConserved, Started
<1> QED
  BY <1>1, <1>2, <1>3 DEF IInv

-----------------------------------------------------------------------------
(* Whatever a step does to the state that the invariant relates, it does   *)
(* in one of six ways.                                                     *)
Fills ==
  /\ phase = "init" /\ Len(idle) < PoolSize /\ Create /\ Add(created + 1)
  /\ UNCHANGED <<phase, conn, wpc, closed, shut, visit, lost, refusals>>

Takes(w) ==
  /\ wpc[w] = "wait" /\ idle # <<>>
  /\ conn' = [conn EXCEPT ![w] = Head(idle)]
  /\ idle' = Tail(idle)
  /\ wpc'  = [wpc EXCEPT ![w] = "use"]
  /\ UNCHANGED <<phase, closed, shut, visit, created, lost, refusals>>

Puts(w) ==
  /\ Returned(w) /\ LooksOpen(w) /\ Add(conn[w]) /\ MaySee(conn[w])
  /\ UNCHANGED <<phase, closed, shut, created, lost, refusals>>

Renews(w) ==
  /\ Returned(w) /\ Create /\ Add(created + 1) /\ MaySee(created + 1)
  /\ UNCHANGED <<phase, closed, shut, lost, refusals>>

Loses(w) ==
  /\ Returned(w) /\ lost' = lost + 1 /\ refusals' = refusals + 1
  /\ UNCHANGED <<phase, idle, closed, shut, visit, created>>

(* The steps that move no connection: a worker gets on with its request,   *)
(* or the broker with its start or stop.                                   *)
Works(w) ==
  /\ \/ /\ Started /\ wpc[w] = "idle" /\ UNCHANGED closed
        /\ wpc' = [wpc EXCEPT ![w] = "wait"]
     \/ /\ wpc[w] = "wait" /\ UNCHANGED closed
        /\ wpc' = [wpc EXCEPT ![w] = "idle"]
     \/ /\ wpc[w] = "use" /\ closed' \in {closed, closed \cup {conn[w]}}
        /\ wpc' = [wpc EXCEPT ![w] = "return"]
     \/ /\ Started /\ wpc[w] = "idle" /\ UNCHANGED closed
        /\ wpc' = [wpc EXCEPT ![w] = "stopped"]
  /\ UNCHANGED <<phase, idle, conn, shut, visit, created, lost, refusals>>

Turns ==
  /\ \/ phase = "init" /\ phase' = "running" /\ Len(idle) = PoolSize
        /\ UNCHANGED <<visit, shut, refusals>>
     \/ phase = "init" /\ phase' = "failed" /\ refusals' = refusals + 1
        /\ UNCHANGED <<visit, shut>>
     \/ phase = "running" /\ phase' = "stopping"
        /\ UNCHANGED <<visit, shut, refusals>>
     \/ phase = "stopping" /\ phase' = "closing"
        /\ visit' = {idle[i] : i \in DOMAIN idle} /\ UNCHANGED <<shut, refusals>>
     \/ phase = "closing" /\ phase' = "closing"
        /\ visit' \subseteq visit /\ shut' \subseteq shut \cup visit
        /\ UNCHANGED refusals
     \/ phase = "closing" /\ phase' = "closed"
        /\ UNCHANGED <<visit, shut, refusals>>
     \/ UNCHANGED <<phase, visit, shut, refusals>>
  /\ UNCHANGED <<idle, conn, wpc, closed, created, lost>>

Effect == \/ Fills \/ Turns
          \/ \E w \in Workers : \/ Takes(w) \/ Puts(w) \/ Renews(w) \/ Loses(w)
                                \/ Works(w)

(* Every step has one of the effects above on queue, workers and counters. *)
LEMMA StepEffect ==
  ASSUME IInv, [Next]_vars
  PROVE  Effect
<1> USE DEF workerVars, stopVars, boundVars
<1>0. told # {} => Started
  BY DEF IInv, BorrowsToUse
<1>1. CASE Start
  BY <1>1 DEF Start, FillPool, StartWorkers, InitFails, Refuse, Effect, Fills, Turns
<1>2. CASE Stop
  BY <1>2 DEF Stop, Shutdown, CloseBegin, CloseConnection, CloseEnd, Effect, Turns
<1>3. ASSUME NEW w \in Workers, Process(w) \/ TellWorker(w) \/ StopWorker(w)
      PROVE  Effect
  BY <1>0, <1>3 DEF Process, TellWorker, StopWorker, Effect, Works, Turns, Started
<1>4. ASSUME NEW w \in Workers, Handle(w)
      PROVE  Effect
  <2>1. CASE GetConnection(w)
    BY <2>1 DEF GetConnection, Effect, Takes
  <2>2. CASE GetInterrupted(w) \/ Succeed(w) \/ SqlFails(w)
    BY <2>2 DEF GetInterrupted, Succeed, SqlFails, Effect, Works
  <2>3. CASE GiveBack(w)
    BY <2>3 DEF GiveBack, Effect, Puts
  <2>4. CASE Replace(w)
    BY <2>4 DEF Replace, Effect, Renews
  <2>5. CASE ReplaceFails(w)
    BY <2>5 DEF ReplaceFails, Refuse, Effect, Loses
  <2> QED
    BY <1>4, <2>1, <2>2, <2>3, <2>4, <2>5 DEF Handle
<1>5. CASE UNCHANGED vars
  BY <1>5 DEF vars, Effect, Turns
<1> QED
  BY <1>1, <1>2, <1>3, <1>4, <1>5 DEF Next

-----------------------------------------------------------------------------
(* Every step keeps the types.                                             *)
LEMMA TypeStep ==
  ASSUME IInv, [Next]_vars
  PROVE  TypeOK'
<1>0. TypeOK
  BY DEF IInv
<1> USE <1>0 DEF TypeOK, workerVars, stopVars, boundVars, Add, Create
<1>1. CASE Start
  <2>1. created + 1 \in Connections
    BY DEF Connections
  <2>2. CASE FillPool
    BY <2>1, <2>2, Appended DEF FillPool
  <2>3. CASE StartWorkers \/ InitFails
    BY <2>3 DEF StartWorkers, InitFails, Refuse
  <2> QED
    BY <1>1, <2>2, <2>3 DEF Start
<1>2. CASE Stop
  <2>1. {idle[i] : i \in DOMAIN idle} \subseteq Connections
    BY ElementOfSeq, LenProperties
  <2> QED
    BY <1>2, <2>1, PoolAssumption DEF Stop, Shutdown, CloseBegin,
       CloseConnection, CloseEnd
<1>3. ASSUME NEW w \in Workers, Process(w) \/ TellWorker(w) \/ StopWorker(w)
      PROVE  TypeOK'
  BY <1>3 DEF Process, TellWorker, StopWorker
<1>4. ASSUME NEW w \in Workers, Handle(w)
      PROVE  TypeOK'
  <2>1. CASE GetConnection(w)
    BY <2>1, Taken DEF GetConnection
  <2>2. CASE GetInterrupted(w) \/ Succeed(w)
    BY <2>2 DEF GetInterrupted, Succeed
  <2>3. CASE SqlFails(w)
    BY <2>3 DEF SqlFails, IInv, BorrowsToUse
  <2>4. CASE GiveBack(w)
    <3>1. conn[w] \in Connections
      BY <2>4 DEF GiveBack, Returned, IInv, BorrowsToUse
    <3> QED
      BY <2>4, <3>1, Appended DEF GiveBack, Returned, MaySee
  <2>5. CASE Replace(w)
    <3>1. created + 1 \in Connections
      BY DEF Connections
    <3> QED
      BY <2>5, <3>1, Appended DEF Replace, Returned, MaySee
  <2>6. CASE ReplaceFails(w)
    BY <2>6 DEF ReplaceFails, Refuse, Returned
  <2> QED
    BY <1>4, <2>1, <2>2, <2>3, <2>4, <2>5, <2>6 DEF Handle
<1>5. CASE UNCHANGED vars
  BY <1>5 DEF vars
<1> QED
  BY <1>1, <1>2, <1>3, <1>4, <1>5 DEF Next

(* The connection c is added to the queue.                                 *)
Joins(c) ==
  /\ c \in Connections
  /\ Len(idle') = Len(idle) + 1
  /\ DOMAIN idle' = DOMAIN idle \cup {Len(idle) + 1}
  /\ \A i \in DOMAIN idle : idle'[i] = idle[i]
  /\ idle'[Len(idle) + 1] = c

(* A connection that is given back joins the end of the queue.             *)
LEMMA GoesBack ==
  ASSUME IInv, NEW w \in Workers, Puts(w)
  PROVE  Joins(conn[w])
<1>1. conn[w] \in Connections /\ idle \in Seq(Connections)
  BY DEF IInv, TypeOK, BorrowsToUse, Puts, Returned
<1>2. idle' = Append(idle, conn[w])
  BY DEF Puts, Add
<1> QED
  BY <1>1, <1>2, Appended DEF Joins

(* A connection that was just created joins the end of the queue.          *)
LEMMA NewGoesIn ==
  ASSUME IInv, Fills \/ \E w \in Workers : Renews(w)
  PROVE  created' = created + 1 /\ Joins(created + 1)
<1>1. created + 1 \in Connections /\ idle \in Seq(Connections)
  BY DEF IInv, TypeOK, Connections
<1>2. idle' = Append(idle, created + 1) /\ created' = created + 1
  BY DEF Fills, Renews, Create, Add
<1> QED
  BY <1>1, <1>2, Appended DEF Joins

(* A worker holds a connection exactly while it uses or returns one.       *)
LEMMA BorrowsStep ==
  ASSUME IInv, [Next]_vars
  PROVE  BorrowsToUse'
<1>0. TypeOK /\ BorrowsToUse /\ Effect /\ TypeOK'
  BY StepEffect, TypeStep DEF IInv
<1> USE DEF BorrowsToUse, TypeOK, Started
<1>1. told' # {} => Started'
  BY <1>0 DEF Next, vars, Start, FillPool, StartWorkers, InitFails, Stop,
     Shutdown, CloseBegin, CloseConnection, CloseEnd, Process, TellWorker,
     StopWorker, Handle, GetConnection, GetInterrupted, Succeed, SqlFails,
     GiveBack, Replace, ReplaceFails, workerVars, stopVars
<1>2. CASE Fills
  <2>1. Len(idle') = Len(idle) + 1 /\ Len(idle) \in Nat
    BY <1>2, NewGoesIn DEF Joins
  <2>2. Len(idle') <= PoolSize
    BY <1>2, <2>1, PoolAssumption DEF Fills
  <2> QED
    BY <1>0, <1>1, <1>2, <2>2 DEF Fills
<1>3. CASE Turns
  BY <1>0, <1>1, <1>3 DEF Turns
<1>4. ASSUME NEW w \in Workers, Takes(w)
      PROVE  BorrowsToUse'
  <2>1. Head(idle) # None
    BY <1>0, <1>4, Taken DEF Takes, Connections, None
  <2> QED
    BY <1>0, <1>1, <1>4, <2>1 DEF Takes
<1>5. ASSUME NEW w \in Workers, Puts(w) \/ Renews(w) \/ Loses(w)
      PROVE  BorrowsToUse'
  BY <1>0, <1>1, <1>5 DEF Puts, Renews, Loses, Returned
<1>6. ASSUME NEW w \in Workers, Works(w)
      PROVE  BorrowsToUse'
  BY <1>0, <1>1, <1>6 DEF Works
<1> QED
  BY <1>0, <1>2, <1>3, <1>4, <1>5, <1>6 DEF Effect

(* What a worker is handed was the first of the queue.                     *)
LEMMA FirstIsTaken ==
  ASSUME IInv, NEW w \in Workers, Takes(w)
  PROVE  /\ 1 \in DOMAIN idle /\ idle[1] \in Connections
         /\ conn' = [conn EXCEPT ![w] = idle[1]]
         /\ Len(idle') = Len(idle) - 1
         /\ \A i \in DOMAIN idle' : /\ i + 1 \in DOMAIN idle /\ i + 1 # 1
                                    /\ idle'[i] = idle[i + 1]
<1>1. idle \in Seq(Connections) /\ idle # <<>>
  BY DEF IInv, TypeOK, Takes
<1> HIDE DEF Connections
<1> QED
  BY <1>1, Taken DEF Takes

(* Connections in use or idle have been created.                           *)
LEMMA OnlyCreatedStep ==
  ASSUME IInv, [Next]_vars
  PROVE  OnlyCreated'
<1>0. TypeOK /\ OnlyCreated /\ Effect /\ TypeOK'
  BY StepEffect, TypeStep DEF IInv
<1> USE DEF OnlyCreated, TypeOK
<1>1. \A i \in DOMAIN idle : idle[i] \in Connections
  BY <1>0, ElementOfSeq, LenProperties
<1>2. ASSUME Fills \/ \E w \in Workers : Renews(w)
      PROVE  OnlyCreated'
  <2>1. \A i \in DOMAIN idle' : idle'[i] <= created'
    <3>1. /\ DOMAIN idle' = DOMAIN idle \cup {Len(idle) + 1}
          /\ \A i \in DOMAIN idle : idle'[i] = idle[i]
          /\ idle'[Len(idle) + 1] = created + 1 /\ created' = created + 1
      BY <1>2, NewGoesIn DEF Joins
    <3> QED
      BY <1>0, <1>1, <3>1 DEF Connections
  <2>2. visit' \subseteq visit \cup {created'} /\ closed' = closed /\ shut' = shut
        /\ created' = created + 1
        /\ \A w \in Workers : conn'[w] \in {conn[w], None}
    BY <1>0, <1>2 DEF Fills, Renews, Create, MaySee, Returned
  <2>3. \A w \in Workers : conn'[w] <= created'
    BY <1>0, <2>2 DEF Connections, None
  <2> QED
    BY <1>0, <2>1, <2>2, <2>3 DEF Connections
<1>3. CASE Turns
  BY <1>0, <1>3 DEF Turns
<1>4. ASSUME NEW w \in Workers, Takes(w)
      PROVE  OnlyCreated'
  BY <1>0, <1>4, FirstIsTaken DEF Takes
<1>5. ASSUME NEW w \in Workers, Puts(w)
      PROVE  OnlyCreated'
  <2>1. \A i \in DOMAIN idle' : idle'[i] <= created
    BY <1>0, <1>5, GoesBack DEF Joins
  <2>2. \A v \in Workers : conn'[v] \in {conn[v], None}
    BY <1>0, <1>5 DEF Puts, Returned
  <2>3. visit' \subseteq visit \cup {conn[w]} /\ created' = created
        /\ closed' = closed /\ shut' = shut
    BY <1>5 DEF Puts, MaySee
  <2>4. \A v \in Workers : conn'[v] <= created
    BY <1>0, <2>2 DEF None
  <2> QED
    BY <1>0, <2>1, <2>3, <2>4
<1>6. ASSUME NEW w \in Workers, Loses(w)
      PROVE  OnlyCreated'
  BY <1>0, <1>6 DEF Loses, Returned, None
<1>7. ASSUME NEW w \in Workers, Works(w)
      PROVE  OnlyCreated'
  BY <1>0, <1>7 DEF Works
<1> QED
  BY <1>0, <1>2, <1>3, <1>4, <1>5, <1>6, <1>7 DEF Effect

(* Connections closed by a failure are with the worker that saw it, or gone. *)
LEMMA ClosedIsGoneStep ==
  ASSUME IInv, [Next]_vars
  PROVE  ClosedIsGone'
<1>0. TypeOK /\ OnlyCreated /\ ClosedIsGone /\ ExclusiveUse /\ Effect /\ TypeOK'
  BY StepEffect, TypeStep DEF IInv
<1> USE DEF ClosedIsGone, TypeOK
<1>2. ASSUME Fills \/ \E w \in Workers : Renews(w)
      PROVE  ClosedIsGone'
  <2>1. created + 1 \notin closed
    BY <1>0 DEF OnlyCreated, Connections
  <2>2. closed' = closed /\ shut' = shut /\ phase' = phase
        /\ \A w \in Workers : wpc'[w] = "use" => wpc[w] = "use" /\ conn'[w] = conn[w]
    BY <1>0, <1>2 DEF Fills, Renews, Returned
  <2> QED
    <3>1. /\ DOMAIN idle' = DOMAIN idle \cup {Len(idle) + 1}
          /\ \A i \in DOMAIN idle : idle'[i] = idle[i]
          /\ idle'[Len(idle) + 1] = created + 1
      BY <1>2, NewGoesIn DEF Joins
    <3> QED
      BY <1>0, <2>1, <2>2, <3>1
<1>3. CASE Turns
  BY <1>0, <1>3 DEF Turns
<1>4. ASSUME NEW w \in Workers, Takes(w)
      PROVE  ClosedIsGone'
  BY <1>0, <1>4, FirstIsTaken DEF Takes
<1>5. ASSUME NEW w \in Workers, Puts(w)
      PROVE  ClosedIsGone'
  BY <1>0, <1>5, GoesBack DEF Joins, Puts, Returned, LooksOpen
<1>6. ASSUME NEW w \in Workers, Loses(w)
      PROVE  ClosedIsGone'
  BY <1>0, <1>6 DEF Loses, Returned
<1>7. ASSUME NEW w \in Workers, Works(w)
      PROVE  ClosedIsGone'
  <2>1. CASE closed' = closed
    BY <1>0, <1>7, <2>1 DEF Works
  <2>2. CASE /\ wpc[w] = "use" /\ closed' = closed \cup {conn[w]}
             /\ wpc' = [wpc EXCEPT ![w] = "return"]
    <3>1. w \in Borrowers
      BY <2>2 DEF IInv, BorrowsToUse, Borrowers
    <3>2. \A v \in Workers : wpc[v] = "use" => v \in Borrowers
      BY DEF IInv, BorrowsToUse, Borrowers
    <3> QED
      BY <1>0, <1>7, <2>2, <3>1, <3>2 DEF Works, ExclusiveUse
  <2> QED
    BY <1>7, <2>1, <2>2 DEF Works
<1> QED
  BY <1>0, <1>2, <1>3, <1>4, <1>5, <1>6, <1>7 DEF Effect

(* No step puts a connection in two places.                                *)
LEMMA ExclusiveStep ==
  ASSUME IInv, [Next]_vars
  PROVE  ExclusiveUse'
<1>0. TypeOK /\ OnlyCreated /\ ExclusiveUse /\ Effect /\ TypeOK'
  BY StepEffect, TypeStep DEF IInv
<1> USE DEF ExclusiveUse, TypeOK, Borrowers
<1>1. \A i \in DOMAIN idle : idle[i] \in Connections
  BY <1>0, ElementOfSeq, LenProperties
<1>2. ASSUME Fills \/ \E w \in Workers : Renews(w)
      PROVE  ExclusiveUse'
  <2>1. /\ \A i \in DOMAIN idle : idle[i] # created + 1
        /\ \A w \in Workers : conn[w] # created + 1
        /\ created + 1 # None
    BY <1>0, <1>1 DEF OnlyCreated, Connections, None
  <2>2. \A w \in Workers : conn'[w] \in {conn[w], None}
    BY <1>0, <1>2 DEF Fills, Renews, Returned
  <2>3. \A i \in DOMAIN idle : idle[i] # None
    BY <1>1 DEF Connections, None
  <2>4. /\ DOMAIN idle' = DOMAIN idle \cup {Len(idle) + 1}
        /\ \A i \in DOMAIN idle : idle'[i] = idle[i]
        /\ idle'[Len(idle) + 1] = created + 1
    BY <1>2, NewGoesIn DEF Joins
  <2>5. \A i \in DOMAIN idle', w \in Workers : idle'[i] # conn'[w]
    BY <1>0, <2>1, <2>2, <2>3, <2>4
  <2>6. \A i, j \in DOMAIN idle' : idle'[i] = idle'[j] => i = j
    BY <1>0, <2>1, <2>4
  <2> QED
    BY <1>0, <2>2, <2>5, <2>6
<1>3. CASE Turns
  BY <1>0, <1>3 DEF Turns
<1>4. ASSUME NEW w \in Workers, Takes(w)
      PROVE  ExclusiveUse'
  <2>1. conn' = [conn EXCEPT ![w] = idle[1]] /\ 1 \in DOMAIN idle
        /\ \A i \in DOMAIN idle' : /\ i + 1 \in DOMAIN idle /\ i + 1 # 1
                                   /\ idle'[i] = idle[i + 1]
    BY <1>4, FirstIsTaken
  <2>2. \A v \in Workers : v # w => conn'[v] = conn[v] /\ conn'[v] # idle[1]
    BY <1>0, <2>1
  <2>3. \A i \in DOMAIN idle', v \in Workers : idle'[i] # conn'[v]
    BY <1>0, <2>1, <2>2
  <2>4. \A i, j \in DOMAIN idle' : idle'[i] = idle'[j] => i = j
    <3>1. DOMAIN idle' \subseteq Nat
      BY <1>0, LenProperties
    <3>2. \A i, j \in DOMAIN idle : idle[i] = idle[j] => i = j
      BY <1>0
    <3>3. \A i, j \in DOMAIN idle' : idle'[i] = idle'[j] => i + 1 = j + 1
      BY ONLY <2>1, <3>2
    <3>4. \A i, j \in Nat : i + 1 = j + 1 => i = j
      OBVIOUS
    <3> QED
      BY ONLY <3>1, <3>3, <3>4
  <2> QED
    BY <1>0, <2>1, <2>2, <2>3, <2>4
<1>5. ASSUME NEW w \in Workers, Puts(w)
      PROVE  ExclusiveUse'
  <2>1. conn' = [conn EXCEPT ![w] = None] /\ w \in Borrowers
    BY <1>5 DEF Puts, Returned, IInv, BorrowsToUse
  <2>2. /\ DOMAIN idle' = DOMAIN idle \cup {Len(idle) + 1}
        /\ \A i \in DOMAIN idle : idle'[i] = idle[i]
        /\ idle'[Len(idle) + 1] = conn[w]
    BY <1>5, GoesBack DEF Joins
  <2>3. \A i \in DOMAIN idle : idle[i] # None
    BY <1>1 DEF Connections, None
  <2>4. \A i \in DOMAIN idle', v \in Workers : idle'[i] # conn'[v]
    BY <1>0, <2>1, <2>2, <2>3
  <2> QED
    BY <1>0, <2>1, <2>2, <2>4
<1>6. ASSUME NEW w \in Workers, Loses(w)
      PROVE  ExclusiveUse'
  <2>1. \A i \in DOMAIN idle : idle[i] # None
    BY <1>1 DEF Connections, None
  <2> QED
    BY <1>0, <1>6, <2>1 DEF Loses, Returned
<1>7. ASSUME NEW w \in Workers, Works(w)
      PROVE  ExclusiveUse'
  BY <1>0, <1>7 DEF Works
<1> QED
  BY <1>0, <1>2, <1>3, <1>4, <1>5, <1>6, <1>7 DEF Effect

(* Every step keeps the sum of idle, borrowed and lost connections.        *)
LEMMA SlotsStep ==
  ASSUME IInv, [Next]_vars
  PROVE  SlotsConserved'
<1>0. TypeOK /\ SlotsConserved /\ BorrowsToUse /\ Effect /\ TypeOK'
  BY StepEffect, TypeStep DEF IInv
<1>1. Len(idle) \in Nat /\ Len(idle') \in Nat /\ lost \in Nat /\ refusals \in Nat
  BY <1>0, LenProperties DEF TypeOK
<1>2. Cardinality(Borrowers) \in Nat
  BY PoolAssumption, FS_Subset, FS_CardinalityType DEF Borrowers
<1>3. CASE Fills
  BY <1>3 DEF Fills, SlotsConserved, Started
<1>4. CASE Turns
  <2>1. Borrowers' = Borrowers /\ idle' = idle /\ lost' = lost /\ refusals' >= refusals
    BY <1>1, <1>4 DEF Turns, Borrowers
  <2>2. CASE Started
    BY <1>0, <1>1, <1>4, <2>1, <2>2 DEF SlotsConserved, Turns, Started
  <2>3. CASE ~Started /\ Started'
    <3>1. Len(idle) = PoolSize /\ lost = 0
      BY <1>0, <1>4, <2>3 DEF Turns, Started, BorrowsToUse
    <3>2. Borrowers = {}
      BY <1>0, <2>3 DEF BorrowsToUse, Borrowers
    <3>3. Cardinality(Borrowers)' = 0
      BY <2>1, <3>2, FS_EmptySet
    <3>4. Len(idle') = PoolSize /\ lost' = 0 /\ lost' <= refusals'
      BY <1>0, <2>1, <3>1 DEF TypeOK
    <3> QED
      BY <3>3, <3>4, PoolAssumption DEF SlotsConserved
  <2> QED
    BY <2>2, <2>3 DEF SlotsConserved
<1>5. ASSUME NEW w \in Workers, Takes(w)
      PROVE  SlotsConserved'
  <2>1. conn[w] = None
    BY <1>0, <1>5 DEF Takes, BorrowsToUse
  <2>2. Cardinality(Borrowers)' = Cardinality(Borrowers) + 1
    BY <1>0, <1>5, <2>1, FirstIsTaken, Borrowed
  <2>3. Len(idle') = Len(idle) - 1
    BY <1>5, FirstIsTaken
  <2>4. lost' = lost /\ refusals' = refusals /\ Started' = Started
    BY <1>5 DEF Takes, Started
  <2> QED
    BY <1>0, <1>1, <1>2, <2>2, <2>3, <2>4 DEF SlotsConserved
<1>6. ASSUME NEW w \in Workers, Returned(w)
      PROVE  /\ Cardinality(Borrowers)' = Cardinality(Borrowers) - 1
             /\ Started
  <2>1. conn[w] # None /\ conn' = [conn EXCEPT ![w] = None]
    BY <1>0, <1>6 DEF Returned, BorrowsToUse
  <2>2. Started
    BY <1>0, <1>6 DEF Returned, BorrowsToUse
  <2> QED
    BY <1>0, <2>1, <2>2, Released
<1>7. ASSUME NEW w \in Workers, Puts(w) \/ Renews(w)
      PROVE  SlotsConserved'
  <2>1. Len(idle') = Len(idle) + 1
    BY <1>7, GoesBack, NewGoesIn DEF Joins
  <2>2. Returned(w) /\ lost' = lost /\ refusals' = refusals /\ Started' = Started
    BY <1>7 DEF Puts, Renews, Started
  <2> QED
    BY <1>0, <1>1, <1>2, <1>6, <2>1, <2>2 DEF SlotsConserved
<1>8. ASSUME NEW w \in Workers, Loses(w)
      PROVE  SlotsConserved'
  <2>1. Returned(w) /\ idle' = idle /\ lost' = lost + 1 /\ refusals' = refusals + 1
        /\ Started' = Started
    BY <1>8 DEF Loses, Started
  <2> QED
    BY <1>0, <1>1, <1>2, <1>6, <2>1 DEF SlotsConserved
<1>9. ASSUME NEW w \in Workers, Works(w)
      PROVE  SlotsConserved'
  BY <1>0, <1>9 DEF Works, SlotsConserved, Started, Borrowers
<1> QED
  BY <1>0, <1>3, <1>4, <1>5, <1>7, <1>8, <1>9 DEF Effect

-----------------------------------------------------------------------------
(* The invariant is inductive.                                             *)
LEMMA NextIInv == IInv /\ [Next]_vars => IInv'
BY TypeStep, BorrowsStep, OnlyCreatedStep, ClosedIsGoneStep, ExclusiveStep,
   SlotsStep DEF IInv

(* The invariant holds in every reachable state.                           *)
LEMMA Invariance == Spec => []IInv
BY InitIInv, NextIInv, PTL DEF Spec

(* The variables of the pool stay within their types.                      *)
THEOREM PoolTypes == Spec => []TypeOK
<1>1. IInv => TypeOK
  BY DEF IInv
<1> QED
  BY <1>1, Invariance, PTL

(* No slot of the pool is ever duplicated or forgotten: connections in the *)
(* pool, with workers and lost to refusals always add up to its size.      *)
THEOREM SlotsAddUp == Spec => []SlotsConserved
<1>1. IInv => SlotsConserved
  BY DEF IInv
<1> QED
  BY <1>1, Invariance, PTL

(* A connection is never with two workers, nor with one and in the pool.   *)
THEOREM NeverShared == Spec => []ExclusiveUse
<1>1. IInv => ExclusiveUse
  BY DEF IInv
<1> QED
  BY <1>1, Invariance, PTL

(* Giving a connection back never overfills the pool.                      *)
THEOREM NeverOverfull == Spec => []RoomToReturn
<1>1. IInv => RoomToReturn
  <2> SUFFICES ASSUME IInv, NEW w \in Borrowers PROVE Len(idle) < PoolSize
    BY DEF RoomToReturn
  <2>1. /\ Started
        /\ Len(idle) + Cardinality(Borrowers) + lost = PoolSize
    BY DEF IInv, BorrowsToUse, SlotsConserved, Borrowers
  <2>2. Cardinality(Borrowers) \in Nat /\ Cardinality(Borrowers) # 0
    BY PoolAssumption, FS_Subset, FS_CardinalityType, FS_EmptySet DEF Borrowers
  <2>3. Len(idle) \in Nat /\ lost \in Nat
    BY LenProperties DEF IInv, TypeOK
  <2> QED
    BY <2>1, <2>2, <2>3
<1> QED
  BY <1>1, Invariance, PTL

(* While the broker runs, no worker is handed a closed connection.         *)
THEOREM OnlyOpenOnes == Spec => []HandsOutOpen
<1>1. IInv => HandsOutOpen
  BY DEF IInv, ClosedIsGone, HandsOutOpen
<1> QED
  BY <1>1, Invariance, PTL
=============================================================================
