----------------------- MODULE ClientScenariosProofs -----------------------
(***************************************************************************)
(* Theorems about ClientScenarios, for any set of mappings, any number of  *)
(* timeouts and exceptions, and however far clients count.                 *)
(*                                                                         *)
(* What the broker does for a client is said by two lemmas about a queue,  *)
(* which gains a message and one copy of it, or loses one.  From these     *)
(* follows what each step does to the one-way messages, to the             *)
(* conversations and to the types, one lemma per kind of step and part of  *)
(* the invariant.                                                          *)
(***************************************************************************)
EXTENDS ClientScenarios, SequenceTheorems, TLAPS

(* Requests as clients make them; one that waits in late is one of these.  *)
Inserts  == [op : {"insert"}, to : Clients, asks : BOOLEAN, context : Nat,
             content : Nat, token : Nat]
Dequeues == [op : {"dequeue"}, by : Clients, context : Nat]
Registrations == [op : {"register"}, by : Clients]

Requests == Inserts \cup Dequeues \cup Registrations

LateSound == late \subseteq [id : Nat, request : Requests]

(* No conversation is known that the sequence is yet to open.              *)
ContextsKnown ==
  /\ \A p \in Clients : \A m \in BagToSet(queue[p]) : m.context < nextContext
  /\ \A l \in late : l.request.op = "insert" => l.request.context < nextContext

(* Only a client with a partner has looked one up.                         *)
PartnersKnown == \A p \in Clients : knows[p] => HasPartner(p)

(* The conversation in which requester p waits is one of its own.  Its     *)
(* request has the counter of p, and whatever answers it, whether queued,  *)
(* late, or about to be sent, has one more and comes from the partner of p *)
(* to p.                                                                   *)
Conversation(p) ==
  LET k == context[p] IN
  /\ k # None
  /\ \A c \in Clients : Requesting(c) /\ context[c] = k => c = p
  /\ \A c \in Clients : \A m \in BagToSet(queue[c]) : m.context = k =>
       \/ c = Partner(p) /\ m.content = counter[p]
       \/ c = p /\ m.content = counter[p] + 1
  /\ \A l \in late :
       l.request.op = "insert" /\ ~l.request.asks /\ l.request.context = k =>
         l.request.to = p /\ l.request.content = counter[p] + 1
  /\ \A c \in Clients : ~Requesting(c) /\ context[c] = k =>
       c = Partner(p) /\ (sending[c] => counter[c] = counter[p] + 1)

Waiting(p) == Paired(p) /\ Requesting(p) /\ ~sending[p]
Conversations == \A p \in Clients : Waiting(p) => Conversation(p)

(* The one-way message of client o.  It is in one place; in a queue or in  *)
(* the hands of a client it says how often it was sent before, in a late   *)
(* request how often it was sent until now; and before its client has sent *)
(* it there is none.                                                       *)
Before == {"connect", "lookup", "initial"}

MessageSound(o) ==
  /\ \A x, y \in Copies(o) : x = y
  /\ \A x \in QueuedCopies(o) \cup HeldCopies(o) : x[3].content + 1 = hops[o]
  /\ \A x \in LateCopies(o) : x[3].content = hops[o]
  /\ pc[o] \in Before => Copies(o) = {} /\ hops[o] = 0

MessagesSound == \A o \in OneWays : MessageSound(o)

IInv == TypeOK /\ LateSound /\ ContextsKnown /\ PartnersKnown /\ Conversations
          /\ MessagesSound

-----------------------------------------------------------------------------
(* The counterparts of the mapping are each other's: one requests, the     *)
(* other responds.                                                         *)
LEMMA Partners ==
  ASSUME TypeOK, NEW p \in Clients
  PROVE  /\ p \in Nat /\ Partner(Partner(p)) = p /\ Partner(p) # p
         /\ Requesting(Partner(p)) <=> ~Requesting(p)
<1>1. p \in Nat
  BY DEF Clients
<1>2. CASE p % 2 = 0
  <2>1. (p + 1) % 2 # 0 /\ (p + 1) - 1 = p /\ p + 1 # p
    BY <1>1, <1>2
  <2> QED
    BY <1>1, <1>2, <2>1 DEF Partner, Requesting
<1>3. CASE p % 2 # 0
  <2>1. (p - 1) % 2 = 0 /\ (p - 1) + 1 = p /\ p - 1 # p
    BY <1>1, <1>3
  <2> QED
    BY <1>1, <1>3, <2>1 DEF Partner, Requesting
<1> QED
  BY <1>2, <1>3

-----------------------------------------------------------------------------
(* Queues. *)

(* A bag of one m, and the copy of m that place i of the bag of p stands   *)
(* for: names that keep the sets and tuples out of the provers' sight.     *)
One(m) == SetToBag({m})
QueueCopy(p, m, i) == <<"queue", p, m, i>>
TokenOf(m) == m.token

(* A bag with one more m.                                                  *)
LEMMA BagAdded ==
  ASSUME NEW B, NEW m, NEW C, IsABag(B), C = B (+) One(m)
  PROVE  /\ IsABag(C) /\ BagToSet(C) = BagToSet(B) \cup {m}
         /\ CountIn(m, B) \in Nat /\ CountIn(m, C) = CountIn(m, B) + 1
         /\ \A n : n # m => CountIn(n, C) = CountIn(n, B)
<1>1. B \in [DOMAIN B -> {n \in Nat : n > 0}]
  BY DEF IsABag
<1>2. C = [e \in DOMAIN B \cup {m} |-> (IF e \in DOMAIN B THEN B[e] ELSE 0)
                                        + (IF e \in {m} THEN 1 ELSE 0)]
  BY DEF (+), One, SetToBag
<1>3. DOMAIN C = DOMAIN B \cup {m}
  BY <1>2
<1>4. \A e \in DOMAIN B : B[e] \in Nat /\ B[e] > 0
  BY <1>1
<1>5. ASSUME NEW e \in DOMAIN B, e # m
      PROVE  C[e] = B[e]
  <2>1. e \in DOMAIN C /\ C[e] = B[e] + 0
    BY <1>2, <1>5
  <2> QED
    BY <1>4, <2>1
<1>6. C[m] = (IF m \in DOMAIN B THEN B[m] ELSE 0) + 1
  <2>1. m \in DOMAIN C
    BY <1>2
  <2> QED
    BY <1>2, <2>1
<1>7. C \in [DOMAIN C -> {n \in Nat : n > 0}]
  <2>1. C = [e \in DOMAIN C |-> C[e]]
    BY <1>2
  <2>2. \A e \in DOMAIN C : C[e] \in Nat /\ C[e] > 0
    BY <1>3, <1>4, <1>5, <1>6
  <2> QED
    BY <2>1, <2>2
<1>8. /\ CountIn(m, B) \in Nat /\ CountIn(m, C) = CountIn(m, B) + 1
  BY <1>3, <1>4, <1>6 DEF CountIn, BagIn, BagToSet
<1>9. \A n : n # m => CountIn(n, C) = CountIn(n, B)
  BY <1>3, <1>5 DEF CountIn, BagIn, BagToSet
<1> QED
  BY <1>3, <1>7, <1>8, <1>9 DEF IsABag, BagToSet

(* A bag with one m less.                                                  *)
LEMMA BagRemoved ==
  ASSUME NEW B, NEW m, NEW C, IsABag(B), m \in BagToSet(B), C = B (-) One(m)
  PROVE  /\ IsABag(C) /\ BagToSet(C) \subseteq BagToSet(B)
         /\ CountIn(m, C) \in Nat /\ CountIn(m, B) = CountIn(m, C) + 1
         /\ \A n : n # m => CountIn(n, C) = CountIn(n, B)
<1> DEFINE D == [e \in DOMAIN B |-> IF e \in {m} THEN B[e] - 1 ELSE B[e]]
<1>1. C = [e \in {d \in DOMAIN B : D[d] > 0} |-> D[e]]
  BY DEF (-), One, SetToBag
<1>2. \A e \in DOMAIN B : B[e] \in Nat /\ B[e] > 0
  BY DEF IsABag
<1>3. /\ D[m] = B[m] - 1 /\ m \in DOMAIN B
      /\ \A e \in DOMAIN B : e # m => D[e] = B[e]
  BY DEF BagToSet
<1>4. DOMAIN C = {d \in DOMAIN B : D[d] > 0} /\ \A e \in DOMAIN C : C[e] = D[e]
  BY <1>1
<1>5. C \in [DOMAIN C -> {n \in Nat : n > 0}]
  <2>1. C = [e \in DOMAIN C |-> C[e]]
    BY <1>1
  <2>2. \A e \in DOMAIN B : D[e] \in Nat
    BY <1>2, <1>3
  <2> HIDE DEF D
  <2>3. \A e \in DOMAIN C : C[e] \in Nat /\ C[e] > 0
    BY <1>4, <2>2
  <2> QED
    BY <2>1, <2>3
<1> HIDE DEF D
<1>6. CountIn(m, B) = B[m] /\ CountIn(m, B) \in Nat \ {0}
  BY <1>2, <1>3 DEF CountIn, BagIn, BagToSet
<1>7. CountIn(m, C) = B[m] - 1
  BY <1>2, <1>3, <1>4 DEF CountIn, BagIn, BagToSet
<1>8. \A n : n # m => CountIn(n, C) = CountIn(n, B)
  BY <1>2, <1>3, <1>4 DEF CountIn, BagIn, BagToSet
<1> QED
  BY <1>1, <1>4, <1>5, <1>6, <1>7, <1>8 DEF IsABag, BagToSet

(* The copies of client o's message in the queues q of the clients C.      *)
CopiesAmong(q, C, o) ==
  UNION {CopiesAt(p, m, q[p]) :
           p \in C, m \in {n \in UNION {BagToSet(q[r]) : r \in C} : n.token = o}}

(* A copy is one of a place in a queue: the proofs look at its components. *)
LEMMA CopiesAre ==
  ASSUME NEW q, NEW C, NEW o, NEW x
  PROVE  x \in CopiesAmong(q, C, o) <=>
           /\ x = <<"queue", x[2], x[3], x[4]>> /\ x[2] \in C /\ x[3].token = o
           /\ x[4] \in 1 .. CountIn(x[3], q[x[2]])
<1> DEFINE S == {n \in UNION {BagToSet(q[r]) : r \in C} : n.token = o}
<1>1. x \in CopiesAmong(q, C, o) <=> \E p \in C : \E m \in S : x \in CopiesAt(p, m, q[p])
  BY DEF CopiesAmong
<1>2. \A p, m : x \in CopiesAt(p, m, q[p]) <=>
                 \E i \in 1 .. CountIn(m, q[p]) : x = <<"queue", p, m, i>>
  BY DEF CopiesAt
<1>3. ASSUME NEW p \in C, NEW m, NEW i \in 1 .. CountIn(m, q[p]), m.token = o
      PROVE  m \in S
  <2>1. CountIn(m, q[p]) # 0
    OBVIOUS
  <2>2. m \in BagToSet(q[p])
    BY <2>1 DEF CountIn, BagIn
  <2> QED
    BY <1>3, <2>2
<1>4. \A m \in S : m.token = o
  OBVIOUS
<1> HIDE DEF S
<1>5. ASSUME x \in CopiesAmong(q, C, o)
      PROVE  /\ x = <<"queue", x[2], x[3], x[4]>> /\ x[2] \in C /\ x[3].token = o
             /\ x[4] \in 1 .. CountIn(x[3], q[x[2]])
  <2>1. PICK p \in C, m \in S : x \in CopiesAt(p, m, q[p])
    BY <1>1, <1>5
  <2>2. PICK i \in 1 .. CountIn(m, q[p]) : x = <<"queue", p, m, i>>
    BY <1>2, <2>1
  <2> QED
    BY <1>4, <2>1, <2>2
<1>6. ASSUME /\ x = <<"queue", x[2], x[3], x[4]>> /\ x[2] \in C /\ x[3].token = o
             /\ x[4] \in 1 .. CountIn(x[3], q[x[2]])
      PROVE  x \in CopiesAmong(q, C, o)
  BY <1>1, <1>2, <1>3, <1>6
<1> QED
  BY <1>5, <1>6

(* The queues Q hold one m more than q, in the queue of p.                 *)
OneMore(Q, q, C, p, m) ==
  /\ CountIn(m, q[p]) \in Nat /\ CountIn(m, Q[p]) = CountIn(m, q[p]) + 1
  /\ \A c \in C : \A n : c # p \/ n # m => CountIn(n, Q[c]) = CountIn(n, q[c])

(* One message more in a queue is one copy more.                           *)
LEMMA OneCopyMore ==
  ASSUME NEW q, NEW Q, NEW C, NEW p, NEW m, NEW t, NEW i, NEW x,
         p \in C, OneMore(Q, q, C, p, m),
         t = TokenOf(m), i = CountIn(m, Q[p]), x = QueueCopy(p, m, i)
  PROVE  /\ x \in CopiesAmong(Q, C, t)
         /\ \A o : x \notin CopiesAmong(q, C, o)
         /\ \A o, y : y \in CopiesAmong(q, C, o) => y \in CopiesAmong(Q, C, o)
         /\ \A o, y : y \in CopiesAmong(Q, C, o) =>
                      y \in CopiesAmong(q, C, o) \/ (o = t /\ y = x)
<1>1. /\ x = <<"queue", p, m, i>>
      /\ x = <<"queue", x[2], x[3], x[4]>> /\ x[2] = p /\ x[3] = m /\ x[4] = i
  BY DEF QueueCopy
<1>2. /\ i \in 1 .. CountIn(m, Q[p]) /\ i \notin 1 .. CountIn(m, q[p])
      /\ \A j \in 1 .. CountIn(m, q[p]) : j \in 1 .. CountIn(m, Q[p])
      /\ \A j \in 1 .. CountIn(m, Q[p]) : j \in 1 .. CountIn(m, q[p]) \/ j = i
  BY DEF OneMore
<1>3. x \in CopiesAmong(Q, C, t)
  BY <1>1, <1>2, CopiesAre DEF TokenOf
<1>4. ASSUME NEW o PROVE x \notin CopiesAmong(q, C, o)
  BY <1>1, <1>2, CopiesAre
<1>5. ASSUME NEW o, NEW y
      PROVE  /\ y \in CopiesAmong(q, C, o) => y \in CopiesAmong(Q, C, o)
             /\ y \in CopiesAmong(Q, C, o) =>
                  y \in CopiesAmong(q, C, o) \/ (o = t /\ y = x)
  <2> DEFINE c == y[2]
             n == y[3]
             j == y[4]
  <2>1. /\ y \in CopiesAmong(q, C, o) <=>
             y = <<"queue", c, n, j>> /\ c \in C /\ n.token = o /\ j \in 1 .. CountIn(n, q[c])
        /\ y \in CopiesAmong(Q, C, o) <=>
             y = <<"queue", c, n, j>> /\ c \in C /\ n.token = o /\ j \in 1 .. CountIn(n, Q[c])
    BY CopiesAre
  <2> HIDE DEF c, n, j
  <2>2. CASE c \in C /\ (c # p \/ n # m)
    <3>1. CountIn(n, Q[c]) = CountIn(n, q[c])
      BY <2>2 DEF OneMore
    <3> QED
      BY <2>1, <3>1
  <2>3. CASE c = p /\ n = m
    BY <1>1, <1>2, <2>1, <2>3 DEF TokenOf
  <2> QED
    BY <2>1, <2>2, <2>3
<1> QED
  BY <1>3, <1>4, <1>5

(* Every client has a queue of messages.                                   *)
QueuesTyped ==
  /\ DOMAIN queue = Clients
  /\ \A p \in Clients : IsABag(queue[p]) /\ BagToSet(queue[p]) \subseteq Message

(* The queue of a client gains the message m, or loses it.                 *)
Gains(to, m) == queue' = [queue EXCEPT ![to] = queue[to] (+) SetToBag({m})]
Loses(by, m) == queue' = [queue EXCEPT ![by] = queue[by] (-) SetToBag({m})]

(* The queues of a step that stores a message for the client to.           *)
LEMMA MessageStored ==
  ASSUME NEW to, NEW m, NEW t, NEW i, NEW x,
         TypeOK, to \in Clients, m \in Message, UNCHANGED mapping,
         Gains(to, m),
         t = TokenOf(m), i = CountIn(m, queue'[to]), x = QueueCopy(to, m, i)
  PROVE  /\ QueuesTyped'
         /\ BagToSet(queue'[to]) = BagToSet(queue[to]) \cup {m}
         /\ \A p \in Clients : p # to => queue'[p] = queue[p]
         /\ \A o : QueuedCopies(o)' \subseteq QueuedCopies(o) \cup {x}
         /\ \A o : o # t => QueuedCopies(o)' \subseteq QueuedCopies(o)
<1>1. Clients' = Clients
  BY DEF Clients
<1>2. /\ DOMAIN queue = Clients
      /\ \A p \in Clients : IsABag(queue[p]) /\ BagToSet(queue[p]) \subseteq Message
  BY DEF TypeOK
<1>3. /\ DOMAIN queue' = Clients /\ queue'[to] = queue[to] (+) One(m)
      /\ \A p \in Clients : p # to => queue'[p] = queue[p]
  BY <1>2 DEF One, Gains
<1>4. ASSUME NEW B, B = queue[to], NEW C, C = queue'[to]
      PROVE  /\ IsABag(C) /\ BagToSet(C) = BagToSet(B) \cup {m}
             /\ CountIn(m, B) \in Nat /\ CountIn(m, C) = CountIn(m, B) + 1
             /\ \A n : n # m => CountIn(n, C) = CountIn(n, B)
  <2>1. IsABag(B) /\ C = B (+) One(m)
    BY <1>2, <1>3, <1>4
  <2> QED
    BY ONLY <2>1, BagAdded
<1>5. IsABag(queue'[to]) /\ BagToSet(queue'[to]) = BagToSet(queue[to]) \cup {m}
  BY <1>4
<1>6. OneMore(queue', queue, Clients, to, m)
  <2>1. /\ CountIn(m, queue[to]) \in Nat
        /\ CountIn(m, queue'[to]) = CountIn(m, queue[to]) + 1
        /\ \A n : n # m => CountIn(n, queue'[to]) = CountIn(n, queue[to])
    BY <1>4
  <2>2. \A c \in Clients : \A n :
          c # to \/ n # m => CountIn(n, queue'[c]) = CountIn(n, queue[c])
    BY <1>3, <2>1
  <2> QED
    BY <2>1, <2>2 DEF OneMore
<1>7. \A o : /\ QueuedCopies(o) = CopiesAmong(queue, Clients, o)
             /\ QueuedCopies(o)' = CopiesAmong(queue', Clients, o)
  BY <1>1 DEF QueuedCopies, QueuedMessages, CopiesAmong
<1>8. \A o, y : y \in CopiesAmong(queue', Clients, o) =>
                 y \in CopiesAmong(queue, Clients, o) \/ (o = t /\ y = x)
  <2>1. ASSUME NEW q, q = queue, NEW Q, Q = queue', NEW C, C = Clients
        PROVE  \A o, y : y \in CopiesAmong(Q, C, o) =>
                            y \in CopiesAmong(q, C, o) \/ (o = t /\ y = x)
    <3>1. OneMore(Q, q, C, to, m) /\ to \in C /\ x = QueueCopy(to, m, i)
          /\ t = TokenOf(m) /\ i = CountIn(m, Q[to])
      BY <1>6, <2>1 DEF TokenOf
    <3> QED
      BY ONLY <3>1, OneCopyMore
  <2> QED
    BY <2>1
<1> QED
  BY <1>1, <1>2, <1>3, <1>5, <1>7, <1>8 DEF QueuesTyped

(* The queues of a step that deletes a message from the queue of by.       *)
LEMMA MessageDeleted ==
  ASSUME NEW by, NEW m, NEW t, NEW i, NEW x,
         TypeOK, by \in Clients, m \in BagToSet(queue[by]), UNCHANGED mapping,
         Loses(by, m),
         t = TokenOf(m), i = CountIn(m, queue[by]), x = QueueCopy(by, m, i)
  PROVE  /\ QueuesTyped'
         /\ \A p \in Clients : BagToSet(queue'[p]) \subseteq BagToSet(queue[p])
         /\ x \in QueuedCopies(t)
         /\ \A o : QueuedCopies(o)' \subseteq QueuedCopies(o) \ {x}
<1>1. Clients' = Clients
  BY DEF Clients
<1>2. /\ DOMAIN queue = Clients
      /\ \A p \in Clients : IsABag(queue[p]) /\ BagToSet(queue[p]) \subseteq Message
  BY DEF TypeOK
<1>3. /\ DOMAIN queue' = Clients /\ queue'[by] = queue[by] (-) One(m)
      /\ \A p \in Clients : p # by => queue'[p] = queue[p]
  BY <1>2 DEF One, Loses
<1>4. ASSUME NEW B, B = queue[by], NEW C, C = queue'[by]
      PROVE  /\ IsABag(C) /\ BagToSet(C) \subseteq BagToSet(B)
             /\ CountIn(m, C) \in Nat /\ CountIn(m, B) = CountIn(m, C) + 1
             /\ \A n : n # m => CountIn(n, C) = CountIn(n, B)
  <2>1. IsABag(B) /\ C = B (-) One(m) /\ m \in BagToSet(B)
    BY <1>2, <1>3, <1>4
  <2> QED
    BY ONLY <2>1, BagRemoved
<1>5. IsABag(queue'[by]) /\ BagToSet(queue'[by]) \subseteq BagToSet(queue[by])
  BY <1>4
<1>6. OneMore(queue, queue', Clients, by, m)
  <2>1. /\ CountIn(m, queue'[by]) \in Nat
        /\ CountIn(m, queue[by]) = CountIn(m, queue'[by]) + 1
        /\ \A n : n # m => CountIn(n, queue[by]) = CountIn(n, queue'[by])
    BY <1>4
  <2>2. \A c \in Clients : \A n :
          c # by \/ n # m => CountIn(n, queue[c]) = CountIn(n, queue'[c])
    BY <1>3, <2>1
  <2> QED
    BY <2>1, <2>2 DEF OneMore
<1>7. \A o : /\ QueuedCopies(o) = CopiesAmong(queue, Clients, o)
             /\ QueuedCopies(o)' = CopiesAmong(queue', Clients, o)
  BY <1>1 DEF QueuedCopies, QueuedMessages, CopiesAmong
<1>8. /\ x \in CopiesAmong(queue, Clients, t)
      /\ \A o : x \notin CopiesAmong(queue', Clients, o)
      /\ \A o, y : y \in CopiesAmong(queue', Clients, o) => y \in CopiesAmong(queue, Clients, o)
  <2>1. ASSUME NEW q, q = queue, NEW Q, Q = queue', NEW C, C = Clients
        PROVE  /\ x \in CopiesAmong(q, C, t)
               /\ \A o : x \notin CopiesAmong(Q, C, o)
               /\ \A o, y : y \in CopiesAmong(Q, C, o) => y \in CopiesAmong(q, C, o)
    <3>1. OneMore(q, Q, C, by, m) /\ by \in C /\ x = QueueCopy(by, m, i)
          /\ t = TokenOf(m) /\ i = CountIn(m, q[by])
      BY <1>6, <2>1 DEF TokenOf
    <3> QED
      BY ONLY <3>1, OneCopyMore
  <2> QED
    BY <2>1
<1> QED
  BY <1>1, <1>2, <1>3, <1>5, <1>7, <1>8 DEF QueuesTyped

-----------------------------------------------------------------------------
(* Clients and their requests. *)

(* The mapping never changes, nor what follows from it alone.              *)
LEMMA Rigid ==
  ASSUME UNCHANGED mapping
  PROVE  /\ Clients' = Clients /\ OneWays' = OneWays
         /\ \A p : (Paired(p)' <=> Paired(p)) /\ (HasPartner(p)' <=> HasPartner(p))
  BY DEF Clients, OneWays, Paired, HasPartner, Class

(* The requests clients make, by kind.                                     *)
LEMMA RequestKinds ==
  ASSUME NEW r \in Requests
  PROVE  /\ r.op = "insert" => r \in Inserts
         /\ r.op = "dequeue" => r \in Dequeues
         /\ r.op = "register" => r \in Registrations
  BY DEF Requests, Inserts, Dequeues, Registrations

(* The requests of a client are well formed, in conversations known.       *)
LEMMA RequestsSound ==
  ASSUME TypeOK, PartnersKnown, NEW p \in Clients
  PROVE  /\ CanSend(p) => PairedSend(p) \in Inserts
         /\ \A q \in Recipients(p) : /\ InitialSend(p, q) \in Inserts
                                     /\ ForwardSend(p, q) \in Inserts
         /\ Dequeue(p) \in Dequeues
<1>1. /\ counter[p] \in Nat /\ context[p] \in Nat /\ hand[p] \in Message /\ p \in Nat
  <2>1. p \in Nat
    BY DEF Clients
  <2>2. context[p] \in 0 .. nextContext - 1
    BY DEF TypeOK
  <2>3. counter[p] \in Nat /\ hand[p] \in Message
    BY DEF TypeOK
  <2> QED
    BY <2>1, <2>2, <2>3
<1>2. \A q \in Recipients(p) : q \in Clients
  BY DEF Recipients, OneWays
<1>3. CanSend(p) => Partner(p) \in Clients
  BY DEF CanSend, PartnersKnown, HasPartner
<1>4. hand[p].content \in Nat /\ hand[p].token \in Nat
  BY <1>1 DEF Message
<1>5. CanSend(p) => PairedSend(p) \in Inserts
  BY <1>1, <1>3 DEF PairedSend, Send, Inserts, None, Requesting
<1>6. ASSUME NEW q \in Recipients(p)
      PROVE  InitialSend(p, q) \in Inserts /\ ForwardSend(p, q) \in Inserts
  <2>1. hand[p].content + 1 \in Nat
    BY <1>4
  <2> QED
    BY <1>1, <1>2, <1>4, <2>1 DEF InitialSend, ForwardSend, Send, Inserts, None
<1>7. Dequeue(p) \in Dequeues
  BY <1>1 DEF Dequeue, Dequeues, None
<1> QED
  BY <1>5, <1>6, <1>7

(* What a client may be waiting for when a request of it times out.        *)
LEMMA UnderWayKinds ==
  ASSUME NEW p \in Clients, NEW r \in UnderWay(p)
  PROVE  \/ r = [op |-> "register", by |-> p]
         \/ r = Dequeue(p)
         \/ pc[p] = "initial" /\ \E q \in Recipients(p) : r = InitialSend(p, q)
         \/ pc[p] = "forward" /\ \E q \in Recipients(p) : r = ForwardSend(p, q)
         \/ CanSend(p) /\ r = PairedSend(p)
  BY DEF UnderWay, CanForward

-----------------------------------------------------------------------------
(* What a step leaves of the types, when it does not touch the queues or   *)
(* the sequence of contexts.                                               *)
LEMMA TypesKept ==
  ASSUME TypeOK, UNCHANGED <<mapping, queue, nextContext, counter, context, hops>>,
         pc' \in [Clients -> Places], knows' \in [Clients -> BOOLEAN],
         sending' \in [Clients -> BOOLEAN], hand' \in [Clients -> Message],
         online' \subseteq Clients, faults' \in 0 .. MaxFaults,
         \A l \in late' : l.id \in faults' + 1 .. MaxFaults, robbed' \subseteq Clients
  PROVE  TypeOK'
  BY Rigid DEF TypeOK

(* The message a request stores, and the effect of storing it.             *)
MessageOf(r) == [context |-> ContextOf(r), content |-> r.content, token |-> r.token]

LEMMA StoreEffect ==
  ASSUME NEW r, NEW m, TypeOK, r \in Inserts, UNCHANGED mapping, Insert(r),
         m = MessageOf(r)
  PROVE  /\ m \in Message /\ r.to \in Clients
         /\ m.context = ContextOf(r) /\ m.content = r.content /\ m.token = r.token
         /\ queue' = [queue EXCEPT ![r.to] = queue[r.to] (+) SetToBag({m})]
         /\ nextContext' \in Nat \ {0} /\ nextContext <= nextContext'
         /\ hops' \in [Clients -> Nat]
         /\ \A o \in OneWays : hops'[o] = IF o = r.token THEN hops[o] + 1 ELSE hops[o]
<1>1. /\ r.to \in Clients /\ r.context \in Nat /\ r.content \in Nat /\ r.token \in Nat
      /\ r.asks \in BOOLEAN
  BY DEF Inserts
<1>2. nextContext \in Nat \ {0} /\ hops \in [Clients -> Nat]
  BY DEF TypeOK
<1>3. ContextOf(r) \in Nat
  BY <1>1, <1>2 DEF ContextOf
<1>4. m \in Message /\ m.context = ContextOf(r) /\ m.content = r.content /\ m.token = r.token
  BY <1>1, <1>3 DEF Message, MessageOf
<1>5. queue' = [queue EXCEPT ![r.to] = queue[r.to] (+) SetToBag({m})]
  BY DEF Insert, Store, MessageOf
<1>6. nextContext' \in Nat \ {0} /\ nextContext <= nextContext'
  BY <1>2 DEF Insert
<1>7. OneWays \subseteq Clients
  BY DEF OneWays
<1>8. CASE r.token \in OneWays
  <2>1. hops' = [hops EXCEPT ![r.token] = hops[r.token] + 1]
    BY <1>8 DEF Insert, Store
  <2> QED
    BY <1>1, <1>2, <1>4, <1>5, <1>6, <1>7, <1>8, <2>1
<1>9. CASE r.token \notin OneWays
  <2>1. hops' = hops
    BY <1>9 DEF Insert, Store
  <2> QED
    BY <1>1, <1>2, <1>4, <1>5, <1>6, <1>7, <1>9, <2>1
<1> QED
  BY <1>8, <1>9

(* ... and on the queues, for the message m it stores.                     *)
LEMMA InsertStep ==
  ASSUME NEW r, NEW m, NEW y, TypeOK, r \in Inserts, UNCHANGED mapping, Insert(r),
         m = MessageOf(r),
         y = QueueCopy(r.to, m, CountIn(m, queue'[r.to]))
  PROVE  /\ QueuesTyped'
         /\ \A c \in Clients : \A n \in BagToSet(queue'[c]) :
              n \in BagToSet(queue[c]) \/ (c = r.to /\ n = m)
         /\ \A o : QueuedCopies(o)' \subseteq QueuedCopies(o) \cup {y}
         /\ \A o : o # r.token => QueuedCopies(o)' \subseteq QueuedCopies(o)
         /\ y[3] = m
<1>1. /\ m \in Message /\ r.to \in Clients /\ TokenOf(m) = r.token
      /\ Gains(r.to, m)
  BY StoreEffect DEF TokenOf, Gains
<1>2. y[3] = m
  BY DEF QueueCopy
<1>3. ASSUME NEW to, to = r.to, NEW t, t = TokenOf(m), NEW i, i = CountIn(m, queue'[to])
      PROVE  /\ QueuesTyped'
             /\ BagToSet(queue'[to]) = BagToSet(queue[to]) \cup {m}
             /\ \A p \in Clients : p # to => queue'[p] = queue[p]
             /\ \A o : QueuedCopies(o)' \subseteq QueuedCopies(o) \cup {y}
             /\ \A o : o # t => QueuedCopies(o)' \subseteq QueuedCopies(o)
  <2>1. /\ to \in Clients /\ m \in Message /\ TypeOK /\ UNCHANGED mapping
        /\ t = TokenOf(m) /\ i = CountIn(m, queue'[to]) /\ y = QueueCopy(to, m, i)
        /\ Gains(to, m)
    BY <1>1, <1>3
  <2> QED
    BY ONLY <2>1, MessageStored
<1>4. ASSUME NEW to, to = r.to
      PROVE  /\ QueuesTyped'
             /\ BagToSet(queue'[to]) = BagToSet(queue[to]) \cup {m}
             /\ \A p \in Clients : p # to => queue'[p] = queue[p]
             /\ \A o : QueuedCopies(o)' \subseteq QueuedCopies(o) \cup {y}
             /\ \A o : o # r.token => QueuedCopies(o)' \subseteq QueuedCopies(o)
  BY <1>1, <1>3, <1>4
<1>5. \A c \in Clients : \A n \in BagToSet(queue'[c]) :
        n \in BagToSet(queue[c]) \/ (c = r.to /\ n = m)
  BY <1>4
<1> QED
  BY <1>2, <1>4, <1>5

(* The effect of a request that takes the message m.                       *)
LEMMA DequeueStep ==
  ASSUME NEW r, NEW m, NEW x, TypeOK, r.by \in Clients, m \in Selected(r), Delete(r, m),
         UNCHANGED mapping, x = QueueCopy(r.by, m, CountIn(m, queue[r.by]))
  PROVE  /\ QueuesTyped'
         /\ \A c \in Clients : BagToSet(queue'[c]) \subseteq BagToSet(queue[c])
         /\ m \in BagToSet(queue[r.by]) /\ m \in Message
         /\ x \in QueuedCopies(m.token) /\ x[3] = m
         /\ \A o : QueuedCopies(o)' \subseteq QueuedCopies(o) \ {x}
<1>1. m \in BagToSet(queue[r.by]) /\ m \in Message
  BY DEF Selected, TypeOK
<1>2. x[3] = m
  BY DEF QueueCopy
<1>3. ASSUME NEW by, by = r.by, NEW t, t = TokenOf(m), NEW i, i = CountIn(m, queue[by])
      PROVE  /\ QueuesTyped'
             /\ \A p \in Clients : BagToSet(queue'[p]) \subseteq BagToSet(queue[p])
             /\ x \in QueuedCopies(t)
             /\ \A o : QueuedCopies(o)' \subseteq QueuedCopies(o) \ {x}
  <2>1. /\ by \in Clients /\ m \in BagToSet(queue[by]) /\ TypeOK /\ UNCHANGED mapping
        /\ t = TokenOf(m) /\ i = CountIn(m, queue[by]) /\ x = QueueCopy(by, m, i)
    BY <1>1, <1>3
  <2>2. Loses(by, m)
    BY <1>3 DEF Delete, Loses
  <2> QED
    BY ONLY <2>1, <2>2, MessageDeleted
<1>4. ASSUME NEW by, by = r.by
      PROVE  /\ QueuesTyped'
             /\ \A p \in Clients : BagToSet(queue'[p]) \subseteq BagToSet(queue[p])
             /\ x \in QueuedCopies(m.token)
             /\ \A o : QueuedCopies(o)' \subseteq QueuedCopies(o) \ {x}
  BY <1>3, <1>4 DEF TokenOf
<1> QED
  BY <1>1, <1>2, <1>4

-----------------------------------------------------------------------------
(* One-way messages. *)

(* A copy says where it is.                                                *)
LEMMA CopyKinds ==
  ASSUME NEW o, NEW x
  PROVE  /\ x \in QueuedCopies(o) => x[1] = "queue"
         /\ x \in HeldCopies(o) => x[1] = "hand"
         /\ x \in LateCopies(o) => x[1] = "late"
<1>1. x \in QueuedCopies(o) => x[1] = "queue"
  <2>1. QueuedCopies(o) = CopiesAmong(queue, Clients, o)
    BY DEF QueuedCopies, QueuedMessages, CopiesAmong
  <2>2. x \in CopiesAmong(queue, Clients, o) => x = <<"queue", x[2], x[3], x[4]>>
    <3>1. ASSUME NEW q, q = queue, NEW C, C = Clients, x \in CopiesAmong(q, C, o)
          PROVE  x = <<"queue", x[2], x[3], x[4]>>
      BY ONLY <3>1, CopiesAre
    <3> QED
      BY <3>1
  <2> QED
    BY <2>1, <2>2
<1>2. x \in HeldCopies(o) => x[1] = "hand"
  BY DEF HeldCopies
<1>3. x \in LateCopies(o) => x[1] = "late"
  BY DEF LateCopies
<1> QED
  BY <1>1, <1>2, <1>3

(* A message of which a step makes no copy stays sound.                    *)
LEMMA MessageKept ==
  ASSUME NEW o, MessageSound(o), QueuedCopies(o)' \subseteq QueuedCopies(o),
         HeldCopies(o)' \subseteq HeldCopies(o), LateCopies(o)' \subseteq LateCopies(o),
         hops'[o] = hops[o], pc'[o] \in Before => pc[o] \in Before
  PROVE  MessageSound(o)'
  BY DEF MessageSound, Copies

(* So does one whose only copy x, if there was one, is replaced by y.      *)
LEMMA MessageMoved ==
  ASSUME NEW o, NEW x, NEW y, MessageSound(o), x \in Copies(o) \/ Copies(o) = {},
         QueuedCopies(o)' \subseteq (Copies(o) \ {x}) \cup {y},
         HeldCopies(o)' \subseteq (Copies(o) \ {x}) \cup {y},
         LateCopies(o)' \subseteq (Copies(o) \ {x}) \cup {y},
         y \in QueuedCopies(o)' \cup HeldCopies(o)' => y[3].content + 1 = hops'[o],
         y \in LateCopies(o)' => y[3].content = hops'[o],
         pc'[o] \notin Before
  PROVE  MessageSound(o)'
<1>1. Copies(o) \ {x} = {}
  BY DEF MessageSound
<1>2. /\ QueuedCopies(o)' \subseteq {y} /\ HeldCopies(o)' \subseteq {y}
      /\ LateCopies(o)' \subseteq {y}
  BY <1>1
<1>3. \A a, b \in Copies(o)' : a = b
  BY <1>2 DEF Copies
<1>4. \A a \in QueuedCopies(o)' \cup HeldCopies(o)' : a[3].content + 1 = hops'[o]
  BY <1>2
<1>5. \A a \in LateCopies(o)' : a[3].content = hops'[o]
  BY <1>2
<1> QED
  BY <1>3, <1>4, <1>5 DEF MessageSound

(* What a client holds, it keeps in its hands while it forwards it.        *)
LEMMA HeldKept ==
  ASSUME UNCHANGED mapping,
         \A c \in Clients : pc'[c] = "forward" => pc[c] = "forward" /\ hand'[c] = hand[c]
  PROVE  \A o : HeldCopies(o)' \subseteq HeldCopies(o)
<1> SUFFICES ASSUME NEW o, NEW x \in HeldCopies(o)' PROVE x \in HeldCopies(o)
  OBVIOUS
<1>1. Clients' = Clients
  BY Rigid
<1>2. PICK c \in Clients : /\ pc'[c] = "forward" /\ hand'[c].token = o
                           /\ x = <<"hand", c, hand'[c], 1>>
  BY <1>1 DEF HeldCopies
<1> QED
  BY <1>2 DEF HeldCopies

(* ... and a client that goes on has sent it or lost it.                   *)
LEMMA HeldLost ==
  ASSUME NEW p, NEW x, UNCHANGED mapping,
         \A c \in Clients : pc'[c] = "forward" =>
           pc[c] = "forward" /\ hand'[c] = hand[c] /\ c # p,
         x = <<"hand", p, hand[p], 1>>
  PROVE  \A o : HeldCopies(o)' \subseteq HeldCopies(o) \ {x}
<1> SUFFICES ASSUME NEW o, NEW y \in HeldCopies(o)' PROVE y \in HeldCopies(o) /\ y # x
  OBVIOUS
<1>1. Clients' = Clients
  BY Rigid
<1>2. PICK c \in Clients : /\ pc'[c] = "forward" /\ hand'[c].token = o
                           /\ y = <<"hand", c, hand'[c], 1>>
  BY <1>1 DEF HeldCopies
<1> QED
  BY <1>2 DEF HeldCopies

(* Late copies come with a timeout and go with their execution.            *)
LEMMA LateKept ==
  ASSUME late' \subseteq late
  PROVE  \A o : LateCopies(o)' \subseteq LateCopies(o)
  BY DEF LateCopies

(* A late request is executed once: its copy goes.                         *)
LEMMA LateTaken ==
  ASSUME LateSound, NEW l \in late, late' = late \ {l},
         NEW x, x = <<"late", l.id, l.request, 1>>
  PROVE  \A o : LateCopies(o)' \subseteq LateCopies(o) \ {x}
<1> SUFFICES ASSUME NEW o, NEW y \in LateCopies(o)' PROVE y \in LateCopies(o) \ {x}
  OBVIOUS
<1>1. PICK k \in late' : /\ k.request.op = "insert" /\ k.request.token = o
                         /\ y = <<"late", k.id, k.request, 1>>
  BY DEF LateCopies
<1>2. k \in late /\ k # l
  BY <1>1
<1>3. /\ k = [id |-> k.id, request |-> k.request]
      /\ l = [id |-> l.id, request |-> l.request]
  BY <1>2 DEF LateSound
<1>4. k.id # l.id \/ k.request # l.request
  BY <1>2, <1>3
<1>5. y # x
  BY <1>1, <1>4
<1>6. y \in LateCopies(o)
  BY <1>1, <1>2 DEF LateCopies
<1> QED
  BY <1>5, <1>6

(* A timeout leaves one request, and a copy only if that stores a message. *)
LEMMA LateAdded ==
  ASSUME NEW f, NEW r, NEW y, late' = late \cup {[id |-> f, request |-> r]},
         y = <<"late", f, r, 1>>
  PROVE  /\ \A o : LateCopies(o)' \subseteq LateCopies(o) \cup {y}
         /\ \A o : r.op # "insert" \/ r.token # o => LateCopies(o)' \subseteq LateCopies(o)
<1>1. ASSUME NEW o, NEW z \in LateCopies(o)'
      PROVE  z \in LateCopies(o) \/ (r.op = "insert" /\ r.token = o /\ z = y)
  <2>1. PICK k \in late' : /\ k.request.op = "insert" /\ k.request.token = o
                           /\ z = <<"late", k.id, k.request, 1>>
    BY <1>1 DEF LateCopies
  <2>2. CASE k \in late
    BY <2>1, <2>2 DEF LateCopies
  <2>3. CASE k.id = f /\ k.request = r
    BY <2>1, <2>3
  <2> QED
    BY <2>1, <2>2, <2>3
<1> QED
  BY <1>1

(* A step that makes no copy of any one-way message.                       *)
LEMMA QuietMessages ==
  ASSUME MessagesSound, UNCHANGED mapping, late' \subseteq late,
         \A o \in OneWays : /\ QueuedCopies(o)' \subseteq QueuedCopies(o)
                            /\ hops'[o] = hops[o],
         \A c \in Clients : pc'[c] = "forward" => pc[c] = "forward" /\ hand'[c] = hand[c],
         \A c \in Clients : pc'[c] \in Before => pc[c] \in Before
  PROVE  MessagesSound'
<1> SUFFICES ASSUME NEW o \in OneWays PROVE MessageSound(o)'
  BY Rigid DEF MessagesSound
<1>1. HeldCopies(o)' \subseteq HeldCopies(o)
  BY HeldKept
<1>2. LateCopies(o)' \subseteq LateCopies(o)
  BY LateKept
<1>3. MessageSound(o) /\ o \in Clients
  BY DEF MessagesSound, OneWays
<1> QED
  BY <1>1, <1>2, <1>3, MessageKept

(* A step that makes a copy of the message of client t at most.            *)
LEMMA MessagesKeptBut ==
  ASSUME NEW t, MessagesSound, UNCHANGED mapping,
         \A o \in OneWays \ {t} :
           /\ QueuedCopies(o)' \subseteq QueuedCopies(o)
           /\ HeldCopies(o)' \subseteq HeldCopies(o)
           /\ LateCopies(o)' \subseteq LateCopies(o) /\ hops'[o] = hops[o],
         \A c \in Clients : pc'[c] \in Before => pc[c] \in Before,
         t \in OneWays => MessageSound(t)'
  PROVE  MessagesSound'
<1> SUFFICES ASSUME NEW o \in OneWays \ {t} PROVE MessageSound(o)'
  BY Rigid DEF MessagesSound
<1>1. MessageSound(o) /\ o \in Clients
  BY DEF MessagesSound, OneWays
<1> QED
  BY <1>1, MessageKept

-----------------------------------------------------------------------------
(* Every step keeps the one-way messages sound. *)

(* Where clients go.                                                       *)
LEMMA Goes ==
  ASSUME TypeOK, NEW p \in Clients, NEW place, Goto(p, place)
  PROVE  /\ pc'[p] = place /\ \A c \in Clients : c # p => pc'[c] = pc[c]
         /\ place \in Places => pc' \in [Clients -> Places]
  BY DEF TypeOK, Goto

(* A client whose hands are empty holds NoMessage.                         *)
LEMMA Drops ==
  ASSUME TypeOK, NEW p \in Clients, Drop(p)
  PROVE  /\ hand' \in [Clients -> Message]
         /\ \A c \in Clients : c # p => hand'[c] = hand[c]
<1>1. NoMessage \in Message
  BY DEF NoMessage, Message, None
<1> QED
  BY <1>1 DEF TypeOK, Drop

(* Steps that neither store nor take a message: what a client held it may  *)
(* lose.                                                                   *)
LEMMA StillMessages ==
  ASSUME IInv, NEW p \in Clients,
         \/ Connect(p) \/ LookupOwnQueue(p) \/ LookupPartner(p)
         \/ TimeOutLookup(p) \/ Fail(p)
  PROVE  MessagesSound'
<1>1. UNCHANGED <<mapping, queue, late, hops>>
  BY DEF Connect, LookupOwnQueue, LookupPartner, TimeOutLookup, Fail, Register,
         pairVars, brokerVars, historyVars
<1>2. \A o \in OneWays : QueuedCopies(o)' \subseteq QueuedCopies(o) /\ hops'[o] = hops[o]
  BY <1>1, Rigid DEF QueuedCopies, QueuedMessages
<1>3. /\ \A c \in Clients : pc'[c] = "forward" => pc[c] = "forward" /\ hand'[c] = hand[c]
      /\ \A c \in Clients : pc'[c] \in Before => pc[c] \in Before
  <2>1. CASE Connect(p)
    BY <2>1, Goes DEF Connect, Before, IInv
  <2>2. CASE LookupOwnQueue(p)
    BY <2>2, Goes DEF LookupOwnQueue, Before, IInv
  <2>3. CASE LookupPartner(p)
    BY <2>3 DEF LookupPartner
  <2>4. CASE TimeOutLookup(p)
    BY <2>4, Goes, Drops DEF TimeOutLookup, AfterTimeout, Before, IInv
  <2>5. CASE Fail(p)
    BY <2>5, Goes, Drops DEF Fail, Before, IInv
  <2> QED
    BY <2>1, <2>2, <2>3, <2>4, <2>5
<1> QED
  BY <1>1, <1>2, <1>3, QuietMessages DEF IInv

(* Counters of pairs are no one-way messages.                              *)
LEMMA PairedMessages ==
  ASSUME IInv, NEW p \in Clients, SendCounter(p) \/ ReceiveCounter(p)
  PROVE  MessagesSound'
<1>1. UNCHANGED <<mapping, late, pc, hand>>
  BY DEF SendCounter, ReceiveCounter, historyVars
<1>2. \A o \in OneWays : QueuedCopies(o)' \subseteq QueuedCopies(o) /\ hops'[o] = hops[o]
  <2>1. CASE SendCounter(p)
    <3> DEFINE r == PairedSend(p)
               m == MessageOf(r)
               y == QueueCopy(r.to, m, CountIn(m, queue'[r.to]))
    <3>1. r \in Inserts /\ Insert(r) /\ TypeOK
      BY <2>1, RequestsSound DEF SendCounter, IInv
    <3>2. r.token = p /\ p \notin OneWays
      BY <2>1 DEF PairedSend, Send, SendCounter, CanSend, InLoop, Paired, OneWays
    <3> HIDE DEF r
    <3>3. \A o \in OneWays : hops'[o] = IF o = r.token THEN hops[o] + 1 ELSE hops[o]
      BY <1>1, <3>1, StoreEffect
    <3>4. \A o : o # r.token => QueuedCopies(o)' \subseteq QueuedCopies(o)
      BY <1>1, <3>1, InsertStep
    <3> QED
      BY <3>2, <3>3, <3>4
  <2>2. CASE ReceiveCounter(p)
    <3>1. PICK m \in Selected(Dequeue(p)) : Delete(Dequeue(p), m)
      BY <2>2 DEF ReceiveCounter
    <3>2. Dequeue(p).by = p
      BY DEF Dequeue
    <3>3. \A o : QueuedCopies(o)' \subseteq QueuedCopies(o)
      BY <1>1, <3>1, <3>2, DequeueStep DEF IInv
    <3> QED
      BY <2>2, <3>3 DEF ReceiveCounter, historyVars
  <2> QED
    BY <2>1, <2>2
<1> QED
  BY <1>1, <1>2, QuietMessages DEF IInv

(* The first message of a client: there was none before.                   *)
LEMMA InitialMessages ==
  ASSUME IInv, NEW p \in Clients, NEW q, SendInitialMessage(p, q)
  PROVE  MessagesSound'
<1> DEFINE r == InitialSend(p, q)
           m == MessageOf(r)
           y == QueueCopy(r.to, m, CountIn(m, queue'[r.to]))
<1>1. r \in Inserts /\ Insert(r) /\ TypeOK /\ UNCHANGED <<mapping, late, hand>>
  BY RequestsSound DEF SendInitialMessage, IInv
<1>2. r.token = p /\ r.content = 0
  BY DEF InitialSend, Send
<1> HIDE DEF r
<1>3. /\ \A o \in OneWays : hops'[o] = IF o = r.token THEN hops[o] + 1 ELSE hops[o]
      /\ m.content = r.content
  BY <1>1, StoreEffect
<1>4. /\ \A o : QueuedCopies(o)' \subseteq QueuedCopies(o) \cup {y}
      /\ \A o : o # r.token => QueuedCopies(o)' \subseteq QueuedCopies(o)
      /\ y[3] = m
  BY <1>1, InsertStep
<1> HIDE DEF m, y
<1>5. pc[p] = "initial" /\ pc'[p] = "loop" /\ \A c \in Clients : c # p => pc'[c] = pc[c]
  BY <1>1, Goes DEF SendInitialMessage
<1>6. \A o : HeldCopies(o)' \subseteq HeldCopies(o)
  BY <1>1, <1>5, HeldKept
<1>7. \A o : LateCopies(o)' \subseteq LateCopies(o)
  BY <1>1, LateKept
<1>8. ASSUME p \in OneWays PROVE MessageSound(p)'
  <2>1. MessageSound(p) /\ Copies(p) = {} /\ hops[p] = 0
    BY <1>5, <1>8 DEF IInv, MessagesSound, MessageSound, Before
  <2>2. y[3].content + 1 = hops'[p]
    BY <1>2, <1>3, <1>4, <1>8, <2>1
  <2>3. /\ QueuedCopies(p)' \subseteq (Copies(p) \ {y}) \cup {y}
        /\ HeldCopies(p)' \subseteq (Copies(p) \ {y}) \cup {y} /\ LateCopies(p)' = {}
    BY <1>4, <1>6, <1>7, <2>1 DEF Copies
  <2>4. pc'[p] \notin Before
    BY <1>5 DEF Before
  <2> QED
    BY <2>1, <2>2, <2>3, <2>4, MessageMoved
<1>9. \A c \in Clients : pc'[c] \in Before => pc[c] \in Before
  BY <1>5 DEF Before
<1> QED
  BY <1>1, <1>2, <1>3, <1>4, <1>6, <1>7, <1>8, <1>9, MessagesKeptBut DEF IInv

(* A client takes a message from its queue into its hands.                 *)
LEMMA ReceivedMessages ==
  ASSUME IInv, NEW p \in Clients, ReceiveMessage(p)
  PROVE  MessagesSound'
<1>1. UNCHANGED <<mapping, late, hops>> /\ Goto(p, "forward") /\ pc[p] = "loop"
  BY DEF ReceiveMessage, historyVars
<1>2. PICK m \in Selected(Dequeue(p)) :
        Delete(Dequeue(p), m) /\ hand' = [hand EXCEPT ![p] = m]
  BY DEF ReceiveMessage
<1> DEFINE x == QueueCopy(p, m, CountIn(m, queue[p]))
           y == <<"hand", p, m, 1>>
           t == m.token
<1>3. /\ x \in QueuedCopies(t) /\ x[3] = m
      /\ \A o : QueuedCopies(o)' \subseteq QueuedCopies(o) \ {x}
  <2>1. Dequeue(p).by = p
    BY DEF Dequeue
  <2> QED
    BY <1>1, <1>2, <2>1, DequeueStep DEF IInv
<1>4. /\ pc'[p] = "forward" /\ \A c \in Clients : c # p => pc'[c] = pc[c]
      /\ hand'[p] = m /\ \A c \in Clients : c # p => hand'[c] = hand[c]
  BY <1>1, <1>2, Goes DEF IInv, TypeOK
<1>5. /\ \A o : HeldCopies(o)' \subseteq HeldCopies(o) \cup {y}
      /\ \A o : o # t => HeldCopies(o)' \subseteq HeldCopies(o)
  <2>1. ASSUME NEW o, NEW z \in HeldCopies(o)'
        PROVE  z \in HeldCopies(o) \/ (o = t /\ z = y)
    <3>1. PICK c \in Clients : /\ pc'[c] = "forward" /\ hand'[c].token = o
                               /\ z = <<"hand", c, hand'[c], 1>>
      BY <1>1, <2>1, Rigid DEF HeldCopies
    <3>2. CASE c = p
      BY <1>4, <3>1, <3>2
    <3>3. CASE c # p
      BY <1>4, <3>1, <3>3 DEF HeldCopies
    <3> QED
      BY <3>2, <3>3
  <2> QED
    BY <2>1
<1>6. \A o : LateCopies(o)' \subseteq LateCopies(o)
  BY <1>1, LateKept
<1>7. y[1] = "hand" /\ y[3] = m
  OBVIOUS
<1> HIDE DEF x, y, t
<1>8. ASSUME t \in OneWays PROVE MessageSound(t)'
  <2>1. MessageSound(t) /\ t \in Clients
    BY <1>8 DEF IInv, MessagesSound, OneWays
  <2>2. x \in Copies(t)
    BY <1>3 DEF Copies
  <2>3. y[3].content + 1 = hops'[t]
    BY <1>1, <1>3, <1>7, <2>1 DEF MessageSound
  <2>4. x \notin HeldCopies(t) /\ x \notin LateCopies(t)
    BY <1>3, CopyKinds
  <2>5. y \notin LateCopies(t)'
    BY <1>6, <1>7, CopyKinds
  <2>6. /\ QueuedCopies(t)' \subseteq (Copies(t) \ {x}) \cup {y}
        /\ HeldCopies(t)' \subseteq (Copies(t) \ {x}) \cup {y}
        /\ LateCopies(t)' \subseteq (Copies(t) \ {x}) \cup {y}
    BY <1>3, <1>5, <1>6, <2>4 DEF Copies
  <2>7. pc'[t] \notin Before
    BY <1>4, <2>1, <2>2 DEF MessageSound, Before
  <2> QED
    BY <2>1, <2>2, <2>3, <2>5, <2>6, <2>7, MessageMoved
<1>9. \A c \in Clients : pc'[c] \in Before => pc[c] \in Before
  BY <1>4 DEF Before
<1> QED
  BY <1>1, <1>3, <1>5, <1>6, <1>8, <1>9, MessagesKeptBut DEF IInv

(* A client sends on what it holds.                                        *)
LEMMA ForwardedMessages ==
  ASSUME IInv, NEW p \in Clients, NEW q, ForwardMessage(p, q)
  PROVE  MessagesSound'
<1> SUFFICES ASSUME NEW r, r = ForwardSend(p, q), NEW m, m = MessageOf(r),
                    NEW x, x = <<"hand", p, hand[p], 1>>, NEW t, t = hand[p].token,
                    NEW y, y = QueueCopy(r.to, m, CountIn(m, queue'[r.to]))
             PROVE  MessagesSound'
  OBVIOUS
<1>1. /\ r \in Inserts /\ Insert(r) /\ TypeOK /\ UNCHANGED <<mapping, late>>
      /\ pc[p] = "forward" /\ Goto(p, "loop") /\ Drop(p)
  BY RequestsSound DEF ForwardMessage, CanForward, IInv
<1>2. r.token = t /\ r.content = hand[p].content + 1
  BY DEF ForwardSend, Send
<1>3. /\ \A o \in OneWays : hops'[o] = IF o = r.token THEN hops[o] + 1 ELSE hops[o]
      /\ m.content = r.content
  BY <1>1, StoreEffect
<1>4. /\ \A o : QueuedCopies(o)' \subseteq QueuedCopies(o) \cup {y}
      /\ \A o : o # r.token => QueuedCopies(o)' \subseteq QueuedCopies(o)
      /\ y[3] = m
  BY <1>1, InsertStep
<1>5. /\ pc'[p] = "loop" /\ \A c \in Clients : c # p => pc'[c] = pc[c]
      /\ \A c \in Clients : c # p => hand'[c] = hand[c]
  BY <1>1, Goes, Drops
<1>6. \A o : HeldCopies(o)' \subseteq HeldCopies(o) \ {x}
  BY <1>1, <1>5, HeldLost
<1>7. \A o : LateCopies(o)' \subseteq LateCopies(o)
  BY <1>1, LateKept
<1>8. x \in HeldCopies(t) /\ x[1] = "hand" /\ x[3] = hand[p]
  BY <1>1 DEF HeldCopies
<1>9. ASSUME t \in OneWays PROVE MessageSound(t)'
  <2>1. MessageSound(t) /\ t \in Clients
    BY <1>9 DEF IInv, MessagesSound, OneWays
  <2>2. x \in Copies(t) /\ hand[p].content + 1 = hops[t]
    BY <1>8, <2>1 DEF Copies, MessageSound
  <2>3. y[3].content + 1 = hops'[t]
    BY <1>2, <1>3, <1>4, <1>9, <2>2
  <2>4. x \notin QueuedCopies(t) /\ x \notin LateCopies(t)
    BY <1>8, CopyKinds
  <2>5. /\ QueuedCopies(t)' \subseteq (Copies(t) \ {x}) \cup {y}
        /\ HeldCopies(t)' \subseteq (Copies(t) \ {x}) \cup {y}
        /\ LateCopies(t)' \subseteq (Copies(t) \ {x}) \cup {y}
    BY <1>4, <1>6, <1>7, <2>4 DEF Copies
  <2>6. LateCopies(t)' = {}
    BY <1>7, <2>1, <2>2, <2>4 DEF MessageSound, Copies
  <2>7. pc'[t] \notin Before
    BY <1>5, <2>1, <2>2 DEF MessageSound, Before
  <2> QED
    BY <2>1, <2>2, <2>3, <2>5, <2>6, <2>7, MessageMoved
<1>10. \A c \in Clients : pc'[c] \in Before => pc[c] \in Before
  BY <1>5 DEF Before
<1>11. \A o : HeldCopies(o)' \subseteq HeldCopies(o)
  BY <1>6
<1> QED
  BY <1>1, <1>2, <1>3, <1>4, <1>7, <1>9, <1>10, <1>11, MessagesKeptBut DEF IInv

(* A client gives up waiting: what it was sending may still arrive.        *)
LEMMA TimedOutMessages ==
  ASSUME IInv, NEW p \in Clients, TimeOut(p)
  PROVE  MessagesSound'
<1>1. /\ AfterTimeout(p) /\ UNCHANGED <<mapping, queue, hops>>
      /\ TypeOK /\ PartnersKnown
  BY DEF TimeOut, pairVars, brokerVars, historyVars, IInv
<1>2. PICK r \in UnderWay(p) : late' = late \cup {[id |-> faults, request |-> r]}
  BY DEF TimeOut
<1> DEFINE x == <<"hand", p, hand[p], 1>>
           y == <<"late", faults, r, 1>>
<1>3. /\ pc'[p] \notin Before /\ pc'[p] # "forward"
      /\ \A c \in Clients : c # p => pc'[c] = pc[c] /\ hand'[c] = hand[c]
  BY <1>1, Goes, Drops DEF AfterTimeout, Before
<1>4. \A o : HeldCopies(o)' \subseteq HeldCopies(o) \ {x}
  BY <1>1, <1>3, HeldLost
<1>5. /\ \A o : LateCopies(o)' \subseteq LateCopies(o) \cup {y}
      /\ \A o : r.op # "insert" \/ r.token # o => LateCopies(o)' \subseteq LateCopies(o)
  BY <1>2, LateAdded
<1>6. \A o : QueuedCopies(o)' = QueuedCopies(o)
  BY <1>1, Rigid DEF QueuedCopies, QueuedMessages
<1>7. y[1] = "late" /\ y[3] = r
  OBVIOUS
<1>8. \A c \in Clients : pc'[c] \in Before => pc[c] \in Before
  BY <1>3
<1>9. CASE r.op # "insert" \/ r.token \notin OneWays
  <2>1. \A o \in OneWays : LateCopies(o)' \subseteq LateCopies(o)
    BY <1>5, <1>9
  <2>2. \A o : HeldCopies(o)' \subseteq HeldCopies(o)
    BY <1>4
  <2>3. \A o \in OneWays : MessageSound(o)'
    <3> SUFFICES ASSUME NEW o \in OneWays PROVE MessageSound(o)'
      OBVIOUS
    <3>1. MessageSound(o) /\ o \in Clients
      BY DEF IInv, MessagesSound, OneWays
    <3> QED
      BY <1>1, <1>6, <1>8, <2>1, <2>2, <3>1, MessageKept
  <2> QED
    BY <1>1, <2>3, Rigid DEF MessagesSound
<1>10. CASE r.op = "insert" /\ r.token \in OneWays
  <2> DEFINE t == r.token
  <2>1. MessageSound(t) /\ t \in Clients
    BY <1>10 DEF IInv, MessagesSound, OneWays
  <2>2. \/ pc[p] = "initial" /\ t = p /\ r.content = 0
        \/ pc[p] = "forward" /\ t = hand[p].token /\ r.content = hand[p].content + 1
    <3>1. r # [op |-> "register", by |-> p] /\ r # Dequeue(p)
      BY <1>10 DEF Dequeue
    <3>2. CanSend(p) => p \notin OneWays
      BY DEF CanSend, InLoop, Paired, OneWays
    <3>3. CanSend(p) => r # PairedSend(p)
      BY <1>10, <3>2 DEF PairedSend, Send
    <3> QED
      BY <3>1, <3>3, UnderWayKinds DEF InitialSend, ForwardSend, Send
  <2>3. Copies(t) = {} \/ x \in Copies(t)
    BY <2>1, <2>2 DEF MessageSound, Before, Copies, HeldCopies
  <2>4. y[3].content = hops'[t]
    <3>1. CASE pc[p] = "initial" /\ t = p /\ r.content = 0
      BY <1>1, <1>7, <2>1, <3>1 DEF MessageSound, Before
    <3>2. CASE pc[p] = "forward" /\ t = hand[p].token /\ r.content = hand[p].content + 1
      <4>1. x \in HeldCopies(t) /\ x[3] = hand[p]
        BY <3>2 DEF HeldCopies
      <4> QED
        BY <1>1, <1>7, <2>1, <3>2, <4>1 DEF MessageSound
    <3> QED
      BY <2>2, <3>1, <3>2
  <2> HIDE DEF x, y, t
  <2>5. x \in Copies(t) => x \notin QueuedCopies(t) /\ x \notin LateCopies(t)
    BY CopyKinds DEF x
  <2>6. /\ QueuedCopies(t)' \subseteq (Copies(t) \ {x}) \cup {y}
        /\ HeldCopies(t)' \subseteq (Copies(t) \ {x}) \cup {y}
        /\ LateCopies(t)' \subseteq (Copies(t) \ {x}) \cup {y}
    BY <1>4, <1>5, <1>6, <2>3, <2>5 DEF Copies
  <2>7. y \notin QueuedCopies(t)' /\ y \notin HeldCopies(t)'
    BY <1>4, <1>6, <1>7, CopyKinds
  <2>8. pc'[t] \notin Before
    <3>1. CASE t = p
      BY <1>3, <3>1
    <3>2. CASE t # p
      <4>1. x \in HeldCopies(t)
        BY <2>2, <3>2 DEF HeldCopies, x
      <4> QED
        BY <1>8, <2>1, <4>1 DEF MessageSound, Copies
    <3> QED
      BY <3>1, <3>2
  <2>9. MessageSound(t)'
    BY <2>1, <2>3, <2>4, <2>6, <2>7, <2>8, MessageMoved
  <2>10. \A o : HeldCopies(o)' \subseteq HeldCopies(o)
    BY <1>4
  <2>11. \A o : o # t => LateCopies(o)' \subseteq LateCopies(o)
    BY <1>5 DEF t
  <2> QED
    BY <1>1, <1>6, <1>8, <2>9, <2>10, <2>11, MessagesKeptBut DEF IInv
<1> QED
  BY <1>9, <1>10

(* The broker executes a late request.                                     *)
LEMMA LateMessages ==
  ASSUME IInv, ExecuteLate
  PROVE  MessagesSound'
<1>1. UNCHANGED <<mapping, pc, hand>> /\ TypeOK /\ LateSound
  BY DEF ExecuteLate, IInv
<1>2. PICK l \in late :
        /\ LateRegister(l.request) \/ LateInsert(l.request) \/ LateDequeue(l.request)
        /\ late' = late \ {l}
  BY DEF ExecuteLate
<1>3. l.request \in Requests
  BY <1>1 DEF LateSound
<1> SUFFICES ASSUME NEW r, r = l.request, NEW x, x = <<"late", l.id, r, 1>>
             PROVE  MessagesSound'
  OBVIOUS
<1>4. /\ \A o : LateCopies(o)' \subseteq LateCopies(o) \ {x}
      /\ late' \subseteq late
  BY <1>1, <1>2, LateTaken
<1>5. CASE LateRegister(r)
  <2>1. UNCHANGED <<queue, hops>>
    BY <1>5 DEF LateRegister, historyVars
  <2>2. \A o \in OneWays : QueuedCopies(o)' \subseteq QueuedCopies(o) /\ hops'[o] = hops[o]
    BY <1>1, <2>1, Rigid DEF QueuedCopies, QueuedMessages
  <2> QED
    BY <1>1, <1>4, <2>2, QuietMessages DEF IInv
<1>6. CASE LateDequeue(r)
  <2>1. r.by \in Clients /\ UNCHANGED hops
    BY <1>3, <1>6, RequestKinds DEF LateDequeue, Dequeues
  <2>2. PICK m \in Selected(r) : Delete(r, m)
    BY <1>6 DEF LateDequeue
  <2>3. \A o : QueuedCopies(o)' \subseteq QueuedCopies(o)
    BY <1>1, <2>1, <2>2, DequeueStep
  <2> QED
    BY <1>1, <1>4, <2>1, <2>3, QuietMessages DEF IInv
<1>7. CASE LateInsert(r)
  <2>1. r \in Inserts /\ Insert(r) /\ r.op = "insert"
    BY <1>3, <1>7, RequestKinds DEF LateInsert
  <2> SUFFICES ASSUME NEW m, m = MessageOf(r),
                      NEW y, y = QueueCopy(r.to, m, CountIn(m, queue'[r.to]))
               PROVE  MessagesSound'
    OBVIOUS
  <2>2. /\ \A o \in OneWays : hops'[o] = IF o = r.token THEN hops[o] + 1 ELSE hops[o]
        /\ m.content = r.content
    BY <1>1, <2>1, StoreEffect
  <2>3. /\ \A o : QueuedCopies(o)' \subseteq QueuedCopies(o) \cup {y}
        /\ \A o : o # r.token => QueuedCopies(o)' \subseteq QueuedCopies(o)
        /\ y[3] = m
    BY <1>1, <2>1, InsertStep
  <2>4. \A o : HeldCopies(o)' = HeldCopies(o)
    BY <1>1, Rigid DEF HeldCopies
  <2>5. x \in LateCopies(r.token) /\ x[1] = "late" /\ x[3] = r
    BY <2>1 DEF LateCopies
  <2>6. ASSUME NEW t, t = r.token, t \in OneWays PROVE MessageSound(t)'
    <3>1. MessageSound(t) /\ t \in Clients
      BY <2>6 DEF IInv, MessagesSound, OneWays
    <3>2. x \in Copies(t) /\ r.content = hops[t]
      BY <2>5, <2>6, <3>1 DEF Copies, MessageSound
    <3>3. y[3].content + 1 = hops'[t]
      BY <2>2, <2>3, <2>6, <3>2
    <3>4. x \notin QueuedCopies(t) /\ x \notin HeldCopies(t)
      BY <2>5, CopyKinds
    <3>5. /\ QueuedCopies(t)' \subseteq (Copies(t) \ {x}) \cup {y}
          /\ HeldCopies(t)' \subseteq (Copies(t) \ {x}) \cup {y}
          /\ LateCopies(t)' \subseteq (Copies(t) \ {x}) \cup {y}
      BY <1>4, <2>3, <2>4, <3>4 DEF Copies
    <3>6. LateCopies(t)' = {}
      BY <1>4, <3>1, <3>2 DEF MessageSound, Copies
    <3>7. pc'[t] \notin Before
      BY <1>1, <3>1, <3>2 DEF MessageSound
    <3> QED
      BY <3>1, <3>2, <3>3, <3>5, <3>6, <3>7, MessageMoved
  <2>7. \A o : LateCopies(o)' \subseteq LateCopies(o)
    BY <1>4
  <2> QED
    BY <1>1, <2>2, <2>3, <2>4, <2>6, <2>7, MessagesKeptBut DEF IInv
<1> QED
  BY <1>2, <1>5, <1>6, <1>7

-----------------------------------------------------------------------------
(* Conversations. *)

(* The conversation k of requester p goes on as long as nothing else joins *)
(* it than an answer to p, and its partner once it has the request.        *)
LEMMA ConversationKept ==
  ASSUME NEW p \in Clients, NEW k, k = context[p], Conversation(p), UNCHANGED mapping,
         context'[p] = context[p], counter'[p] = counter[p],
         \A c \in Clients : Requesting(c) /\ context'[c] = k => context[c] = k,
         \A c \in Clients : \A m \in BagToSet(queue'[c]) :
           \/ m \in BagToSet(queue[c]) \/ m.context # k
           \/ c = p /\ m.content = counter[p] + 1,
         \A l \in late' : l \in late \/
           (l.request.op = "insert" /\ ~l.request.asks /\ l.request.context = k =>
              l.request.to = p /\ l.request.content = counter[p] + 1),
         \A c \in Clients : ~Requesting(c) /\ context'[c] = k =>
           \/ /\ context[c] = k /\ (sending'[c] => sending[c]) /\ counter'[c] = counter[c]
           \/ c = Partner(p) /\ (sending'[c] => counter'[c] = counter[p] + 1)
  PROVE  Conversation(p)'
<1>1. Clients' = Clients /\ context'[p] = k
  BY Rigid
<1>2. k # None /\ \A c \in Clients : Requesting(c) /\ context'[c] = k => c = p
  BY DEF Conversation
<1>3. \A c \in Clients : \A m \in BagToSet(queue'[c]) : m.context = k =>
        \/ c = Partner(p) /\ m.content = counter'[p]
        \/ c = p /\ m.content = counter'[p] + 1
  BY DEF Conversation
<1>4. \A l \in late' :
        l.request.op = "insert" /\ ~l.request.asks /\ l.request.context = k =>
          l.request.to = p /\ l.request.content = counter'[p] + 1
  BY DEF Conversation
<1>5. \A c \in Clients : ~Requesting(c) /\ context'[c] = k =>
        c = Partner(p) /\ (sending'[c] => counter'[c] = counter'[p] + 1)
  BY DEF Conversation
<1> QED
  BY <1>1, <1>2, <1>3, <1>4, <1>5 DEF Conversation, Requesting, Partner

(* Most steps leave the fields of the clients alone.                       *)
LEMMA ConversationsKept ==
  ASSUME IInv, UNCHANGED <<mapping, sending, counter, context>>,
         \A p \in Clients : Waiting(p) => \A c \in Clients : \A m \in BagToSet(queue'[c]) :
           \/ m \in BagToSet(queue[c]) \/ m.context # context[p]
           \/ c = p /\ m.content = counter[p] + 1,
         \A p \in Clients : Waiting(p) => \A l \in late' : l \in late \/
           (l.request.op = "insert" /\ ~l.request.asks /\ l.request.context = context[p] =>
              l.request.to = p /\ l.request.content = counter[p] + 1)
  PROVE  Conversations'
<1> SUFFICES ASSUME NEW p \in Clients, Waiting(p)' PROVE Conversation(p)'
  BY Rigid DEF Conversations
<1>1. Waiting(p)
  BY Rigid DEF Waiting, Requesting
<1>2. Conversation(p)
  BY <1>1 DEF IInv, Conversations
<1>3. ASSUME NEW k, k = context[p] PROVE Conversation(p)'
  BY <1>1, <1>2, <1>3, ConversationKept
<1> QED
  BY <1>3

(* The queues of a step that stores or takes no message.                   *)
QueuesShrink == \A c \in Clients : BagToSet(queue'[c]) \subseteq BagToSet(queue[c])

(* Steps of a client that do not store a message.                          *)
LEMMA StepsThatTake ==
  ASSUME IInv, NEW p \in Clients,
         \/ Connect(p) \/ LookupOwnQueue(p) \/ LookupPartner(p) \/ TimeOutLookup(p)
         \/ Fail(p) \/ ReceiveMessage(p) \/ ReceiveCounter(p) \/ TimeOut(p)
  PROVE  /\ QueuesShrink /\ UNCHANGED <<mapping, nextContext>>
         /\ QueuesTyped'
<1>1. CASE ReceiveMessage(p) \/ ReceiveCounter(p)
  <2>1. PICK m \in Selected(Dequeue(p)) : Delete(Dequeue(p), m)
    BY <1>1 DEF ReceiveMessage, ReceiveCounter
  <2>2. Dequeue(p).by = p
    BY DEF Dequeue
  <2>3. UNCHANGED <<mapping, nextContext>>
    BY <1>1 DEF ReceiveMessage, ReceiveCounter
  <2> QED
    BY <2>1, <2>2, <2>3, DequeueStep DEF IInv, QueuesShrink
<1>2. CASE \/ Connect(p) \/ LookupOwnQueue(p) \/ LookupPartner(p) \/ TimeOutLookup(p)
           \/ Fail(p) \/ TimeOut(p)
  <2>1. UNCHANGED <<mapping, queue, nextContext>>
    BY <1>2 DEF Connect, LookupOwnQueue, LookupPartner, TimeOutLookup, Fail, TimeOut,
         brokerVars
  <2> QED
    BY <2>1, Rigid DEF QueuesShrink, IInv, TypeOK, QueuesTyped
<1> QED
  BY <1>1, <1>2

(* They leave the conversations alone.                                     *)
LEMMA StillConversations ==
  ASSUME IInv, NEW p \in Clients,
         \/ Connect(p) \/ LookupOwnQueue(p) \/ LookupPartner(p) \/ TimeOutLookup(p)
         \/ Fail(p) \/ ReceiveMessage(p)
  PROVE  Conversations'
<1>1. QueuesShrink
  BY StepsThatTake
<1>2. UNCHANGED <<mapping, sending, counter, context, late>>
  BY DEF Connect, LookupOwnQueue, LookupPartner, TimeOutLookup, Fail, ReceiveMessage,
     pairVars
<1> QED
  BY <1>1, <1>2, ConversationsKept DEF QueuesShrink

(* One-way messages are in no conversation.                                *)
LEMMA OneWayConversations ==
  ASSUME IInv, NEW p \in Clients, NEW q, SendInitialMessage(p, q) \/ ForwardMessage(p, q)
  PROVE  Conversations'
<1>1. PICK r \in {InitialSend(p, q), ForwardSend(p, q)} : r \in Inserts /\ Insert(r)
  BY RequestsSound DEF SendInitialMessage, ForwardMessage, CanForward, IInv
<1>2. UNCHANGED <<mapping, sending, counter, context, late>> /\ TypeOK
  BY DEF SendInitialMessage, ForwardMessage, pairVars, IInv
<1>3. ~r.asks /\ r.context = None
  BY <1>1 DEF InitialSend, ForwardSend, Send
<1> SUFFICES ASSUME NEW m, NEW y, m = MessageOf(r),
                    y = QueueCopy(r.to, m, CountIn(m, queue'[r.to]))
             PROVE  Conversations'
  OBVIOUS
<1>4. m.context = None
  BY <1>3 DEF ContextOf, MessageOf
<1>5. \A c \in Clients : \A n \in BagToSet(queue'[c]) : n \in BagToSet(queue[c]) \/ n = m
  BY <1>1, <1>2, InsertStep
<1>6. \A c \in Clients : Waiting(c) => context[c] # None
  BY DEF IInv, Conversations, Conversation
<1> QED
  BY <1>2, <1>4, <1>5, <1>6, ConversationsKept

(* A request that timed out belongs to the conversation of its client.     *)
LEMMA TimedOutConversations ==
  ASSUME IInv, NEW s \in Clients, TimeOut(s)
  PROVE  Conversations'
<1>1. UNCHANGED <<mapping, sending, counter, context>> /\ QueuesShrink
  BY StepsThatTake DEF TimeOut, pairVars
<1>2. PICK r \in UnderWay(s) : late' = late \cup {[id |-> faults, request |-> r]}
  BY DEF TimeOut
<1>3. ASSUME NEW p \in Clients, Waiting(p), NEW l \in late', l \notin late,
             l.request.op = "insert", ~l.request.asks, l.request.context = context[p]
      PROVE  l.request.to = p /\ l.request.content = counter[p] + 1
  <2>1. l.request = r
    BY <1>2, <1>3
  <2>2. context[p] # None /\ Conversation(p)
    BY <1>3 DEF IInv, Conversations, Conversation
  <2>3. CanSend(s) /\ r = PairedSend(s)
    <3>1. r # [op |-> "register", by |-> s] /\ r # Dequeue(s)
      BY <1>3, <2>1 DEF Dequeue
    <3>2. \A q : r # InitialSend(s, q) /\ r # ForwardSend(s, q)
      BY <1>3, <2>1, <2>2 DEF InitialSend, ForwardSend, Send
    <3> QED
      BY <3>1, <3>2, UnderWayKinds
  <2>4. /\ ~Requesting(s) /\ context[s] = context[p] /\ sending[s]
        /\ r.to = Partner(s) /\ r.content = counter[s]
    BY <1>3, <2>1, <2>3 DEF PairedSend, Send, CanSend
  <2>5. s = Partner(p) /\ counter[s] = counter[p] + 1
    BY <2>2, <2>4 DEF Conversation
  <2>6. Partner(Partner(p)) = p
    BY Partners DEF IInv
  <2> QED
    BY <2>1, <2>4, <2>5, <2>6
<1> QED
  BY <1>1, <1>3, ConversationsKept DEF QueuesShrink

(* A late request opens a conversation nobody waits in, or is an answer    *)
(* that its conversation allows.                                           *)
LEMMA LateConversations ==
  ASSUME IInv, ExecuteLate
  PROVE  Conversations'
<1>1. UNCHANGED <<mapping, sending, counter, context>> /\ TypeOK /\ LateSound
  BY DEF ExecuteLate, pairVars, IInv
<1>2. PICK l \in late :
        /\ LateRegister(l.request) \/ LateInsert(l.request) \/ LateDequeue(l.request)
        /\ late' = late \ {l}
  BY DEF ExecuteLate
<1> SUFFICES ASSUME NEW r, r = l.request PROVE Conversations'
  OBVIOUS
<1>3. r \in Requests
  BY <1>1 DEF LateSound
<1>4. CASE LateRegister(r)
  BY <1>1, <1>2, <1>4, ConversationsKept DEF LateRegister
<1>5. CASE LateDequeue(r)
  <2>1. r.by \in Clients
    BY <1>3, <1>5, RequestKinds DEF LateDequeue, Dequeues
  <2>2. PICK m \in Selected(r) : Delete(r, m)
    BY <1>5 DEF LateDequeue
  <2>3. \A c \in Clients : BagToSet(queue'[c]) \subseteq BagToSet(queue[c])
    BY <1>1, <2>1, <2>2, DequeueStep
  <2> QED
    BY <1>1, <1>2, <2>3, ConversationsKept
<1>6. CASE LateInsert(r)
  <2>1. r \in Inserts /\ Insert(r) /\ r.op = "insert" /\ r.asks \in BOOLEAN
    BY <1>3, <1>6, RequestKinds DEF LateInsert, Inserts
  <2> SUFFICES ASSUME NEW m, NEW y, m = MessageOf(r),
                    y = QueueCopy(r.to, m, CountIn(m, queue'[r.to]))
               PROVE  Conversations'
    OBVIOUS
  <2>2. \A c \in Clients : \A n \in BagToSet(queue'[c]) :
          n \in BagToSet(queue[c]) \/ (c = r.to /\ n = m)
    BY <1>1, <2>1, InsertStep
  <2>3. m.context = ContextOf(r) /\ m.content = r.content
    BY <1>1, <2>1, StoreEffect
  <2>4. ASSUME NEW p \in Clients, Waiting(p), m.context = context[p]
        PROVE  r.to = p /\ m.content = counter[p] + 1
    <3>1. context[p] # nextContext
      BY <1>1 DEF TypeOK
    <3>2. ~r.asks /\ r.context = context[p]
      BY <2>1, <2>3, <2>4, <3>1 DEF ContextOf
    <3>3. Conversation(p)
      BY <2>4 DEF IInv, Conversations
    <3> QED
      BY <2>1, <2>3, <3>2, <3>3 DEF Conversation
  <2> QED
    BY <1>1, <1>2, <2>2, <2>4, ConversationsKept
<1> QED
  BY <1>2, <1>4, <1>5, <1>6

(* A requester opens a conversation that nobody else knows of; a responder *)
(* sends its answer into the conversation of the request.                  *)
LEMMA SentConversations ==
  ASSUME IInv, NEW s \in Clients, SendCounter(s)
  PROVE  Conversations'
<1> SUFFICES ASSUME NEW r, r = PairedSend(s), NEW m, NEW y, m = MessageOf(r),
                    y = QueueCopy(r.to, m, CountIn(m, queue'[r.to]))
             PROVE  Conversations'
  OBVIOUS
<1>1. /\ r \in Inserts /\ Insert(r) /\ CanSend(s) /\ TypeOK
      /\ UNCHANGED <<mapping, counter, late>>
  BY RequestsSound DEF SendCounter, IInv
<1>2. /\ sending' = [sending EXCEPT ![s] = FALSE]
      /\ context' = IF Requesting(s) THEN [context EXCEPT ![s] = nextContext] ELSE context
      /\ sending[s]
  BY DEF SendCounter, CanSend
<1>3. /\ r.to = Partner(s) /\ r.asks = Requesting(s) /\ r.content = counter[s]
      /\ ~Requesting(s) => r.context = context[s]
  BY DEF PairedSend, Send
<1>4. /\ m.content = counter[s]
      /\ m.context = IF Requesting(s) THEN nextContext ELSE context[s]
  <2>1. m.content = r.content /\ m.context = ContextOf(r)
    BY <1>1, StoreEffect
  <2> QED
    BY <1>3, <2>1 DEF ContextOf
<1>5. \A c \in Clients : \A n \in BagToSet(queue'[c]) :
        n \in BagToSet(queue[c]) \/ (c = Partner(s) /\ n = m)
  BY <1>1, <1>3, InsertStep
<1>6. /\ nextContext \in Nat \ {0}
      /\ context \in [Clients -> 0 .. nextContext - 1] /\ DOMAIN sending = Clients
  BY <1>1 DEF TypeOK
<1>7. \A c \in Clients : context[c] # nextContext
  BY <1>6
<1> SUFFICES ASSUME NEW p \in Clients, Waiting(p)' PROVE Conversation(p)'
  BY <1>1, Rigid DEF Conversations
<1>8. Partner(Partner(p)) = p
  BY <1>1, Partners
<1>9. CASE p = s
  <2>1. Requesting(s)
    BY <1>9 DEF Waiting, Requesting
  <2>2. context'[s] = nextContext /\ \A c \in Clients : c # s => context'[c] = context[c]
    BY <1>2, <1>6, <2>1
  <2>3. \A c \in Clients : \A n \in BagToSet(queue[c]) : n.context # nextContext
    BY <1>6 DEF IInv, ContextsKnown, TypeOK, Message
  <2>4. \A l \in late : l.request.op = "insert" => l.request.context # nextContext
    <3> SUFFICES ASSUME NEW l \in late, l.request.op = "insert"
                 PROVE  l.request.context # nextContext
      OBVIOUS
    <3>1. l.request \in Inserts
      BY RequestKinds DEF IInv, LateSound
    <3>2. l.request.context < nextContext /\ l.request.context \in Nat
      BY <3>1 DEF IInv, ContextsKnown, Inserts
    <3> QED
      BY <1>6, <3>2
  <2>5. \A c \in Clients : \A n \in BagToSet(queue'[c]) : n.context = nextContext =>
          c = Partner(s) /\ n.content = counter[s]
    BY <1>4, <1>5, <2>3
  <2>6. nextContext # None
    BY <1>6 DEF None
  <2>7. \A c \in Clients : context'[c] = nextContext => c = s
    BY <1>7, <2>2
  <2>8. Clients' = Clients /\ counter' = counter /\ late' = late
    BY <1>1, Rigid
  <2> QED
    BY <1>9, <2>1, <2>2, <2>4, <2>5, <2>6, <2>7, <2>8 DEF Conversation, Requesting, Partner
<1>10. CASE p # s
  <2>1. Waiting(p) /\ context'[p] = context[p]
    BY <1>1, <1>2, <1>6, <1>10, Rigid DEF Waiting, Requesting
  <2>2. Conversation(p)
    BY <2>1 DEF IInv, Conversations
  <2>3. ASSUME m.context = context[p]
        PROVE  Partner(s) = p /\ m.content = counter[p] + 1
    <3>1. ~Requesting(s) /\ context[s] = context[p]
      BY <1>4, <1>7, <2>3
    <3>2. s = Partner(p) /\ counter[s] = counter[p] + 1
      BY <1>2, <2>2, <3>1 DEF Conversation
    <3> QED
      BY <1>4, <1>8, <3>2
  <2>4. \A c \in Clients : \A n \in BagToSet(queue'[c]) :
          \/ n \in BagToSet(queue[c]) \/ n.context # context[p]
          \/ c = p /\ n.content = counter[p] + 1
    BY <1>5, <2>3
  <2>5. \A c \in Clients : Requesting(c) /\ context'[c] = context[p] => context[c] = context[p]
    BY <1>2, <1>6, <1>7
  <2>6. \A c \in Clients : ~Requesting(c) => context'[c] = context[c]
    BY <1>2, <1>6
  <2>7. \A c \in Clients : sending'[c] => sending[c]
    BY <1>2, <1>6
  <2>8. ASSUME NEW k, k = context[p] PROVE Conversation(p)'
    BY <1>1, <2>1, <2>2, <2>4, <2>5, <2>6, <2>7, <2>8, ConversationKept
  <2> QED
    BY <2>8
<1> QED
  BY <1>9, <1>10

(* A requester that has its answer waits no longer; the responder that has *)
(* the request counts it up.                                               *)
LEMMA ReceivedConversations ==
  ASSUME IInv, NEW s \in Clients, ReceiveCounter(s)
  PROVE  Conversations'
<1>1. /\ UNCHANGED <<mapping, late>> /\ sending' = [sending EXCEPT ![s] = TRUE]
      /\ QueuesShrink /\ TypeOK
  BY StepsThatTake DEF ReceiveCounter, IInv
<1>2. PICK m \in Selected(Dequeue(s)) :
        /\ counter' = [counter EXCEPT ![s] = m.content + 1]
        /\ context' = IF Requesting(s) THEN context ELSE [context EXCEPT ![s] = m.context]
  BY DEF ReceiveCounter
<1>3. m \in BagToSet(queue[s])
  BY DEF Selected, Dequeue
<1>4. /\ DOMAIN sending = Clients /\ DOMAIN context = Clients /\ DOMAIN counter = Clients
  BY <1>1 DEF TypeOK
<1> SUFFICES ASSUME NEW p \in Clients, Waiting(p)' PROVE Conversation(p)'
  BY <1>1, Rigid DEF Conversations
<1>5. p # s /\ Waiting(p) /\ Requesting(p)
  BY <1>1, <1>4, Rigid DEF Waiting, Requesting
<1>6. context'[p] = context[p] /\ counter'[p] = counter[p]
  BY <1>2, <1>4, <1>5
<1>7. Conversation(p)
  BY <1>5 DEF IInv, Conversations
<1>8. \A c \in Clients : Requesting(c) => context'[c] = context[c]
  BY <1>2, <1>4
<1>9. ASSUME NEW c \in Clients, ~Requesting(c), context'[c] = context[p]
      PROVE  \/ /\ context[c] = context[p] /\ (sending'[c] => sending[c])
                /\ counter'[c] = counter[c]
             \/ c = Partner(p) /\ counter'[c] = counter[p] + 1
  <2>1. CASE c # s
    BY <1>1, <1>2, <1>4, <1>9, <2>1
  <2>2. CASE c = s
    <3>1. m.context = context[p] /\ counter'[s] = m.content + 1
      BY <1>2, <1>4, <1>9, <2>2
    <3>2. s = Partner(p) /\ m.content = counter[p]
      BY <1>3, <1>5, <1>7, <3>1 DEF Conversation
    <3> QED
      BY <2>2, <3>1, <3>2
  <2> QED
    BY <2>1, <2>2
<1>10. ASSUME NEW k, k = context[p] PROVE Conversation(p)'
  BY <1>1, <1>6, <1>7, <1>8, <1>9, <1>10, ConversationKept DEF QueuesShrink
<1> QED
  BY <1>10

-----------------------------------------------------------------------------
(* Requests that wait, and the conversations they are in. *)

(* What waits to be executed was made by a client.                         *)
LEMMA LateSoundKept ==
  ASSUME IInv, [Next]_vars
  PROVE  LateSound'
<1>1. Clients' = Clients
  <2>1. UNCHANGED mapping
    BY DEF Next, vars, Answered, Connect, LookupOwnQueue, LookupPartner, SendCounter,
       ReceiveCounter, SendInitialMessage, ReceiveMessage, ForwardMessage, TimeOut,
       TimeOutLookup, Fail, ExecuteLate
  <2> QED
    BY <2>1, Rigid
<1>2. late' \subseteq late \/ \E p \in Clients : TimeOut(p)
  BY DEF Next, vars, Answered, Connect, LookupOwnQueue, LookupPartner, SendCounter,
     ReceiveCounter, SendInitialMessage, ReceiveMessage, ForwardMessage,
     TimeOutLookup, Fail, ExecuteLate
<1>3. Requests' = Requests
  BY <1>1 DEF Requests, Inserts, Dequeues, Registrations
<1>4. CASE late' \subseteq late
  BY <1>3, <1>4 DEF IInv, LateSound
<1>5. ASSUME NEW p \in Clients, TimeOut(p) PROVE LateSound'
  <2>1. PICK r \in UnderWay(p) : late' = late \cup {[id |-> faults, request |-> r]}
    BY <1>5 DEF TimeOut
  <2>2. r \in Requests
    <3>1. [op |-> "register", by |-> p] \in Registrations
      BY DEF Registrations
    <3> QED
      BY <3>1, RequestsSound, UnderWayKinds DEF IInv, Requests
  <2>3. faults \in Nat
    BY BoundsAssumption DEF IInv, TypeOK
  <2> QED
    BY <1>3, <2>1, <2>2, <2>3 DEF IInv, LateSound
<1> QED
  BY <1>2, <1>4, <1>5

(* A PairedClient knows its partner only after it has looked it up online. *)
LEMMA PartnersKnownKept ==
  ASSUME IInv, [Next]_vars
  PROVE  PartnersKnown'
<1>1. /\ UNCHANGED mapping
      /\ UNCHANGED knows \/ \E p \in Clients : LookupPartner(p)
  BY DEF Next, vars, pairVars, Answered, Connect, LookupOwnQueue, LookupPartner,
     SendCounter, ReceiveCounter, SendInitialMessage, ReceiveMessage, ForwardMessage,
     TimeOut, TimeOutLookup, Fail, ExecuteLate
<1>2. CASE UNCHANGED knows
  BY <1>1, <1>2, Rigid DEF IInv, PartnersKnown
<1>3. ASSUME NEW p \in Clients, LookupPartner(p) PROVE PartnersKnown'
  <2>1. HasPartner(p) /\ knows' = [knows EXCEPT ![p] = TRUE] /\ DOMAIN knows = Clients
    BY <1>3 DEF LookupPartner, HasPartner, IInv, TypeOK
  <2> QED
    BY <1>1, <2>1, Rigid DEF IInv, PartnersKnown
<1> QED
  BY <1>1, <1>2, <1>3

(* A message is stored in a conversation that is open, or opens it.        *)
LEMMA StoredContext ==
  ASSUME NEW r, TypeOK, UNCHANGED mapping, r \in Inserts, Insert(r),
         r.context < nextContext, \A p \in Clients :
           \A m \in BagToSet(queue[p]) : m.context < nextContext
  PROVE  /\ \A p \in Clients' : \A m \in BagToSet(queue'[p]) : m.context < nextContext'
         /\ nextContext \in Nat /\ nextContext' \in Nat /\ nextContext <= nextContext'
<1> SUFFICES ASSUME NEW m, NEW y, m = MessageOf(r),
                    y = QueueCopy(r.to, m, CountIn(m, queue'[r.to]))
             PROVE  /\ \A p \in Clients' :
                         \A n \in BagToSet(queue'[p]) : n.context < nextContext'
                    /\ nextContext \in Nat /\ nextContext' \in Nat
                    /\ nextContext <= nextContext'
  OBVIOUS
<1>1. \A p \in Clients : \A n \in BagToSet(queue'[p]) : n \in BagToSet(queue[p]) \/ n = m
  BY InsertStep
<1>2. /\ m.context = ContextOf(r) /\ nextContext \in Nat /\ nextContext' \in Nat
      /\ nextContext <= nextContext'
  BY StoreEffect DEF TypeOK
<1>3. m.context < nextContext'
  <2>1. r.context \in Nat
    BY DEF Inserts
  <2> QED
    BY <1>2, <2>1 DEF ContextOf, Insert
<1>4. \A p \in Clients : \A n \in BagToSet(queue[p]) : n.context < nextContext'
  <2>1. \A p \in Clients : \A n \in BagToSet(queue[p]) : n.context \in Nat
    BY DEF TypeOK, Message
  <2> QED
    BY <1>2, <2>1
<1> QED
  BY <1>1, <1>2, <1>3, <1>4, Rigid

(* Contexts in queues and late requests were given out by the sequence.    *)
LEMMA ContextsKnownKept ==
  ASSUME IInv, [Next]_vars
  PROVE  ContextsKnown'
<1>1. /\ TypeOK /\ LateSound /\ ContextsKnown /\ PartnersKnown
  BY DEF IInv
<1>2. /\ \A p \in Clients : \A m \in BagToSet(queue[p]) : m.context < nextContext
      /\ \A l \in late : l.request.op = "insert" =>
           l.request.context < nextContext /\ l.request.context \in Nat
  BY <1>1, RequestKinds DEF ContextsKnown, LateSound, Inserts
<1>3. ASSUME NEW r, r \in Inserts, Insert(r), r.context < nextContext, UNCHANGED mapping,
             late' \subseteq late
      PROVE  ContextsKnown'
  <2>1. /\ \A p \in Clients' : \A m \in BagToSet(queue'[p]) : m.context < nextContext'
        /\ nextContext \in Nat /\ nextContext' \in Nat /\ nextContext <= nextContext'
    BY <1>1, <1>2, <1>3, StoredContext
  <2>2. \A l \in late' : l.request.op = "insert" => l.request.context < nextContext'
    BY <1>2, <1>3, <2>1
  <2> QED
    BY <2>1, <2>2 DEF ContextsKnown
<1>4. nextContext \in Nat \ {0}
  BY <1>1 DEF TypeOK
<1>5. ASSUME NEW p \in Clients,
             \/ Connect(p) \/ LookupOwnQueue(p) \/ LookupPartner(p) \/ TimeOutLookup(p)
             \/ Fail(p) \/ ReceiveMessage(p) \/ ReceiveCounter(p)
      PROVE  ContextsKnown'
  <2>1. QueuesShrink /\ UNCHANGED <<mapping, nextContext>>
    BY <1>5, StepsThatTake
  <2>2. late' = late
    BY <1>5 DEF Connect, LookupOwnQueue, LookupPartner, TimeOutLookup, Fail,
       ReceiveMessage, ReceiveCounter
  <2> QED
    BY <1>2, <2>1, <2>2, Rigid DEF QueuesShrink, ContextsKnown
<1>6. ASSUME NEW p \in Clients, TimeOut(p) PROVE ContextsKnown'
  <2>1. QueuesShrink /\ UNCHANGED <<mapping, nextContext>>
    BY <1>6, StepsThatTake
  <2>2. PICK r \in UnderWay(p) : late' = late \cup {[id |-> faults, request |-> r]}
    BY <1>6 DEF TimeOut
  <2>3. r.op = "insert" => r.context < nextContext
    <3>1. r = Dequeue(p) \/ r = [op |-> "register", by |-> p] => r.op # "insert"
      BY DEF Dequeue
    <3>2. \A q : InitialSend(p, q).context < nextContext /\ ForwardSend(p, q).context < nextContext
      BY <1>4 DEF InitialSend, ForwardSend, Send, None
    <3>3. PairedSend(p).context < nextContext
      <4>1. context[p] < nextContext
        BY <1>1, <1>4 DEF TypeOK
      <4> QED
        BY <1>4, <4>1 DEF PairedSend, Send, None
    <3> QED
      BY <3>1, <3>2, <3>3, UnderWayKinds
  <2> QED
    BY <1>2, <2>1, <2>2, <2>3, Rigid DEF QueuesShrink, ContextsKnown
<1>7. ASSUME NEW p \in Clients, SendCounter(p) PROVE ContextsKnown'
  <2>1. PairedSend(p) \in Inserts /\ Insert(PairedSend(p)) /\ UNCHANGED <<mapping, late>>
    BY <1>1, <1>7, RequestsSound DEF SendCounter
  <2>2. PairedSend(p).context < nextContext
    <3>1. context[p] < nextContext
      BY <1>1, <1>4 DEF TypeOK
    <3> QED
      BY <1>4, <3>1 DEF PairedSend, Send, None
  <2> QED
    BY <1>3, <2>1, <2>2
<1>8. ASSUME NEW p \in Clients, NEW q, SendInitialMessage(p, q) \/ ForwardMessage(p, q)
      PROVE  ContextsKnown'
  <2>1. PICK r \in {InitialSend(p, q), ForwardSend(p, q)} : r \in Inserts /\ Insert(r)
    BY <1>1, <1>8, RequestsSound DEF SendInitialMessage, ForwardMessage, CanForward
  <2>2. UNCHANGED <<mapping, late>>
    BY <1>8 DEF SendInitialMessage, ForwardMessage
  <2>3. r.context < nextContext
    BY <1>4, <2>1 DEF InitialSend, ForwardSend, Send, None
  <2> QED
    BY <1>3, <2>1, <2>2, <2>3
<1>9. ASSUME ExecuteLate PROVE ContextsKnown'
  <2>1. PICK l \in late :
          /\ LateRegister(l.request) \/ LateInsert(l.request) \/ LateDequeue(l.request)
          /\ late' = late \ {l}
    BY <1>9 DEF ExecuteLate
  <2>2. UNCHANGED mapping /\ l.request \in Requests
    BY <1>1, <1>9 DEF ExecuteLate, LateSound
  <2> SUFFICES ASSUME NEW r, r = l.request PROVE ContextsKnown'
    OBVIOUS
  <2>3. CASE LateInsert(r)
    BY <1>2, <1>3, <2>1, <2>2, <2>3, RequestKinds DEF LateInsert
  <2>4. CASE LateRegister(r)
    BY <1>2, <2>1, <2>2, <2>4, Rigid DEF LateRegister, ContextsKnown
  <2>5. CASE LateDequeue(r)
    <3>1. r.by \in Clients /\ nextContext' = nextContext
      BY <2>2, <2>5, RequestKinds DEF LateDequeue, Dequeues
    <3>2. PICK m \in Selected(r) : Delete(r, m)
      BY <2>5 DEF LateDequeue
    <3>3. \A c \in Clients : BagToSet(queue'[c]) \subseteq BagToSet(queue[c])
      BY <1>1, <2>2, <3>1, <3>2, DequeueStep
    <3> QED
      BY <1>2, <2>1, <2>2, <3>1, <3>3, Rigid DEF ContextsKnown
  <2> QED
    BY <2>1, <2>3, <2>4, <2>5
<1>10. CASE UNCHANGED vars
  BY <1>1, <1>10, Rigid DEF ContextsKnown, vars, brokerVars
<1> QED
  BY <1>5, <1>6, <1>7, <1>8, <1>9, <1>10 DEF Next, Answered

-----------------------------------------------------------------------------
(* Types. *)

(* A fault less, and the requests that wait are older than the next.       *)
LEMMA GivenUp ==
  ASSUME TypeOK, NEW p, GiveUp(p)
  PROVE  /\ faults' \in 0 .. MaxFaults /\ faults \in faults' + 1 .. MaxFaults
         /\ \A l \in late : l.id \in faults' + 1 .. MaxFaults
<1>1. /\ faults \in 0 .. MaxFaults /\ MaxFaults \in Nat
      /\ faults > 0 /\ faults' = faults - 1
  BY BoundsAssumption DEF TypeOK, GiveUp
<1>2. \A l \in late : l.id \in faults + 1 .. MaxFaults
  BY DEF TypeOK
<1>3. faults' \in 0 .. MaxFaults /\ faults' + 1 = faults
  BY <1>1
<1>4. \A l \in late : l.id \in faults .. MaxFaults
  BY <1>1, <1>2
<1> QED
  BY <1>1, <1>3, <1>4

(* Steps of a client that send nothing.                                    *)
LEMMA TypesTaken ==
  ASSUME IInv, NEW p \in Clients,
         \/ Connect(p) \/ LookupOwnQueue(p) \/ LookupPartner(p) \/ TimeOutLookup(p)
         \/ Fail(p) \/ ReceiveMessage(p) \/ TimeOut(p)
  PROVE  TypeOK'
<1>1. /\ QueuesTyped' /\ UNCHANGED <<mapping, nextContext>>
      /\ Clients' = Clients /\ TypeOK
  BY StepsThatTake, Rigid DEF IInv
<1>2. UNCHANGED <<sending, counter, context, hops, robbed>>
  BY DEF Connect, LookupOwnQueue, LookupPartner, TimeOutLookup, Fail, ReceiveMessage,
     TimeOut, pairVars, historyVars
<1>3. /\ pc' \in [Clients -> Places] /\ knows' \in [Clients -> BOOLEAN]
      /\ hand' \in [Clients -> Message] /\ online' \subseteq Clients
      /\ faults' \in 0 .. MaxFaults /\ \A l \in late' : l.id \in faults' + 1 .. MaxFaults
  <2>1. CASE Connect(p)
    BY <1>1, <2>1, Goes DEF Connect, Register, pairVars, Places, TypeOK
  <2>2. CASE LookupOwnQueue(p)
    BY <1>1, <2>2, Goes DEF LookupOwnQueue, pairVars, brokerVars, Places, TypeOK
  <2>3. CASE LookupPartner(p)
    BY <1>1, <2>3 DEF LookupPartner, brokerVars, TypeOK
  <2>4. CASE TimeOutLookup(p) \/ Fail(p)
    <3>1. /\ GiveUp(p) /\ Drop(p) /\ UNCHANGED <<knows, online, late>>
          /\ \E place \in Places : Goto(p, place)
      BY <2>4 DEF TimeOutLookup, Fail, AfterTimeout, pairVars, brokerVars, Places
    <3> QED
      BY <1>1, <3>1, Goes, Drops, GivenUp DEF TypeOK
  <2>5. CASE ReceiveMessage(p)
    <3>1. PICK m \in Selected(Dequeue(p)) : hand' = [hand EXCEPT ![p] = m]
      BY <2>5 DEF ReceiveMessage
    <3>2. m \in Message
      BY <1>1 DEF Selected, Dequeue, TypeOK
    <3>3. Goto(p, "forward") /\ UNCHANGED <<knows, online, late, faults>>
      BY <2>5 DEF ReceiveMessage, pairVars
    <3> QED
      BY <1>1, <3>1, <3>2, <3>3, Goes DEF Places, TypeOK
  <2>6. CASE TimeOut(p)
    <3>1. /\ GiveUp(p) /\ Drop(p) /\ UNCHANGED <<knows, online>>
          /\ \E place \in Places : Goto(p, place)
          /\ \E r : late' = late \cup {[id |-> faults, request |-> r]}
      BY <2>6 DEF TimeOut, AfterTimeout, pairVars, brokerVars, Places
    <3>2. \A l \in late' : l \in late \/ l.id = faults
      BY <3>1
    <3> QED
      BY <1>1, <3>1, <3>2, Goes, Drops, GivenUp DEF TypeOK
  <2> QED
    BY <2>1, <2>2, <2>3, <2>4, <2>5, <2>6
<1> QED
  BY <1>1, <1>2, <1>3 DEF TypeOK, QueuesTyped

(* A step that stores a message.                                           *)
LEMMA TypesStored ==
  ASSUME IInv, NEW r, r \in Inserts, Insert(r), UNCHANGED mapping,
         pc' \in [Clients -> Places], knows' \in [Clients -> BOOLEAN],
         sending' \in [Clients -> BOOLEAN], counter' \in [Clients -> Nat],
         context' \in [Clients -> 0 .. nextContext' - 1], hand' \in [Clients -> Message],
         online' \subseteq Clients, faults' \in 0 .. MaxFaults,
         \A l \in late' : l.id \in faults' + 1 .. MaxFaults, robbed' \subseteq Clients
  PROVE  TypeOK'
<1> SUFFICES ASSUME NEW m, NEW y, m = MessageOf(r),
                    y = QueueCopy(r.to, m, CountIn(m, queue'[r.to]))
             PROVE  TypeOK'
  OBVIOUS
<1>1. /\ QueuesTyped'
  BY InsertStep DEF IInv
<1>2. nextContext' \in Nat \ {0} /\ hops' \in [Clients -> Nat]
  BY StoreEffect DEF IInv
<1> QED
  BY <1>1, <1>2, Rigid DEF TypeOK, QueuesTyped, IInv

(* Contexts stay behind the sequence when it advances.                     *)
LEMMA ContextsTyped ==
  ASSUME IInv, NEW r, r \in Inserts, Insert(r)
  PROVE  /\ context \in [Clients -> 0 .. nextContext' - 1]
         /\ r.asks => nextContext \in 0 .. nextContext' - 1
<1>1. nextContext \in Nat \ {0} /\ context \in [Clients -> 0 .. nextContext - 1]
  BY DEF IInv, TypeOK
<1>2. nextContext' = IF r.asks THEN nextContext + 1 ELSE nextContext
  BY DEF Insert
<1>3. \A k \in 0 .. nextContext - 1 : k \in 0 .. nextContext' - 1
  BY <1>1, <1>2
<1>4. r.asks => nextContext \in 0 .. nextContext' - 1
  BY <1>1, <1>2
<1> QED
  BY <1>1, <1>3, <1>4

(* Steps of a client that send.                                            *)
LEMMA TypesSent ==
  ASSUME IInv, NEW p \in Clients,
         SendCounter(p) \/ \E q : SendInitialMessage(p, q) \/ ForwardMessage(p, q)
  PROVE  TypeOK'
<1>1. TypeOK /\ PartnersKnown
  BY DEF IInv
<1>2. CASE SendCounter(p)
  <2>1. /\ PairedSend(p) \in Inserts /\ Insert(PairedSend(p))
        /\ PairedSend(p).asks = Requesting(p)
    BY <1>1, <1>2, RequestsSound DEF SendCounter, PairedSend, Send
  <2>2. /\ context' = IF Requesting(p) THEN [context EXCEPT ![p] = nextContext] ELSE context
        /\ sending' = [sending EXCEPT ![p] = FALSE]
        /\ UNCHANGED <<mapping, pc, knows, counter, hand, online, late, faults, robbed>>
    BY <1>2 DEF SendCounter
  <2>3. context' \in [Clients -> 0 .. nextContext' - 1]
    BY <2>1, <2>2, ContextsTyped
  <2> QED
    BY <1>1, <2>1, <2>2, <2>3, TypesStored DEF TypeOK
<1>3. ASSUME NEW q, SendInitialMessage(p, q) \/ ForwardMessage(p, q) PROVE TypeOK'
  <2>1. PICK r \in {InitialSend(p, q), ForwardSend(p, q)} : r \in Inserts /\ Insert(r)
    BY <1>1, <1>3, RequestsSound DEF SendInitialMessage, ForwardMessage, CanForward
  <2>2. UNCHANGED <<mapping, knows, sending, counter, context, online, late, faults,
                    robbed>>
    BY <1>3 DEF SendInitialMessage, ForwardMessage, pairVars
  <2>3. pc' \in [Clients -> Places] /\ hand' \in [Clients -> Message]
    <3>1. Goto(p, "loop") /\ (Drop(p) \/ UNCHANGED hand)
      BY <1>3 DEF SendInitialMessage, ForwardMessage
    <3> QED
      BY <1>1, <3>1, Goes, Drops DEF Places, TypeOK
  <2>4. context' \in [Clients -> 0 .. nextContext' - 1]
    BY <2>1, <2>2, ContextsTyped
  <2> QED
    BY <1>1, <2>1, <2>2, <2>3, <2>4, TypesStored DEF TypeOK
<1> QED
  BY <1>2, <1>3

(* A client that receives a counter goes on from it.                       *)
LEMMA TypesReceived ==
  ASSUME IInv, NEW p \in Clients, ReceiveCounter(p)
  PROVE  TypeOK'
<1>1. /\ QueuesTyped' /\ UNCHANGED <<mapping, nextContext>>
      /\ Clients' = Clients /\ TypeOK
  BY StepsThatTake, Rigid DEF IInv
<1>2. PICK m \in Selected(Dequeue(p)) :
        /\ counter' = [counter EXCEPT ![p] = m.content + 1]
        /\ context' = IF Requesting(p) THEN context ELSE [context EXCEPT ![p] = m.context]
  BY DEF ReceiveCounter
<1>3. m \in BagToSet(queue[p]) /\ m \in Message
  BY <1>1 DEF Selected, Dequeue, TypeOK
<1>4. m.content + 1 \in Nat /\ m.context \in Nat /\ m.context < nextContext
  BY <1>3 DEF Message, IInv, ContextsKnown
<1>5. nextContext \in Nat /\ context \in [Clients -> 0 .. nextContext - 1]
      /\ counter \in [Clients -> Nat]
  BY <1>1 DEF TypeOK
<1>6. m.context \in 0 .. nextContext - 1
  BY <1>4, <1>5
<1>7. counter' \in [Clients -> Nat] /\ context' \in [Clients -> 0 .. nextContext - 1]
  BY <1>2, <1>4, <1>5, <1>6
<1>8. /\ sending' = [sending EXCEPT ![p] = TRUE]
      /\ UNCHANGED <<pc, knows, hand, online, late, faults, hops, robbed>>
  BY DEF ReceiveCounter, historyVars
<1> QED
  BY <1>1, <1>7, <1>8 DEF TypeOK, QueuesTyped

(* The broker executes a late request.                                     *)
LEMMA TypesLate ==
  ASSUME IInv, ExecuteLate
  PROVE  TypeOK'
<1>1. /\ TypeOK /\ LateSound
      /\ UNCHANGED <<mapping, pc, knows, sending, counter, context, hand, faults>>
  BY DEF IInv, ExecuteLate, pairVars
<1>2. PICK l \in late :
        /\ LateRegister(l.request) \/ LateInsert(l.request) \/ LateDequeue(l.request)
        /\ late' = late \ {l}
  BY DEF ExecuteLate
<1>3. l.request \in Requests
  BY <1>1 DEF LateSound
<1> SUFFICES ASSUME NEW r, r = l.request PROVE TypeOK'
  OBVIOUS
<1>4. CASE LateRegister(r)
  <2>1. r.by \in Clients
    BY <1>3, <1>4, RequestKinds DEF LateRegister, Registrations
  <2> QED
    BY <1>1, <1>2, <1>4, <2>1, Rigid DEF LateRegister, Register, historyVars, TypeOK
<1>5. CASE LateInsert(r)
  <2>1. r \in Inserts /\ Insert(r) /\ UNCHANGED <<online, robbed>>
    BY <1>3, <1>5, RequestKinds DEF LateInsert
  <2>2. context' \in [Clients -> 0 .. nextContext' - 1]
    BY <1>1, <2>1, ContextsTyped
  <2> QED
    BY <1>1, <1>2, <2>1, <2>2, TypesStored DEF TypeOK
<1>6. CASE LateDequeue(r)
  <2>1. /\ r.by \in Clients /\ robbed' = robbed \cup {r.by}
        /\ UNCHANGED <<online, nextContext, hops>>
    BY <1>3, <1>6, RequestKinds DEF LateDequeue, Dequeues
  <2>2. PICK m \in Selected(r) : Delete(r, m)
    BY <1>6 DEF LateDequeue
  <2>3. /\ QueuesTyped'
    BY <1>1, <2>1, <2>2, DequeueStep
  <2> QED
    BY <1>1, <1>2, <2>1, <2>3, Rigid DEF TypeOK, QueuesTyped
<1> QED
  BY <1>2, <1>4, <1>5, <1>6

-----------------------------------------------------------------------------
(* Clients start without messages, partners or conversations.              *)
LEMMA InitInv ==
  ASSUME Init
  PROVE  IInv
<1>1. NoMessage \in Message /\ EmptyBag = SetToBag({})
  BY DEF NoMessage, Message, None, EmptyBag
<1>2. IsABag(EmptyBag) /\ BagToSet(EmptyBag) = {}
  BY DEF EmptyBag, SetToBag, IsABag, BagToSet
<1>3. /\ mapping \in Configs /\ nextContext = 1 /\ late = {} /\ online = {} /\ robbed = {}
      /\ pc = [p \in Clients |-> "connect"] /\ knows = [p \in Clients |-> FALSE]
      /\ sending = [p \in Clients |-> Requesting(p)] /\ counter = [p \in Clients |-> 0]
      /\ context = [p \in Clients |-> None] /\ hand = [p \in Clients |-> NoMessage]
      /\ queue = [p \in Clients |-> EmptyBag] /\ faults = MaxFaults
      /\ hops = [p \in Clients |-> 0]
  BY DEF Init
<1>4. TypeOK
  <2>1. context \in [Clients -> 0 .. nextContext - 1] /\ faults \in 0 .. MaxFaults
    BY <1>3, BoundsAssumption DEF None
  <2>2. sending \in [Clients -> BOOLEAN]
    BY <1>3 DEF Requesting
  <2>3. pc \in [Clients -> Places] /\ knows \in [Clients -> BOOLEAN]
    BY <1>3 DEF Places
  <2>4. DOMAIN queue = Clients /\ \A p \in Clients : queue[p] = EmptyBag
    BY <1>3
  <2>5. /\ counter \in [Clients -> Nat] /\ hops \in [Clients -> Nat]
        /\ hand \in [Clients -> Message]
    BY <1>1, <1>3
  <2> QED
    BY <1>2, <1>3, <2>1, <2>2, <2>3, <2>4, <2>5 DEF TypeOK
<1>5. \A p \in Clients : queue[p] = EmptyBag
  BY <1>3
<1>6. LateSound /\ ContextsKnown /\ PartnersKnown
  BY <1>2, <1>3, <1>5 DEF LateSound, ContextsKnown, PartnersKnown
<1>7. Conversations
  BY <1>3 DEF Conversations, Waiting
<1>8. ASSUME NEW o \in OneWays PROVE MessageSound(o)
  <2>1. QueuedMessages = {}
    BY <1>2, <1>5 DEF QueuedMessages
  <2>2. QueuedCopies(o) = {}
    BY <2>1 DEF QueuedCopies
  <2>3. HeldCopies(o) = {} /\ LateCopies(o) = {}
    BY <1>3 DEF HeldCopies, LateCopies
  <2>4. o \in Clients /\ hops[o] = 0
    BY <1>3 DEF OneWays
  <2> QED
    BY <2>2, <2>3, <2>4 DEF MessageSound, Copies
<1> QED
  BY <1>4, <1>6, <1>7, <1>8 DEF IInv, MessagesSound

(* Every step keeps the inductive invariant, by the lemmas of its kind.    *)
LEMMA StepInv ==
  ASSUME IInv, [Next]_vars
  PROVE  IInv'
<1>1. LateSound' /\ PartnersKnown' /\ ContextsKnown'
  BY LateSoundKept, PartnersKnownKept, ContextsKnownKept
<1>2. ASSUME NEW p \in Clients, Connect(p) \/ LookupOwnQueue(p) \/ LookupPartner(p)
      PROVE  TypeOK' /\ Conversations' /\ MessagesSound'
  BY <1>2, TypesTaken, StillConversations, StillMessages
<1>3. ASSUME NEW p \in Clients, SendCounter(p)
      PROVE  TypeOK' /\ Conversations' /\ MessagesSound'
  BY <1>3, TypesSent, SentConversations, PairedMessages
<1>4. ASSUME NEW p \in Clients, ReceiveCounter(p)
      PROVE  TypeOK' /\ Conversations' /\ MessagesSound'
  BY <1>4, TypesReceived, ReceivedConversations, PairedMessages
<1>5. ASSUME NEW p \in Clients, NEW q, SendInitialMessage(p, q)
      PROVE  TypeOK' /\ Conversations' /\ MessagesSound'
  BY <1>5, TypesSent, OneWayConversations, InitialMessages
<1>6. ASSUME NEW p \in Clients, NEW q, ForwardMessage(p, q)
      PROVE  TypeOK' /\ Conversations' /\ MessagesSound'
  BY <1>6, TypesSent, OneWayConversations, ForwardedMessages
<1>7. ASSUME NEW p \in Clients, ReceiveMessage(p)
      PROVE  TypeOK' /\ Conversations' /\ MessagesSound'
  BY <1>7, TypesTaken, StillConversations, ReceivedMessages
<1>8. ASSUME NEW p \in Clients, TimeOut(p)
      PROVE  TypeOK' /\ Conversations' /\ MessagesSound'
  BY <1>8, TypesTaken, TimedOutConversations, TimedOutMessages
<1>9. ASSUME NEW p \in Clients, TimeOutLookup(p) \/ Fail(p)
      PROVE  TypeOK' /\ Conversations' /\ MessagesSound'
  BY <1>9, TypesTaken, StillConversations, StillMessages
<1>10. ASSUME ExecuteLate PROVE TypeOK' /\ Conversations' /\ MessagesSound'
  BY <1>10, TypesLate, LateConversations, LateMessages
<1>11. ASSUME UNCHANGED vars PROVE TypeOK' /\ Conversations' /\ MessagesSound'
  <2>1. UNCHANGED <<mapping, pc, knows, sending, counter, context, hand, online, queue,
                    nextContext, late, faults, hops, robbed>>
    BY <1>11 DEF vars, pairVars, brokerVars, historyVars
  <2>2. TypeOK'
    BY <2>1, Rigid DEF IInv, TypeOK
  <2>3. Conversations'
    BY <2>1, ConversationsKept
  <2>4. \A o \in OneWays : QueuedCopies(o)' \subseteq QueuedCopies(o) /\ hops'[o] = hops[o]
    BY <2>1, Rigid DEF QueuedCopies, QueuedMessages
  <2>5. MessagesSound'
    BY <2>1, <2>4, QuietMessages DEF IInv
  <2> QED
    BY <2>2, <2>3, <2>5
<1>12. TypeOK' /\ Conversations' /\ MessagesSound'
  BY <1>2, <1>3, <1>4, <1>5, <1>6, <1>7, <1>8, <1>9, <1>10, <1>11 DEF Next, Answered
<1> QED
  BY <1>1, <1>12 DEF IInv

(* The inductive invariant: behind every reachable state of the scenarios  *)
(* stand conversations that at most one request and one answer are in, and *)
(* one-way messages that are in one place at most.                         *)
THEOREM ScenarioInvariant == Spec => []IInv
<1>1. Init => IInv
  BY InitInv
<1>2. IInv /\ [Next]_vars => IInv'
  BY StepInv
<1> QED
  BY <1>1, <1>2, PTL DEF Spec

(* Fields of the clients, queues and the requests that wait have their     *)
(* types; contexts are ones the sequence has given out.                    *)
THEOREM ScenarioTypeCorrect == Spec => []TypeOK
<1>1. IInv => TypeOK
  BY DEF IInv
<1> QED
  BY <1>1, ScenarioInvariant, PTL

(* requestingAction never logs "Expected Message to contain": the answer a *)
(* requester takes in its conversation is its counter plus one, for any    *)
(* number of pairs, timeouts and late requests.                            *)
THEOREM ScenarioCountersAgree == Spec => []CountersAgree
<1>1. ASSUME IInv PROVE CountersAgree
  <2> SUFFICES ASSUME NEW p \in Clients, CanReceive(p), Requesting(p),
                      NEW m \in Selected(Dequeue(p))
               PROVE  m.content = counter[p] + 1
    BY DEF CountersAgree
  <2>1. Waiting(p) /\ Paired(p)
    BY DEF Waiting, CanReceive, InLoop
  <2>2. Conversation(p) /\ context[p] # None
    BY <1>1, <2>1 DEF IInv, Conversations, Conversation
  <2>3. m \in BagToSet(queue[p]) /\ m.context = context[p]
    BY <2>1, <2>2 DEF Selected, Dequeue
  <2>4. Partner(p) # p
    BY <1>1, Partners DEF IInv
  <2> QED
    BY <2>2, <2>3, <2>4 DEF Conversation
<1>2. IInv => CountersAgree
  BY <1>1
<1> QED
  BY <1>2, ScenarioInvariant, PTL

(* A one-way message is never in two places, and says how often it was     *)
(* sent before: OneWayClient sends it on counted up, once.                 *)
THEOREM ScenarioCountedOnce == Spec => []CountedOnce
<1>1. IInv => CountedOnce
  BY DEF IInv, MessagesSound, MessageSound, CountedOnce
<1> QED
  BY <1>1, ScenarioInvariant, PTL
=============================================================================
