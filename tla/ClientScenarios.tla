--------------------------- MODULE ClientScenarios ---------------------------
(***************************************************************************)
(* The scenarios the load generators run: PairedClient, where a requester  *)
(* and a responder play a counter back and forth in numbered               *)
(* conversations, and OneWayClient, where every client sets a message      *)
(* going and whoever receives one counts it up and sends it on.            *)
(*                                                                         *)
(* A request and its answer are one step: the client waits in between and  *)
(* does nothing else.  A request may also time out (at most MaxFaults      *)
(* times); the broker may have executed it, may execute it later, when the *)
(* client has connected again and gone on, or never: it waits in late.     *)
(* Any other exception ends the client (one fault as well).                *)
(*                                                                         *)
(* Time is left out: the start-up delay, the pauses between actions and    *)
(* the pause before a partner is looked up again.  A dequeue picks any     *)
(* message its query selects, which covers the order of the store.         *)
(***************************************************************************)
EXTENDS Naturals, Sequences, Bags

CONSTANTS
  Configs,    \* sequences of scenario class names, one of them the mapping
  MaxClients, \* bound: length of a mapping
  MaxFaults,  \* bound: timeouts and exceptions
  MaxCount    \* bound: the largest counter a client sends

Classes == {"PairedClient", "OneWayClient"}

ASSUME ConfigsAssumption ==
  \A m \in Configs : m \in Seq(Classes) /\ Len(m) \in 1 .. MaxClients
ASSUME BoundsAssumption == {MaxClients, MaxFaults, MaxCount} \subseteq Nat

None == 0  \* no conversation context; contexts are numbered from 1

VARIABLES
  mapping,     \* common.scenario.mapping.client, the same for all clients
  pc,          \* where a client's run() stands: see Places
  knows,       \* partnerClient # null
  sending,     \* field sending
  counter,     \* field messageCounter
  context,     \* field context
  hand,        \* msgDto of a OneWayClient's performAction
  online,      \* clients registered in the database
  queue,       \* the bag of messages in each client's queue
  nextContext, \* sequence message_context
  late,        \* requests whose client gave up waiting
  faults,      \* faults left
  hops,        \* history: how often each one-way message was sent
  robbed       \* history: clients whose message went out in a late answer

pairVars    == <<knows, sending, counter, context>>
brokerVars  == <<online, queue, nextContext>>
historyVars == <<hops, robbed>>
vars == <<mapping, pc, pairVars, hand, brokerVars, late, faults, historyVars>>

Places == {"connect", "lookup", "initial", "loop", "forward", "reconnect",
           "ended"}

(* Clients are named by their position; the class name belongs to it.      *)
Clients    == 0 .. Len(mapping) - 1
Class(p)   == mapping[p + 1]
Paired(p)  == Class(p) = "PairedClient"
OneWays    == {p \in Clients : Class(p) = "OneWayClient"}

(* The client at the other place of the same two places of the mapping,    *)
(* whatever its class; the last of an odd number has none.                 *)
Partner(p)    == IF p % 2 = 0 THEN p + 1 ELSE p - 1
HasPartner(p) == Partner(p) \in Clients

Requesting(p) == p % 2 = 0

(* prepareClientList: the clients a OneWayClient may send to.              *)
Recipients(p) == OneWays \ {p}

(* A message; token is history: the client whose message it is, however    *)
(* often it was sent on.                                                   *)
Message   == [context : Nat, content : Nat, token : Nat]
NoMessage == [context |-> None, content |-> 0, token |-> 0]

Init ==
  /\ mapping \in Configs
  /\ pc      = [p \in Clients |-> "connect"]
  /\ knows   = [p \in Clients |-> FALSE]
  /\ sending = [p \in Clients |-> Requesting(p)]
  /\ counter = [p \in Clients |-> 0]
  /\ context = [p \in Clients |-> None]
  /\ hand    = [p \in Clients |-> NoMessage]
  /\ online  = {}
  /\ queue   = [p \in Clients |-> EmptyBag]
  /\ nextContext = 1
  /\ late    = {}
  /\ faults  = MaxFaults
  /\ hops    = [p \in Clients |-> 0]
  /\ robbed  = {}

Goto(p, place) == pc' = [pc EXCEPT ![p] = place]
Drop(p)        == hand' = [hand EXCEPT ![p] = NoMessage]
-----------------------------------------------------------------------------
(* Requests as the broker executes them. *)

Register(p) == online' = online \cup {p}

(* A request that opens a conversation gets the next context.              *)
ContextOf(r) == IF r.asks THEN nextContext ELSE r.context

Store(r) ==
  LET m == [context |-> ContextOf(r), content |-> r.content, token |-> r.token] IN
  /\ queue' = [queue EXCEPT ![r.to] = @ (+) SetToBag({m})]
  /\ hops' = IF r.token \in OneWays THEN [hops EXCEPT ![r.token] = @ + 1]
                                    ELSE hops

(* Mutation: the sequence of contexts does not advance.                    *)
InsertNoAdvance(r) == Store(r) /\ UNCHANGED nextContext

Insert(r) ==
  /\ Store(r)
  /\ nextContext' = IF r.asks THEN nextContext + 1 ELSE nextContext

(* The messages the query of a dequeue selects.                            *)
Selected(r) ==
  {m \in BagToSet(queue[r.by]) : r.context # None => m.context = r.context}

Delete(r, m) == queue' = [queue EXCEPT ![r.by] = @ (-) SetToBag({m})]

(* The requests a client makes.                                            *)
Send(to, asks, c, n, token) ==
  [op |-> "insert", to |-> to, asks |-> asks, context |-> c,
   content |-> n, token |-> token]

PairedSend(p) ==
  Send(Partner(p), Requesting(p),
       IF Requesting(p) THEN None ELSE context[p], counter[p], p)

InitialSend(p, q) == Send(q, FALSE, None, 0, p)
ForwardSend(p, q) == Send(q, FALSE, None, hand[p].content + 1, hand[p].token)

(* Mutation: a requester takes whatever is in its queue.                   *)
DequeueAny(p) == [op |-> "dequeue", by |-> p, context |-> None]

(* A requester asks for the response to its own request.                   *)
Dequeue(p) ==
  [op |-> "dequeue", by |-> p,
   context |-> IF Paired(p) /\ Requesting(p) THEN context[p] ELSE None]
-----------------------------------------------------------------------------
(* Both scenarios. *)

(* connectClient(): connect and register, at first and after a timeout.    *)
Connect(p) ==
  /\ pc[p] \in {"connect", "reconnect"}
  /\ Register(p)
  /\ Goto(p, IF pc[p] = "connect" THEN "lookup" ELSE "loop")
  /\ UNCHANGED <<mapping, pairVars, hand, queue, nextContext, late, faults,
                 historyVars>>

(* The client looks up its own queue and then its counterparts in the      *)
(* mapping: without a partner run() returns, without a recipient           *)
(* rnd.nextInt(0) throws.                                                  *)
LookupOwnQueue(p) ==
  /\ pc[p] = "lookup"
  /\ Goto(p, CASE Paired(p) /\ HasPartner(p) -> "loop"
               [] ~Paired(p) /\ Recipients(p) # {} -> "initial"
               [] OTHER -> "ended")
  /\ UNCHANGED <<mapping, pairVars, hand, brokerVars, late, faults, historyVars>>
-----------------------------------------------------------------------------
(* PairedClient. *)

InLoop(p) == Paired(p) /\ pc[p] = "loop"

LookupPartner(p) ==
  /\ InLoop(p)
  /\ ~knows[p]
  /\ Partner(p) \in online
  /\ knows' = [knows EXCEPT ![p] = TRUE]
  /\ UNCHANGED <<mapping, pc, sending, counter, context, hand, brokerVars, late,
                 faults, historyVars>>

CanSend(p)    == InLoop(p) /\ knows[p] /\ sending[p] /\ counter[p] <= MaxCount
CanReceive(p) == InLoop(p) /\ knows[p] /\ ~sending[p]

(* requestingAction and respondingAction, sending: the requester takes its *)
(* context from the answer.                                                *)
SendCounter(p) ==
  /\ CanSend(p)
  /\ Insert(PairedSend(p))
  /\ context' = IF Requesting(p) THEN [context EXCEPT ![p] = nextContext]
                                 ELSE context
  /\ sending' = [sending EXCEPT ![p] = FALSE]
  /\ UNCHANGED <<mapping, pc, knows, counter, hand, online, late, faults, robbed>>

(* ... and receiving: both go on from the counter they got, the responder  *)
(* in the conversation of the message.  A requester only logs a counter    *)
(* that is not its own plus one.                                           *)
ReceiveCounter(p) ==
  /\ CanReceive(p)
  /\ \E m \in Selected(Dequeue(p)) :
       /\ Delete(Dequeue(p), m)
       /\ counter' = [counter EXCEPT ![p] = m.content + 1]
       /\ context' = IF Requesting(p) THEN context
                     ELSE [context EXCEPT ![p] = m.context]
  /\ sending' = [sending EXCEPT ![p] = TRUE]
  /\ UNCHANGED <<mapping, pc, knows, hand, online, nextContext, late, faults,
                 historyVars>>
-----------------------------------------------------------------------------
(* OneWayClient.  The queue of a recipient is looked up once and cached;   *)
(* the client picks again while the one it picked is not online.           *)

SendInitialMessage(p, q) ==
  /\ pc[p] = "initial"
  /\ q \in Recipients(p) \cap online
  /\ Insert(InitialSend(p, q))
  /\ Goto(p, "loop")
  /\ UNCHANGED <<mapping, pairVars, hand, online, late, faults, robbed>>

(* performAction: dequeue ...                                              *)
ReceiveMessage(p) ==
  /\ ~Paired(p) /\ pc[p] = "loop"
  /\ \E m \in Selected(Dequeue(p)) :
       /\ Delete(Dequeue(p), m)
       /\ hand' = [hand EXCEPT ![p] = m]
  /\ Goto(p, "forward")
  /\ UNCHANGED <<mapping, pairVars, online, nextContext, late, faults,
                 historyVars>>

CanForward(p, q) ==
  /\ pc[p] = "forward"
  /\ q \in Recipients(p) \cap online
  /\ hand[p].content < MaxCount

(* ... and send it on, counted up.                                         *)
ForwardMessage(p, q) ==
  /\ CanForward(p, q)
  /\ Insert(ForwardSend(p, q))
  /\ Drop(p)
  /\ Goto(p, "loop")
  /\ UNCHANGED <<mapping, pairVars, online, late, faults, robbed>>
-----------------------------------------------------------------------------
(* Faults. *)

(* A timeout inside the loop makes the client connect again, in the catch  *)
(* clause; one outside of it, also in the catch clause, leaves run().  A   *)
(* message that was dequeued and not yet sent on is forgotten.             *)
GiveUp(p) ==
  /\ faults > 0
  /\ faults' = faults - 1

(* Mutation: the message that could not be sent on is kept for a retry.    *)
AfterTimeoutRetrying(p) ==
  /\ GiveUp(p)
  /\ UNCHANGED hand
  /\ Goto(p, CASE pc[p] = "loop" -> "reconnect"
               [] pc[p] = "forward" -> "forward"
               [] OTHER -> "ended")

AfterTimeout(p) ==
  /\ GiveUp(p)
  /\ Drop(p)
  /\ Goto(p, IF pc[p] \in {"loop", "forward"} THEN "reconnect" ELSE "ended")

(* The request under way, if it is one that has an effect in the broker.   *)
UnderWay(p) ==
  CASE pc[p] \in {"connect", "reconnect"} -> {[op |-> "register", by |-> p]}
    [] pc[p] = "initial" -> {InitialSend(p, q) : q \in Recipients(p) \cap online}
    [] pc[p] = "forward" -> {ForwardSend(p, q) : q \in {c \in Clients : CanForward(p, c)}}
    [] CanSend(p) -> {PairedSend(p)}
    [] CanReceive(p) \/ (~Paired(p) /\ pc[p] = "loop") -> {Dequeue(p)}
    [] OTHER -> {}

(* Mutation: a client that has sent turns to waiting without the answer.   *)
TimeOutTurning(p) ==
  /\ AfterTimeout(p)
  /\ \E r \in UnderWay(p) : late' = late \cup {[id |-> faults, request |-> r]}
  /\ sending' = [sending EXCEPT ![p] = @ /\ ~CanSend(p)]
  /\ UNCHANGED <<mapping, knows, counter, context, brokerVars, historyVars>>

TimeOut(p) ==
  /\ AfterTimeout(p)
  /\ \E r \in UnderWay(p) : late' = late \cup {[id |-> faults, request |-> r]}
  /\ UNCHANGED <<mapping, pairVars, brokerVars, historyVars>>

(* A look-up that timed out.                                               *)
TimeOutLookup(p) ==
  /\ pc[p] \in {"lookup", "initial", "forward"} \/ (InLoop(p) /\ ~knows[p])
  /\ AfterTimeout(p)
  /\ UNCHANGED <<mapping, pairVars, brokerVars, late, historyVars>>

(* Any other exception: no connection, an answer that is an exception.     *)
Fail(p) ==
  /\ pc[p] # "ended"
  /\ GiveUp(p)
  /\ Drop(p)
  /\ Goto(p, "ended")
  /\ UNCHANGED <<mapping, pairVars, brokerVars, late, historyVars>>

(* The broker executes a request whose client no longer waits for it.      *)
LateRegister(r) ==
  /\ r.op = "register"
  /\ Register(r.by)
  /\ UNCHANGED <<queue, nextContext, historyVars>>

LateInsert(r) ==
  /\ r.op = "insert"
  /\ Insert(r)
  /\ UNCHANGED <<online, robbed>>

LateDequeue(r) ==
  /\ r.op = "dequeue"
  /\ \E m \in Selected(r) : Delete(r, m)
  /\ robbed' = robbed \cup {r.by}
  /\ UNCHANGED <<online, nextContext, hops>>

ExecuteLate ==
  \E l \in late :
    /\ LateRegister(l.request) \/ LateInsert(l.request) \/ LateDequeue(l.request)
    /\ late' = late \ {l}
    /\ UNCHANGED <<mapping, pc, pairVars, hand, faults>>
-----------------------------------------------------------------------------
Answered(p) ==
  \/ Connect(p)
  \/ LookupOwnQueue(p)
  \/ LookupPartner(p)
  \/ SendCounter(p)
  \/ ReceiveCounter(p)
  \/ \E q \in Clients : SendInitialMessage(p, q) \/ ForwardMessage(p, q)
  \/ ReceiveMessage(p)

Next ==
  \/ \E p \in Clients : Answered(p) \/ TimeOut(p) \/ TimeOutLookup(p) \/ Fail(p)
  \/ ExecuteLate

Spec == Init /\ [][Next]_vars

(* A client that can get an answer gets it or runs into a fault; a late    *)
(* request may stay unexecuted for ever.                                   *)
Fairness == \A p \in 0 .. MaxClients - 1 : WF_vars(p \in Clients /\ Answered(p))
FairSpec == Spec /\ Fairness
-----------------------------------------------------------------------------
(* Types; a late request bears the number of the timeout that made it.     *)
TypeOK ==
  /\ mapping \in Configs
  /\ pc      \in [Clients -> Places]
  /\ knows   \in [Clients -> BOOLEAN]
  /\ sending \in [Clients -> BOOLEAN]
  /\ counter \in [Clients -> Nat]
  /\ context \in [Clients -> 0 .. nextContext - 1]
  /\ hand    \in [Clients -> Message]
  /\ online  \subseteq Clients
  /\ DOMAIN queue = Clients
  /\ \A p \in Clients : IsABag(queue[p]) /\ BagToSet(queue[p]) \subseteq Message
  /\ nextContext \in Nat \ {0}
  /\ faults  \in 0 .. MaxFaults
  /\ \A l \in late : l.id \in faults + 1 .. MaxFaults
  /\ hops    \in [Clients -> Nat]
  /\ robbed  \subseteq Clients

(* The counter a requester gets in the conversation it waits in is its own *)
(* plus one, so that the log "Expected Message to contain" of              *)
(* PairedClient is never written, however many requests or responses were  *)
(* sent twice or arrive late.                                              *)
CountersAgree ==
  \A p \in Clients :
    CanReceive(p) /\ Requesting(p) =>
      \A m \in Selected(Dequeue(p)) : m.content = counter[p] + 1

(* The copies of the message of client o: in a queue, where a bag may hold *)
(* several, in the hands of a client, in a request yet to be executed.     *)
CountIn(m, bag) == IF BagIn(m, bag) THEN bag[m] ELSE 0
QueuedMessages == UNION {BagToSet(queue[p]) : p \in Clients}
CopiesAt(p, m, bag) == {<<"queue", p, m, i>> : i \in 1 .. CountIn(m, bag)}
QueuedCopies(o) ==
  UNION {CopiesAt(p, m, queue[p]) :
           p \in Clients, m \in {n \in QueuedMessages : n.token = o}}
HeldCopies(o) ==
  {<<"hand", p, hand[p], 1>> :
     p \in {c \in Clients : pc[c] = "forward" /\ hand[c].token = o}}
LateCopies(o) ==
  {<<"late", l.id, l.request, 1>> :
     l \in {k \in late : k.request.op = "insert" /\ k.request.token = o}}
Copies(o) == QueuedCopies(o) \cup HeldCopies(o) \cup LateCopies(o)

(* "The final messages contain how many times they have been exchanged":   *)
(* a one-way message may be lost with a timeout or an exception, but it is *)
(* never in two places, and what it says is how often it was sent before.  *)
CountedOnce ==
  \A o \in OneWays :
    /\ \A x, y \in Copies(o) : x = y
    /\ \A x \in QueuedCopies(o) \cup HeldCopies(o) : x[3].content + 1 = hops[o]

(* A pair plays on up to the bound, whatever is sent twice or arrives      *)
(* late, unless one of the two has ended or a message was taken from its   *)
(* queue by a dequeue that timed out: nothing makes up for that one.       *)
InPair(p) ==
  p + 1 \in Clients /\ Requesting(p) /\ Paired(p) /\ Paired(Partner(p))

StopsPlaying(p) ==
  \/ counter[p] > MaxCount
  \/ \E c \in {p, Partner(p)} : pc[c] = "ended" \/ c \in robbed

PairGoesOn ==
  \A p \in 0 .. MaxClients - 1 : <>(InPair(p) => StopsPlaying(p))
=============================================================================
