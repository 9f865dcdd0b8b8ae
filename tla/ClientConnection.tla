-------------------------- MODULE ClientConnection --------------------------
(***************************************************************************)
(* A client program: the thread that runs its scenario and calls           *)
(* ClientConnection.submitRequest, and the timer thread that closes the    *)
(* connection of a request that takes too long.  The two share the socket  *)
(* field and the flag wasTimedOut without further synchronization.         *)
(*                                                                         *)
(* After a timeout the scenario (OneWayClient) connects and registers      *)
(* again; any other exception ends it.  The broker may answer a request,   *)
(* at any time or never, and may close a connection.  A response arrives   *)
(* in halves, which ioBuffer collects.                                     *)
(***************************************************************************)
EXTENDS Naturals, Sequences, FiniteSets

CONSTANTS
  MaxRequests,    \* bound: requests submitted
  MaxConnects,    \* bound: connections opened
  MaxPeerCloses   \* bound: connections closed by the broker

ASSUME ClientBounds ==
  MaxRequests \in Nat /\ MaxConnects \in Nat /\ MaxPeerCloses \in Nat

Requests == 1 .. MaxRequests
Sockets  == 1 .. MaxConnects
None     == 0

VARIABLES
  pc,          \* the client thread: see Places
  req,         \* the request being, or last, submitted
  registering, \* it is the registration after a connect
  ioBuffer,    \* the halves it holds, each named by its request
  socket,      \* field clientSocket
  closed,      \* sockets closed by this program
  peerClosed,  \* sockets closed by the broker
  pending,     \* requests the broker has yet to answer
  replies,     \* halves of responses that have arrived, per socket
  wasTimedOut,
  timer,       \* the TimeoutTimerTask of each request
  sentOn       \* the socket each request was written to

clientVars == <<pc, req, registering, ioBuffer>>
netVars    == <<socket, closed, peerClosed, pending, replies, sentOn>>
vars == <<clientVars, netVars, wasTimedOut, timer>>

Places == {"connect", "idle", "arm", "read", "got", "failed", "timedout",
           "error", "gone"}

Init ==
  /\ pc = "connect" /\ req = 0 /\ registering = FALSE /\ ioBuffer = <<>>
  /\ socket = None /\ closed = {} /\ peerClosed = {} /\ pending = {}
  /\ replies = [s \in Sockets |-> <<>>]
  /\ sentOn  = [r \in Requests |-> None]
  /\ wasTimedOut = FALSE
  /\ timer   = [r \in Requests |-> "none"]

-----------------------------------------------------------------------------
(* The client thread. *)

(* SocketChannel.isConnected() knows what this program closed, not what    *)
(* the broker closed.                                                      *)
IsConnected == socket # None /\ socket \notin closed

(* Mutation: connect() leaves ioBuffer as it was. *)
ConnectKeepingBuffer ==
  /\ pc = "connect" /\ ~IsConnected /\ socket < MaxConnects
  /\ socket' = socket + 1
  /\ registering' = TRUE
  /\ pc' = "idle"
  /\ UNCHANGED <<req, ioBuffer, closed, peerClosed, pending, replies, sentOn,
                 wasTimedOut, timer>>

(* Mutation: connectClient does not look whether it is connected. *)
ConnectUnchecked ==
  /\ pc = "connect" /\ socket < MaxConnects
  /\ socket' = socket + 1
  /\ ioBuffer' = <<>>
  /\ registering' = TRUE
  /\ pc' = "idle"
  /\ UNCHANGED <<req, closed, peerClosed, pending, replies, sentOn,
                 wasTimedOut, timer>>

(* connectClient: a new socket, and the registration is the next request.  *)
Connect ==
  /\ pc = "connect" /\ ~IsConnected /\ socket < MaxConnects
  /\ socket' = socket + 1
  /\ ioBuffer' = <<>>
  /\ registering' = TRUE
  /\ pc' = "idle"
  /\ UNCHANGED <<req, closed, peerClosed, pending, replies, sentOn,
                 wasTimedOut, timer>>

(* "Client already connected", or no connection to be had: the exception   *)
(* ends the scenario.                                                      *)
ConnectFails ==
  /\ pc = "connect"
  /\ pc' = "gone"
  /\ UNCHANGED <<req, registering, ioBuffer, netVars, wasTimedOut, timer>>

(* writeToSocket: the request is put behind what ioBuffer holds.  A write  *)
(* to a connection that the broker has closed may still succeed.           *)
Write ==
  /\ pc = "idle" /\ req < MaxRequests
  /\ req' = req + 1
  /\ sentOn' = [sentOn EXCEPT ![req'] = socket]
  /\ \/ socket \notin closed
        /\ pc' = "arm" /\ ioBuffer' = <<>> /\ pending' = pending \cup {req'}
     \/ socket \in closed \cup peerClosed
        /\ pc' = "failed" /\ ioBuffer' = Append(ioBuffer, req')
        /\ UNCHANGED pending
  /\ UNCHANGED <<registering, socket, closed, peerClosed, replies,
                 wasTimedOut, timer>>

(* The flag is cleared and the timer scheduled. *)
Arm ==
  /\ pc = "arm"
  /\ wasTimedOut' = FALSE
  /\ timer' = [timer EXCEPT ![req] = "scheduled"]
  /\ pc' = "read"
  /\ UNCHANGED <<req, registering, ioBuffer, netVars>>

(* read() takes some of what has arrived; two halves are a response.       *)
Read ==
  /\ pc = "read" /\ socket \notin closed
  /\ \E n \in 1 .. Len(replies[socket]) :
       /\ ioBuffer' = ioBuffer \o SubSeq(replies[socket], 1, n)
       /\ replies' = [replies EXCEPT ![socket] = SubSeq(@, n + 1, Len(@))]
  /\ pc' = IF Len(ioBuffer') < 2 THEN "read" ELSE "got"
  /\ UNCHANGED <<req, registering, socket, closed, peerClosed, pending,
                 sentOn, wasTimedOut, timer>>

(* read() throws on a socket that was closed here; on one that was closed  *)
(* there it returns -1, or throws and loses what had arrived.              *)
ReadFails ==
  /\ pc = "read" /\ socket \in closed \cup peerClosed
  /\ pc' = "failed"
  /\ UNCHANGED <<req, registering, ioBuffer, netVars, wasTimedOut, timer>>

(* TimerTask.cancel() has no effect on a task that has begun to run.       *)
CancelTimer ==
  timer' = [timer EXCEPT ![req] = IF @ = "scheduled" THEN "cancelled" ELSE @]

(* Mutation: ioBuffer is not compacted. *)
ReturnUncompacted ==
  /\ pc = "got"
  /\ CancelTimer
  /\ registering' = FALSE
  /\ pc' = "idle"
  /\ UNCHANGED <<req, ioBuffer, netVars, wasTimedOut>>

(* The response is deserialized, ioBuffer compacted, the timer cancelled.  *)
Return ==
  /\ pc = "got"
  /\ CancelTimer
  /\ ioBuffer' = SubSeq(ioBuffer, 3, Len(ioBuffer))
  /\ registering' = FALSE
  /\ pc' = "idle"
  /\ UNCHANGED <<req, netVars, wasTimedOut>>

(* The catch block decides which exception it is ... *)
Classify ==
  /\ pc = "failed"
  /\ pc' = IF wasTimedOut THEN "timedout" ELSE "error"
  /\ UNCHANGED <<req, registering, ioBuffer, netVars, wasTimedOut, timer>>

(* ... the finally block cancels the timer, and the scenario reconnects    *)
(* after a timeout, unless that hit the registration itself.               *)
Throw ==
  /\ pc \in {"timedout", "error"}
  /\ CancelTimer
  /\ pc' = IF pc = "timedout" /\ ~registering THEN "connect" ELSE "gone"
  /\ UNCHANGED <<req, registering, ioBuffer, netVars, wasTimedOut>>

-----------------------------------------------------------------------------
(* The timer thread runs one task at a time. *)

TimerIdle == \A r \in Requests : timer[r] \notin {"started", "flagged"}

TimerStarts(r) ==
  /\ timer[r] = "scheduled" /\ TimerIdle
  /\ timer' = [timer EXCEPT ![r] = "started"]
  /\ UNCHANGED <<clientVars, netVars, wasTimedOut>>

TimerFlags(r) ==
  /\ timer[r] = "started"
  /\ wasTimedOut' = TRUE
  /\ timer' = [timer EXCEPT ![r] = "flagged"]
  /\ UNCHANGED <<clientVars, netVars>>

(* Mutation: the timer only raises the flag. *)
TimerClosesNothing(r) ==
  /\ timer[r] = "flagged"
  /\ timer' = [timer EXCEPT ![r] = "done"]
  /\ UNCHANGED <<clientVars, netVars, wasTimedOut>>

(* It closes what it reads in the field clientSocket, which is not         *)
(* volatile: the socket of when it was scheduled, or a later one.          *)
TimerCloses(r) ==
  /\ timer[r] = "flagged"
  /\ \E s \in sentOn[r] .. socket : closed' = closed \cup {s}
  /\ timer' = [timer EXCEPT ![r] = "done"]
  /\ UNCHANGED <<clientVars, socket, peerClosed, pending, replies, sentOn,
                 wasTimedOut>>

-----------------------------------------------------------------------------
(* The broker. *)

(* The one response to a request reaches the socket it was written to.     *)
Answer(r) ==
  /\ r \in pending /\ sentOn[r] \notin peerClosed
  /\ pending' = pending \ {r}
  /\ replies' = [replies EXCEPT ![sentOn[r]] = @ \o <<r, r>>]
  /\ UNCHANGED <<clientVars, socket, closed, peerClosed, sentOn, wasTimedOut,
                 timer>>

PeerClose ==
  /\ Cardinality(peerClosed) < MaxPeerCloses
  /\ \E s \in 1 .. socket : peerClosed' = peerClosed \cup {s}
  /\ UNCHANGED <<clientVars, socket, closed, pending, replies, sentOn,
                 wasTimedOut, timer>>

-----------------------------------------------------------------------------
Client == \/ Connect \/ ConnectFails \/ Write \/ Arm \/ Read \/ ReadFails
          \/ Return \/ Classify \/ Throw

Timer(r) == TimerStarts(r) \/ TimerFlags(r) \/ TimerCloses(r)

Next == \/ Client
        \/ \E r \in Requests : Timer(r) \/ Answer(r)
        \/ PeerClose

Spec == Init /\ [][Next]_vars

(* Both threads run, and time passes. The broker owes nothing.             *)
Fairness == WF_vars(Client) /\ \A r \in Requests : WF_vars(Timer(r))

FairSpec == Spec /\ Fairness

-----------------------------------------------------------------------------
(* Types.  ioBuffer never holds more than one response, or one request     *)
(* that could not be written.                                              *)
TypeOK ==
  /\ pc \in Places /\ req \in 0 .. MaxRequests /\ registering \in BOOLEAN
  /\ ioBuffer \in Seq(Requests) /\ Len(ioBuffer) <= 2
  /\ socket \in 0 .. MaxConnects
  /\ closed \subseteq Sockets /\ peerClosed \subseteq Sockets
  /\ pending \subseteq 1 .. req
  /\ replies \in [Sockets -> Seq(Requests)]
  /\ sentOn \in [Requests -> 0 .. MaxConnects]
  /\ wasTimedOut \in BOOLEAN
  /\ timer \in [Requests -> {"none", "scheduled", "cancelled", "started",
                             "flagged", "done"}]

(* submitRequest returns the response to its own request, also after       *)
(* earlier ones were abandoned with half a response read, and with         *)
(* responses to them still under way; and it sends nothing that an earlier *)
(* request left in ioBuffer ahead of its own.                              *)
AnswersOwnRequest ==
  /\ pc = "got" => ioBuffer = <<req, req>>
  /\ pc = "idle" => ioBuffer = <<>>

(* A client that has reconnected has closed all the connections it had.    *)
NoSocketLeak == \A s \in Sockets : s < socket => s \in closed

(* No request waits for its response forever, whatever the broker does and *)
(* however late a timer is: a timer ends the wait.                         *)
RequestEnds == pc = "read" ~> pc # "read"

=============================================================================
