----------------------- MODULE ClientConnectionProofs -----------------------
(***************************************************************************)
(* Theorems about ClientConnection, for any number of requests, connects   *)
(* and connections that the broker closes.                                 *)
(***************************************************************************)
EXTENDS ClientConnection, SequenceTheorems, TLAPS

(* The places where the client thread is between connect() and the next    *)
(* failure, and those where it waits for the response to request req.      *)
InUse   == {"idle", "arm", "read", "got"}
Waiting == {"arm", "read"}
Handling == {"arm", "read", "got", "failed", "timedout", "error"}

(* Each request went to a socket that had been opened by then, and has a   *)
(* timer only if it was sent; the one being handled went to the current    *)
(* socket.                                                                 *)
SentInOrder ==
  /\ pc \in InUse \cup Handling => socket # None
  /\ pc \in Handling => req # 0 /\ sentOn[req] = socket
  /\ \A r \in Requests : r <= req => sentOn[r] # None /\ sentOn[r] <= socket
  /\ \A r \in Requests : timer[r] # "none" => r <= req
  /\ \A s \in Sockets : s > socket => replies[s] = <<>>
  /\ closed \subseteq 1 .. socket

(* The response to req is under way, has arrived, or is half read; there   *)
(* is nothing else in ioBuffer or on the socket.                           *)
Awaited ==
  \/ req \in pending /\ ioBuffer = <<>> /\ replies[socket] = <<>>
  \/ req \notin pending /\ ioBuffer = <<>> /\ replies[socket] = <<req, req>>
  \/ req \notin pending /\ ioBuffer = <<req>> /\ replies[socket] = <<req>>

(* The broker owes nothing on a socket in use but the response to req:     *)
(* whatever was abandoned was abandoned on another socket.                 *)
OneInFlight ==
  /\ pc \in InUse => \A r \in pending :
                       sentOn[r] = socket => r = req /\ pc \in Waiting
  /\ pc \in Waiting => Awaited
  /\ pc = "arm" => ioBuffer = <<>>
  /\ pc = "got" => ioBuffer = <<req, req>> /\ replies[socket] = <<>>
  /\ pc = "idle" => ioBuffer = <<>> /\ replies[socket] = <<>>

IInv == TypeOK /\ SentInOrder /\ OneInFlight /\ NoSocketLeak

-----------------------------------------------------------------------------
(* The halves of one response, taken one at a time or both at once.        *)
LEMMA Halves ==
  ASSUME NEW r \in Requests
  PROVE  /\ <<>> \o SubSeq(<<r, r>>, 1, 1) = <<r>>
         /\ <<>> \o SubSeq(<<r, r>>, 1, 2) = <<r, r>>
         /\ <<r>> \o SubSeq(<<r>>, 1, 1) = <<r, r>>
         /\ SubSeq(<<r, r>>, 2, 2) = <<r>>
         /\ <<>> \o <<r, r>> = <<r, r>>
<1>1. /\ <<r>> \in Seq(Requests) /\ Len(<<r>>) = 1 /\ <<r>>[1] = r
      /\ <<r, r>> \in Seq(Requests) /\ Len(<<r, r>>) = 2
      /\ <<r, r>>[1] = r /\ <<r, r>>[2] = r
  OBVIOUS
<1>2. \A i \in {1, 2} : SubSeq(<<r, r>>, i, i) = <<r>>
  <2> SUFFICES ASSUME NEW i \in {1, 2} PROVE SubSeq(<<r, r>>, i, i) = <<r>>
    OBVIOUS
  <2> DEFINE two == <<r, r>>
             s   == SubSeq(two, i, i)
             one == <<r>>
  <2>1. \A j \in i .. i : two[j] \in Requests
    BY <1>1
  <2> HIDE DEF two
  <2>2. s \in Seq(Requests) /\ Len(s) = 1 /\ s[1] = two[i]
    BY <2>1, SubSeqProperties
  <2>3. two[i] = r
    BY <1>1 DEF two
  <2>4. one \in Seq(Requests) /\ Len(one) = 1 /\ one[1] = r
    BY <1>1
  <2> HIDE DEF s, one
  <2>5. s = one
    BY <2>2, <2>3, <2>4, SeqEqual
  <2> QED
    BY <2>5 DEF s, two, one
<1>3. SubSeq(<<r>>, 1, 1) = <<r>> /\ SubSeq(<<r, r>>, 1, 2) = <<r, r>>
  BY <1>1, SubSeqFull
<1>4. <<r>> \o <<r>> = <<r, r>>
  <2> DEFINE one == <<r>>
             two == <<r, r>>
             s   == one \o one
  <2>1. /\ one \in Seq(Requests) /\ Len(one) = 1 /\ one[1] = r
        /\ two \in Seq(Requests) /\ Len(two) = 2 /\ two[1] = r /\ two[2] = r
    BY <1>1
  <2> HIDE DEF one, two
  <2>2. s \in Seq(Requests) /\ Len(s) = 2 /\ s[1] = r /\ s[2] = r
    <3>1. /\ s \in Seq(Requests) /\ Len(s) = Len(one) + Len(one)
          /\ \A i \in 1 .. Len(one) + Len(one) :
               s[i] = IF i <= Len(one) THEN one[i] ELSE one[i - Len(one)]
      BY ONLY <2>1, ConcatProperties DEF s
    <3> HIDE DEF s
    <3>2. /\ Len(s) = 2
          /\ \A i \in 1 .. 2 : s[i] = IF i <= 1 THEN one[i] ELSE one[i - 1]
      BY <2>1, <3>1
    <3>3. s[1] = one[1] /\ s[2] = one[2 - 1]
      BY <3>2
    <3> QED
      BY <2>1, <3>1, <3>2, <3>3
  <2> HIDE DEF s
  <2>3. s = two
    BY <2>1, <2>2, SeqEqual
  <2> QED
    BY <2>3 DEF one, two, s
<1> QED
  BY <1>1, <1>2, <1>3, <1>4, ConcatEmptySeq

(* What is left of it, and how long all these are.                         *)
LEMMA HalvesLength ==
  ASSUME NEW r \in Requests
  PROVE  /\ SubSeq(<<r, r>>, 3, 2) = <<>> /\ SubSeq(<<r>>, 2, 1) = <<>>
         /\ Len(<<>>) = 0 /\ Len(<<r>>) = 1 /\ Len(<<r, r>>) = 2
         /\ <<>> \in Seq(Requests) /\ <<r>> \in Seq(Requests)
         /\ <<r, r>> \in Seq(Requests) /\ Append(<<>>, r) = <<r>>
OBVIOUS

(* None of them is more than one response.                                 *)
LEMMA HalvesFit ==
  ASSUME NEW r \in Requests, NEW q, q = <<>> \/ q = <<r>> \/ q = <<r, r>>
  PROVE  q \in Seq(Requests) /\ Len(q) <= 2
<1>1. CASE q = <<>>
  BY <1>1, HalvesLength
<1>2. CASE q = <<r>>
  BY <1>2, HalvesLength
<1>3. CASE q = <<r, r>>
  BY <1>3, HalvesLength
<1> QED
  BY <1>1, <1>2, <1>3

(* No connection is open, no request sent.                                 *)
LEMMA InitIInv == Init => IInv
<1> SUFFICES ASSUME Init PROVE IInv
  OBVIOUS
<1>1. TypeOK
  <2>1. ioBuffer \in Seq(Requests) /\ Len(ioBuffer) <= 2
    BY EmptySeq DEF Init
  <2>2. replies \in [Sockets -> Seq(Requests)]
    BY EmptySeq DEF Init
  <2>3. req \in 0 .. MaxRequests /\ socket \in 0 .. MaxConnects /\ pending \subseteq 1 .. req
    BY ClientBounds DEF Init, None
  <2>4. /\ sentOn \in [Requests -> 0 .. MaxConnects]
        /\ timer \in [Requests -> {"none", "scheduled", "cancelled", "started",
                                   "flagged", "done"}]
    BY ClientBounds DEF Init, None
  <2>5. /\ pc \in Places /\ registering \in BOOLEAN /\ wasTimedOut \in BOOLEAN
        /\ closed \subseteq Sockets /\ peerClosed \subseteq Sockets
    BY DEF Init, Places
  <2> QED
    BY <2>1, <2>2, <2>3, <2>4, <2>5 DEF TypeOK
<1>2. SentInOrder /\ OneInFlight /\ NoSocketLeak
  BY ClientBounds DEF Init, SentInOrder, OneInFlight, NoSocketLeak, InUse, Waiting, Handling,
     Requests, Sockets, None
<1> QED
  BY <1>1, <1>2 DEF IInv

-----------------------------------------------------------------------------
(* A new socket comes with an empty buffer, after the old one was closed.  *)
LEMMA ConnectPreserves == IInv /\ Connect => IInv'
<1> SUFFICES ASSUME IInv, Connect PROVE IInv'
  OBVIOUS
<1>1. /\ socket' = socket + 1 /\ socket' \in Sockets /\ socket \in Nat
      /\ socket' \in 0 .. MaxConnects /\ socket' # None
      /\ ioBuffer' = <<>> /\ pc' = "idle"
  BY ClientBounds DEF Connect, IInv, TypeOK, Sockets, None
<1>2. UNCHANGED <<req, closed, peerClosed, pending, replies, sentOn, wasTimedOut, timer>>
  BY DEF Connect
<1>3. TypeOK'
  <2>1. pc' \in Places /\ registering' \in BOOLEAN
    BY DEF Connect, Places
  <2>2. ioBuffer' \in Seq(Requests) /\ Len(ioBuffer') <= 2
    BY <1>1
  <2> QED
    BY <1>1, <1>2, <2>1, <2>2 DEF IInv, TypeOK
<1>4. SentInOrder'
  BY <1>1, <1>2 DEF IInv, TypeOK, SentInOrder, InUse, Handling, Sockets, None
<1>5. OneInFlight'
  <2>1. \A r \in pending : sentOn[r] # socket'
    BY <1>1, ClientBounds DEF IInv, TypeOK, SentInOrder, Requests
  <2>2. replies[socket'] = <<>>
    BY <1>1 DEF IInv, TypeOK, SentInOrder
  <2> QED
    BY <1>1, <1>2, <2>1, <2>2 DEF OneInFlight, InUse, Waiting
<1>6. NoSocketLeak'
  BY <1>1, <1>2 DEF IInv, NoSocketLeak, Connect, IsConnected, Sockets, None, TypeOK
<1> QED
  BY <1>3, <1>4, <1>5, <1>6 DEF IInv

(* A request goes out on a quiet socket; one that cannot be written stays  *)
(* in ioBuffer until the next connect.                                     *)
LEMMA WritePreserves == IInv /\ Write => IInv'
<1> SUFFICES ASSUME IInv, Write PROVE IInv'
  OBVIOUS
<1>1. /\ req' = req + 1 /\ req \in Nat /\ req' \in Requests /\ req' # 0
      /\ req' \in 0 .. MaxRequests
  BY ClientBounds DEF IInv, TypeOK, Write, Requests
<1>2. /\ pc = "idle" /\ ioBuffer = <<>> /\ replies[socket] = <<>>
      /\ socket # None /\ \A r \in pending : sentOn[r] # socket
  BY DEF IInv, SentInOrder, OneInFlight, InUse, Waiting, Write
<1>3. /\ sentOn' = [sentOn EXCEPT ![req'] = socket]
      /\ UNCHANGED <<registering, socket, closed, peerClosed, replies, wasTimedOut, timer>>
  BY DEF Write
<1>4. \/ pc' = "arm" /\ ioBuffer' = <<>> /\ pending' = pending \cup {req'}
      \/ pc' = "failed" /\ ioBuffer' = <<req'>> /\ UNCHANGED pending
  BY <1>1, <1>2, HalvesLength DEF Write
<1>5. pending' \subseteq 1 .. req' /\ req' \notin pending
  <2>1. pending \subseteq 1 .. req
    BY DEF IInv, TypeOK
  <2>2. 1 .. req \subseteq 1 .. req' /\ req' \in 1 .. req' /\ req' \notin 1 .. req
    BY <1>1
  <2> QED
    BY <1>4, <2>1, <2>2
<1>6. ioBuffer' \in Seq(Requests) /\ Len(ioBuffer') <= 2
  <2>1. ioBuffer' = <<>> \/ ioBuffer' = <<req'>>
    BY <1>4
  <2> QED
    BY ONLY <1>1, <2>1, HalvesFit
<1>7. TypeOK'
  <2>1. pc' \in Places
    BY <1>4 DEF Places
  <2>2. sentOn' \in [Requests -> 0 .. MaxConnects]
    BY <1>1, <1>3 DEF IInv, TypeOK
  <2> QED
    BY <1>1, <1>3, <1>5, <1>6, <2>1, <2>2 DEF IInv, TypeOK
<1>8. SentInOrder'
  <2>1. \A r \in Requests : r <= req' => r <= req \/ r = req'
    BY <1>1 DEF Requests
  <2>2. sentOn'[req'] = socket /\ \A r \in Requests : r # req' => sentOn'[r] = sentOn[r]
    BY <1>1, <1>3 DEF IInv, TypeOK
  <2>3. \A r \in Requests : r <= req => r <= req'
    BY <1>1 DEF Requests
  <2>4. socket <= socket /\ socket' = socket
    BY <1>3 DEF IInv, TypeOK
  <2>5. \A r \in Requests : r <= req' => sentOn'[r] # None /\ sentOn'[r] <= socket
    BY <1>2, <2>1, <2>2, <2>4 DEF IInv, SentInOrder
  <2> QED
    BY <1>1, <1>2, <1>3, <2>2, <2>3, <2>5 DEF IInv, SentInOrder
<1>9. OneInFlight'
  <2>1. \A r \in pending : sentOn'[r] = sentOn[r]
    BY <1>3, <1>5 DEF IInv, TypeOK
  <2> QED
    BY <1>2, <1>3, <1>4, <2>1 DEF OneInFlight, Awaited, InUse, Waiting
<1>10. NoSocketLeak'
  BY <1>3 DEF IInv, NoSocketLeak
<1> QED
  BY <1>7, <1>8, <1>9, <1>10 DEF IInv

(* The timer of a request is scheduled after the request was sent.         *)
LEMMA ArmPreserves == IInv /\ Arm => IInv'
<1> SUFFICES ASSUME IInv, Arm PROVE IInv'
  OBVIOUS
<1>1. /\ pc = "arm" /\ pc' = "read" /\ req \in Requests
      /\ timer' = [timer EXCEPT ![req] = "scheduled"] /\ wasTimedOut' = FALSE
      /\ UNCHANGED <<req, registering, ioBuffer, socket, closed, peerClosed,
                     pending, replies, sentOn>>
  BY ClientBounds DEF Arm, netVars, IInv, TypeOK, SentInOrder, Handling, Requests
<1>2. TypeOK'
  BY <1>1 DEF IInv, TypeOK, Places
<1>3. SentInOrder'
  BY <1>1 DEF IInv, TypeOK, SentInOrder, InUse, Handling
<1>4. OneInFlight'
  BY <1>1 DEF IInv, OneInFlight, Awaited, InUse, Waiting
<1>5. NoSocketLeak'
  BY <1>1 DEF IInv, NoSocketLeak
<1> QED
  BY <1>2, <1>3, <1>4, <1>5 DEF IInv

(* read() takes one half of the response, or what is left of it.           *)
LEMMA ReadPreserves == IInv /\ Read => IInv'
<1> SUFFICES ASSUME IInv, Read PROVE IInv'
  OBVIOUS
<1>1. /\ pc = "read" /\ Awaited /\ req \in Requests /\ socket \in Sockets
      /\ \A r \in pending : sentOn[r] = socket => r = req
      /\ UNCHANGED <<req, registering, socket, closed, peerClosed, pending,
                     sentOn, wasTimedOut, timer>>
  BY ClientBounds DEF Read, IInv, TypeOK, SentInOrder, OneInFlight, InUse,
     Waiting, Handling, Requests, Sockets, None
<1>2. PICK n \in 1 .. Len(replies[socket]) :
        /\ ioBuffer' = ioBuffer \o SubSeq(replies[socket], 1, n)
        /\ replies' = [replies EXCEPT
             ![socket] = SubSeq(replies[socket], n + 1, Len(replies[socket]))]
  BY DEF Read
<1>3. replies'[socket] = SubSeq(replies[socket], n + 1, Len(replies[socket]))
  BY <1>1, <1>2 DEF IInv, TypeOK
<1>4. req \notin pending
  BY <1>1, <1>2, HalvesLength DEF Awaited
<1>5. \/ ioBuffer' = <<req>> /\ replies'[socket] = <<req>>
      \/ ioBuffer' = <<req, req>> /\ replies'[socket] = <<>>
  <2>1. CASE ioBuffer = <<>> /\ replies[socket] = <<req, req>>
    <3>1. n = 1 \/ n = 2
      BY <1>1, <1>2, <2>1, HalvesLength
    <3>2. CASE n = 1
      <4>1. /\ ioBuffer' = <<>> \o SubSeq(<<req, req>>, 1, 1)
            /\ replies'[socket] = SubSeq(<<req, req>>, 2, 2)
        BY <1>1, <1>2, <1>3, <2>1, <3>2, HalvesLength
      <4> QED
        BY <1>1, <4>1, Halves
    <3>3. CASE n = 2
      <4>1. /\ ioBuffer' = <<>> \o SubSeq(<<req, req>>, 1, 2)
            /\ replies'[socket] = SubSeq(<<req, req>>, 3, 2)
        BY <1>1, <1>2, <1>3, <2>1, <3>3, HalvesLength
      <4> QED
        BY <1>1, <4>1, Halves, HalvesLength
    <3> QED
      BY <3>1, <3>2, <3>3
  <2>2. CASE ioBuffer = <<req>> /\ replies[socket] = <<req>>
    <3>1. n = 1
      BY <1>1, <1>2, <2>2, HalvesLength
    <3>2. /\ ioBuffer' = <<req>> \o SubSeq(<<req>>, 1, 1)
          /\ replies'[socket] = SubSeq(<<req>>, 2, 1)
      BY <1>1, <1>2, <1>3, <2>2, <3>1, HalvesLength
    <3> QED
      BY <1>1, <3>2, Halves, HalvesLength
  <2> QED
    BY <1>1, <1>4, <2>1, <2>2 DEF Awaited
<1>6. pc' = IF Len(ioBuffer') < 2 THEN "read" ELSE "got"
  BY DEF Read
<1>0. req \in Requests
  BY <1>1
<1>7. TypeOK'
  <2>1. ioBuffer' \in Seq(Requests) /\ Len(ioBuffer') <= 2
    BY ONLY <1>0, <1>5, HalvesFit
  <2>2. replies'[socket] \in Seq(Requests)
    BY ONLY <1>0, <1>5, HalvesFit
  <2>3. replies' \in [Sockets -> Seq(Requests)]
    BY <1>1, <1>2, <1>3, <2>2 DEF IInv, TypeOK
  <2>4. pc' \in Places
    BY <1>6 DEF Places
  <2> QED
    BY <1>1, <2>1, <2>3, <2>4 DEF IInv, TypeOK
<1>8. SentInOrder'
  <2>1. \A s \in Sockets : s # socket => replies'[s] = replies[s]
    BY <1>1, <1>2 DEF IInv, TypeOK
  <2>2. \A s \in Sockets : s > socket => s # socket
    BY <1>1 DEF Sockets
  <2>3. pc' \in {"read", "got"}
    BY <1>6
  <2> QED
    BY <1>1, <2>1, <2>2, <2>3 DEF IInv, SentInOrder, InUse, Handling
<1>9. OneInFlight'
  <2>1. \/ ioBuffer' = <<req>> /\ replies'[socket] = <<req>> /\ pc' = "read"
        \/ ioBuffer' = <<req, req>> /\ replies'[socket] = <<>> /\ pc' = "got"
    BY ONLY <1>0, <1>5, <1>6, HalvesLength
  <2> QED
    BY <1>1, <1>4, <2>1 DEF OneInFlight, Awaited, InUse, Waiting
<1>10. NoSocketLeak'
  BY <1>1 DEF IInv, NoSocketLeak
<1> QED
  BY <1>7, <1>8, <1>9, <1>10 DEF IInv

(* Compacting ioBuffer after a response leaves nothing.                    *)
LEMMA ReturnPreserves == IInv /\ Return => IInv'
<1> SUFFICES ASSUME IInv, Return PROVE IInv'
  OBVIOUS
<1>1. /\ pc = "got" /\ pc' = "idle" /\ req \in Requests /\ registering' = FALSE
      /\ ioBuffer = <<req, req>> /\ replies[socket] = <<>>
      /\ ioBuffer' = SubSeq(ioBuffer, 3, Len(ioBuffer))
      /\ \A r \in pending : sentOn[r] # socket
      /\ UNCHANGED <<req, socket, closed, peerClosed, pending, replies, sentOn,
                     wasTimedOut>>
  BY ClientBounds DEF Return, netVars, IInv, TypeOK, SentInOrder, OneInFlight,
     Handling, InUse, Waiting, Requests
<1>2. ioBuffer' = <<>>
  BY <1>1, Halves, HalvesLength
<1>3. /\ timer' \in [Requests -> {"none", "scheduled", "cancelled", "started",
                                  "flagged", "done"}]
      /\ \A r \in Requests : timer'[r] # "none" => timer[r] # "none"
  BY <1>1 DEF Return, CancelTimer, IInv, TypeOK
<1>4. TypeOK'
  <2>1. /\ ioBuffer' \in Seq(Requests) /\ Len(ioBuffer') <= 2
        /\ registering' \in BOOLEAN /\ pc' \in Places
    BY ONLY <1>1, <1>2, HalvesFit DEF Places
  <2> QED
    BY <1>1, <1>3, <2>1 DEF IInv, TypeOK
<1>5. SentInOrder'
  BY <1>1, <1>3 DEF IInv, SentInOrder, InUse, Handling
<1>6. OneInFlight'
  BY <1>1, <1>2 DEF OneInFlight, InUse, Waiting
<1>7. NoSocketLeak'
  BY <1>1 DEF IInv, NoSocketLeak
<1> QED
  BY <1>4, <1>5, <1>6, <1>7 DEF IInv

(* After a failure nothing is claimed of the socket until the next connect. *)
LEMMA FailingPreserves ==
  IInv /\ (ConnectFails \/ ReadFails \/ Classify \/ Throw) => IInv'
<1> SUFFICES ASSUME IInv, ConnectFails \/ ReadFails \/ Classify \/ Throw
             PROVE  IInv'
  OBVIOUS
<1>1. /\ UNCHANGED <<req, registering, ioBuffer, socket, closed, peerClosed,
                     pending, replies, sentOn, wasTimedOut>>
      /\ pc' \in Places /\ pc' \notin InUse
      /\ pc' \in Handling => pc \in Handling
  BY DEF ConnectFails, ReadFails, Classify, Throw, netVars, Places, InUse, Handling
<1>2. /\ timer' \in [Requests -> {"none", "scheduled", "cancelled", "started",
                                  "flagged", "done"}]
      /\ \A r \in Requests : timer'[r] # "none" => timer[r] # "none"
  BY DEF ConnectFails, ReadFails, Classify, Throw, CancelTimer, IInv, TypeOK
<1>3. TypeOK'
  BY <1>1, <1>2 DEF IInv, TypeOK
<1>4. SentInOrder'
  BY <1>1, <1>2 DEF IInv, SentInOrder
<1>5. OneInFlight'
  BY <1>1 DEF OneInFlight, InUse, Waiting
<1>6. NoSocketLeak'
  BY <1>1 DEF IInv, NoSocketLeak
<1> QED
  BY <1>3, <1>4, <1>5, <1>6 DEF IInv

(* The timer thread only closes sockets that were opened.                  *)
LEMMA TimerPreserves ==
  ASSUME IInv, NEW r \in Requests, Timer(r)
  PROVE  IInv'
<1>1. /\ UNCHANGED <<pc, req, registering, ioBuffer, socket, peerClosed, pending,
                     replies, sentOn>>
      /\ wasTimedOut' \in BOOLEAN /\ closed \subseteq closed'
  BY DEF Timer, TimerStarts, TimerFlags, TimerCloses, clientVars, netVars, IInv, TypeOK
<1>2. /\ timer' \in [Requests -> {"none", "scheduled", "cancelled", "started",
                                  "flagged", "done"}]
      /\ \A q \in Requests : timer'[q] # "none" => timer[q] # "none"
  BY DEF Timer, TimerStarts, TimerFlags, TimerCloses, IInv, TypeOK
<1>3. closed' \subseteq 1 .. socket /\ closed' \subseteq Sockets
  <2>1. sentOn[r] \in Nat /\ (timer[r] # "none" => sentOn[r] # 0)
    BY DEF IInv, TypeOK, SentInOrder, None
  <2>2. socket \in 0 .. MaxConnects /\ closed \subseteq 1 .. socket
    BY DEF IInv, TypeOK, SentInOrder
  <2>3. closed' \subseteq 1 .. socket
    <3>1. CASE TimerCloses(r)
      <4>1. timer[r] # "none" /\ \E s \in sentOn[r] .. socket : closed' = closed \cup {s}
        BY <3>1 DEF TimerCloses
      <4>2. sentOn[r] .. socket \subseteq 1 .. socket
        BY <2>1, <2>2, <4>1
      <4> QED
        BY <2>2, <4>1, <4>2
    <3>2. CASE UNCHANGED closed
      BY <2>2, <3>2
    <3> QED
      BY <3>1, <3>2 DEF Timer, TimerStarts, TimerFlags, netVars
  <2>4. 1 .. socket \subseteq Sockets
    BY <2>2, ClientBounds DEF Sockets
  <2> QED
    BY <2>3, <2>4
<1>4. TypeOK'
  BY <1>1, <1>2, <1>3 DEF IInv, TypeOK
<1>5. SentInOrder'
  BY <1>1, <1>2, <1>3 DEF IInv, SentInOrder
<1>6. OneInFlight'
  BY <1>1 DEF IInv, OneInFlight, Awaited
<1>7. NoSocketLeak'
  BY <1>1 DEF IInv, NoSocketLeak
<1> QED
  BY <1>4, <1>5, <1>6, <1>7 DEF IInv

(* An answer arrives where its request was written: on the socket in use   *)
(* only that to req.                                                       *)
LEMMA AnswerPreserves ==
  ASSUME IInv, NEW r \in Requests, Answer(r)
  PROVE  IInv'
<1>1. /\ r \in pending /\ pending' = pending \ {r}
      /\ replies' = [replies EXCEPT ![sentOn[r]] = replies[sentOn[r]] \o <<r, r>>]
      /\ UNCHANGED <<pc, req, registering, ioBuffer, socket, closed, peerClosed, sentOn,
                     wasTimedOut, timer>>
  BY DEF Answer, clientVars
<1>2. /\ sentOn[r] \in Sockets /\ sentOn[r] <= socket /\ socket \in Nat
      /\ socket <= MaxConnects
  BY <1>1, ClientBounds DEF IInv, TypeOK, SentInOrder, Sockets, None, Requests
<1>3. replies[sentOn[r]] \o <<r, r>> \in Seq(Requests)
  BY <1>2 DEF IInv, TypeOK
<1>4. /\ replies' \in [Sockets -> Seq(Requests)]
      /\ replies'[sentOn[r]] = replies[sentOn[r]] \o <<r, r>>
      /\ \A s \in Sockets : s # sentOn[r] => replies'[s] = replies[s]
  BY <1>1, <1>2, <1>3 DEF IInv, TypeOK
<1>5. TypeOK'
  BY <1>1, <1>4 DEF IInv, TypeOK
<1>6. SentInOrder'
  <2>1. \A s \in Sockets : s > socket => s # sentOn[r]
    BY <1>2 DEF Sockets
  <2> QED
    BY <1>1, <1>4, <2>1 DEF IInv, SentInOrder
<1>7. OneInFlight'
  <2>1. ASSUME pc \in InUse, sentOn[r] = socket
        PROVE  r = req /\ pc \in Waiting
    BY <1>1, <2>1 DEF IInv, OneInFlight
  <2>2. ASSUME pc \in Waiting, sentOn[r] = socket
        PROVE  Awaited'
    <3>1. r = req
      BY <2>1, <2>2 DEF Waiting, InUse
    <3>2. ioBuffer = <<>> /\ replies[socket] = <<>>
      BY <1>1, <2>2, <3>1 DEF IInv, OneInFlight, Awaited
    <3>3. replies'[socket] = <<r, r>>
      BY <1>4, <2>2, <3>2, Halves
    <3> QED
      BY <1>1, <3>1, <3>2, <3>3 DEF Awaited
  <2>3. ASSUME pc \in InUse, sentOn[r] # socket
        PROVE  replies'[socket] = replies[socket]
    <3>1. socket \in Sockets
      BY <1>2, <2>3, ClientBounds DEF IInv, SentInOrder, Sockets, None
    <3> QED
      BY <1>4, <2>3, <3>1
  <2>4. ASSUME pc \in Waiting, sentOn[r] # socket
        PROVE  Awaited'
    <3>1. req \in pending' <=> req \in pending
      BY <1>1, <2>4 DEF IInv, SentInOrder, Handling, Waiting
    <3>2. replies'[socket] = replies[socket]
      BY <2>3, <2>4 DEF Waiting, InUse
    <3>3. Awaited
      BY <2>4 DEF IInv, OneInFlight
    <3> QED
      BY <1>1, <3>1, <3>2, <3>3 DEF Awaited
  <2> QED
    BY <1>1, <2>1, <2>2, <2>3, <2>4 DEF IInv, OneInFlight, InUse, Waiting
<1>8. NoSocketLeak'
  BY <1>1 DEF IInv, NoSocketLeak
<1> QED
  BY <1>5, <1>6, <1>7, <1>8 DEF IInv

(* What the broker closes changes nothing here until it is written or read. *)
LEMMA PeerClosePreserves == IInv /\ PeerClose => IInv'
<1> SUFFICES ASSUME IInv, PeerClose PROVE IInv'
  OBVIOUS
<1>1. UNCHANGED <<pc, req, registering, ioBuffer, socket, closed, pending, replies,
                  sentOn, wasTimedOut, timer>>
  BY DEF PeerClose, clientVars
<1>2. peerClosed' \subseteq Sockets
  <2>1. 1 .. socket \subseteq Sockets
    BY ClientBounds DEF IInv, TypeOK, Sockets
  <2> QED
    BY <2>1 DEF PeerClose, IInv, TypeOK
<1>3. TypeOK'
  BY <1>1, <1>2 DEF IInv, TypeOK
<1>4. SentInOrder' /\ OneInFlight' /\ NoSocketLeak'
  BY <1>1 DEF IInv, SentInOrder, OneInFlight, Awaited, NoSocketLeak
<1> QED
  BY <1>3, <1>4 DEF IInv

(* The invariant is inductive.                                             *)
LEMMA NextIInv == IInv /\ [Next]_vars => IInv'
<1> SUFFICES ASSUME IInv, [Next]_vars PROVE IInv'
  OBVIOUS
<1>1. CASE UNCHANGED vars
  BY <1>1 DEF vars, clientVars, netVars, IInv, TypeOK, SentInOrder, OneInFlight,
     Awaited, NoSocketLeak
<1>2. CASE Client
  BY <1>2, ConnectPreserves, WritePreserves, ArmPreserves, ReadPreserves,
     ReturnPreserves, FailingPreserves DEF Client
<1> QED
  BY <1>1, <1>2, TimerPreserves, AnswerPreserves, PeerClosePreserves DEF Next

-----------------------------------------------------------------------------
(* The inductive invariant holds of the module.                            *)
THEOREM ClientInvariant == Spec => []IInv
BY InitIInv, NextIInv, PTL DEF Spec

(* Types; ioBuffer never holds more than one response or one request.      *)
THEOREM ClientTypeCorrect == Spec => []TypeOK
<1>1. IInv => TypeOK
  BY DEF IInv
<1> QED
  BY <1>1, ClientInvariant, PTL

(* submitRequest returns the response to its own request, whatever was     *)
(* abandoned before, and sends nothing that was left over.                 *)
THEOREM ClientAnswersOwnRequest == Spec => []AnswersOwnRequest
<1>1. IInv => AnswersOwnRequest
  BY DEF IInv, OneInFlight, AnswersOwnRequest
<1> QED
  BY <1>1, ClientInvariant, PTL

(* All connections but the current one have been closed.                   *)
THEOREM ClientNoSocketLeak == Spec => []NoSocketLeak
<1>1. IInv => NoSocketLeak
  BY DEF IInv
<1> QED
  BY <1>1, ClientInvariant, PTL
=============================================================================
