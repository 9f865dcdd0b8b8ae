-------------------------- MODULE MessageContract ---------------------------
(***************************************************************************)
(* What the store of messages promises, without transactions or locks: a   *)
(* message is published once, stays until something ends its stay, and     *)
(* ends it in one way only.  MessageStore implements this specification.   *)
(***************************************************************************)
VARIABLES
  stored,     \* published and not yet taken
  delivered,  \* handed to exactly one client
  lost,       \* taken, but the answer never left the broker
  purged      \* deleted with their queue

cvars == <<stored, delivered, lost, purged>>

Gone == delivered \cup lost \cup purged

Init == stored = {} /\ delivered = {} /\ lost = {} /\ purged = {}

Publish ==
  /\ \E m \in stored' : m \notin stored \cup Gone /\ stored' = stored \cup {m}
  /\ UNCHANGED <<delivered, lost, purged>>

Deliver(m) ==
  /\ m \in stored
  /\ stored' = stored \ {m}
  /\ delivered' = delivered \cup {m}
  /\ UNCHANGED <<lost, purged>>

Lose(m) ==
  /\ m \in stored
  /\ stored' = stored \ {m}
  /\ lost' = lost \cup {m}
  /\ UNCHANGED <<delivered, purged>>

Purge ==
  /\ stored' \subseteq stored
  /\ purged' = purged \cup (stored \ stored')
  /\ UNCHANGED <<delivered, lost>>

Next == Publish \/ (\E m \in stored : Deliver(m) \/ Lose(m)) \/ Purge

Spec == Init /\ [][Next]_cvars
=============================================================================
