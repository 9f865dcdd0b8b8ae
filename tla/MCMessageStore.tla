--------------------------- MODULE MCMessageStore ---------------------------
(* Small instances of MessageStore for TLC. *)
EXTENDS MessageStore

CONSTANTS w1, w2, q1, q2, c1

AnyMessage  == [queue |-> NONE, sender |-> NONE, context |-> NONE, byPrio |-> FALSE]
UrgentOfQ1  == [AnyMessage EXCEPT !.queue = q1, !.byPrio = TRUE]

SendTo(queues, prio) ==
  [queues |-> queues, sender |-> c1, prio |-> prio, context |-> NONE]

(* Two queues, a send to both, deletions, and two kinds of dequeue. *)
MixedQueries == {AnyMessage, UrgentOfQ1}
MixedSends   == {SendTo(<<q1, q2>>, 1), SendTo(<<q1>>, 2)}
=============================================================================
