-------------------------- MODULE MCBrokerPipeline --------------------------
(* Small instances of BrokerPipeline. *)
EXTENDS BrokerPipeline, TLC

(* Clients are alike, and so are workers: sound for the runs that check    *)
(* no liveness.                                                            *)
Symmetry == Permutations(Clients) \cup Permutations(Workers)
=============================================================================
