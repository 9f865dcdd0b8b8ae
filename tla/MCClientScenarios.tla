-------------------------- MODULE MCClientScenarios --------------------------
(* A small instance of ClientScenarios: a pair with a client left over, a   *)
(* ring of one-way clients, a one-way client that is alone, and a mapping   *)
(* in which a PairedClient finds a OneWayClient at its partner's place.     *)
EXTENDS ClientScenarios

P == "PairedClient"
O == "OneWayClient"

MCConfigs == {<<P, P>>, <<P, P, P>>, <<O>>, <<O, O>>, <<P, O, O>>}
=============================================================================
