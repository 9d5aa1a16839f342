---------------------------- MODULE RpcFailover ----------------------------
(***************************************************************************)
(* What one call through the solana client pool promises: endpoints are    *)
(* given up on in their configured order, the call either returns an       *)
(* answer (or raises UnsupportedVersionError) while an endpoint is still   *)
(* untried, or fails once every endpoint has been given up on.             *)
(***************************************************************************)
EXTENDS Naturals, FiniteSets

CONSTANT NumEndpoints

VARIABLES result, tried

Endpoints == 1 .. NumEndpoints

Init ==
    /\ result = "pending"
    /\ tried = {}

(* The next endpoint in order is given up on; the last one ends the call.  *)
GiveUp ==
    /\ result = "pending"
    /\ LET e == Cardinality(tried) + 1
       IN  /\ e \in Endpoints
           /\ tried' = tried \cup {e}
           /\ result' = IF e = NumEndpoints THEN "failed" ELSE "pending"

(* The current endpoint produces the outcome of the call.                  *)
Answer ==
    /\ result = "pending"
    /\ tried # Endpoints
    /\ result' \in {"returned", "unsupported"}
    /\ UNCHANGED tried

Next == GiveUp \/ Answer

Spec == Init /\ [][Next]_<<result, tried>>
=============================================================================
