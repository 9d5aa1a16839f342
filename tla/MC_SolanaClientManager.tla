---------------------- MODULE MC_SolanaClientManager ----------------------
(* Three endpoints as in the failover test of spec section 8; three        *)
(* retries instead of DEFAULT_MAX_RETRIES = 5 (an odd budget, so a double  *)
(* decrement would step over zero).                                        *)
EXTENDS SolanaClientManager

MCOps == {"tx_info", "signatures", "plain"}

\* Transport errors, null results and unsupported-version bodies.
MCAnswers == {"ok", "null", "exception", "error_version"}

\* ... plus error bodies with other codes (node behind, rate limited).
MCAnswersWithOtherErrors == MCAnswers \cup {"error_other"}
====
