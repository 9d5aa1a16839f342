------------------------- MODULE SolanaClientManager -------------------------
(***************************************************************************)
(* One call through SolanaClientManager                                    *)
(* (src/discovery-provider/src/solana/solana_client_manager.py): the       *)
(* per-endpoint retry loop (`while num_retries > 0`) inside _try_all, or   *)
(* inside _try_all_with_timeout whose 30 s SIGALRM can cut an endpoint's   *)
(* loop short.                                                             *)
(*                                                                         *)
(* The calls differ only in how they read one answer:                      *)
(*   "tx_info"    get_sol_tx_info: _check_error raises                     *)
(*                UnsupportedVersionError on any "error" key, a null       *)
(*                result is retried;                                       *)
(*   "signatures" get_signatures_for_address: the response is returned as  *)
(*                is, under the 30 s alarm;                                *)
(*   "plain"      get_slot, get_token_accounts_by_owner, get_account_info: *)
(*                response["result"] is returned, an error body raises     *)
(*                KeyError inside the try and is retried.                  *)
(* An answer of one client call is one of                                  *)
(*   "ok", "null" (result is None), "exception" (transport error),         *)
(*   "error_version" (error body, code -32015), "error_other" (any other   *)
(*   error body).                                                          *)
(***************************************************************************)
EXTENDS Naturals

CONSTANTS
    NumEndpoints,       \* len(self.clients)
    Retries,            \* retries = DEFAULT_MAX_RETRIES
    Ops,                \* the kinds of call considered
    Answers             \* the answers an endpoint may give

ASSUME
    /\ NumEndpoints >= 1 /\ Retries >= 1
    /\ Ops \subseteq {"tx_info", "signatures", "plain"}
    /\ Answers \subseteq {"ok", "null", "exception", "error_version", "error_other"}

VARIABLES
    op,         \* which call is in progress
    idx,        \* index of the endpoint _try_all is on (NumEndpoints + 1: none left)
    left,       \* num_retries of the current endpoint
    attempts,   \* client calls made so far (Budget + 1: more than the budget)
    last,       \* the last answer received
    result      \* "pending" | "returned" | "unsupported" | "failed"

vars == <<op, idx, left, attempts, last, result>>

ErrorBody == {"error_version", "error_other"}

Budget == NumEndpoints * Retries

Lo(a, b) == IF a <= b THEN a ELSE b

\* Mutant: num_retries is decremented twice per failed attempt.
DecrementTwice(l) == l - 2

\* Mutant: a retried answer does not consume a retry.
DecrementMissing(l) == l

(* num_retries -= 1 *)
Decrement(l) == l - 1

\* Mutant: the pool gives up one endpoint early.
ExhaustedOffByOne(i) == i >= NumEndpoints

(* the for loop of _try_all has run out of endpoints *)
Exhausted(i) == i > NumEndpoints

(* handle_get_sol_tx_info: a result is returned, any "error" key raises   *)
(* UnsupportedVersionError (_check_error), a null result or an exception   *)
(* goes round the loop.                                                    *)
TxInfoOutcome(a) ==
    IF a = "ok" THEN "returned"
    ELSE IF a \in ErrorBody THEN "unsupported"
    ELSE "retry"

(* handle_get_signatures_for_address: the response is returned whatever    *)
(* it holds; only an exception goes round the loop.                        *)
SignaturesOutcome(a) == IF a = "exception" THEN "retry" ELSE "returned"

(* _get_slot, _get_token_accounts_by_owner, _get_account_info:             *)
(* response["result"] is returned (None included); an error body has no    *)
(* "result" key, so the KeyError is caught and the loop goes round.        *)
PlainOutcome(a) == IF a \in {"exception"} \cup ErrorBody THEN "retry" ELSE "returned"

(* What the handler of call o does with one answer.                        *)
Outcome(o, a) ==
    CASE o = "tx_info"    -> TxInfoOutcome(a)
      [] o = "signatures" -> SignaturesOutcome(a)
      [] o = "plain"      -> PlainOutcome(a)

\* Mutant: the handler's loop does not restart its budget on the next endpoint.
NextEndpointNoReset ==
    /\ idx' = idx + 1
    /\ left' = left
    /\ result' = IF Exhausted(idx + 1) THEN "failed" ELSE "pending"

(* The handler raised for this endpoint; _try_all logs it and moves to the *)
(* next client with a fresh num_retries, or raises "All requests failed".  *)
NextEndpoint ==
    /\ idx' = idx + 1
    /\ left' = Retries
    /\ result' = IF Exhausted(idx + 1) THEN "failed" ELSE "pending"

Init ==
    /\ op \in Ops
    /\ idx = 1
    /\ left = Retries
    /\ attempts = 0
    /\ last = "none"
    /\ result = "pending"

(* One client call of the retry loop and the handling of its answer.       *)
Attempt ==
    /\ result = "pending"
    /\ left > 0
    /\ \E a \in Answers :
          /\ attempts' = Lo(attempts + 1, Budget + 1)
          /\ last' = a
          /\ IF Outcome(op, a) = "retry"
             THEN /\ left' = Decrement(left)
                  /\ UNCHANGED result
             ELSE /\ result' = Outcome(op, a)
                  /\ UNCHANGED left
    /\ UNCHANGED <<op, idx>>

(* `while num_retries > 0` is over: the handler raises.                    *)
EndpointRaises ==
    /\ result = "pending"
    /\ left <= 0
    /\ NextEndpoint
    /\ UNCHANGED <<op, attempts, last>>

(* The 30 s alarm of _try_all_with_timeout fires during this endpoint's    *)
(* loop; TimeoutError is caught by `except Exception`.                     *)
AlarmFires ==
    /\ op = "signatures"
    /\ result = "pending"
    /\ NextEndpoint
    /\ UNCHANGED <<op, attempts, last>>

Next == Attempt \/ EndpointRaises \/ AlarmFires

(* Each client call returns (the HTTP client has a timeout), and the       *)
(* handler runs to its end.                                                *)
Spec == Init /\ [][Next]_vars /\ WF_vars(Next)

-----------------------------------------------------------------------------
TypeOK ==
    /\ op \in Ops
    /\ idx \in 1 .. NumEndpoints + 1
    /\ left \in 0 .. Retries
    /\ attempts \in 0 .. Budget + 1
    /\ last \in Answers \cup {"none"}
    /\ result \in {"pending", "returned", "unsupported", "failed"}

(* Spec 8 "All-endpoints-exhausted": get_sol_tx_info fails only after      *)
(* exactly NumEndpoints * retries client calls, and no call of any kind    *)
(* makes more than that.                                                   *)
FailsOnlyWhenExhausted ==
    /\ attempts <= Budget
    /\ (result = "failed" /\ op = "tx_info") => attempts = Budget

(* UnsupportedVersionError is raised only for an answer whose error is the *)
(* unsupported-version code (-32015); any other error is a failure to be   *)
(* retried on this or the next endpoint.                                   *)
UnsupportedOnlyForVersionError ==
    result = "unsupported" => last = "error_version"

(* Every call ends: it returns, raises UnsupportedVersionError or raises   *)
(* "All requests failed".                                                  *)
CallTerminates == <>(result # "pending")

(* The retry loop implements RpcFailover: the endpoints given up on are    *)
(* those before idx.                                                       *)
Failover == INSTANCE RpcFailover WITH tried <- 1 .. (idx - 1)

FailoverRefinement == Failover!Spec
=============================================================================
