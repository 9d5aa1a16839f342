------------------------- MODULE MC_IndexSplToken -------------------------
(* Model-checking instances of IndexSplToken.  The production sizes        *)
(* (INITIAL_FETCH_SIZE 10, page size from src/solana/constants.py,         *)
(* TX_SIGNATURES_PROCESSING_SIZE 100) are scaled down keeping their        *)
(* ratios: the initial page is smaller than a steady-state page, and a     *)
(* page fits in one processing sub-batch.                                  *)
EXTENDS IndexSplToken

\* One transaction already indexed at start, room for six more.
MCInitChain == <<1>>
MCMaxTxs == 7

\* A sub-batch smaller than a page: a page spans two parse_sol_tx_batch calls.
MCSmallProcessingSize == 1
====
