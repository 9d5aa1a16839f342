--------------------------- MODULE ParseSolTxBatch ---------------------------
(***************************************************************************)
(* One call of parse_sol_tx_batch                                          *)
(* (src/discovery-provider/src/tasks/index_spl_token.py): the transactions *)
(* of one sub-batch are fetched and parsed by parse_spl_token_transaction  *)
(* on a ThreadPoolExecutor, collected through as_completed(timeout=45),    *)
(* reconciled into AudioTransactionsHistory rows, and committed with the   *)
(* new SPLTokenTransaction checkpoint in one scoped_session.               *)
(*                                                                         *)
(* Data abstraction: a transaction body is a record of the features the   *)
(* parser branches on (see TxShapes).  Position i of the sub-batch stands  *)
(* for tx_sig_batch_records[i-1]; position 1 is the newest record, whose   *)
(* slot and signature become the checkpoint.  A receiver that is a user    *)
(* bank stands for the user whose balance refresh is enqueued.             *)
(***************************************************************************)
EXTENDS Integers, Sequences, FiniteSets, TLC

CONSTANTS
    None,           \* Python None
    Raise,          \* an exception propagating out of parse_spl_token_transaction
    N,              \* len(tx_sig_batch_records)
    BatchShapes     \* bodies the transactions of the sub-batch may have

ASSUME N >= 1

Pos == 1 .. N

(* purchase_vendor_map *)
PurchaseVendorMap ==
    ("Link by Stripe" :> "purchase_stripe") @@
    ("Coinbase Pay" :> "purchase_coinbase") @@
    ("Unknown" :> "purchase_unknown")

VendorNames == DOMAIN PurchaseVendorMap

(* The memo of a transaction: no instruction at programIdIndex 4 ("none"), *)
(* account 4 is not the purchase memo program ("foreign"), a memo without  *)
(* "In-App $AUDIO Purchase:" ("text"), a purchase memo whose vendor is not *)
(* in the map ("unlisted"), or a purchase memo naming a mapped vendor.     *)
MemoKinds == {"none", "foreign", "text", "unlisted"} \cup VendorNames

(* Every body the parser distinguishes.  rpc: what get_sol_tx_info does    *)
(* (returns, raises UnsupportedVersionError, raises after exhausting the   *)
(* pool); err: meta["err"]; log: the TransferChecked log line; keys: the   *)
(* token program is absent from accountKeys / present without a top-level *)
(* instruction / present with one; pre, post: the receiver's token        *)
(* balances (-1: no entry for its account index); bank: the receiver      *)
(* token account is a user bank.                                           *)
TxShapes ==
    [rpc : {"ok", "unsupported", "raise"}, err : BOOLEAN, log : BOOLEAN,
     keys : {"absent", "no_instr", "instr"}, memo : MemoKinds,
     pre : {-1, 0, 5}, post : {-1, 0, 5}, bank : BOOLEAN]

ASSUME BatchShapes \subseteq TxShapes

RowTypes == {"transfer"} \cup {PurchaseVendorMap[v] : v \in VendorNames}

-----------------------------------------------------------------------------
(* parse_memo_instruction: the data of the memo instruction, or "".        *)
ParseMemoInstruction(t) == IF t.memo \in {"none", "foreign"} THEN "" ELSE t.memo

(* decode_memo_and_extract_vendor: the vendor named after the purchase     *)
(* prefix if it is in purchase_vendor_map, else "".                        *)
DecodeMemoAndExtractVendor(m) == IF m \in VendorNames THEN m ELSE ""

(* vendor = decode_memo_and_extract_vendor(memo) if memo_encoded else None *)
Vendor(t) ==
    LET m == ParseMemoInstruction(t)
    IN  IF m = "" THEN None ELSE DecodeMemoAndExtractVendor(m)

\* Mutant: a decrease of the receiver's balance is taken for "no change".
BalanceUnchangedNonPositive(pre, post) == post - pre <= 0

(* postbalance - prebalance == 0 *)
BalanceUnchanged(pre, post) == post - pre = 0

(* parse_spl_token_transaction: None for a discarded transaction, Raise    *)
(* when an exception escapes, else the SplTokenTransactionInfo fields the  *)
(* reconciler reads.  get_valid_instruction's account_keys.index raises    *)
(* ValueError when the token program is not among the account keys.       *)
(* get_solana_tx_token_balances gives (-1, -1) when either entry is        *)
(* missing.                                                                *)
ParseSplTokenTransaction(t) ==
    IF t.rpc = "unsupported" THEN None
    ELSE IF t.rpc = "raise" THEN Raise
    ELSE IF t.err \/ ~t.log THEN None
    ELSE IF t.keys = "absent" THEN Raise
    ELSE IF t.keys = "no_instr" THEN None
    ELSE IF t.pre = -1 \/ t.post = -1 THEN None
    ELSE IF BalanceUnchanged(t.pre, t.post) THEN None
    ELSE [bank |-> t.bank, vendor |-> Vendor(t)]

\* Mutant: the user-bank check of the reconciler is dropped.
RowTypeIgnoresBank(info) ==
    IF info.vendor \in {None, ""} THEN "transfer" ELSE PurchaseVendorMap[info.vendor]

(* process_spl_token_transactions for one parsed transaction: no row if    *)
(* the receiver is not a user bank, a transfer row without a vendor, else  *)
(* a purchase row of the vendor's type.                                    *)
RowType(info) ==
    IF ~info.bank THEN None
    ELSE IF info.vendor \in {None, ""} THEN "transfer"
    ELSE PurchaseVendorMap[info.vendor]

(* What one transaction contributes to the batch: Raise, None or a row.    *)
Outcome(t) ==
    LET p == ParseSplTokenTransaction(t)
    IN  IF p \in {None, Raise} THEN p ELSE RowType(p)

(* The spec's parser and reconciler (Batch Parser, Reconciler, Error       *)
(* handling): an RPC failure propagates; an unsupported version, a         *)
(* top-level error, a missing TransferChecked instruction, an unavailable  *)
(* or unchanged balance, or a receiver that is not a tracked account is    *)
(* discarded; a recognised vendor gives a purchase row, anything else a    *)
(* transfer row.                                                           *)
ReferenceOutcome(t) ==
    IF t.rpc = "raise" THEN Raise
    ELSE IF \/ t.rpc = "unsupported" \/ t.err \/ ~t.log \/ t.keys # "instr"
            \/ t.pre = -1 \/ t.post = -1 \/ t.pre = t.post \/ ~t.bank
         THEN None
    ELSE IF t.memo \in VendorNames THEN PurchaseVendorMap[t.memo]
    ELSE "transfer"

-----------------------------------------------------------------------------
VARIABLES
    shape,       \* the bodies of the sub-batch's transactions
    fut,         \* position -> "pending" | "done": the parse futures
    order,       \* completion order of the futures (what as_completed yields)
    seen,        \* futures consumed by the as_completed loop
    txs,         \* positions appended to spl_token_txs
    pc,          \* "collect" | "drain" | "db" | "commit" | "committed" | "failed"
    enqueued,    \* positions whose receiver was handed to the balance refresh queue
    healthKey,   \* redis latest_sol_spl_token_db_key: None or the position cached
    rows,        \* committed AudioTransactionsHistory rows
    checkpoint   \* committed SPLTokenTransaction: None or the position of last_tx

vars == <<shape, fut, order, seen, txs, pc, enqueued, healthKey, rows, checkpoint>>

\* Mutant: the worker's exception is not re-raised by future.result().
CollectSwallowsRaise(o) == FALSE

(* `tx_info = future.result()` re-raises the worker's exception.           *)
CollectRaises(o) == o = Raise

\* Mutant: the loop index advances twice per consumed future.
NextSeenTwice(s) == s + 2

NextSeen(s) == s + 1

(* as_completed is exhausted once every submitted future was yielded.      *)
AllConsumed(s) == s = N

Init ==
    /\ shape \in [Pos -> BatchShapes]
    /\ fut = [i \in Pos |-> "pending"]
    /\ order = <<>>
    /\ seen = 0
    /\ txs = {}
    /\ pc = "collect"
    /\ enqueued = {}
    /\ healthKey = None
    /\ rows = {}
    /\ checkpoint = None

(* A worker thread finishes parse_spl_token_transaction for position i.    *)
Complete(i) ==
    /\ fut[i] = "pending"
    /\ fut' = [fut EXCEPT ![i] = "done"]
    /\ order' = Append(order, i)
    /\ UNCHANGED <<shape, seen, txs, pc, enqueued, healthKey, rows, checkpoint>>

(* One iteration of `for future in as_completed(...)`: a None result is    *)
(* skipped, an exception is re-raised (the with block then waits for the   *)
(* other workers), anything else is appended to spl_token_txs.             *)
Consume ==
    /\ pc = "collect"
    /\ seen < Len(order)
    /\ LET i == order[seen + 1]
           o == Outcome(shape[i])
       IN  IF CollectRaises(o)
           THEN /\ pc' = "drain"
                /\ UNCHANGED <<seen, txs>>
           ELSE /\ seen' = NextSeen(seen)
                /\ txs' = IF o = None
                          THEN txs ELSE txs \cup {i}
                /\ UNCHANGED pc
    /\ UNCHANGED <<shape, fut, order, enqueued, healthKey, rows, checkpoint>>

(* as_completed raises TimeoutError while it waits for a future.           *)
Timeout ==
    /\ pc = "collect"
    /\ seen = Len(order)
    /\ \E i \in Pos : fut[i] = "pending"
    /\ pc' = "drain"
    /\ UNCHANGED <<shape, fut, order, seen, txs, enqueued, healthKey, rows, checkpoint>>

(* The loop is over; the with block exits and the session opens.           *)
Collected ==
    /\ pc = "collect"
    /\ AllConsumed(seen)
    /\ pc' = "db"
    /\ UNCHANGED <<shape, fut, order, seen, txs, enqueued, healthKey, rows, checkpoint>>

(* Leaving the with block after the exception: executor.shutdown(wait=True) *)
(* returns once every worker is done, and the exception ends the batch.     *)
Drain ==
    /\ pc = "drain"
    /\ \A i \in Pos : fut[i] = "done"
    /\ pc' = "failed"
    /\ UNCHANGED <<shape, fut, order, seen, txs, enqueued, healthKey, rows, checkpoint>>

(* Inside scoped_session, before its commit: the affected users are        *)
(* enqueued for a balance refresh and cache_latest_spl_audio_db_tx writes  *)
(* last_tx = tx_sig_batch_records[0] to redis.                             *)
Prepare ==
    /\ pc = "db"
    /\ enqueued' = enqueued \cup {i \in txs : shape[i].bank}
    /\ healthKey' = 1
    /\ pc' = "commit"
    /\ UNCHANGED <<shape, fut, order, seen, txs, rows, checkpoint>>

(* scoped_session commits the history rows and the checkpoint together.    *)
Commit ==
    /\ pc = "commit"
    /\ rows' = {[pos |-> i, type |-> Outcome(shape[i])] :
                    i \in {j \in txs : Outcome(shape[j]) # None}}
    /\ checkpoint' = 1
    /\ pc' = "committed"
    /\ UNCHANGED <<shape, fut, order, seen, txs, enqueued, healthKey>>

(* A query, the enqueue or the commit raises; the session rolls back.      *)
SessionFails ==
    /\ pc \in {"db", "commit"}
    /\ pc' = "failed"
    /\ UNCHANGED <<shape, fut, order, seen, txs, enqueued, healthKey, rows, checkpoint>>

Next ==
    \/ \E i \in Pos : Complete(i)
    \/ Consume
    \/ Timeout
    \/ Collected
    \/ Drain
    \/ Prepare
    \/ Commit
    \/ SessionFails

(* Worker threads run to completion and the main thread keeps stepping;   *)
(* a timeout or a failing session is possible but never forced.            *)
Spec ==
    /\ Init /\ [][Next]_vars
    /\ \A i \in Pos : WF_vars(Complete(i))
    /\ WF_vars(Consume) /\ WF_vars(Collected) /\ WF_vars(Drain)
    /\ WF_vars(Prepare) /\ WF_vars(Commit)

-----------------------------------------------------------------------------
TypeOK ==
    /\ shape \in [Pos -> BatchShapes]
    /\ fut \in [Pos -> {"pending", "done"}]
    /\ order \in Seq(Pos) /\ Len(order) <= N
    /\ seen \in 0 .. Len(order)
    /\ txs \subseteq Pos
    /\ pc \in {"collect", "drain", "db", "commit", "committed", "failed"}
    /\ enqueued \subseteq Pos
    /\ healthKey \in {None} \cup Pos
    /\ rows \subseteq [pos : Pos, type : RowTypes]
    /\ checkpoint \in {None} \cup Pos

(* parse_spl_token_transaction followed by process_spl_token_transactions  *)
(* agrees with the spec's discard and classification rules on the body of *)
(* every transaction of the sub-batch.                                     *)
ParserMatchesReference ==
    \A i \in Pos : Outcome(shape[i]) = ReferenceOutcome(shape[i])

(* The same agreement on the bodies of the sub-batch and on every other   *)
(* body the parser can be handed with the token program among the account *)
(* keys: every discard and classification branch of                      *)
(* parse_spl_token_transaction and process_spl_token_transactions, in     *)
(* every combination.                                                      *)
ParserMatchesReferenceOnListed ==
    \A t \in {shape[i] : i \in Pos} \cup {u \in TxShapes : u.keys # "absent"} :
        Outcome(t) = ReferenceOutcome(t)

(* The rows the spec expects of the sub-batch.                             *)
ExpectedRows ==
    {[pos |-> i, type |-> ReferenceOutcome(shape[i])] :
        i \in {j \in Pos : ReferenceOutcome(shape[j]) \notin {None, Raise}}}

(* The checkpoint never advances past a sub-batch that is not durably     *)
(* committed: once parse_sol_tx_batch has written it, no transaction of   *)
(* the sub-batch raised and the committed rows are exactly those the spec *)
(* expects, whatever order the futures completed in.                       *)
CheckpointImpliesRows ==
    checkpoint # None =>
        /\ \A i \in Pos : ReferenceOutcome(shape[i]) # Raise
        /\ rows = ExpectedRows

(* "Cache the latest value committed to DB in redis": the health-check     *)
(* key never names a transaction the database has not committed.           *)
HealthKeyNotAhead == healthKey # None => healthKey = checkpoint
=============================================================================
