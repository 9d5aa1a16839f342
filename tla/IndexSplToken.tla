--------------------------- MODULE IndexSplToken ---------------------------
(***************************************************************************)
(* The index_spl_token task of the discovery provider                     *)
(* (src/discovery-provider/src/tasks/index_spl_token.py).                  *)
(*                                                                         *)
(* A run reads the durable checkpoint (last_scanned_slot), takes a start   *)
(* offset from the redis cache queue, walks the program's signature        *)
(* history backwards page by page until it meets the checkpoint, then      *)
(* reverses the list of pages, splits each page into processing            *)
(* sub-batches and commits each sub-batch together with a new checkpoint.  *)
(*                                                                         *)
(* Data abstraction: a transaction signature is its position in the chain *)
(* (1 = oldest), chain[s] is its slot.  The parse of one transaction is    *)
(* abstracted to "indexed" (its body was fetched and classified, whether   *)
(* or not it produced a history row) or "skipped" (the RPC answered with   *)
(* an error-shaped body, which get_sol_tx_info turns into                  *)
(* UnsupportedVersionError and parse_spl_token_transaction into None).     *)
(* Every exception of a run (RPC exhaustion, parse error, the 45s          *)
(* sub-batch timeout, a failed commit, a worker crash) is the action Fail. *)
(***************************************************************************)
EXTENDS Naturals, Sequences, SequencesExt

CONSTANTS
    None,               \* absent checkpoint slot / absent "before" signature
    InitChain,          \* slots of the transactions on chain at start, oldest first
    MaxTxs,             \* bound: length of the chain
    MaxPerSlot,         \* bound: transactions of the program finalised in one slot
    MaxFailures,        \* bound: runs that end in an exception
    ErrorResponses,     \* may getTransaction answer with an error-shaped body?
    INITIAL_FETCH_SIZE,
    FETCH_TX_SIGNATURES_BATCH_SIZE,
    TX_SIGNATURES_MAX_BATCHES,
    TX_SIGNATURES_RESIZE_LENGTH,
    TX_SIGNATURES_PROCESSING_SIZE

ASSUME
    /\ InitChain \in Seq(Nat \ {0}) /\ InitChain # <<>>
    /\ IsSorted(InitChain, <=)
    /\ MaxTxs >= Len(InitChain) /\ MaxPerSlot >= 1 /\ MaxFailures \in Nat
    /\ ErrorResponses \in BOOLEAN
    /\ INITIAL_FETCH_SIZE >= 1 /\ FETCH_TX_SIGNATURES_BATCH_SIZE >= 1
    /\ 1 <= TX_SIGNATURES_RESIZE_LENGTH
    /\ TX_SIGNATURES_RESIZE_LENGTH <= TX_SIGNATURES_MAX_BATCHES
    /\ TX_SIGNATURES_PROCESSING_SIZE >= 1

VARIABLES
    chain,        \* the finalised signature history of the program (remote ledger)
    checkpoint,   \* SPLTokenTransaction row: None or [slot, sig]
    indexed,      \* sig -> times its sub-batch was committed with its body fetched (2 = "twice or more")
    skipped,      \* sigs committed while their fetch answered an error-shaped body
    cache,        \* redis list REDIS_TX_CACHE_QUEUE_PREFIX, head first
    pc,           \* "idle" | "traverse" | "process"
    latest,       \* latest_processed_slot read at the start of the run
    before,       \* last_tx_signature: the pagination cursor
    isInitial,    \* is_initial_fetch
    sigBatches,   \* transaction_signatures: pages of new signatures, newest page first
    todo,         \* sub-batches still to run through parse_sol_tx_batch
    failures      \* runs ended by an exception so far

vars == <<chain, checkpoint, indexed, skipped, cache, pc, latest, before,
          isInitial, sigBatches, todo, failures>>

Sig == 1 .. MaxTxs

Lo(a, b) == IF a <= b THEN a ELSE b
Hi(a, b) == IF a >= b THEN a ELSE b

-----------------------------------------------------------------------------
(* getSignaturesForAddress(before = b, limit): the newest `limit`          *)
(* signatures strictly older than b (from the tip when b is None),         *)
(* newest first.                                                           *)
Page(b, limit) ==
    LET top    == IF b = None THEN Len(chain) ELSE b - 1
        bottom == Hi(1, top - limit + 1)
    IN  [k \in 1 .. (top - bottom + 1) |-> top - k + 1]

(* The entries of a page above the checkpoint, up to the first one at or   *)
(* below it (the for/break loop of process_spl_token_tx).                 *)
NewPrefix(page, slot) ==
    LET stop == SelectInSeq(page, LAMBDA s : chain[s] <= slot)
    IN  IF stop = 0 THEN page ELSE SubSeq(page, 1, stop - 1)

\* Mutant: truncation keeps the newest pages (transaction_signatures[:N]).
TruncateBatchesKeepNewest(bs) ==
    IF Len(bs) > TX_SIGNATURES_MAX_BATCHES
    THEN SubSeq(bs, 1, TX_SIGNATURES_RESIZE_LENGTH)
    ELSE bs

(* "Ensure processing does not grow unbounded": keep the last              *)
(* TX_SIGNATURES_RESIZE_LENGTH pages, i.e. transaction_signatures[-N:].    *)
TruncateBatches(bs) ==
    IF Len(bs) > TX_SIGNATURES_MAX_BATCHES
    THEN SubSeq(bs, Len(bs) - TX_SIGNATURES_RESIZE_LENGTH + 1, Len(bs))
    ELSE bs

\* Mutant: the number of slices rounds up one too far.
SplitListOffByOne(s, n) ==
    [k \in 1 .. ((Len(s) + n) \div n) |-> SubSeq(s, (k - 1) * n + 1, Lo(k * n, Len(s)))]

(* split_list(batch, n): consecutive slices of at most n elements.         *)
SplitList(s, n) ==
    [k \in 1 .. ((Len(s) + n - 1) \div n) |-> SubSeq(s, (k - 1) * n + 1, Lo(k * n, Len(s)))]

\* Mutant: the list of pages is not reversed.
ReverseBatchesMissing(bs) == bs

(* transaction_signatures.reverse() followed by the nested loop over       *)
(* split_list: the order in which parse_sol_tx_batch is called.            *)
ReverseBatches(bs) == Reverse(bs)

SubBatches(bs) ==
    LET rev == ReverseBatches(bs)
    IN  FlattenSeq([k \in 1 .. Len(rev) |-> SplitList(rev[k], TX_SIGNATURES_PROCESSING_SIZE)])

\* Mutant: the entry used as the offset is left in the list.
RECURSIVE ScanCacheKeepOffset(_, _)
ScanCacheKeepOffset(q, slot) ==
    IF q = <<>> THEN [offset |-> None, queue |-> q]
    ELSE LET rest == IF Len(Tail(q)) = 1 THEN <<>> ELSE Tail(q)
         IN  IF chain[Head(q)] > slot
             THEN [offset |-> Head(q), queue |-> q]
             ELSE ScanCacheKeepOffset(rest, slot)

(* fetch_traversed_tx_from_cache: pop the head (lrange 0 1, ltrim 1 -1),   *)
(* delete the list if one entry is left, stop at the first entry whose     *)
(* slot is above the checkpoint.                                           *)
RECURSIVE ScanCache(_, _)
ScanCache(q, slot) ==
    IF q = <<>> THEN [offset |-> None, queue |-> q]
    ELSE LET rest == IF Len(Tail(q)) = 1 THEN <<>> ELSE Tail(q)
         IN  IF chain[Head(q)] > slot
             THEN [offset |-> Head(q), queue |-> rest]
             ELSE ScanCache(rest, slot)

FetchTraversedTxFromCache(q, slot) ==
    IF slot = None THEN [offset |-> None, queue |-> q] ELSE ScanCache(q, slot)

\* Mutant: the checkpoint is taken from the last record of the sub-batch.
NewCheckpointLastRecord(records) ==
    [slot |-> chain[records[Len(records)]], sig |-> records[Len(records)]]

(* The new SPLTokenTransaction row written by parse_sol_tx_batch:          *)
(* last_tx = tx_sig_batch_records[0].                                      *)
NewCheckpoint(records) == [slot |-> chain[records[1]], sig |-> records[1]]

-----------------------------------------------------------------------------
Init ==
    /\ chain = InitChain
    /\ \/ /\ checkpoint = None
          /\ indexed = [s \in Sig |-> 0]
       \/ /\ checkpoint = [slot |-> Last(InitChain), sig |-> Len(InitChain)]
          /\ indexed = [s \in Sig |-> IF s <= Len(InitChain) THEN 1 ELSE 0]
    /\ skipped = {}
    /\ cache = <<>>
    /\ pc = "idle"
    /\ latest = None
    /\ before = None
    /\ isInitial = TRUE
    /\ sigBatches = <<>>
    /\ todo = <<>>
    /\ failures = 0

(* The traversal loop is over: its locals are dead and the sub-batches    *)
(* are handed to the for loop (none left: the run returns).                *)
TraversalEnds(subs) ==
    /\ pc' = IF subs = <<>> THEN "idle" ELSE "process"
    /\ todo' = subs
    /\ latest' = None
    /\ before' = None
    /\ isInitial' = TRUE
    /\ sigBatches' = <<>>

(* A new slot is finalised carrying 1..MaxPerSlot program transactions.    *)
Arrive ==
    \E k \in 1 .. MaxPerSlot :
        /\ Len(chain) + k <= MaxTxs
        /\ chain' = chain \o [j \in 1 .. k |-> Last(chain) + 1]
        /\ UNCHANGED <<checkpoint, indexed, skipped, cache, pc, latest, before,
                       isInitial, sigBatches, todo, failures>>

(* index_spl_token has the lock; process_spl_token_tx reads the checkpoint *)
(* (get_latest_slot) and the cache offset.                                 *)
StartRun ==
    /\ pc = "idle"
    /\ LET slot == IF checkpoint = None THEN None ELSE checkpoint.slot
           r    == FetchTraversedTxFromCache(cache, slot)
       IN  /\ latest' = slot
           /\ before' = r.offset
           /\ cache' = r.queue
    /\ pc' = "traverse"
    /\ isInitial' = TRUE
    /\ UNCHANGED <<chain, checkpoint, indexed, skipped, sigBatches, todo, failures>>

(* One iteration of `while not intersection_found`; the last one also      *)
(* reverses and splits the pages (the for loop then starts).               *)
FetchPage ==
    /\ pc = "traverse"
    /\ LET page    == Page(before, IF isInitial THEN INITIAL_FETCH_SIZE
                                   ELSE FETCH_TX_SIGNATURES_BATCH_SIZE)
           batch   == IF latest = None THEN page ELSE NewPrefix(page, latest)
           found   == page = <<>> \/ latest = None \/ Len(batch) < Len(page)
           batches == IF page = <<>> THEN sigBatches
                      ELSE TruncateBatches(IF batch = <<>> THEN sigBatches
                                           ELSE Append(sigBatches, batch))
       IN  /\ cache' = IF page = <<>> THEN cache ELSE <<Last(page)>> \o cache
           /\ IF found
              THEN TraversalEnds(SubBatches(batches))
              ELSE /\ before' = Last(page)
                   /\ isInitial' = FALSE
                   /\ sigBatches' = batches
                   /\ UNCHANGED <<pc, todo, latest>>
    /\ UNCHANGED <<chain, checkpoint, indexed, skipped, failures>>

(* parse_sol_tx_batch: fetch every transaction of the sub-batch, write the *)
(* history rows and the checkpoint, commit.  An error-shaped answer makes  *)
(* the transaction None and it is left out of the rows.                    *)
ProcessSubBatch ==
    /\ pc = "process"
    /\ LET records == Head(todo)
       IN  \E errored \in (IF ErrorResponses THEN SUBSET ToSet(records) ELSE {{}}) :
              /\ indexed' = [s \in Sig |->
                                IF s \in ToSet(records) \ errored
                                THEN Lo(2, indexed[s] + 1) ELSE indexed[s]]
              /\ skipped' = skipped \cup errored
              /\ checkpoint' = IF records = <<>> THEN checkpoint
                                ELSE NewCheckpoint(records)
    /\ todo' = Tail(todo)
    /\ pc' = IF Tail(todo) = <<>> THEN "idle" ELSE "process"
    /\ UNCHANGED <<chain, cache, failures, latest, before, isInitial, sigBatches>>

(* An exception ends the run; nothing of the current sub-batch commits and *)
(* the lock is released in `finally`.                                      *)
Fail ==
    /\ pc # "idle"
    /\ failures < MaxFailures
    /\ failures' = failures + 1
    /\ TraversalEnds(<<>>)
    /\ UNCHANGED <<chain, checkpoint, indexed, skipped, cache>>

Next ==
    \/ Arrive
    \/ StartRun
    \/ FetchPage
    \/ ProcessSubBatch
    \/ Fail

(* celery beat schedules the task again and again, and a running task      *)
(* keeps stepping unless it raises.                                        *)
Spec ==
    /\ Init /\ [][Next]_vars
    /\ WF_vars(StartRun) /\ WF_vars(FetchPage) /\ WF_vars(ProcessSubBatch)

-----------------------------------------------------------------------------
TypeOK ==
    /\ chain \in Seq(Nat \ {0}) /\ Len(chain) <= MaxTxs
    /\ checkpoint \in {None} \cup [slot : Nat, sig : Sig]
    /\ indexed \in [Sig -> 0 .. 2]
    /\ skipped \subseteq Sig
    /\ cache \in Seq(Sig)
    /\ pc \in {"idle", "traverse", "process"}
    /\ latest \in {None} \cup Nat
    /\ before \in {None} \cup Sig
    /\ isInitial \in BOOLEAN
    /\ sigBatches \in Seq(Seq(Sig))
    /\ todo \in Seq(Seq(Sig)) /\ <<>> \notin ToSet(todo)
    /\ failures \in 0 .. MaxFailures

(* A transaction is in scope once it is no older than some indexed one: a  *)
(* cold start (no checkpoint) indexes only the first page by design.       *)
InScope(s) == \E t \in 1 .. s : indexed[t] > 0

(* No transaction is lost: every transaction at or below the durable       *)
(* checkpoint slot has been fetched and committed, so the `slot >          *)
(* latest_processed_slot` filter of the next run may skip it safely.       *)
NoLostTransaction ==
    checkpoint # None =>
        \A s \in 1 .. Len(chain) :
            (InScope(s) /\ chain[s] <= checkpoint.slot) => indexed[s] > 0

(* Exactly once: no transaction is committed by two sub-batches, so no     *)
(* AudioTransactionsHistory row is written twice.                          *)
NoDuplicateHistory == \A s \in Sig : indexed[s] <= 1

(* Every transaction in scope is eventually indexed, despite the cache     *)
(* offset, truncation of the backlog and failed runs.                      *)
AllEventuallyIndexed ==
    <>[](\A s \in 1 .. Len(chain) : InScope(s) => indexed[s] > 0)

(* The durable state refines IndexedLog: the history is the chain, the     *)
(* indexed entries are the committed transactions and the cursor is the    *)
(* checkpoint's signature.  Every parse_sol_tx_batch commit then extends   *)
(* the indexed stretch with no gap right above the checkpoint, and the     *)
(* checkpoint eventually reaches the chain tip: pages reversed, sub-batches *)
(* split and truncated backlogs still commit the history in order.        *)
Log == INSTANCE IndexedLog
           WITH InitLog <- InitChain, MaxLen <- MaxTxs, log <- chain,
                done <- {s \in Sig : indexed[s] > 0},
                cursor <- IF checkpoint = None THEN 0 ELSE checkpoint.sig

IndexedLogRefinement == Log!Spec
=============================================================================
