-------------------------- MODULE SplTokenScheduler --------------------------
(***************************************************************************)
(* The celery task index_spl_token run by several workers                  *)
(* (src/discovery-provider/src/tasks/index_spl_token.py, 576-612): each    *)
(* scheduled run takes the redis lock "spl_token_lock" without blocking,   *)
(* runs process_spl_token_tx while holding it, and releases it in          *)
(* `finally`.  The lock has timeout=14400: redis drops it after 4 h        *)
(* whether or not its holder is done, and a worker killed mid-run (OOM,    *)
(* SIGKILL, a restarted container) never reaches `finally`.                *)
(*                                                                         *)
(* A run is abstracted to what IndexSplToken's index_traversal run shows   *)
(* it does when a page fits in one sub-batch and slots hold one            *)
(* transaction: it reads the checkpoint, finds every newer transaction,    *)
(* and commits them oldest first, each commit moving the checkpoint to     *)
(* the transaction it wrote.  Transaction s is in slot s.                  *)
(***************************************************************************)
EXTENDS Naturals, Sequences

CONSTANTS
    Workers,          \* celery worker processes
    None,             \* lock not held
    MaxTxs,           \* bound: transactions of the program on chain
    MaxFaults,        \* bound: runs that raise or are killed
    RunsOutliveLock   \* may a run take longer than the lock's 14400 s?

ASSUME MaxTxs >= 1 /\ MaxFaults \in Nat /\ RunsOutliveLock \in BOOLEAN

VARIABLES
    tip,          \* transactions finalised so far: 1 .. tip
    checkpoint,   \* SPLTokenTransaction.last_scanned_slot (0: nothing yet)
    indexed,      \* sig -> commits that wrote it (2 = "twice or more")
    lock,         \* the worker whose token the redis key holds, or None
    pc,           \* worker -> "idle" | "running"
    todo,         \* worker -> transactions its run has still to commit
    faults        \* runs that raised or were killed so far

vars == <<tip, checkpoint, indexed, lock, pc, todo, faults>>

Sig == 1 .. MaxTxs

-----------------------------------------------------------------------------
\* Mutant: the run also tries one transaction past the chain tip.
NewTxsPastTip(c, t) == [k \in 1 .. (t - c + 1) |-> c + k]

(* process_spl_token_tx with latest_processed_slot = c and the chain at   *)
(* t: the transactions above the checkpoint, oldest first.                 *)
NewTxs(c, t) == [k \in 1 .. (t - c) |-> c + k]

(* update_lock.acquire(blocking=False) succeeds only if nobody holds the  *)
(* key.                                                                    *)
CanAcquire(w) == lock = None

\* Mutant: the lock is taken without a timeout, it never lapses.
LapsedNever(h) == FALSE

(* timeout=14400: redis deletes the key once 4 h have passed.  Only a     *)
(* dead holder certainly outlives it, unless runs may take that long.      *)
Lapsed(h) == RunsOutliveLock \/ pc[h] = "idle"

-----------------------------------------------------------------------------
Init ==
    /\ tip = 1
    /\ checkpoint = 0
    /\ indexed = [s \in Sig |-> 0]
    /\ lock = None
    /\ pc = [w \in Workers |-> "idle"]
    /\ todo = [w \in Workers |-> <<>>]
    /\ faults = 0

(* A new program transaction is finalised.                                 *)
Arrive ==
    /\ tip < MaxTxs
    /\ tip' = tip + 1
    /\ UNCHANGED <<checkpoint, indexed, lock, pc, todo, faults>>

(* Celery beat starts index_spl_token on worker w and it gets the lock;    *)
(* process_spl_token_tx reads the checkpoint and traverses to it.  A run   *)
(* that does not get the lock does nothing.                                *)
Acquire(w) ==
    /\ pc[w] = "idle"
    /\ CanAcquire(w)
    /\ lock' = w
    /\ pc' = [pc EXCEPT ![w] = "running"]
    /\ todo' = [todo EXCEPT ![w] = NewTxs(checkpoint, tip)]
    /\ UNCHANGED <<tip, checkpoint, indexed, faults>>

(* parse_sol_tx_batch commits one sub-batch: its history rows and         *)
(* last_scanned_slot = its newest record, whatever the checkpoint now is.  *)
Commit(w) ==
    /\ pc[w] = "running"
    /\ todo[w] # <<>>
    /\ LET s == Head(todo[w])
       IN  /\ indexed' = [indexed EXCEPT ![s] = IF @ >= 2 THEN 2 ELSE @ + 1]
           /\ checkpoint' = s
    /\ todo' = [todo EXCEPT ![w] = Tail(@)]
    /\ UNCHANGED <<tip, lock, pc, faults>>

(* The run returns and `finally` calls update_lock.release().  A lock     *)
(* that lapsed or was taken over is not deleted: redis-py raises           *)
(* LockNotOwnedError instead.                                              *)
Finish(w) ==
    /\ pc[w] = "running"
    /\ todo[w] = <<>>
    /\ pc' = [pc EXCEPT ![w] = "idle"]
    /\ lock' = IF lock = w THEN None ELSE lock
    /\ UNCHANGED <<tip, checkpoint, indexed, todo, faults>>

(* The worker is killed mid-run: nothing more commits and `finally` never  *)
(* runs, so the key stays until its timeout.                               *)
Crash(w) ==
    /\ pc[w] = "running"
    /\ faults < MaxFaults
    /\ faults' = faults + 1
    /\ pc' = [pc EXCEPT ![w] = "idle"]
    /\ todo' = [todo EXCEPT ![w] = <<>>]
    /\ UNCHANGED <<tip, checkpoint, indexed, lock>>

(* process_spl_token_tx raises (an RPC pool exhausted, a failed session): *)
(* the except clause re-raises, and `finally` releases the lock if it is   *)
(* still this worker's.                                                    *)
RunFails(w) ==
    /\ pc[w] = "running"
    /\ faults < MaxFaults
    /\ faults' = faults + 1
    /\ pc' = [pc EXCEPT ![w] = "idle"]
    /\ todo' = [todo EXCEPT ![w] = <<>>]
    /\ lock' = IF lock = w THEN None ELSE lock
    /\ UNCHANGED <<tip, checkpoint, indexed>>

(* Redis drops the key after 14400 s.                                      *)
Expire ==
    /\ lock # None
    /\ Lapsed(lock)
    /\ lock' = None
    /\ UNCHANGED <<tip, checkpoint, indexed, pc, todo, faults>>

Next ==
    \/ Arrive
    \/ \E w \in Workers :
                            \/ Acquire(w) \/ Commit(w) \/ Finish(w)
                            \/ RunFails(w) \/ Crash(w)
    \/ Expire

(* Celery beat keeps scheduling the task, a live worker keeps stepping,    *)
(* and redis enforces the key's timeout.                                   *)
Spec ==
    /\ Init /\ [][Next]_vars
    /\ WF_vars(\E w \in Workers : Acquire(w))
    /\ \A w \in Workers : WF_vars(Commit(w)) /\ WF_vars(Finish(w))
    /\ WF_vars(Expire)

-----------------------------------------------------------------------------
TypeOK ==
    /\ tip \in Sig
    /\ checkpoint \in 0 .. MaxTxs
    /\ indexed \in [Sig -> 0 .. 2]
    /\ lock \in Workers \cup {None}
    /\ pc \in [Workers -> {"idle", "running"}]
    /\ todo \in [Workers -> Seq(Sig)]
    /\ faults \in 0 .. MaxFaults

(* Two workers never both run a traversal from the same checkpoint: no    *)
(* transaction gets two AudioTransactionsHistory rows.  The lock's 14400 s *)
(* expiry ignores whether its holder is alive, so this fails once a run    *)
(* outlives the lock (MC_SplTokenScheduler_outlive.cfg).                   *)
NoDuplicateHistory == \A s \in Sig : indexed[s] <= 1

(* Even after a worker dies holding the lock, the timeout frees it and     *)
(* every transaction is eventually indexed.                                *)
AllEventuallyIndexed == <>[](\A s \in 1 .. tip : indexed[s] > 0)
=============================================================================
