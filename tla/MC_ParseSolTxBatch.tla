------------------------- MODULE MC_ParseSolTxBatch -------------------------
EXTENDS ParseSolTxBatch

(* For the batch runs, a body is one of four shapes: a transfer to a user   *)
(* bank, a purchase to a user bank, a transaction discarded by the parser, *)
(* and one whose fetch exhausts the RPC pool.                              *)
Body(rpc, memo, bank) ==
    [rpc |-> rpc, err |-> FALSE, log |-> TRUE, keys |-> "instr", memo |-> memo,
     pre |-> 0, post |-> 5, bank |-> bank]

MCBatchShapes ==
    { Body("ok", "none", TRUE),
      Body("ok", "Coinbase Pay", TRUE),
      Body("unsupported", "none", TRUE),
      Body("raise", "none", TRUE) }

(* For the parser runs, every body, or every body with the token program  *)
(* among the account keys.                                                 *)
MCShapesProgramListed == {t \in TxShapes : t.keys # "absent"}

MCShapesAll == TxShapes
=============================================================================
