\* Distinct slots, a page fits one sub-batch, well-formed RPC answers.
CONSTANTS
    None = None
    InitChain <- MCInitChain
    MaxTxs <- MCMaxTxs
    MaxPerSlot = 1
    MaxFailures = 2
    ErrorResponses = FALSE
    INITIAL_FETCH_SIZE = 1
    FETCH_TX_SIGNATURES_BATCH_SIZE = 2
    TX_SIGNATURES_MAX_BATCHES = 2
    TX_SIGNATURES_RESIZE_LENGTH = 1
    TX_SIGNATURES_PROCESSING_SIZE = 2
SPECIFICATION Spec
INVARIANT TypeOK
INVARIANT NoLostTransaction
INVARIANT NoDuplicateHistory
PROPERTY AllEventuallyIndexed
PROPERTY IndexedLogRefinement
