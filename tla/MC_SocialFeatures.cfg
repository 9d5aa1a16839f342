\* A block of two ManageEntity transactions drawn from every action, user,
\* entity type, entity id and signer of the model.
CONSTANTS
    s1 = s1
    s2 = s2
    NoWallet = NoWallet
    Ids <- MCIds
    Users <- MCUsers
    Tracks <- MCTracks
    Playlists <- MCPlaylists
    Signers <- MCSigners
    Wallet <- MCWallet
    Access <- MCAccess
    MaxTxs = 2
SPECIFICATION Spec
CHECK_DEADLOCK FALSE
INVARIANT TypeOK
INVARIANT DispatchMatchesRecords
