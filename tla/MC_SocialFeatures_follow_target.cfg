\* One ManageEntity transaction: can a follow or subscription row point
\* at an id that is not a user?
CONSTANTS
    s1 = s1
    s2 = s2
    NoWallet = NoWallet
    Ids <- MCIds
    Users <- MCUsers
    Tracks <- MCTracks
    Playlists <- MCPlaylists
    Signers <- MCSigners
    Wallet <- MCWallet
    Access <- MCAccess
    MaxTxs = 1
SPECIFICATION Spec
CHECK_DEADLOCK FALSE
INVARIANT FollowTargetsUser
