\* Every table of two playlists with one or two versions each: does every
\* older name keep a route to its playlist?
CONSTANTS
    o1 = o1
    PlaylistIds <- MCPlaylistIds
    Owner <- MCOwner
    Names <- MCNames
    Lower <- MCLower
    SpacesToDashes <- MCSpacesToDashes
    Blocks = {1, 2, 3}
    MaxVersions = 2
SPECIFICATION Spec
CHECK_DEADLOCK FALSE
INVARIANT EveryOldNameRouted
