-------------------- MODULE MC_PlaylistRoutesMigration --------------------
(* Two playlists of one owner, up to two versions each, over names that   *)
(* differ only in case ("Mix", "mix") or contain a space ("Big Mix").      *)
EXTENDS PlaylistRoutesMigration, TLC

CONSTANTS o1

MCPlaylistIds == {1, 2}
MCOwner == (1 :> o1) @@ (2 :> o1)
MCNames == {"Mix", "mix", "Big Mix"}
MCLower == ("Mix" :> "mix") @@ ("mix" :> "mix") @@ ("Big Mix" :> "big mix")
MCSpacesToDashes == ("mix" :> "mix") @@ ("big mix" :> "big-mix")
=============================================================================
