-------------------------- MODULE MC_SocialFeatures --------------------------
(* Two users, one with a wallet (s1) and one whose wallet is empty; a     *)
(* track (3) only user 1 may access and a playlist (2).  Ids overlap as    *)
(* they do in the database: id 2 is a user and a playlist.                 *)
EXTENDS SocialFeatures

CONSTANTS s1, s2

MCIds == {1, 2, 3}
MCUsers == {1, 2}
MCTracks == {3}
MCPlaylists == {2}
MCSigners == {s1, s2}
MCWallet == (1 :> s1) @@ (2 :> NoWallet)
MCAccess == {<<1, 3>>}
=============================================================================
