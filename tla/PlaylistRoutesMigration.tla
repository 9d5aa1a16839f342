------------------------ MODULE PlaylistRoutesMigration ------------------------
(***************************************************************************)
(* The upgrade of alembic revision bead88b41a20                            *)
(* (src/discovery-provider/alembic/versions/                                *)
(*  bead88b41a20_create_playlist_routes_table.py): it creates              *)
(* playlist_routes with primary key (owner_id, slug), copies a route for   *)
(* the name of every current playlist row, then a route for every older    *)
(* name of a playlist, ON CONFLICT DO NOTHING.  The three statements run   *)
(* in one migration transaction: a failed INSERT aborts the upgrade.       *)
(*                                                                         *)
(* A slug CONCAT(REPLACE(LOWER(name), ' ', '-'), '-', playlist_id) is the  *)
(* pair <<TitleSlug(name), playlist_id>>: the id is all digits after the   *)
(* last dash, so the concatenation is injective and the pair loses nothing.*)
(***************************************************************************)
EXTENDS Naturals

CONSTANTS
    PlaylistIds,     \* playlists in the playlists table
    Owner,           \* playlist id -> playlist_owner_id
    Names,           \* playlist names the rows may carry
    Lower,           \* name -> LOWER(name)
    SpacesToDashes,  \* lowered name -> REPLACE(it, ' ', '-')
    Blocks,          \* block numbers of playlist rows
    MaxVersions      \* bound: rows (versions) per playlist

VARIABLES
    playlists,   \* the rows of the playlists table
    routes,      \* the rows of playlist_routes
    pc           \* "create" | "current" | "noncurrent" | "done" | "aborted"

vars == <<playlists, routes, pc>>

TitleSlug(name) == SpacesToDashes[Lower[name]]

Slug(name, id) == <<TitleSlug(name), id>>

Increasing(n) == {b \in [1 .. n -> Blocks] : \A k \in 1 .. n - 1 : b[k] < b[k + 1]}

(* The rows of a playlist with n versions: named, at increasing blocks,   *)
(* and the last one current.                                               *)
VersionRows(id, n, names, blocks) ==
    {[id |-> id, owner |-> Owner[id], name |-> names[k], block |-> blocks[k],
      current |-> k = n] : k \in 1 .. n}

Versions(id, n) ==
    {VersionRows(id, n, names, blocks) :
       names \in [1 .. n -> Names], blocks \in Increasing(n)}

Histories(id) == UNION {Versions(id, n) : n \in 1 .. MaxVersions}

PlaylistTables ==
    {UNION {t[id] : id \in PlaylistIds} :
       t \in {f \in [PlaylistIds -> UNION {Histories(id) : id \in PlaylistIds}] :
                \A id \in PlaylistIds : f[id] \in Histories(id)}}

Key(r) == <<r.owner, r.slug>>

(* A playlist_routes row built from a playlists row.                       *)
Route(r) ==
    [owner |-> r.owner, slug |-> Slug(r.name, r.id), playlist |-> r.id,
     current |-> r.current, block |-> r.block]

(* The joined rows of the second SELECT: old versions of a playlist whose  *)
(* lowered name differs from the current version's.                         *)
RenamedRows ==
    {nc \in playlists :
        \E c \in playlists :
            /\ c.id = nc.id
            /\ ~nc.current
            /\ c.current
            /\ Lower[nc.name] # Lower[c.name]}

(* WHERE p.rank = 1 of ROW_NUMBER() OVER (PARTITION BY nc.playlist_name    *)
(* ORDER BY nc.blocknumber DESC): one row of highest block per name, ties  *)
(* broken arbitrarily.                                                     *)
RankOne(rows) ==
    {pick \in SUBSET rows :
        \A name \in {r.name : r \in rows} :
            \E r \in pick :
                /\ r.name = name
                /\ \A s \in rows : s.name = name => s.block <= r.block
                /\ \A s \in pick : s.name = name => s = r}

-----------------------------------------------------------------------------
Init ==
    /\ playlists \in PlaylistTables
    /\ routes = {}
    /\ pc = "create"

(* op.create_table("playlist_routes", ...).                               *)
CreateTable ==
    /\ pc = "create"
    /\ routes' = {}
    /\ pc' = "current"
    /\ UNCHANGED playlists

(* INSERT ... SELECT ... FROM playlists WHERE is_current, no ON CONFLICT:  *)
(* two rows with one key abort the upgrade.                                *)
InsertCurrent ==
    /\ pc = "current"
    /\ LET new == {Route(r) : r \in {r \in playlists : r.current}}
       IN  IF \E a, b \in new : a # b /\ Key(a) = Key(b)
           THEN /\ pc' = "aborted"
                /\ UNCHANGED routes
           ELSE /\ routes' = routes \cup new
                /\ pc' = "noncurrent"
    /\ UNCHANGED playlists

(* INSERT ... SELECT rank-one renamed rows ON CONFLICT DO NOTHING: of the *)
(* rows sharing a key the first inserted wins, in no defined order.        *)
InsertNonCurrent ==
    /\ pc = "noncurrent"
    /\ \E pick \in RankOne(RenamedRows) :
         LET taken == {Key(r) : r \in routes}
             cand  == {Route(r) : r \in pick}
         IN  \E won \in SUBSET cand :
               /\ \A a, b \in won : Key(a) = Key(b) => a = b
               /\ \A a \in won : Key(a) \notin taken
               /\ \A a \in cand : Key(a) \in taken \cup {Key(b) : b \in won}
               /\ routes' = routes \cup won
    /\ pc' = "done"
    /\ UNCHANGED playlists

Next == CreateTable \/ InsertCurrent \/ InsertNonCurrent

Spec == Init /\ [][Next]_vars /\ WF_vars(Next)

-----------------------------------------------------------------------------
(* After the upgrade, every older name of a playlist that differs from its *)
(* current name (ignoring case) has a route to that playlist, as the       *)
(* comment "Bring over existing routes (non-current playlists)" intends.   *)
EveryOldNameRouted ==
    pc = "done" =>
        \A nc \in RenamedRows :
            \E r \in routes :
                /\ Key(r) = <<nc.owner, Slug(nc.name, nc.id)>>
                /\ r.playlist = nc.id
=============================================================================
