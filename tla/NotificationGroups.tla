--------------------------- MODULE NotificationGroups ---------------------------
(***************************************************************************)
(* Paging through a user's notifications with get_notifications           *)
(* (src/discovery-provider/src/queries/get_notifications.py).  One call   *)
(* runs notification_groups_sql: the user's notification_seen rows cut    *)
(* time into intervals (prev_seen_at, seen_at], the newest one ending at   *)
(* now() of the call; the notifications are grouped by (group_id,         *)
(* interval), ordered by seen_at desc NULLS LAST, group_id desc, and the   *)
(* first `limit` groups after the cursor (:timestamp_offset,              *)
(* :group_id_offset) are returned; their actions are then fetched by id.  *)
(*                                                                         *)
(* The caller (the API route) is not in the repository.  It is taken to   *)
(* page as the result invites: the next call's cursor is the seen_at and  *)
(* group_id of the last row, and a page shorter than the limit ends the   *)
(* listing.  now() advances between calls (Tick).  Timestamps are small   *)
(* naturals; group ids, strings compared by `<`, are naturals too.        *)
(***************************************************************************)
EXTENDS Naturals, Sequences, SequencesExt, FiniteSets, FiniteSetsExt

CONSTANTS
    Notifs,        \* notification ids addressed to the user
    Groups,        \* group_id values, ordered as the strings are
    Times,         \* timestamps of notifications and seen rows
    Null,          \* SQL NULL
    RequestLimit,  \* args["limit"] (0: not given)
    MaxNow,        \* bound: the clock
    MaxPages       \* bound: calls of one listing

VARIABLES
    ts,       \* notification id -> notification.timestamp
    grp,      \* notification id -> notification.group_id
    seen,     \* seen_at of the user's notification_seen rows (a set:
              \* (user_id, seen_at) is the table's primary key)
    now,      \* now() of the next call
    cursor,   \* [ts, group] the next call passes, Null when absent
    listed,   \* rows returned so far, in order
    pages,    \* calls made so far
    done      \* the caller has stopped

vars == <<ts, grp, seen, now, cursor, listed, pages, done>>

\* Notifications and seen rows are older than the first call's now().
ASSUME \A t \in Times : t < MaxNow - 1

MAX_LIMIT == 50
DEFAULT_LIMIT == 20

(* limit = min(args.get("limit") or DEFAULT_LIMIT, MAX_LIMIT).             *)
PageLimit == LET l == IF RequestLimit = 0 THEN DEFAULT_LIMIT ELSE RequestLimit
             IN  IF l < MAX_LIMIT THEN l ELSE MAX_LIMIT

(* user_seen: LAG(seen_at, 1, now()) over seen_at desc is the next newer   *)
(* seen row, or now() for the newest.                                      *)
Upper(s, n) == LET newer == {x \in seen : x > s}
               IN  IF newer = {} THEN n ELSE Min(newer)

(* The interval a notification joins: seen_at >= timestamp and            *)
(* prev_seen_at < timestamp; Null when no interval holds it.               *)
Interval(i, n) ==
    IF \E s \in seen : s < ts[i] /\ ts[i] <= Upper(s, n)
    THEN LET s == CHOOSE s \in seen : s < ts[i] /\ ts[i] <= Upper(s, n)
         IN  [hi |-> Upper(s, n), lo |-> s]
    ELSE Null

HiOf(iv) == IF iv = Null THEN Null ELSE iv.hi

\* Mutant: the group offset also keeps the cursor's own group.
KeepGroupInclusive(i, n, c) ==
    LET hi == HiOf(Interval(i, n))
    IN  \/ c = Null \/ c.ts = Null
        \/ hi = Null /\ ts[i] < c.ts
        \/ hi # Null /\ hi < c.ts
        \/ c.group # Null /\ hi # Null /\ hi = c.ts /\ grp[i] <= c.group

(* The WHERE clause after :user_id = ANY(n.user_ids); a comparison with a  *)
(* NULL is not true.                                                       *)
Keep(i, n, c) ==
    LET hi == HiOf(Interval(i, n))
    IN  \/ c = Null \/ c.ts = Null
        \/ hi = Null /\ ts[i] < c.ts
        \/ hi # Null /\ hi < c.ts
        \/ c.group # Null /\ hi # Null /\ hi = c.ts /\ grp[i] < c.group

(* ORDER BY user_seen.seen_at desc NULLS LAST, n.group_id desc, on the    *)
(* GROUP BY keys <<group_id, interval>>.                                   *)
SortsBefore(a, b) ==
    LET ha == HiOf(a[2])
        hb == HiOf(b[2])
    IN  \/ ha # Null /\ hb = Null
        \/ ha # Null /\ hb # Null /\ ha > hb
        \/ ha = hb /\ a[1] > b[1]

\* Mutant: the result columns are read one place off (r[3] for is_seen, ...).
RowShifted(k, ids, n) ==
    [group   |-> k[1],
     ids     |-> ids,
     is_seen |-> IF k[2] # Null THEN k[2].hi
                 ELSE IF seen = {} THEN Null ELSE Min(seen),
     seen_at |-> IF k[2] # Null THEN k[2].lo ELSE Null,
     prev    |-> Cardinality(ids)]

(* One result row: array_agg(n.id), and the two CASEs: is_seen and         *)
(* seen_at fall back to "has the user any seen row" and the oldest seen_at *)
(* when the interval is Null.                                              *)
Row(k, ids, n) ==
    [group   |-> k[1],
     ids     |-> ids,
     is_seen |-> IF k[2] # Null THEN n # k[2].hi ELSE seen # {},
     seen_at |-> IF k[2] # Null THEN k[2].hi
                 ELSE IF seen = {} THEN Null ELSE Min(seen),
     prev    |-> IF k[2] # Null THEN k[2].lo ELSE Null]

(* get_notification_groups with now() = n and cursor c.                    *)
Query(n, c) ==
    LET kept  == {i \in Notifs : Keep(i, n, c)}
        Key(i) == <<grp[i], Interval(i, n)>>
        keys  == {Key(i) : i \in kept}
        order == SetToSortSeq(keys, SortsBefore)
        shown == SubSeq(order, 1, IF Len(order) < PageLimit THEN Len(order)
                                                            ELSE PageLimit)
    IN  [r \in 1 .. Len(shown) |->
           Row(shown[r], {i \in kept : Key(i) = shown[r]}, n)]

-----------------------------------------------------------------------------
Init ==
    /\ now = MaxNow - 1
    /\ ts \in [Notifs -> Times]
    /\ grp \in [Notifs -> Groups]
    /\ seen \in SUBSET Times
    /\ cursor = Null
    /\ listed = <<>>
    /\ pages = 0
    /\ done = FALSE

(* One call of get_notifications: the groups query, then the actions of   *)
(* their ids (which change no state).  The caller keeps the last row as    *)
(* its cursor, and stops on a short page.                                  *)
FetchPage ==
    /\ ~done
    /\ pages < MaxPages
    /\ LET page == Query(now, cursor)
       IN  /\ listed' = listed \o page
           /\ done' = (Len(page) < PageLimit)
           /\ cursor' = IF page = <<>> THEN cursor
                        ELSE [ts |-> Last(page).seen_at, group |-> Last(page).group]
    /\ pages' = pages + 1
    /\ UNCHANGED <<ts, grp, seen, now>>

(* Time passes between two calls: the next now() is later.                 *)
Tick ==
    /\ now < MaxNow
    /\ now' = now + 1
    /\ UNCHANGED <<ts, grp, seen, cursor, listed, pages, done>>

Next == FetchPage \/ Tick

Spec == Init /\ [][Next]_vars /\ WF_vars(FetchPage)

-----------------------------------------------------------------------------
Clock == MaxNow - 1 .. MaxNow

TypeOK ==
    /\ ts \in [Notifs -> Times] /\ grp \in [Notifs -> Groups]
    /\ seen \subseteq Times
    /\ now \in Nat
    /\ cursor = Null \/ cursor \in [ts : Times \cup Clock \cup {Null}, group : Groups]
    /\ listed \in Seq([group : Groups, ids : SUBSET Notifs \ {{}}, is_seen : BOOLEAN,
                       seen_at : Times \cup Clock \cup {Null}, prev : Times \cup {Null}])
    /\ pages \in 0 .. MaxPages
    /\ done \in BOOLEAN

(* How many returned rows carry notification i.                            *)
Listings(i) == Cardinality({r \in 1 .. Len(listed) : i \in listed[r].ids})

(* A notification the user has already seen, up to the newest seen row     *)
(* and after the oldest: it lies in a closed interval of user_seen.        *)
SeenBetween(i) == seen # {} /\ Min(seen) < ts[i] /\ ts[i] <= Max(seen)

(* Paging on (seen_at, group_id) through the closed intervals neither     *)
(* repeats nor skips: every seen notification is returned at most once,   *)
(* and exactly once when the caller stops, on a row marked is_seen whose   *)
(* interval holds it, however far now() moved between the calls.          *)
SeenListedOnce ==
    /\ \A i \in Notifs : SeenBetween(i) =>
          /\ Listings(i) <= 1
          /\ done => Listings(i) = 1
    /\ \A r \in 1 .. Len(listed) : \A i \in listed[r].ids :
          SeenBetween(i) =>
              /\ listed[r].is_seen
              /\ listed[r].prev < ts[i] /\ ts[i] <= listed[r].seen_at

(* Every notification newer than the newest seen row, still unread, is    *)
(* returned by the time the caller stops paging.                           *)
UnseenListed ==
    done => \A i \in Notifs : (seen = {} \/ ts[i] > Max(seen)) => Listings(i) >= 1

(* Every notification of the user is returned exactly once by the time     *)
(* the caller stops, and never twice before: the contract a paged listing  *)
(* keeps, here also for notifications no seen interval holds (at or before *)
(* the oldest seen row, or every one when the user has no seen row).       *)
EachListedOnce ==
    \A i \in Notifs : Listings(i) <= 1 /\ (done => Listings(i) = 1)
=============================================================================
