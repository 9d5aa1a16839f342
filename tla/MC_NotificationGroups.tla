------------------------ MODULE MC_NotificationGroups ------------------------
EXTENDS NotificationGroups

(* Four notifications of three groups at times 1 .. 3, any set of seen    *)
(* rows among those times, pages of two groups, now() at 4 then 5.       *)
MCNotifs == {1, 2, 3, 4}
MCGroups == {1, 2, 3}
MCTimes == {1, 2, 3}
=============================================================================
