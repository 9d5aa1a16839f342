---------------------------- MODULE SocialFeatures ----------------------------
(***************************************************************************)
(* The social-feature handlers of the entity manager                       *)
(* (src/discovery-provider/src/tasks/entity_manager/social_features.py):   *)
(* create_social_record and delete_social_record validate a ManageEntity   *)
(* transaction, build a Follow, Save, Repost or Subscription row, hand it   *)
(* to add_social_feature_record and dispatch a challenge event.            *)
(*                                                                         *)
(* A block's transactions are handled one after the other; a handler that *)
(* raises leaves no row and no event (the caller, entity_manager.py, is    *)
(* not in the repository and is taken to skip the transaction).  Ids are   *)
(* small integers shared by users, tracks and playlists, as in the         *)
(* database; wallets and signers are model values, compared after lower(). *)
(***************************************************************************)
EXTENDS Naturals, Sequences, SequencesExt

CONSTANTS
    Ids,          \* entity and user ids a transaction may name
    Users,        \* existing_records[EntityType.USER]
    Tracks,       \* existing_records[EntityType.TRACK]
    Playlists,    \* existing_records[EntityType.PLAYLIST]
    Signers,      \* wallets that sign transactions
    NoWallet,     \* a user row whose wallet is empty
    Wallet,       \* user -> wallet, or NoWallet
    Access,       \* <<user, track>> pairs premium_content_access_checker grants
    MaxTxs        \* bound: transactions in the block

ASSUME Wallet \in [Users -> Signers \cup {NoWallet}] /\ Access \subseteq Users \X Tracks

VARIABLES
    txs,          \* transactions of the block handled so far
    records,      \* rows passed to add_social_feature_record, in order
    dispatched    \* challenge_bus.dispatch calls, in order

vars == <<txs, records, dispatched>>

EntityTypes == {"User", "Track", "Playlist"}

ExistingRecords == ("User" :> Users) @@ ("Track" :> Tracks) @@ ("Playlist" :> Playlists)

\* Mutant: the row type is taken from the action's name.
ActionToRecordTypeOfAction ==
    [a \in {"Follow", "Unfollow", "Save", "Unsave", "Repost", "Unrepost",
             "Subscribe", "Unsubscribe"} |-> a]

ActionToRecordType ==
    ("Follow" :> "Follow") @@ ("Unfollow" :> "Follow") @@
    ("Save" :> "Save") @@ ("Unsave" :> "Save") @@
    ("Repost" :> "Repost") @@ ("Unrepost" :> "Repost") @@
    ("Subscribe" :> "Subscription") @@ ("Unsubscribe" :> "Subscription")

\* Mutant: subscriptions also dispatch the follow challenge.
ActionToChallengeEventWithSubscribe ==
    ("Follow" :> "follow") @@ ("Unfollow" :> "follow") @@
    ("Save" :> "favorite") @@ ("Unsave" :> "favorite") @@
    ("Repost" :> "repost") @@ ("Unrepost" :> "repost") @@
    ("Subscribe" :> "follow") @@ ("Unsubscribe" :> "follow")

ActionToChallengeEvent ==
    ("Follow" :> "follow") @@ ("Unfollow" :> "follow") @@
    ("Save" :> "favorite") @@ ("Unsave" :> "favorite") @@
    ("Repost" :> "repost") @@ ("Unrepost" :> "repost")

CreateSocialActionTypes == {"Follow", "Save", "Repost", "Subscribe"}
DeleteSocialActionTypes == {"Unfollow", "Unsave", "Unrepost", "Unsubscribe"}

PremiumContentValidationActions == {"Save", "Unsave", "Repost", "Unrepost"}
PremiumContentValidationEntities == {"Track"}

ShouldCheckEntityAccess(action, entityType) ==
    /\ action \in PremiumContentValidationActions
    /\ entityType \in PremiumContentValidationEntities

(* The params of a ManageEntity transaction.                               *)
Params ==
    [action : CreateSocialActionTypes \cup DeleteSocialActionTypes,
     user : Ids, entityType : EntityTypes, entityId : Ids, signer : Signers]

(* validate_social_feature: TRUE when it returns, FALSE when it raises.   *)
(* An empty wallet skips the signer check.                                 *)
ValidateSocialFeature(p) ==
    /\ p.user \in Users
    /\ Wallet[p.user] \in {NoWallet, p.signer}
    /\ p.entityId \in ExistingRecords[p.entityType]
    /\ p.action \in {"Follow", "Unfollow", "Subscribe", "Unsubscribe"} =>
            p.user # p.entityId
    /\ ShouldCheckEntityAccess(p.action, p.entityType) =>
            <<p.user, p.entityId>> \in Access

(* The row the handler builds: actor is follower_user_id, user_id or      *)
(* subscriber_id, target is followee_user_id, *_item_id or the            *)
(* subscribed-to user_id; kind is save_type / repost_type.                 *)
SocialRecord(p, isDelete) ==
    [type |-> ActionToRecordType[p.action], actor |-> p.user,
     target |-> p.entityId, kind |-> p.entityType, isDelete |-> isDelete]

(* add_social_feature_record, then the challenge dispatch if the action   *)
(* has one.                                                                *)
AddAndDispatch(p, isDelete) ==
    /\ records' = Append(records, SocialRecord(p, isDelete))
    /\ dispatched' =
         IF p.action \in DOMAIN ActionToChallengeEvent
         THEN Append(dispatched,
                     [event |-> ActionToChallengeEvent[p.action], user |-> p.user])
         ELSE dispatched

-----------------------------------------------------------------------------
Init ==
    /\ txs = 0
    /\ records = <<>>
    /\ dispatched = <<>>

CreateSocialRecord(p) ==
    /\ txs < MaxTxs
    /\ p.action \in CreateSocialActionTypes
    /\ txs' = txs + 1
    /\ IF ValidateSocialFeature(p)
       THEN AddAndDispatch(p, FALSE)
       ELSE UNCHANGED <<records, dispatched>>

DeleteSocialRecord(p) ==
    /\ txs < MaxTxs
    /\ p.action \in DeleteSocialActionTypes
    /\ txs' = txs + 1
    /\ IF ValidateSocialFeature(p)
       THEN AddAndDispatch(p, TRUE)
       ELSE UNCHANGED <<records, dispatched>>

Next == \E p \in Params : CreateSocialRecord(p) \/ DeleteSocialRecord(p)

Spec == Init /\ [][Next]_vars

-----------------------------------------------------------------------------
RowType == [type : {"Follow", "Save", "Repost", "Subscription"}, actor : Ids,
            target : Ids, kind : EntityTypes, isDelete : BOOLEAN]

TypeOK ==
    /\ txs \in 0 .. MaxTxs
    /\ records \in Seq(RowType)
    /\ dispatched \in Seq([event : {"follow", "favorite", "repost"}, user : Ids])

\* The challenge event of a row type, as action_to_challenge_event gives it.
RecordEvent == ("Follow" :> "follow") @@ ("Save" :> "favorite") @@ ("Repost" :> "repost")

(* The challenge bus sees exactly the follow, save and repost rows of the *)
(* block, one event per row, in row order and for the row's actor, and    *)
(* nothing for subscriptions or rejected transactions (the dispatch after *)
(* add_social_feature_record in both handlers).                            *)
DispatchMatchesRecords ==
    LET rewarded == SelectSeq(records, LAMBDA r : r.type # "Subscription")
    IN  dispatched = [i \in 1 .. Len(rewarded) |->
                        [event |-> RecordEvent[rewarded[i].type],
                         user |-> rewarded[i].actor]]

(* Every follow and subscription row points at an existing user: the      *)
(* followee_user_id / user_id of the row is a user of existing_records.   *)
FollowTargetsUser ==
    \A i \in 1 .. Len(records) :
        records[i].type \in {"Follow", "Subscription"} =>
            records[i].target \in Users
=============================================================================
