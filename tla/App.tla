-------------------------------- MODULE App ---------------------------------
(***************************************************************************)
(* Three parts of the application that share no state, side by side: a       *)
(* behaviour is one of Scores (the counters of a request), Reputation (the   *)
(* counters and points of users) or Notifications, and the other two stay as *)
(* they start.                                                               *)
(***************************************************************************)
EXTENDS Scores

CONSTANTS
    Things, Kind, Owners, UserRatings, Liked, MaxRates,   \* of Reputation
    Objects, PerPage, MaxNews, MaxVisits, MaxFailures     \* of Notifications

VARIABLES
    part,                                           \* the part that moves
    r_rating, counter, point_count, r_at, r_job, gainer, r_old, read,
    r_handlers, r_shared, slip, outdated,
    news, flag, latest, n_at, n_job, mine, n_copy, counted, badge, loading,
    page, listed, end, visits, failures, marked, crossed, due, moved, n_shared,
    unsure

rVars == <<r_rating, counter, point_count, r_at, r_job, gainer, r_old, read,
           r_handlers, r_shared, slip, outdated>>
nVars == <<news, flag, latest, n_at, n_job, mine, n_copy, counted, badge, loading,
           page, listed, end, visits, failures, marked, crossed, due, moved,
           n_shared, unsure>>
allVars == <<part, vars, rVars, nVars>>

Re == INSTANCE Reputation WITH
    Given <- UserRatings, MaxHandlers <- MaxRates,
    rating <- r_rating, at <- r_at, job <- r_job, old <- r_old,
    handlers <- r_handlers, shared <- r_shared

No == INSTANCE Notifications WITH
    at <- n_at, job <- n_job, copy <- n_copy, shown <- listed, shared <- n_shared

ASSUME AppAssumption ==
    ScoresConstants /\ Re!ReputationConstants /\ No!NotificationsConstants

AppInit ==
    /\ part \in {"scores", "reputation", "notifications"}
    /\ Init /\ Re!Init /\ No!Init

AppNext ==
    /\ UNCHANGED part
    /\ \/ /\ part = "scores"
          /\ Next
          /\ UNCHANGED <<rVars, nVars>>
       \/ /\ part = "reputation"
          /\ Re!Next
          /\ UNCHANGED <<vars, nVars>>
       \/ /\ part = "notifications"
          /\ No!Next
          /\ UNCHANGED <<vars, rVars>>

AppSpec == AppInit /\ [][AppNext]_allVars

-----------------------------------------------------------------------------
(* The properties of the three parts, stated in their modules.              *)

\* A counter of a request counts no more than its table has, and is exact
\* unless overlapping handlers left it stale (update_score).
ScoresAgree == TypeOK /\ PlausibleCounts /\ ExactUnlessOvertaken

\* The counters a rate changes by differences balance the ratings there are,
\* and values derived from others agree with them unless their last writer was
\* overtaken (rate, update_points).
CountersBalance == Re!TypeOK /\ Re!CountersBalance /\ Re!DerivedAgree

\* A recalculation that overlaps nothing repairs the counters (recalculate).
RepairsAlone == [][Re!RepairAlone]_rVars

\* News reaches its reader: a row's read and done agree with the news it
\* carries, the badge is the number of unread rows and scrolling to the end
\* shows every row, but for flags, pushes and moves that cross a process
\* between its reading and its writing (Notification.notify,
\* newNotificationReadCountHandler, NotificationsController#index).
NewsReachesReader ==
    No!TypeOK /\ No!FlagsFollowNews /\ No!BadgeAgrees /\ No!ScrolledAll
=============================================================================
