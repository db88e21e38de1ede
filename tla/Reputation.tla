----------------------------- MODULE Reputation -----------------------------
(***************************************************************************)
(* Ratings and what users gain by them.  A user rates a request, a         *)
(* comment, a conversation or another user; the rating is one row per      *)
(* rater and thing, and somebody gains by it: the author, the other member *)
(* of the conversation, the user followed.  Three of the counters of a     *)
(* user are kept by adding differences in SQL, follower_count and          *)
(* following_count by counting again, and point_count by a formula over    *)
(* the others, read and then written.  Nothing is locked: two web          *)
(* processes, or one and the task db:recalculate, interleave at every      *)
(* statement.                                                              *)
(*                                                                         *)
(* The counters of the rated request itself are in Scores; the sum of the  *)
(* likes of a user's requests is taken from the ratings here.              *)
(***************************************************************************)
EXTENDS Integers, FiniteSets

CONSTANTS
    Users,
    Things,        \* what can be rated
    Kind,          \* Kind[t]: "request", "comment", "conversation" or "user"
    Owners,        \* Owners[t]: its author; its two members; the user itself
    Given,         \* Given[t]: the ratings the client gives t, out of -2..1
    Liked,         \* <<t, u>>: u had liked t before
    Workers,       \* web processes and rake tasks
    MaxHandlers    \* bound on the handlers run

Added == {"request", "comment", "conversation"}
Counters == Added \cup {"user", "following"}
NoRow == 2         \* no rating is 2
Values == -2..1 \cup {NoRow}
Nobody == "nobody"
NoJob == [thing |-> Nobody, user |-> Nobody, rating |-> 0]

\* Who gains by u's rating of t.
Gainer(t, u) == CHOOSE v \in Owners[t] : Kind[t] = "conversation" => v # u

\* no_self_rating: only members rate a conversation, nobody rates themselves,
\* and only a conversation can be voted down.
AnyRating(t, u, r) == TRUE
Valid(t, u, r) ==
    /\ Kind[t] = "conversation" => u \in Owners[t]
    /\ Kind[t] = "user" => u \notin Owners[t]
    /\ r = -1 => Kind[t] = "conversation"

\* What the model asks of its constants: somebody gains by every rating.
ReputationConstants ==
    /\ IsFiniteSet(Users) /\ IsFiniteSet(Things) /\ IsFiniteSet(Workers)
    /\ Kind \in [Things -> Added \cup {"user"}]
    /\ Owners \in [Things -> SUBSET Users]
    /\ \A t \in Things, u \in Users :
          \E v \in Owners[t] : Kind[t] = "conversation" => v # u
    /\ Nobody \notin Users \cup Things
    /\ Given \in [Things -> SUBSET (-2..1)]
    /\ Liked \subseteq Things \X Users
    /\ \A p \in Liked : Valid(p[1], p[2], 1)
    /\ MaxHandlers \in Nat

VARIABLES
    rating,        \* rating[t][u]: u's rating of t
    counter,       \* counter[u]: the counters of u ("user": follower_count)
    point_count,
    at,            \* at[w]: step of w
    job,           \* job[w]: the thing rated, the rater, the rating
    gainer,        \* gainer[w]: the user whose counters w updates
    old,           \* old[w]: the rating found
    read,          \* read[w]: values w has read and not yet written
    handlers,      \* number of handlers run
    shared,        \* history: workers that have not run alone
    slip,          \* history: what overlapping rates misplaced in a counter
    outdated       \* history: values last written by an overtaken worker

rows == <<rating, counter, point_count>>
local == <<job, gainer, old, read, shared>>
vars == <<rows, at, local, handlers, slip, outdated>>

Jobs ==
    {j \in [thing : Things, user : Users, rating : -2..1] : j.rating \in Given[j.thing]}

\* The ratings by which u gains in counter k.
Rateable == [k \in Added \cup {"user"} |-> {t \in Things : Kind[t] = k}]
RatingsFor(u, k) ==
    {p \in {t \in Rateable[k] : u \in Owners[t]} \X Users : u = Gainer(p[1], p[2])}
Value(r) == IF r = NoRow THEN 0 ELSE r

\* The sum of f over S, where f has ratings and NoRow for values.
Having(S, f, v) == {p \in S : f[p] = v}
Total(S, f) ==
    Cardinality(Having(S, f, 1)) - Cardinality(Having(S, f, -1))
        - 2 * Cardinality(Having(S, f, -2))
Rated == [p \in Things \X Users |-> rating[p[1]][p[2]]]
Sum(u, k) == Total(RatingsFor(u, k), Rated)
Likes(u, k) == Cardinality({p \in RatingsFor(u, k) : rating[p[1]][p[2]] = 1})
Following(u) == Cardinality({t \in Rateable["user"] : rating[t][u] = 1})

Points(c) ==
    c["user"] + 2 * c["request"] + 5 * c["comment"] + 10 * c["conversation"]

Zero == [c \in Counters |-> 0]

Steps == {"idle", "save", "add", "count", "followers", "reload", "points", "following",
          "followed", "counts", "counted", "sums", "summed"}

TypeOK ==
    /\ rating \in [Things -> [Users -> Values]]
    /\ \A t \in Things, u \in Users :
          Kind[t] = "user" /\ u \in Owners[t] => rating[t][u] = NoRow
    /\ counter \in [Users -> [Counters -> Int]]
    /\ point_count \in [Users -> Int]
    /\ at \in [Workers -> Steps]
    /\ job \in [Workers -> Jobs \cup {NoJob}]
    /\ gainer \in [Workers -> Users \cup {Nobody}]
    /\ old \in [Workers -> Values]
    /\ read \in [Workers -> [Counters -> Int]]
    /\ handlers \in 0..MaxHandlers
    /\ shared \subseteq Workers
    /\ slip \in [Users -> [Added -> Int]]
    /\ outdated \subseteq Users \X {"points", "user", "following"}

Init ==
    /\ rating = [t \in Things |-> [u \in Users |->
                    IF <<t, u>> \in Liked THEN 1 ELSE NoRow]]
    /\ counter = [u \in Users |-> [c \in Counters |->
                    IF c = "following" THEN Following(u) ELSE Likes(u, c)]]
    /\ point_count = [u \in Users |-> Points(counter[u])]
    /\ at = [w \in Workers |-> "idle"]
    /\ job = [w \in Workers |-> NoJob]
    /\ gainer = [w \in Workers |-> Nobody]
    /\ old = [w \in Workers |-> NoRow]
    /\ read = [w \in Workers |-> Zero]
    /\ handlers = 0
    /\ shared = {}
    /\ slip = [u \in Users |-> [k \in Added |-> 0]]
    /\ outdated = {}

-----------------------------------------------------------------------------
(* Steps that several handlers share. *)

Go(w, step) == at' = [at EXCEPT ![w] = step]

Idle(w) ==
    /\ Go(w, "idle")
    /\ job' = [job EXCEPT ![w] = NoJob]
    /\ gainer' = [gainer EXCEPT ![w] = Nobody]
    /\ old' = [old EXCEPT ![w] = NoRow]
    /\ read' = [read EXCEPT ![w] = Zero]
    /\ shared' = shared \ {w}

Begin(w) ==
    LET busy == {v \in Workers : at[v] # "idle"}
    IN /\ at[w] = "idle"
       /\ handlers < MaxHandlers
       /\ handlers' = handlers + 1
       /\ shared' = IF busy = {} THEN shared ELSE shared \cup busy \cup {w}

\* w writes x where y would be right by now: recorded if w has not run alone.
Mark(w, u, c, x, y) ==
    IF x # y /\ w \in shared THEN outdated \cup {<<u, c>>} ELSE outdated \ {<<u, c>>}

\* update_points: the row is read again ...
Reload(w) ==
    /\ at[w] = "reload"
    /\ Go(w, "points")
    /\ read' = [read EXCEPT ![w] = counter[gainer[w]]]
    /\ UNCHANGED <<rows, job, gainer, old, shared, handlers, slip, outdated>>

\* ... and the points are written.  rate of a user goes on.
UpdatePoints(w) ==
    LET u == gainer[w]
    IN /\ at[w] = "points"
       /\ point_count' = [point_count EXCEPT ![u] = Points(read[w])]
       /\ outdated' = Mark(w, u, "points", Points(read[w]), Points(counter[u]))
       /\ IF job[w] # NoJob /\ Kind[job[w].thing] = "user"
          THEN Go(w, "following") /\ UNCHANGED local
          ELSE Idle(w)
       /\ UNCHANGED <<rating, counter, handlers, slip>>

-----------------------------------------------------------------------------
(* rate, of the four kinds of things. *)

\* Rating.find_by(user, rateable) || Rating.new
rate(w, j) ==
    /\ Begin(w)
    /\ Go(w, "save")
    /\ job' = [job EXCEPT ![w] = j]
    /\ old' = [old EXCEPT ![w] = rating[j.thing][j.user]]
    /\ UNCHANGED <<rows, gainer, read, slip, outdated>>

\* The rating is not valid, or it is a second row for the same rater and thing.
Rejected(w) ==
    LET j == job[w]
    IN /\ at[w] = "save"
       /\ \/ ~Valid(j.thing, j.user, j.rating)
          \/ old[w] = NoRow /\ rating[j.thing][j.user] # NoRow
       /\ Idle(w)
       /\ UNCHANGED <<rows, handlers, slip, outdated>>

\* The row is written if it differs from the one found.
Saved(w) ==
    LET j == job[w]
        now == rating[j.thing][j.user]
        u == Gainer(j.thing, j.user)
        k == Kind[j.thing]
    IN /\ at[w] = "save"
       /\ Valid(j.thing, j.user, j.rating)
       /\ old[w] = NoRow => now = NoRow
       /\ rating' = IF old[w] = j.rating THEN rating
                    ELSE [rating EXCEPT ![j.thing][j.user] = j.rating]
       /\ slip' = IF k = "user" \/ old[w] = j.rating THEN slip
                  ELSE [slip EXCEPT ![u][k] = @ + Value(now) - Value(old[w])]
       /\ gainer' = [gainer EXCEPT ![w] = u]
       /\ Go(w, IF k = "user" THEN "count" ELSE "add")
       /\ UNCHANGED <<counter, point_count, job, old, read, shared, handlers, outdated>>

\* What a rating adds to the counter: request, comment and conversation.
NewRating(w) == job[w].rating
Difference(w) == job[w].rating - Value(old[w])

Add(w) ==
    /\ at[w] = "add"
    /\ counter' = [counter EXCEPT ![gainer[w]][Kind[job[w].thing]] = @ + Difference(w)]
    /\ Go(w, "reload")
    /\ UNCHANGED <<rating, point_count, local, handlers, slip, outdated>>

\* A user's followers are counted and written, and after the points, what the
\* rater follows.
CountFollowers(w) ==
    /\ at[w] = "count"
    /\ read' = [read EXCEPT ![w]["user"] = Likes(gainer[w], "user")]
    /\ Go(w, "followers")
    /\ UNCHANGED <<rows, job, gainer, old, shared, handlers, slip, outdated>>

AfterFollowers == "reload"
WriteFollowers(w) ==
    LET u == gainer[w]
    IN /\ at[w] = "followers"
       /\ counter' = [counter EXCEPT ![u]["user"] = read[w]["user"]]
       /\ outdated' = Mark(w, u, "user", read[w]["user"], Likes(u, "user"))
       /\ Go(w, AfterFollowers)
       /\ UNCHANGED <<rating, point_count, local, handlers, slip>>

CountFollowing(w) ==
    /\ at[w] = "following"
    /\ read' = [read EXCEPT ![w]["following"] = Following(job[w].user)]
    /\ Go(w, "followed")
    /\ UNCHANGED <<rows, job, gainer, old, shared, handlers, slip, outdated>>

WriteFollowing(w) ==
    LET u == job[w].user
    IN /\ at[w] = "followed"
       /\ counter' = [counter EXCEPT ![u]["following"] = read[w]["following"]]
       /\ outdated' = Mark(w, u, "following", read[w]["following"], Following(u))
       /\ Idle(w)
       /\ UNCHANGED <<rating, point_count, handlers, slip>>

-----------------------------------------------------------------------------
(* db:recalculate, for user u: each value is read, and then written.  The     *)
(* counter of comment likes is not among them.                               *)

recalculate(w, u) ==
    /\ Begin(w)
    /\ gainer' = [gainer EXCEPT ![w] = u]
    /\ read' = [read EXCEPT ![w]["conversation"] = Sum(u, "conversation")]
    /\ Go(w, "counts")
    /\ UNCHANGED <<rows, job, old, slip, outdated>>

RecalculateCounts(w) ==
    /\ at[w] = "counts"
    /\ read' = [read EXCEPT ![w]["user"] = Likes(gainer[w], "user"),
                            ![w]["following"] = Following(gainer[w])]
    /\ Go(w, "counted")
    /\ UNCHANGED <<rows, job, gainer, old, shared, handlers, slip, outdated>>

WriteCounts(w) ==
    LET u == gainer[w]
    IN /\ at[w] = "counted"
       /\ counter' = [counter EXCEPT ![u]["user"] = read[w]["user"],
                                     ![u]["following"] = read[w]["following"]]
       /\ outdated' = (Mark(w, u, "user", read[w]["user"], Likes(u, "user"))
                          \ {<<u, "following">>})
                      \cup (Mark(w, u, "following", read[w]["following"], Following(u))
                            \cap {<<u, "following">>})
       /\ Go(w, "sums")
       /\ UNCHANGED <<rating, point_count, local, handlers, slip>>

\* requests.sum(:like_count) counts likes, and no reports.
RecalculateSum(w) ==
    /\ at[w] = "sums"
    /\ read' = [read EXCEPT ![w]["request"] = Likes(gainer[w], "request")]
    /\ Go(w, "summed")
    /\ UNCHANGED <<rows, job, gainer, old, shared, handlers, slip, outdated>>

RequestsOnly == {"request"}
Recalculated == {"request", "conversation"}
WriteSums(w) ==
    LET u == gainer[w]
    IN /\ at[w] = "summed"
       /\ counter' = [counter EXCEPT ![u] = [c \in Counters |->
                         IF c \in Recalculated THEN read[w][c] ELSE @[c]]]
       /\ slip' = [slip EXCEPT ![u] = [k \in Added |->
                         IF k \in Recalculated
                         THEN @[k] + read[w][k] - counter[u][k] ELSE @[k]]]
       /\ Go(w, "reload")
       /\ UNCHANGED <<rating, point_count, local, handlers, outdated>>

-----------------------------------------------------------------------------
Next ==
    \E w \in Workers :
        \/ \E j \in Jobs : rate(w, j)
        \/ Rejected(w)
        \/ Saved(w)
        \/ Add(w)
        \/ CountFollowers(w)
        \/ WriteFollowers(w)
        \/ Reload(w)
        \/ UpdatePoints(w)
        \/ CountFollowing(w)
        \/ WriteFollowing(w)
        \/ \E u \in Users : recalculate(w, u)
        \/ RecalculateCounts(w)
        \/ WriteCounts(w)
        \/ RecalculateSum(w)
        \/ WriteSums(w)

Spec == Init /\ [][Next]_vars

-----------------------------------------------------------------------------
\* What the workers have still to add to u's counter k: the ratings they saved,
\* less those they found.
Adding(u, k) ==
    {w \in Workers : at[w] = "add" /\ gainer[w] = u /\ Kind[job[w].thing] = k}
Pending(u, k) ==
    Total(Adding(u, k), [w \in Workers |-> job[w].rating]) - Total(Adding(u, k), old)

\* Differences added by overlapping processes never get lost or mixed up: a
\* counter and what is still to be added to it is the sum of the ratings, but
\* for what a second rate of the same thing by the same user misplaced that was
\* found before the first was saved, and what recalculations put in its place.
CountersBalance ==
    \A u \in Users, k \in Added :
        counter[u][k] + Pending(u, k) = Sum(u, k) + slip[u][k]

\* A derived value that does not agree with what it derives from is about to be
\* written, or was last written by a process that overlapped another and was
\* overtaken after reading: points by the formula, followers and following by
\* the ratings.
DerivedAgree ==
    \A u \in Users :
        /\ \/ point_count[u] = Points(counter[u])
           \/ <<u, "points">> \in outdated
           \/ \E w \in Workers :
                 gainer[w] = u /\ at[w] \in {"sums", "summed", "reload", "points"}
        /\ \/ counter[u]["user"] = Likes(u, "user")
           \/ <<u, "user">> \in outdated
           \/ \E w \in Workers : gainer[w] = u /\ at[w] \in {"count", "followers"}
        /\ \/ counter[u]["following"] = Following(u)
           \/ <<u, "following">> \in outdated
           \/ \E w \in Workers :
                 /\ job[w].user = u
                 /\ at[w] \in {"count", "followers", "reload", "points", "following",
                              "followed"}

\* A recalculation that overlaps nothing leaves the conversation counter equal
\* to the sum of the ratings, whatever was misplaced before, and the request
\* counter equal to the number of likes.
RepairAlone ==
    \A w \in Workers \ shared : WriteSums(w) =>
        /\ counter'[gainer[w]]["conversation"] = Sum(gainer[w], "conversation")
        /\ counter'[gainer[w]]["request"] = Likes(gainer[w], "request")

=============================================================================
