--------------------------- MODULE ReputationProofs ------------------------
(***************************************************************************)
(* For any users, things they rate and processes: overlapping rates lose no  *)
(* difference, derived values agree or are going to be written, and a        *)
(* recalculation that runs alone repairs the counters it writes.             *)
(*                                                                           *)
(* The invariant adds to these what a process knows of its job (Control),    *)
(* that overlapping processes know it (Alone) and that what a process alone  *)
(* has read is what is there (Fresh).  The sums over the ratings are totals  *)
(* of sizes of finite sets, so that a rate that is saved changes one sum by  *)
(* its difference, and a step that adds it takes it from what is pending.    *)
(***************************************************************************)
EXTENDS Reputation, TLAPS

\* What the proofs use about the sizes of finite sets.
Counting ==
    /\ IsFiniteSet({}) /\ Cardinality({}) = 0
    /\ \A S : IsFiniteSet(S) => Cardinality(S) \in Nat /\ (Cardinality(S) = 0 <=> S = {})
    /\ \A S, T : IsFiniteSet(T) /\ S \subseteq T => IsFiniteSet(S) /\ Cardinality(S) <= Cardinality(T)
    /\ \A x : Cardinality({x}) = 1
    /\ \A S, x : IsFiniteSet(S) /\ x \notin S =>
          IsFiniteSet(S \cup {x}) /\ Cardinality(S \cup {x}) = Cardinality(S) + 1
    /\ \A S, T : IsFiniteSet(S) /\ IsFiniteSet(T) => IsFiniteSet(S \X T)

\* What the step of a process says of its job and of whom it updates.
ControlOf(w) ==
    /\ at[w] \in {"save", "add", "count", "followers", "following", "followed"} => job[w] \in Jobs
    /\ at[w] \notin {"idle", "save"} => gainer[w] \in Users
    /\ at[w] = "add" => Kind[job[w].thing] \in Added
    /\ at[w] \in {"count", "followers", "following", "followed"} => Kind[job[w].thing] = "user"
    /\ at[w] \in {"idle", "counts", "counted", "sums", "summed"} => job[w] = NoJob
Control == \A w \in Workers : ControlOf(w)

\* Of two handlers that run at once, both are known to.
Alone == \A v, w \in Workers : v # w /\ at[v] # "idle" /\ at[w] # "idle" => w \in shared

\* What a process that runs alone has read is what is there.
FreshOf(w) ==
    /\ at[w] \in {"followers", "counted"} => read[w]["user"] = Likes(gainer[w], "user")
    /\ at[w] = "points" => read[w] = counter[gainer[w]]
    /\ at[w] = "followed" => read[w]["following"] = Following(job[w].user)
    /\ at[w] = "counted" => read[w]["following"] = Following(gainer[w])
    /\ at[w] \in {"counts", "counted", "sums", "summed"} =>
          read[w]["conversation"] = Sum(gainer[w], "conversation")
    /\ at[w] = "summed" => read[w]["request"] = Likes(gainer[w], "request")
Fresh == \A w \in Workers \ shared : FreshOf(w)

\* A derived value agrees, or is going to be written, or was overtaken.
PointsAgree(u) ==
    \/ point_count[u] = Points(counter[u])
    \/ <<u, "points">> \in outdated
    \/ \E w \in Workers : gainer[w] = u /\ at[w] \in {"sums", "summed", "reload", "points"}
FollowersAgree(u) ==
    \/ counter[u]["user"] = Likes(u, "user")
    \/ <<u, "user">> \in outdated
    \/ \E w \in Workers : gainer[w] = u /\ at[w] \in {"count", "followers"}
Follows(w, u) ==
    /\ job[w] \in Jobs /\ job[w].user = u /\ Kind[job[w].thing] = "user"
    /\ at[w] \in {"count", "followers", "reload", "points", "following", "followed"}
FollowingAgrees(u) ==
    \/ counter[u]["following"] = Following(u)
    \/ <<u, "following">> \in outdated
    \/ \E w \in Workers : Follows(w, u)
Agree == \A u \in Users : PointsAgree(u) /\ FollowersAgree(u) /\ FollowingAgrees(u)

IInv == TypeOK /\ Control /\ Alone /\ Fresh /\ Agree /\ CountersBalance

\* The parts of a finite set can be counted.
LEMMA PartCounted ==
    ASSUME Counting, NEW S, IsFiniteSet(S), NEW T, T \subseteq S
    PROVE  IsFiniteSet(T) /\ Cardinality(T) \in Nat
<1>1. IsFiniteSet(T)
    BY Zenon DEF Counting
<1> QED
    BY <1>1 DEF Counting

\* A total is a number.
LEMMA TotalTyped ==
    ASSUME Counting, NEW S, IsFiniteSet(S), NEW f
    PROVE  Total(S, f) \in Int
<1>1. \A v : Cardinality(Having(S, f, v)) \in Nat
    BY PartCounted DEF Having
<1> QED
    BY <1>1 DEF Total

\* One element more counts where it has the value.
LEMMA OneMore ==
    ASSUME Counting, NEW S, IsFiniteSet(S), NEW p, p \notin S, NEW f
    PROVE  \A v : /\ Cardinality(Having(S, f, v)) \in Nat
                  /\ Cardinality(Having(S \cup {p}, f, v))
                        = IF f[p] = v THEN Cardinality(Having(S, f, v)) + 1 ELSE Cardinality(Having(S, f, v))
<1> TAKE v
<1>1. IsFiniteSet(Having(S, f, v)) /\ Cardinality(Having(S, f, v)) \in Nat /\ p \notin Having(S, f, v)
    BY PartCounted DEF Having
<1>2. f[p] = v => Having(S \cup {p}, f, v) = Having(S, f, v) \cup {p}
    BY DEF Having
<1>3. f[p] # v => Having(S \cup {p}, f, v) = Having(S, f, v)
    BY DEF Having
<1> QED
    BY Zenon, <1>1, <1>2, <1>3 DEF Counting

\* One element more adds its value.
LEMMA TotalMore ==
    ASSUME Counting, NEW S, IsFiniteSet(S), NEW p, p \notin S, NEW f, f[p] \in Values
    PROVE  Total(S \cup {p}, f) = Total(S, f) + Value(f[p])
<1> DEFINE n(v) == Cardinality(Having(S, f, v))
           m(v) == Cardinality(Having(S \cup {p}, f, v))
<1>1. Total(S, f) = n(1) - n(-1) - 2 * n(-2) /\ Total(S \cup {p}, f) = m(1) - m(-1) - 2 * m(-2)
    BY DEF Total
<1>2. \A v : n(v) \in Nat /\ m(v) = IF f[p] = v THEN n(v) + 1 ELSE n(v)
    BY OneMore
<1> HIDE DEF n, m
<1>3. f[p] \in {-2, -1, 0, 1, 2}
    BY DEF NoRow, Values
<1> QED
    BY <1>1, <1>2, <1>3 DEF Value, NoRow

\* A total depends on the values in its set only.
LEMMA TotalSame ==
    ASSUME NEW S, NEW f, NEW g, \A q \in S : f[q] = g[q]
    PROVE  Total(S, f) = Total(S, g)
<1>1. \A v : Having(S, f, v) = Having(S, g, v)
    BY DEF Having
<1> QED
    BY <1>1 DEF Total

\* A total changes by the change of one value.
LEMMA TotalMoved ==
    ASSUME Counting, NEW S, IsFiniteSet(S), NEW p \in S, NEW f, NEW g,
           f[p] \in Values, g[p] \in Values,
           \A q \in S \ {p} : f[q] = g[q]
    PROVE  Total(S, g) = Total(S, f) - Value(f[p]) + Value(g[p])
<1> DEFINE R == S \ {p}
<1>1. IsFiniteSet(R) /\ p \notin R /\ S = R \cup {p}
    <2>1. R \subseteq S /\ p \notin R /\ S = R \cup {p}
        OBVIOUS
    <2> QED
        BY <2>1, PartCounted
<1>2. Total(R, f) = Total(R, g)
    BY TotalSame
<1> HIDE DEF R
<1>3. Total(S, f) = Total(R, f) + Value(f[p]) /\ Total(S, g) = Total(R, g) + Value(g[p])
    BY <1>1, TotalMore
<1>4. Total(R, f) \in Int /\ Value(f[p]) \in Int /\ Value(g[p]) \in Int
    BY <1>1, TotalTyped DEF Value, NoRow, Values
<1> QED
    BY <1>2, <1>3, <1>4

\* Somebody gains by every rating, and is an owner of what is rated.
LEMMA GainerOwns ==
    ASSUME ReputationConstants, NEW t \in Things, NEW u \in Users
    PROVE  Gainer(t, u) \in Owners[t] /\ Gainer(t, u) \in Users
<1>1. \E v \in Owners[t] : Kind[t] = "conversation" => v # u
    BY DEF ReputationConstants
<1>2. Gainer(t, u) \in Owners[t]
    BY <1>1 DEF Gainer
<1> QED
    BY <1>2 DEF ReputationConstants

\* The ratings by which u gains: each counts for one user and one counter.
LEMMA RatingsOf ==
    ASSUME ReputationConstants, Counting, NEW u \in Users, NEW k \in Added \cup {"user"}
    PROVE  /\ RatingsFor(u, k) \subseteq Things \X Users
           /\ IsFiniteSet(RatingsFor(u, k))
           /\ \A t \in Things, v \in Users :
                 <<t, v>> \in RatingsFor(u, k) <=> Kind[t] = k /\ u = Gainer(t, v)
<1>1. Rateable[k] = {t \in Things : Kind[t] = k}
    BY DEF Rateable
<1>2. RatingsFor(u, k) \subseteq Things \X Users
    BY <1>1 DEF RatingsFor
<1>3. IsFiniteSet(Things \X Users)
    BY DEF Counting, ReputationConstants
<1>4. IsFiniteSet(RatingsFor(u, k))
    BY <1>2, <1>3, PartCounted
<1>5. ASSUME NEW t \in Things, NEW v \in Users
      PROVE  <<t, v>> \in RatingsFor(u, k) <=> Kind[t] = k /\ u = Gainer(t, v)
    BY <1>1, GainerOwns DEF RatingsFor
<1> QED
    BY <1>2, <1>4, <1>5

\* Sums, likes and followings are numbers.
LEMMA Numbers ==
    ASSUME ReputationConstants, Counting, NEW u \in Users
    PROVE  /\ Following(u) \in Nat
           /\ \A k \in Added \cup {"user"} : Sum(u, k) \in Int /\ Likes(u, k) \in Nat
<1>1. ASSUME NEW k \in Added \cup {"user"} PROVE Sum(u, k) \in Int /\ Likes(u, k) \in Nat
    BY RatingsOf, TotalTyped, PartCounted DEF Sum, Likes
<1>2. {t \in Rateable["user"] : rating[t][u] = 1} \subseteq Things
    BY DEF Rateable
<1>3. Following(u) \in Nat
    BY <1>2, PartCounted DEF Following, ReputationConstants
<1> QED
    BY <1>1, <1>3

\* A step of process w.
Step(w) ==
    \/ \E j \in Jobs : rate(w, j)
    \/ Rejected(w)
    \/ Saved(w)
    \/ Add(w)
    \/ CountFollowers(w)
    \/ WriteFollowers(w)
    \/ Reload(w)
    \/ UpdatePoints(w)
    \/ CountFollowing(w)
    \/ WriteFollowing(w)
    \/ \E u \in Users : recalculate(w, u)
    \/ RecalculateCounts(w)
    \/ WriteCounts(w)
    \/ RecalculateSum(w)
    \/ WriteSums(w)

\* What w does not touch of the other processes.
Apart(w) ==
    /\ \A v \in Workers \ {w} :
          /\ at'[v] = at[v] /\ job'[v] = job[v] /\ gainer'[v] = gainer[v]
          /\ old'[v] = old[v] /\ read'[v] = read[v]
          /\ v \in shared => v \in shared'
    /\ at[w] = "idle" => at'[w] # "idle"
    /\ at[w] # "idle" => shared' \subseteq shared
    /\ at[w] # "idle" /\ at'[w] # "idle" => shared' = shared

\* The end of a handler.
LEMMA IdleApart ==
    ASSUME TypeOK, NEW w \in Workers, Idle(w), at[w] # "idle"
    PROVE  /\ Apart(w) /\ at'[w] = "idle" /\ job'[w] = NoJob
           /\ at' \in [Workers -> Steps]
           /\ job' \in [Workers -> Jobs \cup {NoJob}] /\ gainer' \in [Workers -> Users \cup {Nobody}]
           /\ old' \in [Workers -> Values] /\ read' \in [Workers -> [Counters -> Int]]
           /\ shared' \subseteq Workers
<1>1. Zero \in [Counters -> Int] /\ NoRow \in Values /\ "idle" \in Steps
    BY DEF Zero, NoRow, Values, Steps
<1> QED
    BY <1>1 DEF Apart, Idle, Go, TypeOK

\* A step of w is a step of w alone.
LEMMA StepApart ==
    ASSUME TypeOK, NEW w \in Workers, Step(w)
    PROVE  Apart(w)
<1>2. ASSUME NEW j \in Jobs, rate(w, j) PROVE Apart(w)
    BY <1>2 DEF rate, Begin, Apart, Go, TypeOK, rows
<1>3. ASSUME NEW u \in Users, recalculate(w, u) PROVE Apart(w)
    BY <1>3 DEF recalculate, Begin, Apart, Go, TypeOK, rows
<1>4. CASE Rejected(w)
    BY <1>4, IdleApart DEF Rejected
<1>5. CASE Saved(w)
    BY Zenon, <1>5 DEF Saved, Apart, Go, TypeOK
<1>6. CASE Add(w) \/ WriteFollowers(w) \/ WriteCounts(w) \/ WriteSums(w)
    BY Zenon, <1>6 DEF Add, WriteFollowers, WriteCounts, WriteSums, Apart, Go, TypeOK, local
<1>7. CASE CountFollowers(w) \/ Reload(w) \/ CountFollowing(w) \/ RecalculateCounts(w) \/ RecalculateSum(w)
    BY Zenon, <1>7 DEF CountFollowers, Reload, CountFollowing, RecalculateCounts, RecalculateSum, Apart, Go,
        TypeOK
<1>8. CASE UpdatePoints(w)
    BY <1>8, IdleApart DEF UpdatePoints, Apart, Go, TypeOK, local
<1>9. CASE WriteFollowing(w)
    BY <1>9, IdleApart DEF WriteFollowing
<1> QED
    BY Zenon, <1>2, <1>3, <1>4, <1>5, <1>6, <1>7, <1>8, <1>9 DEF Step

\* What a job is.
LEMMA JobTyped ==
    ASSUME ReputationConstants, NEW j \in Jobs
    PROVE  j.thing \in Things /\ j.user \in Users /\ j.rating \in -2..1 /\ j # NoJob
    BY DEF Jobs, NoJob, ReputationConstants

\* Writing one column of a user, and one rating.
LEMMA ColumnWritten ==
    ASSUME NEW U, NEW C, NEW V, NEW f \in [U -> [C -> V]], NEW u \in U, NEW c \in C, NEW x \in V
    PROVE  [f EXCEPT ![u][c] = x] \in [U -> [C -> V]]
<1>1. [f[u] EXCEPT ![c] = x] \in [C -> V]
    OBVIOUS
<1> QED
    BY <1>1

\* A step moves one process.
LEMMA AtTyped ==
    ASSUME NEW W, NEW S, NEW f \in [W -> S], NEW g, NEW w, NEW x \in S, g = [f EXCEPT ![w] = x]
    PROVE  g \in [W -> S]
    BY Zenon

\* Every step keeps that.
LEMMA ControlStep ==
    ASSUME ReputationConstants, TypeOK, Control, NEW w \in Workers, Step(w)
    PROVE  Control'
<1> SUFFICES ControlOf(w)'
    <2>1. \A v \in Workers : ControlOf(v)
        BY DEF Control
    <2>2. \A v \in Workers \ {w} : ControlOf(v)'
        BY <2>1, StepApart DEF Apart, ControlOf
    <2> QED
        BY <2>2 DEF Control
<1>1. ControlOf(w)
    BY Zenon DEF Control
<1> USE <1>1
<1>2. ASSUME NEW j \in Jobs, rate(w, j) PROVE ControlOf(w)'
    BY <1>2 DEF rate, Go, ControlOf, TypeOK
<1>3. ASSUME NEW u \in Users, recalculate(w, u) PROVE ControlOf(w)'
    BY Zenon, <1>3 DEF recalculate, Begin, Go, ControlOf, TypeOK
<1>4. CASE Rejected(w) \/ WriteFollowing(w)
    BY <1>4 DEF Rejected, WriteFollowing, Idle, Go, ControlOf, TypeOK
<1>5. CASE Saved(w)
    <2>1. job[w] \in Jobs
        BY <1>5 DEF Saved, ControlOf
    <2>2. Gainer(job[w].thing, job[w].user) \in Users /\ Kind[job[w].thing] \in Added \cup {"user"}
        BY Zenon, <2>1, JobTyped, GainerOwns DEF ReputationConstants
    <2> QED
        BY Zenon, <1>5, <2>1, <2>2 DEF Saved, Go, ControlOf, TypeOK
<1>6. CASE Add(w) \/ WriteFollowers(w) \/ WriteCounts(w) \/ WriteSums(w)
    BY Zenon, <1>6 DEF Add, WriteFollowers, WriteCounts, WriteSums, Go, ControlOf, TypeOK, local,
        AfterFollowers
<1>7. CASE CountFollowers(w) \/ Reload(w) \/ CountFollowing(w) \/ RecalculateCounts(w) \/ RecalculateSum(w)
    BY <1>7 DEF CountFollowers, Reload, CountFollowing, RecalculateCounts, RecalculateSum, Go,
        ControlOf, TypeOK
<1>8. CASE UpdatePoints(w)
    BY <1>8 DEF UpdatePoints, Idle, Go, ControlOf, TypeOK, local
<1> QED
    BY <1>2, <1>3, <1>4, <1>5, <1>6, <1>7, <1>8 DEF Step

\* Of two handlers that run at once, both are known to.
LEMMA AloneStep ==
    ASSUME TypeOK, Alone, NEW w \in Workers, Step(w)
    PROVE  Alone'
<1>1. Apart(w)
    BY StepApart
<1> USE <1>1
<1>2. CASE at[w] # "idle"
    <2>1. \A v \in Workers \ {w} : at[v] # "idle" => v \in shared /\ w \in shared
        BY <1>2 DEF Alone
    <2>2. at'[w] # "idle" => shared' = shared
        BY <1>2 DEF Apart
    <2> QED
        BY <2>1, <2>2 DEF Apart, Alone
<1>3. CASE at[w] = "idle"
    <2> DEFINE busy == {v \in Workers : at[v] # "idle"}
    <2>1. shared' = IF busy = {} THEN shared ELSE shared \cup busy \cup {w}
        BY Zenon, <1>3 DEF Step, rate, recalculate, Begin, Rejected, Saved, Add, CountFollowers, WriteFollowers,
            Reload, UpdatePoints, CountFollowing, WriteFollowing, RecalculateCounts, WriteCounts,
            RecalculateSum, WriteSums
    <2> QED
        BY Zenon, <1>3, <2>1 DEF Apart, Alone
<1> QED
    BY <1>2, <1>3

\* What a process that runs alone has read stays what is there.
LEMMA FreshStep ==
    ASSUME ReputationConstants, TypeOK, Control, Alone, Alone', Fresh, NEW w \in Workers, Step(w)
    PROVE  Fresh'
<1>1. Apart(w)
    BY Zenon, StepApart
<1>2. ASSUME NEW v \in Workers \ {w}, v \notin shared' PROVE at'[v] = "idle"
    BY Zenon, <1>1, <1>2 DEF Apart, Alone
<1>3. ASSUME NEW v \in Workers \ {w}, v \notin shared' PROVE FreshOf(v)'
    BY <1>2, <1>3 DEF FreshOf
<1> SUFFICES ASSUME w \notin shared' PROVE FreshOf(w)'
    BY <1>3 DEF Fresh
<1>4. at[w] # "idle" /\ at'[w] # "idle" => FreshOf(w)
    BY <1>1 DEF Apart, Fresh
<1> USE <1>4
<1>5. ControlOf(w) /\ {"user", "following", "conversation", "request"} \subseteq Counters
    BY Zenon DEF Control, Counters, Added
<1> USE <1>5
<1> USE DEF Likes, Following, Sum, Total, Rated
<1>6. ASSUME NEW j \in Jobs, rate(w, j) PROVE FreshOf(w)'
    BY <1>6 DEF rate, Go, FreshOf, TypeOK
<1>7. ASSUME NEW u \in Users, recalculate(w, u) PROVE FreshOf(w)'
    BY Zenon, <1>7 DEF recalculate, Go, FreshOf, TypeOK, rows
<1>8. CASE Rejected(w) \/ WriteFollowing(w)
    BY Zenon, <1>8 DEF Rejected, WriteFollowing, Idle, Go, FreshOf, TypeOK
<1>9. CASE Saved(w) \/ Add(w) \/ WriteFollowers(w) \/ WriteSums(w)
    BY Zenon, <1>9 DEF Saved, Add, WriteFollowers, WriteSums, Go, FreshOf, TypeOK, AfterFollowers
<1>10. CASE Reload(w)
    BY Zenon, <1>10 DEF Reload, Go, FreshOf, TypeOK, rows
<1>11. CASE UpdatePoints(w)
    BY <1>11 DEF UpdatePoints, Idle, Go, FreshOf, TypeOK
<1>12. CASE CountFollowers(w)
    BY Zenon, <1>12 DEF CountFollowers, Go, FreshOf, TypeOK, rows
<1>13. CASE CountFollowing(w)
    BY <1>13 DEF CountFollowing, Go, FreshOf, TypeOK, rows
<1>14. CASE RecalculateCounts(w)
    BY Zenon, <1>14 DEF RecalculateCounts, Go, FreshOf, TypeOK, rows
<1>15. CASE WriteCounts(w)
    BY Zenon, <1>15 DEF WriteCounts, Go, FreshOf, TypeOK, local
<1>16. CASE RecalculateSum(w)
    BY Zenon, <1>16 DEF RecalculateSum, Go, FreshOf, TypeOK, rows
<1> QED
    BY <1>6, <1>7, <1>8, <1>9, <1>10, <1>11, <1>12, <1>13, <1>14, <1>15, <1>16 DEF Step

\* Points that do not agree with the counters are about to be written, or were
\* by a process that was overtaken.
LEMMA PointsStep ==
    ASSUME ReputationConstants, TypeOK, Control, Fresh, NEW w \in Workers, Step(w),
           NEW u \in Users, PointsAgree(u)
    PROVE  PointsAgree(u)'
<1>1. Apart(w) /\ ControlOf(w)
    BY StepApart DEF Control
<1>2. \A v \in Workers \ {w} : gainer'[v] = gainer[v] /\ at'[v] = at[v]
    BY <1>1 DEF Apart
<1>3. ASSUME Points(counter'[u]) = Points(counter[u]), point_count'[u] = point_count[u],
             <<u, "points">> \in outdated => <<u, "points">> \in outdated',
             gainer[w] = u /\ at[w] \in {"sums", "summed", "reload", "points"} =>
                gainer'[w] = u /\ at'[w] \in {"sums", "summed", "reload", "points"}
      PROVE  PointsAgree(u)'
    BY <1>2, <1>3 DEF PointsAgree
<1> USE <1>3
<1>4. ASSUME UNCHANGED <<counter, point_count, outdated>>,
             gainer[w] = u /\ at[w] \in {"sums", "summed", "reload", "points"} =>
                gainer'[w] = u /\ at'[w] \in {"sums", "summed", "reload", "points"}
      PROVE  PointsAgree(u)'
    BY Zenon, <1>4
<1> USE <1>4
<1>5. ASSUME NEW j \in Jobs, rate(w, j) PROVE PointsAgree(u)'
    BY <1>5 DEF rate, Begin, rows
<1>6. ASSUME NEW v \in Users, recalculate(w, v) PROVE PointsAgree(u)'
    BY Zenon, <1>6 DEF recalculate, Begin, rows
<1>7. CASE Rejected(w) \/ Saved(w)
    BY <1>7 DEF Rejected, Saved, rows
<1>8. CASE CountFollowers(w) \/ CountFollowing(w) \/ RecalculateCounts(w) \/ Reload(w) \/ RecalculateSum(w)
    BY Zenon, <1>8 DEF CountFollowers, CountFollowing, RecalculateCounts, Reload, RecalculateSum, rows,
        Go, TypeOK
<1>9. CASE Add(w) \/ WriteFollowers(w) \/ WriteCounts(w) \/ WriteSums(w)
    <2> USE <1>9
    <2>1. gainer' = gainer /\ at'[w] \in {"sums", "reload"} /\ point_count' = point_count
        BY Zenon DEF Add, WriteFollowers, WriteCounts, WriteSums, Go, TypeOK, local, AfterFollowers
    <2>2. CASE gainer[w] = u
        BY <2>1, <2>2 DEF PointsAgree
    <2>3. CASE gainer[w] # u
        <3> USE <2>3
        <3>1. counter'[u] = counter[u]
            BY Zenon DEF Add, WriteFollowers, WriteCounts, WriteSums, TypeOK
        <3>2. <<u, "points">> \in outdated => <<u, "points">> \in outdated'
            BY DEF Add, WriteFollowers, WriteCounts, WriteSums, Mark
        <3> QED
            BY Zenon, <2>1, <3>1, <3>2
    <2> QED
        BY <2>2, <2>3
<1>10. CASE WriteFollowing(w)
    <2> USE <1>10
    <2>1. point_count' = point_count /\ at[w] = "followed"
        BY Zenon DEF WriteFollowing
    <2>2. Points(counter'[u]) = Points(counter[u])
        BY DEF WriteFollowing, Points, TypeOK, Counters, Added
    <2>3. <<u, "points">> \in outdated => <<u, "points">> \in outdated'
        BY Zenon DEF WriteFollowing, Mark
    <2> QED
        BY Zenon, <2>1, <2>2, <2>3
<1>11. CASE UpdatePoints(w)
    <2>1. /\ at[w] = "points" /\ counter' = counter
          /\ point_count' = [point_count EXCEPT ![gainer[w]] = Points(read[w])]
          /\ outdated' = Mark(w, gainer[w], "points", Points(read[w]), Points(counter[gainer[w]]))
        BY Zenon, <1>11 DEF UpdatePoints
    <2> USE <2>1
    <2>2. CASE gainer[w] # u
        <3>1. <<u, "points">> \in outdated => <<u, "points">> \in outdated'
            BY Zenon, <2>2 DEF Mark
        <3> QED
            BY Zenon, <2>2, <3>1 DEF TypeOK
    <2>3. CASE gainer[w] = u
        <3> USE <2>3
        <3>1. point_count'[u] = Points(read[w])
            BY Zenon DEF TypeOK
        <3>2. w \notin shared => read[w] = counter[u]
            BY Zenon DEF Fresh, FreshOf
        <3>3. Points(read[w]) # Points(counter[u]) => <<u, "points">> \in outdated'
            BY Zenon, <3>2 DEF Mark
        <3> QED
            BY Zenon, <3>1, <3>3 DEF PointsAgree
    <2> QED
        BY <2>2, <2>3
<1> QED
    BY <1>5, <1>6, <1>7, <1>8, <1>9, <1>10, <1>11 DEF Step

\* What a saved rating changes: the likes of the one who gains, and whom the
\* rater follows, if it is a user that is rated.
LEMMA SavedCounts ==
    ASSUME ReputationConstants, Counting, TypeOK, NEW w \in Workers, Saved(w), job[w] \in Jobs
    PROVE  /\ gainer'[w] = Gainer(job[w].thing, job[w].user) /\ job' = job
           /\ at[w] = "save" /\ at'[w] = IF Kind[job[w].thing] = "user" THEN "count" ELSE "add"
           /\ UNCHANGED <<counter, outdated>>
           /\ \A t \in Things, v \in Users :
                 t # job[w].thing \/ v # job[w].user => rating'[t][v] = rating[t][v]
           /\ \A u \in Users :
                 /\ Kind[job[w].thing] # "user" \/ u # gainer'[w] => Likes(u, "user")' = Likes(u, "user")
                 /\ Kind[job[w].thing] # "user" \/ u # job[w].user => Following(u)' = Following(u)
<1> DEFINE j == job[w]
<1>1. j.thing \in Things /\ j.user \in Users
    BY JobTyped
<1>2. /\ gainer'[w] = Gainer(j.thing, j.user) /\ job' = job
      /\ at[w] = "save" /\ at'[w] = IF Kind[j.thing] = "user" THEN "count" ELSE "add"
      /\ UNCHANGED <<counter, outdated>>
      /\ rating' = rating \/ rating' = [rating EXCEPT ![j.thing][j.user] = j.rating]
    BY Zenon DEF Saved, Go, TypeOK
<1> USE <1>2
<1>3. \A t \in Things, v \in Users : t # j.thing \/ v # j.user => rating'[t][v] = rating[t][v]
    BY <1>1 DEF TypeOK
<1> USE <1>3
<1> HIDE DEF j
<1>4. ASSUME NEW u \in Users, Kind[j.thing] # "user" \/ u # gainer'[w]
      PROVE  Likes(u, "user")' = Likes(u, "user")
    <2>1. <<j.thing, j.user>> \notin RatingsFor(u, "user") /\ RatingsFor(u, "user") \subseteq Things \X Users
        BY <1>1, <1>4, RatingsOf
    <2>2. \A p \in RatingsFor(u, "user") : rating'[p[1]][p[2]] = rating[p[1]][p[2]]
        BY <2>1
    <2> QED
        BY Zenon, <2>2 DEF Likes
<1>5. ASSUME NEW u \in Users, Kind[j.thing] # "user" \/ u # j.user
      PROVE  Following(u)' = Following(u)
    <2>1. \A t \in Rateable["user"] : t \in Things /\ Kind[t] = "user"
        BY DEF Rateable
    <2>2. \A t \in Rateable["user"] : rating'[t][u] = rating[t][u]
        BY Zenon, <1>5, <2>1
    <2> QED
        BY Zenon, <2>2 DEF Following
<1> QED
    BY <1>4, <1>5 DEF j

\* The marks are marks of users.
LEMMA MarkTyped ==
    ASSUME TypeOK, NEW w, NEW u \in Users, NEW c \in {"points", "user", "following"}, NEW x, NEW y
    PROVE  Mark(w, u, c, x, y) \subseteq Users \X {"points", "user", "following"}
    BY DEF Mark, TypeOK

\* A process that goes on keeps the types if what it writes is of its type.
LEMMA TypedMove ==
    ASSUME TypeOK, NEW w \in Workers, NEW s \in Steps, Go(w, s),
           UNCHANGED <<rating, job, gainer, old, shared, handlers>>,
           counter' = counter \/ counter' \in [Users -> [Counters -> Int]],
           point_count' = point_count \/ point_count' \in [Users -> Int],
           read' = read \/ read' \in [Workers -> [Counters -> Int]],
           slip' = slip \/ slip' \in [Users -> [Added -> Int]],
           outdated' = outdated \/ outdated' \subseteq Users \X {"points", "user", "following"}
    PROVE  TypeOK'
<1>1. at' \in [Workers -> Steps]
    BY Zenon, AtTyped DEF Go, TypeOK
<1> QED
    BY Zenon, <1>1 DEF TypeOK

\* Every step keeps the types.
LEMMA TypeStep ==
    ASSUME ReputationConstants, Counting, TypeOK, Control, NEW w \in Workers, Step(w)
    PROVE  TypeOK'
<1>1. /\ MaxHandlers \in Nat /\ {"user", "following", "conversation", "request"} \subseteq Counters
      /\ Added \subseteq Counters /\ NoRow \in Values /\ -2..1 \subseteq Values
      /\ {"followers", "reload", "points", "following", "followed", "counted", "sums", "summed"} \subseteq Steps
    BY Zenon DEF ReputationConstants, Counters, Added, NoRow, Values, Steps
<1> USE <1>1
<1>2. ASSUME NEW j \in Jobs, rate(w, j) PROVE TypeOK'
    <2>1. rating[j.thing][j.user] \in Values
        BY JobTyped DEF TypeOK
    <2> QED
        BY <1>2, <2>1 DEF rate, Begin, Go, rows, TypeOK, Steps
<1>3. ASSUME NEW u \in Users, recalculate(w, u) PROVE TypeOK'
    <2>1. Sum(u, "conversation") \in Int
        BY Zenon, Numbers DEF Added
    <2>2. read' \in [Workers -> [Counters -> Int]]
        BY Zenon, <1>3, <2>1, ColumnWritten DEF recalculate, TypeOK
    <2> QED
        BY <1>3, <2>2 DEF recalculate, Begin, Go, rows, TypeOK, Steps
<1>4. CASE Rejected(w)
    BY <1>4, IdleApart DEF Rejected, rows, TypeOK
<1>5. CASE Saved(w)
    <2> DEFINE j == job[w]
               u == Gainer(j.thing, j.user)
               k == Kind[j.thing]
    <2>1. job[w] \in Jobs /\ at[w] = "save"
        BY <1>5 DEF Saved, Control, ControlOf
    <2>2. j.thing \in Things /\ j.user \in Users /\ j.rating \in Values /\ u \in Users
        BY Zenon, <2>1, JobTyped, GainerOwns
    <2> USE <2>2
    <2>3. k \in Added \cup {"user"}
        BY DEF ReputationConstants
    <2>4. /\ rating' = rating \/ rating' = [rating EXCEPT ![j.thing][j.user] = j.rating]
          /\ Valid(j.thing, j.user, j.rating)
          /\ \/ slip' = slip
             \/ k # "user" /\ slip' = [slip EXCEPT ![u][k] = @ + Value(rating[j.thing][j.user]) - Value(old[w])]
          /\ gainer' = [gainer EXCEPT ![w] = u]
          /\ Go(w, IF k = "user" THEN "count" ELSE "add")
          /\ UNCHANGED <<counter, point_count, job, old, read, shared, handlers, outdated>>
        BY Zenon, <1>5 DEF Saved
    <2> USE <2>4
    <2> HIDE DEF j, u, k
    <2>5. rating' \in [Things -> [Users -> Values]]
        <3>1. rating \in [Things -> [Users -> Values]]
            BY Zenon DEF TypeOK
        <3>2. [rating EXCEPT ![j.thing][j.user] = j.rating] \in [Things -> [Users -> Values]]
            BY Zenon, <3>1, ColumnWritten
        <3> QED
            BY Zenon, <3>1, <3>2
    <2>6. ASSUME NEW t \in Things, NEW v \in Users, Kind[t] = "user", v \in Owners[t]
          PROVE  rating'[t][v] = NoRow
        <3>1. rating[t][v] = NoRow /\ ~(t = j.thing /\ v = j.user)
            BY Zenon, <2>6 DEF Valid, TypeOK
        <3> QED
            BY <3>1 DEF TypeOK
    <2>7. slip' \in [Users -> [Added -> Int]]
        <3>1. rating[j.thing][j.user] \in Values /\ old[w] \in Values
            BY DEF TypeOK
        <3>2. Value(rating[j.thing][j.user]) \in Int /\ Value(old[w]) \in Int
            BY <3>1 DEF Value, NoRow, Values
        <3>3. CASE k # "user" /\ slip' = [slip EXCEPT ![u][k] = @ + Value(rating[j.thing][j.user]) - Value(old[w])]
            <4>1. slip \in [Users -> [Added -> Int]] /\ k \in Added
                BY Zenon, <2>3, <3>3 DEF TypeOK
            <4>2. slip[u][k] + Value(rating[j.thing][j.user]) - Value(old[w]) \in Int
                BY <3>2, <4>1
            <4> QED
                BY Zenon, <3>3, <4>1, <4>2, ColumnWritten
        <3> QED
            BY Zenon, <3>3 DEF TypeOK
    <2>8. at' \in [Workers -> Steps]
        BY DEF Go, TypeOK, Steps
    <2> QED
        BY Zenon, <2>5, <2>6, <2>7, <2>8 DEF TypeOK
<1>6. CASE Add(w)
    <2> USE <1>6
    <2>1. job[w] \in Jobs /\ gainer[w] \in Users /\ Kind[job[w].thing] \in Added
        BY Zenon DEF Add, Control, ControlOf
    <2> USE <2>1
    <2>2. Value(old[w]) \in Int /\ job[w].rating \in Int
        <3>1. old[w] \in Values
            BY DEF TypeOK
        <3>2. job[w].rating \in -2..1
            BY Zenon, JobTyped
        <3> QED
            BY <3>1, <3>2 DEF Value, NoRow, Values
    <2>3. Difference(w) \in Int
        BY <2>2 DEF Difference
    <2>4. counter \in [Users -> [Counters -> Int]] /\ Kind[job[w].thing] \in Counters
        BY Zenon DEF TypeOK
    <2>5. counter[gainer[w]][Kind[job[w].thing]] + Difference(w) \in Int
        BY <2>3, <2>4
    <2>6. counter' \in [Users -> [Counters -> Int]]
        BY Zenon, <2>4, <2>5, ColumnWritten DEF Add
    <2> QED
        BY Zenon, <2>6, TypedMove DEF Add, local
<1>7. CASE CountFollowers(w) \/ RecalculateCounts(w) \/ RecalculateSum(w)
    <2> USE <1>7
    <2>1. gainer[w] \in Users /\ read \in [Workers -> [Counters -> Int]]
        BY Zenon DEF CountFollowers, RecalculateCounts, RecalculateSum, Control, ControlOf, TypeOK
    <2> USE <2>1
    <2>2. /\ Likes(gainer[w], "user") \in Int /\ Following(gainer[w]) \in Int
          /\ Likes(gainer[w], "request") \in Int
        BY Numbers DEF Added
    <2> USE <2>2
    <2>3. ASSUME RecalculateCounts(w) PROVE read' \in [Workers -> [Counters -> Int]]
        <3>1. [read EXCEPT ![w]["user"] = Likes(gainer[w], "user")] \in [Workers -> [Counters -> Int]]
            BY Zenon, ColumnWritten
        <3>2. read' = [[read EXCEPT ![w]["user"] = Likes(gainer[w], "user")]
                          EXCEPT ![w]["following"] = Following(gainer[w])]
            BY Zenon, <2>3 DEF RecalculateCounts
        <3> QED
            BY Zenon, <3>1, <3>2, ColumnWritten
    <2>4. ASSUME CountFollowers(w) PROVE read' \in [Workers -> [Counters -> Int]]
        BY Zenon, <2>4, ColumnWritten DEF CountFollowers
    <2>5. ASSUME RecalculateSum(w) PROVE read' \in [Workers -> [Counters -> Int]]
        BY Zenon, <2>5, ColumnWritten DEF RecalculateSum
    <2>6. read' \in [Workers -> [Counters -> Int]]
        BY <2>3, <2>4, <2>5
    <2> QED
        BY Zenon, <2>6, TypedMove DEF CountFollowers, RecalculateCounts, RecalculateSum, rows
<1>8. CASE WriteFollowers(w)
    <2> USE <1>8
    <2>1. gainer[w] \in Users
        BY DEF WriteFollowers, Control, ControlOf
    <2>2. outdated' \subseteq Users \X {"points", "user", "following"}
        BY Zenon, <2>1, MarkTyped DEF WriteFollowers
    <2>3. read[w]["user"] \in Int /\ counter \in [Users -> [Counters -> Int]]
        BY Zenon DEF TypeOK
    <2>4. counter' \in [Users -> [Counters -> Int]]
        BY Zenon, <2>1, <2>3, ColumnWritten DEF WriteFollowers
    <2> QED
        BY Zenon, <2>2, <2>4, TypedMove DEF WriteFollowers, local, AfterFollowers
<1>9. CASE Reload(w)
    <2>1. gainer[w] \in Users
        BY <1>9 DEF Reload, Control, ControlOf
    <2>2. read' \in [Workers -> [Counters -> Int]]
        BY Zenon, <1>9, <2>1 DEF Reload, TypeOK
    <2> QED
        BY Zenon, <1>9, <2>2, TypedMove DEF Reload, rows
<1>10. CASE UpdatePoints(w)
    <2> USE <1>10
    <2>1. gainer[w] \in Users
        BY Zenon DEF UpdatePoints, Control, ControlOf
    <2>2. Points(read[w]) \in Int
        <3>1. read[w] \in [Counters -> Int]
            BY DEF TypeOK
        <3> QED
            BY <3>1 DEF Points, Counters, Added
    <2>3. outdated' \subseteq Users \X {"points", "user", "following"}
        BY Zenon, <2>1, MarkTyped DEF UpdatePoints
    <2>4. /\ point_count' = [point_count EXCEPT ![gainer[w]] = Points(read[w])]
          /\ UNCHANGED <<rating, counter, handlers, slip>> /\ at[w] = "points"
          /\ Idle(w) \/ (Go(w, "following") /\ UNCHANGED local)
        BY DEF UpdatePoints
    <2> USE <2>4
    <2>5. point_count' \in [Users -> Int]
        BY Zenon, <2>2 DEF TypeOK
    <2>6. CASE Idle(w)
        BY <2>3, <2>5, <2>6, IdleApart DEF TypeOK
    <2>7. CASE Go(w, "following") /\ UNCHANGED local
        BY Zenon, <2>3, <2>5, <2>7, TypedMove DEF local
    <2> QED
        BY Zenon, <2>6, <2>7
<1>11. CASE CountFollowing(w)
    <2> USE <1>11
    <2>1. job[w] \in Jobs
        BY DEF CountFollowing, Control, ControlOf
    <2>2. Following(job[w].user) \in Int
        BY <2>1, JobTyped, Numbers
    <2>3. read' \in [Workers -> [Counters -> Int]]
        BY Zenon, <2>2, ColumnWritten DEF CountFollowing, TypeOK
    <2> QED
        BY Zenon, <2>3, TypedMove DEF CountFollowing, rows
<1>12. CASE WriteFollowing(w)
    <2> USE <1>12
    <2>1. job[w] \in Jobs
        BY Zenon DEF WriteFollowing, Control, ControlOf
    <2>2. job[w].user \in Users
        BY <2>1, JobTyped
    <2>3. outdated' \subseteq Users \X {"points", "user", "following"}
        BY Zenon, <2>2, MarkTyped DEF WriteFollowing
    <2>4. read[w]["following"] \in Int /\ counter \in [Users -> [Counters -> Int]]
        BY Zenon DEF TypeOK
    <2>5. counter' \in [Users -> [Counters -> Int]]
        BY Zenon, <2>2, <2>4, ColumnWritten DEF WriteFollowing
    <2> QED
        BY Zenon, <2>3, <2>5, IdleApart DEF WriteFollowing, TypeOK
<1>13. CASE WriteCounts(w)
    <2> USE <1>13
    <2>1. gainer[w] \in Users
        BY DEF WriteCounts, Control, ControlOf
    <2>2. outdated' \subseteq Users \X {"points", "user", "following"}
        <3>1. /\ Mark(w, gainer[w], "user", read[w]["user"], Likes(gainer[w], "user"))
                     \subseteq Users \X {"points", "user", "following"}
              /\ Mark(w, gainer[w], "following", read[w]["following"], Following(gainer[w]))
                     \subseteq Users \X {"points", "user", "following"}
            BY Zenon, <2>1, MarkTyped
        <3> QED
            BY Zenon, <3>1 DEF WriteCounts
    <2>3. /\ read[w]["user"] \in Int /\ read[w]["following"] \in Int
          /\ counter \in [Users -> [Counters -> Int]]
        BY Zenon DEF TypeOK
    <2>4. counter' = [[counter EXCEPT ![gainer[w]]["user"] = read[w]["user"]]
                         EXCEPT ![gainer[w]]["following"] = read[w]["following"]]
        BY DEF WriteCounts
    <2>5. counter' \in [Users -> [Counters -> Int]]
        BY Zenon, <2>1, <2>3, <2>4, ColumnWritten
    <2> QED
        BY Zenon, <2>2, <2>5, TypedMove DEF WriteCounts, local
<1>14. CASE WriteSums(w)
    <2> USE <1>14
    <2>1. gainer[w] \in Users /\ read[w] \in [Counters -> Int] /\ counter \in [Users -> [Counters -> Int]]
        BY Zenon DEF WriteSums, Control, ControlOf, TypeOK
    <2>2. counter' \in [Users -> [Counters -> Int]]
        BY Zenon, <2>1 DEF WriteSums
    <2>3. slip' \in [Users -> [Added -> Int]]
        <3>1. slip \in [Users -> [Added -> Int]] /\ Added \subseteq Counters
            BY Zenon DEF TypeOK, Counters, Added
        <3>2. \A k \in Added : slip[gainer[w]][k] \in Int /\ read[w][k] \in Int /\ counter[gainer[w]][k] \in Int
            BY Zenon, <2>1, <3>1
        <3>3. [k \in Added |-> IF k \in Recalculated
                               THEN slip[gainer[w]][k] + read[w][k] - counter[gainer[w]][k]
                               ELSE slip[gainer[w]][k]] \in [Added -> Int]
            BY <3>2
        <3> QED
            BY Zenon, <2>1, <3>1, <3>3 DEF WriteSums
    <2> QED
        BY Zenon, <2>2, <2>3, TypedMove DEF WriteSums, local
<1> QED
    BY Zenon, <1>2, <1>3, <1>4, <1>5, <1>6, <1>7, <1>8, <1>9, <1>10, <1>11, <1>12, <1>13, <1>14 DEF Step

\* A number of followers that does not agree with the ratings is about to be
\* written, or was by a process that was overtaken.
LEMMA FollowersStep ==
    ASSUME ReputationConstants, Counting, TypeOK, Control, Fresh, NEW w \in Workers, Step(w),
           NEW u \in Users, FollowersAgree(u)
    PROVE  FollowersAgree(u)'
<1>1. Apart(w) /\ ControlOf(w) /\ "user" \in Counters /\ "following" \in Counters
    BY Zenon, StepApart DEF Control, Counters
<1> USE <1>1
<1>2. \A v \in Workers \ {w} : gainer'[v] = gainer[v] /\ at'[v] = at[v]
    BY DEF Apart
<1>3. ASSUME Likes(u, "user")' = Likes(u, "user"), counter'[u]["user"] = counter[u]["user"],
             <<u, "user">> \in outdated => <<u, "user">> \in outdated',
             gainer[w] = u /\ at[w] \in {"count", "followers"} =>
                gainer'[w] = u /\ at'[w] \in {"count", "followers"}
      PROVE  FollowersAgree(u)'
    BY Zenon, <1>2, <1>3 DEF FollowersAgree
<1> USE <1>3
<1>4. rating' = rating => Likes(u, "user")' = Likes(u, "user")
    BY Zenon DEF Likes
<1> USE <1>4
<1>5. ASSUME NEW j \in Jobs, rate(w, j) PROVE FollowersAgree(u)'
    BY <1>5 DEF rate, Begin, rows
<1>6. ASSUME NEW v \in Users, recalculate(w, v) PROVE FollowersAgree(u)'
    BY Zenon, <1>6 DEF recalculate, Begin, rows
<1>7. CASE Rejected(w) \/ CountFollowing(w) \/ RecalculateCounts(w) \/ Reload(w) \/ RecalculateSum(w)
    BY Zenon, <1>7 DEF Rejected, CountFollowing, RecalculateCounts, Reload, RecalculateSum, rows
<1>8. CASE CountFollowers(w)
    BY <1>8 DEF CountFollowers, rows, Go, TypeOK
<1>9. CASE Saved(w)
    <2> USE <1>9
    <2>1. job[w] \in Jobs
        BY Zenon DEF Saved, ControlOf
    <2>2. CASE Kind[job[w].thing] = "user" /\ u = gainer'[w]
        <3>1. at'[w] = "count"
            BY Zenon, <2>1, <2>2, SavedCounts
        <3> QED
            BY Zenon, <2>2, <3>1 DEF FollowersAgree
    <2>3. CASE ~(Kind[job[w].thing] = "user" /\ u = gainer'[w])
        <3>1. Likes(u, "user")' = Likes(u, "user") /\ counter' = counter /\ outdated' = outdated
              /\ at[w] = "save"
            BY Zenon, <2>1, <2>3, SavedCounts
        <3> QED
            BY <3>1
    <2> QED
        BY Zenon, <2>2, <2>3
<1>10. CASE Add(w) \/ WriteSums(w) \/ WriteFollowing(w) \/ UpdatePoints(w)
    <2> USE <1>10
    <2>1. rating' = rating /\ at[w] \notin {"count", "followers"}
        BY Zenon DEF Add, WriteSums, WriteFollowing, UpdatePoints
    <2>2. <<u, "user">> \in outdated => <<u, "user">> \in outdated'
        BY DEF Add, WriteSums, WriteFollowing, UpdatePoints, Mark
    <2>3. counter'[u]["user"] = counter[u]["user"]
        <3>1. CASE Add(w)
            <4>1. Kind[job[w].thing] # "user"
                BY Zenon, <3>1 DEF Add, ControlOf, Added
            <4> QED
                BY Zenon, <3>1, <4>1 DEF Add, TypeOK
        <3>2. CASE WriteSums(w)
            BY Zenon, <3>2 DEF WriteSums, TypeOK, Recalculated
        <3>3. CASE WriteFollowing(w)
            BY Zenon, <3>3 DEF WriteFollowing, TypeOK
        <3>4. CASE UpdatePoints(w)
            BY Zenon, <3>4 DEF UpdatePoints
        <3> QED
            BY Zenon, <3>1, <3>2, <3>3, <3>4
    <2> QED
        BY Zenon, <2>1, <2>2, <2>3
<1>11. CASE WriteFollowers(w) \/ WriteCounts(w)
    <2> USE <1>11
    <2>1. rating' = rating /\ at[w] \in {"followers", "counted"} /\ gainer[w] \in Users
        BY DEF WriteFollowers, WriteCounts, ControlOf
    <2> USE <2>1
    <2>2. CASE gainer[w] # u
        <3> USE <2>2
        <3>1. counter'[u] = counter[u]
            BY Zenon DEF WriteFollowers, WriteCounts, TypeOK
        <3>2. <<u, "user">> \in outdated => <<u, "user">> \in outdated'
            BY DEF WriteFollowers, WriteCounts, Mark
        <3> QED
            BY Zenon, <3>1, <3>2
    <2>3. CASE gainer[w] = u
        <3> USE <2>3
        <3>1. counter'[u]["user"] = read[w]["user"]
            BY DEF WriteFollowers, WriteCounts, TypeOK
        <3>2. w \notin shared => read[w]["user"] = Likes(u, "user")
            BY Zenon DEF Fresh, FreshOf
        <3>3. read[w]["user"] # Likes(u, "user") => <<u, "user">> \in outdated'
            BY Zenon, <3>2 DEF WriteFollowers, WriteCounts, Mark
        <3> QED
            BY Zenon, <3>1, <3>3 DEF FollowersAgree
    <2> QED
        BY Zenon, <2>2, <2>3
<1> QED
    BY Zenon, <1>5, <1>6, <1>7, <1>8, <1>9, <1>10, <1>11 DEF Step

\* The same for the number of those a user follows.
LEMMA FollowingStep ==
    ASSUME ReputationConstants, Counting, TypeOK, Control, Fresh, NEW w \in Workers, Step(w),
           NEW u \in Users, FollowingAgrees(u)
    PROVE  FollowingAgrees(u)'
<1>1. Apart(w) /\ ControlOf(w) /\ "user" \in Counters /\ "following" \in Counters
    BY StepApart DEF Control, Counters
<1> USE <1>1
<1>2. \A v \in Workers \ {w} : Follows(v, u)' <=> Follows(v, u)
    BY Zenon DEF Apart, Follows
<1>3. ASSUME Following(u)' = Following(u), counter'[u]["following"] = counter[u]["following"],
             <<u, "following">> \in outdated => <<u, "following">> \in outdated',
             Follows(w, u) => Follows(w, u)'
      PROVE  FollowingAgrees(u)'
    BY Zenon, <1>2, <1>3 DEF FollowingAgrees
<1> USE <1>3
<1>4. rating' = rating => Following(u)' = Following(u)
    BY Zenon DEF Following
<1> USE <1>4
<1>5. ASSUME NEW j \in Jobs, rate(w, j) PROVE FollowingAgrees(u)'
    BY Zenon, <1>5 DEF rate, Begin, rows, Follows
<1>6. ASSUME NEW v \in Users, recalculate(w, v) PROVE FollowingAgrees(u)'
    BY Zenon, <1>6 DEF recalculate, Begin, rows, Follows
<1>7. CASE Rejected(w) \/ RecalculateCounts(w) \/ RecalculateSum(w)
    BY <1>7 DEF Rejected, RecalculateCounts, RecalculateSum, rows, Follows
<1>8. CASE CountFollowers(w) \/ CountFollowing(w) \/ Reload(w)
    BY Zenon, <1>8 DEF CountFollowers, CountFollowing, Reload, rows, Go, TypeOK, Follows
<1>9. CASE Saved(w)
    <2> USE <1>9
    <2>1. job[w] \in Jobs
        BY DEF Saved, ControlOf
    <2> USE <2>1
    <2>2. CASE Kind[job[w].thing] = "user" /\ u = job[w].user
        <3>1. at'[w] = "count" /\ job' = job
            BY Zenon, <2>2, SavedCounts
        <3> QED
            BY Zenon, <2>2, <3>1 DEF FollowingAgrees, Follows
    <2>3. CASE ~(Kind[job[w].thing] = "user" /\ u = job[w].user)
        <3>1. Following(u)' = Following(u) /\ counter' = counter /\ outdated' = outdated
              /\ at[w] = "save"
            BY Zenon, <2>3, SavedCounts
        <3> QED
            BY Zenon, <3>1 DEF Follows
    <2> QED
        BY Zenon, <2>2, <2>3
<1>10. CASE Add(w) \/ WriteSums(w) \/ WriteFollowers(w) \/ UpdatePoints(w)
    <2> USE <1>10
    <2>1. rating' = rating
        BY DEF Add, WriteSums, WriteFollowers, UpdatePoints
    <2>2. Follows(w, u) => Follows(w, u)'
        <3>1. Add(w) \/ WriteSums(w) => ~Follows(w, u)
            BY Zenon DEF Add, WriteSums, Follows
        <3>2. ASSUME WriteFollowers(w) PROVE Follows(w, u) => Follows(w, u)'
            BY Zenon, <3>2 DEF WriteFollowers, Follows, Go, local, AfterFollowers, TypeOK
        <3>3. ASSUME UpdatePoints(w), Follows(w, u) PROVE Follows(w, u)'
            <4>1. job[w] # NoJob /\ Kind[job[w].thing] = "user"
                BY Zenon, <3>3, JobTyped DEF Follows
            <4> QED
                BY Zenon, <3>3, <4>1 DEF UpdatePoints, Follows, Go, local, TypeOK
        <3> QED
            BY Zenon, <3>1, <3>2, <3>3
    <2>3. <<u, "following">> \in outdated => <<u, "following">> \in outdated'
        BY Zenon DEF Add, WriteSums, WriteFollowers, UpdatePoints, Mark
    <2>4. counter'[u]["following"] = counter[u]["following"]
        <3>1. CASE Add(w)
            <4>1. Kind[job[w].thing] # "following"
                BY Zenon, <3>1 DEF Add, ControlOf, Added
            <4> QED
                BY Zenon, <3>1, <4>1 DEF Add, TypeOK
        <3>2. CASE WriteSums(w)
            BY Zenon, <3>2 DEF WriteSums, TypeOK, Recalculated
        <3>3. CASE WriteFollowers(w)
            BY Zenon, <3>3 DEF WriteFollowers, TypeOK
        <3>4. CASE UpdatePoints(w)
            BY Zenon, <3>4 DEF UpdatePoints
        <3> QED
            BY Zenon, <3>1, <3>2, <3>3, <3>4
    <2> QED
        BY Zenon, <2>1, <2>2, <2>3, <2>4
<1>11. CASE WriteFollowing(w)
    <2>1. rating' = rating /\ at[w] = "followed" /\ job[w] \in Jobs
          /\ counter' = [counter EXCEPT ![job[w].user]["following"] = read[w]["following"]]
          /\ outdated' = Mark(w, job[w].user, "following", read[w]["following"], Following(job[w].user))
        BY Zenon, <1>11 DEF WriteFollowing, ControlOf
    <2> USE <2>1
    <2>2. CASE job[w].user # u
        BY Zenon, <2>2 DEF Mark, TypeOK, Follows
    <2>3. CASE job[w].user = u
        <3> USE <2>3
        <3>1. counter'[u]["following"] = read[w]["following"]
            BY Zenon DEF TypeOK
        <3>2. w \notin shared => read[w]["following"] = Following(u)
            BY DEF Fresh, FreshOf
        <3>3. read[w]["following"] # Following(u) => <<u, "following">> \in outdated'
            BY Zenon, <3>2 DEF Mark
        <3> QED
            BY Zenon, <3>1, <3>3 DEF FollowingAgrees
    <2> QED
        BY Zenon, <2>2, <2>3
<1>12. CASE WriteCounts(w)
    <2> USE <1>12
    <2>1. rating' = rating /\ at[w] = "counted" /\ ~Follows(w, u)
        BY Zenon DEF WriteCounts, Follows
    <2> USE <2>1
    <2>2. CASE gainer[w] # u
        <3>1. counter'[u] = counter[u]
            BY Zenon, <2>2 DEF WriteCounts, TypeOK
        <3>2. <<u, "following">> \in outdated => <<u, "following">> \in outdated'
            BY <2>2 DEF WriteCounts, Mark
        <3> QED
            BY Zenon, <3>1, <3>2
    <2>3. CASE gainer[w] = u
        <3> USE <2>3
        <3>1. counter'[u]["following"] = read[w]["following"]
            BY Zenon DEF WriteCounts, TypeOK
        <3>2. w \notin shared => read[w]["following"] = Following(u)
            BY Zenon DEF Fresh, FreshOf
        <3>3. read[w]["following"] # Following(u) => <<u, "following">> \in outdated'
            BY Zenon, <3>2 DEF WriteCounts, Mark
        <3> QED
            BY Zenon, <3>1, <3>3 DEF FollowingAgrees
    <2> QED
        BY Zenon, <2>2, <2>3
<1> QED
    BY Zenon, <1>5, <1>6, <1>7, <1>8, <1>9, <1>10, <1>11, <1>12 DEF Step

\* What a process that does not add, before and after, leaves of the pending sums.
LEMMA QuietPending ==
    ASSUME NEW w \in Workers, Apart(w), at[w] # "add", at'[w] # "add", NEW u, NEW k
    PROVE  Pending(u, k)' = Pending(u, k)
<1>1. Adding(u, k)' = Adding(u, k)
    BY Zenon DEF Adding, Apart
<1>2. w \notin Adding(u, k) /\ Adding(u, k) \subseteq Workers
    BY DEF Adding
<1>3. \A v \in Adding(u, k) : job'[v] = job[v] /\ old'[v] = old[v]
    BY Zenon, <1>2 DEF Apart
<1>4. Total(Adding(u, k), old') = Total(Adding(u, k), old)
    BY <1>3, TotalSame
<1>5. Total(Adding(u, k), [v \in Workers |-> job'[v].rating])
        = Total(Adding(u, k), [v \in Workers |-> job[v].rating])
    <2>1. \A v \in Adding(u, k) : [x \in Workers |-> job'[x].rating][v] = [x \in Workers |-> job[x].rating][v]
        BY <1>2, <1>3
    <2> QED
        BY Zenon, <2>1, TotalSame
<1>6. /\ Total(Adding(u, k), old)' = Total(Adding(u, k)', old')
      /\ Total(Adding(u, k), [v \in Workers |-> job[v].rating])'
            = Total(Adding(u, k)', [v \in Workers |-> job'[v].rating])
    BY Zenon DEF Total, Having
<1> QED
    BY Zenon, <1>1, <1>4, <1>5, <1>6 DEF Pending

\* What a process adds is pending before, or after.
LEMMA MorePending ==
    ASSUME Counting, NEW S, IsFiniteSet(S), NEW w, w \notin S, NEW f, NEW g,
           f[w] \in -2..1, g[w] \in Values
    PROVE  Total(S \cup {w}, f) - Total(S \cup {w}, g)
                = Total(S, f) - Total(S, g) + f[w] - Value(g[w])
<1>1. f[w] \in Values /\ f[w] \in Int /\ Value(f[w]) = f[w] /\ Value(g[w]) \in Int
    BY DEF Values, NoRow, Value
<1>2. Total(S, f) \in Int /\ Total(S, g) \in Int
    BY Zenon, TotalTyped
<1>3. Total(S \cup {w}, f) = Total(S, f) + Value(f[w])
    BY <1>1, TotalMore
<1>4. Total(S \cup {w}, g) = Total(S, g) + Value(g[w])
    BY Zenon, TotalMore
<1> QED
    BY <1>1, <1>2, <1>3, <1>4

\* The pending sum that a process about to add, or its adding, makes different.
LEMMA PendingMoves ==
    ASSUME ReputationConstants, Counting, TypeOK, TypeOK', NEW w \in Workers, Apart(w),
           UNCHANGED <<job, old>>, job[w] \in Jobs, NEW u, NEW k
    PROVE  /\ at[w] # "add" /\ at'[w] = "add" =>
                Pending(u, k)' = IF gainer'[w] = u /\ Kind[job[w].thing] = k
                                 THEN Pending(u, k) + job[w].rating - Value(old[w]) ELSE Pending(u, k)
           /\ at[w] = "add" /\ at'[w] # "add" =>
                Pending(u, k) = IF gainer[w] = u /\ Kind[job[w].thing] = k
                                THEN Pending(u, k)' + job[w].rating - Value(old[w]) ELSE Pending(u, k)'
           /\ Pending(u, k) \in Int /\ Pending(u, k)' \in Int
<1> DEFINE A == Adding(u, k)
           f == [v \in Workers |-> job[v].rating]
           here == Kind[job[w].thing] = k
<1>1. A \subseteq Workers /\ A' \subseteq Workers
    BY Zenon DEF Adding
<1>2. IsFiniteSet(A) /\ IsFiniteSet(A')
    BY <1>1, PartCounted DEF ReputationConstants
<1>3. f[w] = job[w].rating /\ f[w] \in -2..1 /\ old[w] \in Values
    BY Zenon, JobTyped DEF TypeOK
<1>4. Pending(u, k) = Total(A, f) - Total(A, old) /\ Pending(u, k)' = Total(A', f) - Total(A', old)
    BY Zenon DEF Pending, Total, Having
<1>5. Pending(u, k) \in Int /\ Pending(u, k)' \in Int
    BY <1>2, <1>4, TotalTyped
<1>6. ASSUME at[w] # "add", at'[w] = "add"
      PROVE  w \notin A /\ A' = IF gainer'[w] = u /\ here THEN A \cup {w} ELSE A
    BY Zenon, <1>6 DEF Adding, Apart
<1>7. ASSUME at[w] = "add", at'[w] # "add"
      PROVE  w \notin A' /\ A = IF gainer[w] = u /\ here THEN A' \cup {w} ELSE A'
    BY Zenon, <1>7 DEF Adding, Apart
<1> HIDE DEF A, f, here
<1>8. ASSUME at[w] # "add", at'[w] = "add"
      PROVE  Pending(u, k)' = IF gainer'[w] = u /\ here
                              THEN Pending(u, k) + job[w].rating - Value(old[w]) ELSE Pending(u, k)
    <2>1. CASE gainer'[w] = u /\ here
        <3>1. IsFiniteSet(A) /\ w \notin A
            BY <1>2, <1>6, <1>8
        <3>2. f[w] \in -2..1 /\ old[w] \in Values
            BY Zenon, <1>3
        <3>3. Total(A \cup {w}, f) - Total(A \cup {w}, old)
                = Total(A, f) - Total(A, old) + f[w] - Value(old[w])
            BY <3>1, <3>2, MorePending
        <3> QED
            BY Zenon, <1>3, <1>4, <1>6, <1>8, <2>1, <3>3
    <2>2. CASE ~(gainer'[w] = u /\ here)
        BY Zenon, <1>4, <1>6, <1>8, <2>2
    <2> QED
        BY Zenon, <2>1, <2>2
<1>9. ASSUME at[w] = "add", at'[w] # "add"
      PROVE  Pending(u, k) = IF gainer[w] = u /\ here
                             THEN Pending(u, k)' + job[w].rating - Value(old[w]) ELSE Pending(u, k)'
    <2>1. CASE gainer[w] = u /\ here
        <3>1. IsFiniteSet(A') /\ w \notin A'
            BY Zenon, <1>2, <1>7, <1>9
        <3>2. f[w] \in -2..1 /\ old[w] \in Values
            BY Zenon, <1>3
        <3>3. Total(A' \cup {w}, f) - Total(A' \cup {w}, old)
                = Total(A', f) - Total(A', old) + f[w] - Value(old[w])
            BY <3>1, <3>2, MorePending
        <3> QED
            BY Zenon, <1>3, <1>4, <1>7, <1>9, <2>1, <3>3
    <2>2. CASE ~(gainer[w] = u /\ here)
        BY Zenon, <1>4, <1>7, <1>9, <2>2
    <2> QED
        BY Zenon, <2>1, <2>2
<1> QED
    BY <1>5, <1>8, <1>9 DEF here

\* What is pending is a number.
LEMMA PendingTyped ==
    ASSUME ReputationConstants, Counting, NEW u, NEW k
    PROVE  Pending(u, k) \in Int
<1>1. IsFiniteSet(Adding(u, k))
    BY Zenon, PartCounted DEF Adding, ReputationConstants
<1> QED
    BY <1>1, TotalTyped DEF Pending

\* What a saved rating changes of the sums.
LEMMA SumSaved ==
    ASSUME ReputationConstants, Counting, TypeOK, NEW w \in Workers, Saved(w), job[w] \in Jobs,
           NEW u \in Users, NEW k \in Added
    PROVE  Sum(u, k)' = IF u = Gainer(job[w].thing, job[w].user) /\ k = Kind[job[w].thing]
                           /\ old[w] # job[w].rating
                        THEN Sum(u, k) - Value(rating[job[w].thing][job[w].user]) + job[w].rating
                        ELSE Sum(u, k)
<1> DEFINE t == job[w].thing
           v == job[w].user
           S == RatingsFor(u, k)
<1>1. t \in Things /\ v \in Users /\ job[w].rating \in -2..1
    BY Zenon, JobTyped
<1>2. /\ S \subseteq Things \X Users /\ IsFiniteSet(S)
      /\ <<t, v>> \in S <=> Kind[t] = k /\ u = Gainer(t, v)
    BY <1>1, RatingsOf
<1>3. Sum(u, k) = Total(S, Rated) /\ Sum(u, k)' = Total(S, Rated')
    BY Zenon DEF Sum, Total, Having
<1>4. rating' = IF old[w] = job[w].rating THEN rating ELSE [rating EXCEPT ![t][v] = job[w].rating]
    BY DEF Saved
<1>5. CASE old[w] = job[w].rating
    <2>1. Rated' = Rated
        BY <1>4, <1>5 DEF Rated
    <2> QED
        BY Zenon, <1>3, <1>5, <2>1
<1>6. CASE old[w] # job[w].rating
    <2>1. /\ Rated[<<t, v>>] = rating[t][v] /\ Rated'[<<t, v>>] = job[w].rating
          /\ \A p \in (Things \X Users) \ {<<t, v>>} : Rated'[p] = Rated[p]
        <3> HIDE DEF t, v, S
        <3>1. rating' = [rating EXCEPT ![t][v] = job[w].rating]
            BY Zenon, <1>4, <1>6
        <3>2. rating'[t][v] = job[w].rating
            BY <1>1, <3>1 DEF TypeOK
        <3>3. \A x \in Things, y \in Users : x # t \/ y # v => rating'[x][y] = rating[x][y]
            BY <1>1, <3>1 DEF TypeOK
        <3>4. \A x \in Things, y \in Users : Rated[<<x, y>>] = rating[x][y] /\ Rated'[<<x, y>>] = rating'[x][y]
            BY DEF Rated
        <3>5. ASSUME NEW p \in (Things \X Users) \ {<<t, v>>}
              PROVE  Rated'[p] = Rated[p]
            <4>1. PICK x \in Things, y \in Users : p = <<x, y>>
                OBVIOUS
            <4>2. x # t \/ y # v
                BY <3>5, <4>1
            <4>3. rating'[x][y] = rating[x][y]
                BY Zenon, <3>3, <4>2
            <4>4. Rated[<<x, y>>] = rating[x][y] /\ Rated'[<<x, y>>] = rating'[x][y]
                BY Zenon, <3>4
            <4>5. Rated'[<<x, y>>] = Rated[<<x, y>>]
                BY <4>3, <4>4
            <4> QED
                BY <4>1, <4>5
        <3> QED
            BY Zenon, <1>1, <3>2, <3>4, <3>5
    <2>2. rating[t][v] \in Values /\ job[w].rating \in Values /\ Value(job[w].rating) = job[w].rating
        BY <1>1 DEF TypeOK, Values, Value, NoRow
    <2> HIDE DEF t, v, S
    <2>3. CASE <<t, v>> \in S
        <3>1. \A p \in S \ {<<t, v>>} : Rated[p] = Rated'[p]
            BY Zenon, <1>2, <2>1
        <3>2. Total(S, Rated') = Total(S, Rated) - Value(Rated[<<t, v>>]) + Value(Rated'[<<t, v>>])
            BY <1>2, <2>1, <2>2, <2>3, <3>1, TotalMoved
        <3> QED
            BY Zenon, <1>2, <1>3, <1>6, <2>1, <2>2, <2>3, <3>2 DEF t, v
    <2>4. CASE <<t, v>> \notin S
        <3>1. \A p \in S : Rated'[p] = Rated[p]
            BY <1>2, <2>1, <2>4
        <3>2. Total(S, Rated') = Total(S, Rated)
            BY Zenon, <3>1, TotalSame
        <3> QED
            BY Zenon, <1>2, <1>3, <2>4, <3>2 DEF t, v
    <2> QED
        BY Zenon, <2>3, <2>4
<1> QED
    BY Zenon, <1>5, <1>6

\* Counters and what is pending balance the ratings, after every step.
LEMMA BalanceStep ==
    ASSUME ReputationConstants, Counting, TypeOK, TypeOK', Control, NEW w \in Workers, Step(w),
           NEW u \in Users, NEW k \in Added,
           counter[u][k] + Pending(u, k) = Sum(u, k) + slip[u][k]
    PROVE  counter'[u][k] + Pending(u, k)' = Sum(u, k)' + slip'[u][k]
<1>1. Apart(w) /\ ControlOf(w) /\ k \in Counters /\ k \notin {"user", "following"}
    BY Zenon, StepApart DEF Control, Counters, Added
<1>2. rating' = rating => Sum(u, k)' = Sum(u, k)
    BY Zenon DEF Sum, Rated, Total, Having
<1>3. ASSUME rating' = rating, counter'[u][k] = counter[u][k], slip' = slip, at[w] # "add", at'[w] # "add"
      PROVE  counter'[u][k] + Pending(u, k)' = Sum(u, k)' + slip'[u][k]
    BY Zenon, <1>1, <1>2, <1>3, QuietPending
<1>4. Sum(u, k) \in Int /\ counter[u][k] \in Int /\ slip[u][k] \in Int
    BY <1>1, Numbers DEF TypeOK
<1>5. ASSUME NEW j \in Jobs, rate(w, j) PROVE counter'[u][k] + Pending(u, k)' = Sum(u, k)' + slip'[u][k]
    BY Zenon, <1>3, <1>5 DEF rate, Begin, rows, Go, TypeOK
<1>6. ASSUME NEW v \in Users, recalculate(w, v)
      PROVE  counter'[u][k] + Pending(u, k)' = Sum(u, k)' + slip'[u][k]
    BY Zenon, <1>3, <1>6 DEF recalculate, Begin, rows, Go, TypeOK
<1>7. CASE CountFollowers(w) \/ CountFollowing(w) \/ RecalculateCounts(w) \/ Reload(w) \/ RecalculateSum(w)
    BY Zenon, <1>3, <1>7 DEF CountFollowers, CountFollowing, RecalculateCounts, Reload, RecalculateSum, rows,
        Go, TypeOK
<1>8. CASE Rejected(w) \/ UpdatePoints(w)
    BY Zenon, <1>3, <1>8 DEF Rejected, UpdatePoints, Idle, rows, Go, TypeOK
<1>9. CASE WriteFollowers(w) \/ WriteFollowing(w) \/ WriteCounts(w)
    <2>1. counter'[u][k] = counter[u][k]
        <3>1. counter \in [Users -> [Counters -> Int]]
            BY DEF TypeOK
        <3>2. CASE WriteFollowers(w)
            BY Zenon, <1>1, <3>1, <3>2 DEF WriteFollowers
        <3>3. CASE WriteFollowing(w)
            BY Zenon, <1>1, <3>1, <3>3 DEF WriteFollowing
        <3>4. CASE WriteCounts(w)
            BY Zenon, <1>1, <3>1, <3>4 DEF WriteCounts
        <3> QED
            BY Zenon, <1>9, <3>2, <3>3, <3>4
    <2>2. at[w] # "add" /\ at'[w] # "add" /\ rating' = rating /\ slip' = slip
        BY Zenon, <1>9 DEF WriteFollowers, WriteFollowing, WriteCounts, Idle, Go, TypeOK, AfterFollowers
    <2> QED
        BY Zenon, <1>3, <2>1, <2>2
<1>10. CASE WriteSums(w)
    <2>1. at[w] # "add" /\ at'[w] # "add" /\ rating' = rating /\ gainer[w] \in Users
        BY Zenon, <1>1, <1>10 DEF WriteSums, Go, TypeOK, ControlOf
    <2>2. Pending(u, k)' = Pending(u, k)
        BY <1>1, <2>1, QuietPending
    <2>3. CASE gainer[w] # u \/ k \notin Recalculated
        <3>1. counter'[u][k] = counter[u][k] /\ slip'[u][k] = slip[u][k]
            BY Zenon, <1>1, <1>10, <2>3 DEF WriteSums, TypeOK
        <3> QED
            BY Zenon, <1>2, <2>1, <2>2, <3>1
    <2>4. CASE gainer[w] = u /\ k \in Recalculated
        <3>1. counter'[u][k] = read[w][k] /\ slip'[u][k] = slip[u][k] + read[w][k] - counter[u][k]
            BY Zenon, <1>1, <1>10, <2>4 DEF WriteSums, TypeOK
        <3>2. read[w][k] \in Int
            BY <1>1 DEF TypeOK
        <3>3. Pending(u, k) = Sum(u, k) + slip[u][k] - counter[u][k]
            <4>1. Pending(u, k) \in Int
                BY Zenon, PendingTyped
            <4> QED
                BY <1>4, <4>1
        <3> QED
            BY <1>2, <1>4, <2>1, <2>2, <3>1, <3>2, <3>3
    <2> QED
        BY Zenon, <2>3, <2>4
<1>11. CASE Add(w)
    <2>1. /\ job[w] \in Jobs /\ at[w] = "add" /\ at'[w] # "add" /\ rating' = rating /\ slip' = slip
          /\ UNCHANGED <<job, old>> /\ gainer[w] \in Users
          /\ counter' = [counter EXCEPT ![gainer[w]][Kind[job[w].thing]] = @ + Difference(w)]
        BY Zenon, <1>1, <1>11 DEF Add, ControlOf, local, Go, TypeOK
    <2>2. /\ Pending(u, k) = IF gainer[w] = u /\ Kind[job[w].thing] = k
                             THEN Pending(u, k)' + job[w].rating - Value(old[w]) ELSE Pending(u, k)'
          /\ Pending(u, k)' \in Int
        BY <1>1, <2>1, PendingMoves
    <2>3. counter'[u][k] = IF gainer[w] = u /\ Kind[job[w].thing] = k
                           THEN counter[u][k] + Difference(w) ELSE counter[u][k]
        BY Zenon, <1>1, <2>1 DEF TypeOK
    <2>4. Difference(w) = job[w].rating - Value(old[w]) /\ job[w].rating \in Int /\ Value(old[w]) \in Int
        <3>1. old[w] \in Values /\ job[w].rating \in -2..1
            BY Zenon, <2>1, JobTyped DEF TypeOK
        <3> QED
            BY <3>1 DEF Difference, Value, Values, NoRow
    <2> QED
        BY <1>2, <1>4, <2>1, <2>2, <2>3, <2>4
<1>12. CASE Saved(w)
    <2> DEFINE g == Gainer(job[w].thing, job[w].user)
               now == rating[job[w].thing][job[w].user]
    <2>1. /\ job[w] \in Jobs /\ at[w] = "save" /\ gainer'[w] = g /\ UNCHANGED <<job, old, counter>>
          /\ at'[w] = IF Kind[job[w].thing] = "user" THEN "count" ELSE "add"
          /\ slip' = IF Kind[job[w].thing] = "user" \/ old[w] = job[w].rating THEN slip
                     ELSE [slip EXCEPT ![g][Kind[job[w].thing]] = @ + Value(now) - Value(old[w])]
        <3>1. job[w] \in Jobs /\ at[w] = "save"
            BY <1>1, <1>12 DEF Saved, ControlOf
        <3>2. /\ gainer' = [gainer EXCEPT ![w] = g] /\ UNCHANGED <<job, old, counter>>
              /\ at' = [at EXCEPT ![w] = IF Kind[job[w].thing] = "user" THEN "count" ELSE "add"]
            BY Zenon, <1>12 DEF Saved, Go
        <3>3. gainer'[w] = g /\ at'[w] = IF Kind[job[w].thing] = "user" THEN "count" ELSE "add"
            BY Zenon, <3>2 DEF TypeOK
        <3>4. slip' = IF Kind[job[w].thing] = "user" \/ old[w] = job[w].rating THEN slip
                      ELSE [slip EXCEPT ![g][Kind[job[w].thing]] = @ + Value(now) - Value(old[w])]
            BY Zenon, <1>12 DEF Saved
        <3> QED
            BY Zenon, <3>1, <3>2, <3>3, <3>4
    <2>2. Sum(u, k)' = IF u = g /\ k = Kind[job[w].thing] /\ old[w] # job[w].rating
                       THEN Sum(u, k) - Value(now) + job[w].rating ELSE Sum(u, k)
        BY <1>12, <2>1, SumSaved
    <2>3. /\ old[w] \in Values /\ job[w].rating \in -2..1 /\ now \in Values /\ g \in Users
          /\ Kind[job[w].thing] \in Added \cup {"user"}
        <3>1. job[w].thing \in Things /\ job[w].user \in Users /\ job[w].rating \in -2..1
            BY Zenon, <2>1, JobTyped
        <3>2. old[w] \in Values /\ now \in Values
            BY Zenon, <3>1 DEF TypeOK
        <3>3. g \in Users
            BY Zenon, <3>1, GainerOwns
        <3>4. Kind[job[w].thing] \in Added \cup {"user"}
            BY Zenon, <3>1 DEF ReputationConstants
        <3> QED
            BY Zenon, <3>1, <3>2, <3>3, <3>4
    <2>4. /\ Value(old[w]) \in Int /\ job[w].rating \in Int /\ Value(now) \in Int
          /\ old[w] = job[w].rating => Value(old[w]) = job[w].rating
        BY <2>3 DEF Value, Values, NoRow
    <2> HIDE DEF g, now
    <2>5. CASE Kind[job[w].thing] = "user"
        BY Zenon, <1>1, <2>1, <2>2, <2>5, QuietPending
    <2>6. CASE Kind[job[w].thing] # "user"
        <3>1. /\ Pending(u, k)' = IF g = u /\ Kind[job[w].thing] = k
                                  THEN Pending(u, k) + job[w].rating - Value(old[w]) ELSE Pending(u, k)
              /\ Pending(u, k) \in Int
            <4>1. at[w] # "add" /\ at'[w] = "add" /\ gainer'[w] = g /\ UNCHANGED <<job, old>> /\ job[w] \in Jobs
                BY Zenon, <2>1, <2>6
            <4>2. /\ Pending(u, k)' = IF gainer'[w] = u /\ Kind[job[w].thing] = k
                                      THEN Pending(u, k) + job[w].rating - Value(old[w]) ELSE Pending(u, k)
                  /\ Pending(u, k) \in Int
                BY Zenon, <1>1, <4>1, PendingMoves
            <4> QED
                BY Zenon, <4>1, <4>2
        <3>2. slip'[u][k] = IF g = u /\ Kind[job[w].thing] = k /\ old[w] # job[w].rating
                            THEN slip[u][k] + Value(now) - Value(old[w]) ELSE slip[u][k]
            BY <2>1, <2>3, <2>6 DEF TypeOK
        <3> QED
            <4> DEFINE here == g = u /\ Kind[job[w].thing] = k
            <4>1. counter'[u][k] = counter[u][k]
                BY Zenon, <2>1
            <4>2. CASE ~here
                BY Zenon, <2>2, <3>1, <3>2, <4>1, <4>2
            <4>3. CASE here /\ old[w] = job[w].rating
                <5>1. /\ Pending(u, k)' = Pending(u, k) + job[w].rating - Value(old[w])
                      /\ Sum(u, k)' = Sum(u, k) /\ slip'[u][k] = slip[u][k]
                    BY Zenon, <2>2, <3>1, <3>2, <4>3
                <5>2. Value(old[w]) = job[w].rating
                    BY Zenon, <2>4, <4>3
                <5>3. Pending(u, k)' = Pending(u, k)
                    <6>1. Pending(u, k)' = Pending(u, k) + job[w].rating - job[w].rating
                        BY Zenon, <5>1, <5>2
                    <6>2. Pending(u, k) \in Int /\ job[w].rating \in Int
                        BY Zenon, <2>4, <3>1
                    <6> QED
                        BY <6>1, <6>2
                <5> QED
                    BY Zenon, <4>1, <5>1, <5>3
            <4>4. CASE here /\ old[w] # job[w].rating
                <5>1. /\ Pending(u, k)' = Pending(u, k) + job[w].rating - Value(old[w])
                      /\ Sum(u, k)' = Sum(u, k) - Value(now) + job[w].rating
                      /\ slip'[u][k] = slip[u][k] + Value(now) - Value(old[w])
                    BY Zenon, <2>2, <3>1, <3>2, <4>4
                <5> QED
                    BY <1>4, <2>4, <3>1, <4>1, <5>1
            <4> QED
                BY Zenon, <4>2, <4>3, <4>4
    <2> QED
        BY <2>5, <2>6
<1> QED
    BY Zenon, <1>5, <1>6, <1>7, <1>8, <1>9, <1>10, <1>11, <1>12 DEF Step

\* What the program starts with: counters that were counted, and nothing running.
LEMMA InitTyped ==
    ASSUME ReputationConstants, Counting, Init
    PROVE  TypeOK
<1>1. \A t \in Things, u \in Users : rating[t][u] = IF <<t, u>> \in Liked THEN 1 ELSE NoRow
    BY Zenon DEF Init
<1>2. rating \in [Things -> [Users -> Values]]
    <2>1. 1 \in Values /\ NoRow \in Values
        BY DEF Values, NoRow
    <2> QED
        BY <2>1 DEF Init
<1>3. ASSUME NEW t \in Things, NEW u \in Users, Kind[t] = "user", u \in Owners[t]
      PROVE  rating[t][u] = NoRow
    <2>1. <<t, u>> \notin Liked
        <3>1. SUFFICES ASSUME <<t, u>> \in Liked PROVE FALSE
            OBVIOUS
        <3>2. Valid(t, u, 1)
            BY Zenon, <3>1 DEF ReputationConstants
        <3> QED
            BY <1>3, <3>2 DEF Valid
    <2> QED
        BY <1>1, <2>1
<1>4. \A u \in Users : /\ counter[u] \in [Counters -> Int]
                       /\ \A c \in Counters : counter[u][c] = IF c = "following" THEN Following(u) ELSE Likes(u, c)
    <2>1. ASSUME NEW u \in Users, NEW c \in Counters
          PROVE  (IF c = "following" THEN Following(u) ELSE Likes(u, c)) \in Int
        BY Numbers DEF Counters
    <2> QED
        BY <2>1 DEF Init
<1>5. counter \in [Users -> [Counters -> Int]]
    <2>1. counter = [u \in Users |-> counter[u]]
        BY DEF Init
    <2> QED
        BY Zenon, <1>4, <2>1
<1>6. point_count \in [Users -> Int]
    <2>1. ASSUME NEW u \in Users PROVE Points(counter[u]) \in Int
        <3>1. {"user", "request", "comment", "conversation"} \subseteq Counters
            BY Zenon DEF Counters, Added
        <3> QED
            BY <1>4, <3>1 DEF Points
    <2> QED
        BY Zenon, <2>1 DEF Init
<1>7. /\ at \in [Workers -> Steps] /\ job \in [Workers -> Jobs \cup {NoJob}]
      /\ gainer \in [Workers -> Users \cup {Nobody}] /\ old \in [Workers -> Values]
    BY Zenon DEF Init, Steps, Values
<1>8. read \in [Workers -> [Counters -> Int]] /\ slip \in [Users -> [Added -> Int]]
    <2>1. Zero \in [Counters -> Int] /\ [k \in Added |-> 0] \in [Added -> Int]
        BY DEF Zero
    <2> QED
        BY Zenon, <2>1 DEF Init
<1>9. /\ handlers \in 0..MaxHandlers /\ shared \subseteq Workers
      /\ outdated \subseteq Users \X {"points", "user", "following"}
    BY DEF Init, ReputationConstants
<1> QED
    BY Zenon, <1>2, <1>3, <1>5, <1>6, <1>7, <1>8, <1>9 DEF TypeOK

\* Before the first rate the counters are those of the ratings given.
LEMMA InitBalance ==
    ASSUME ReputationConstants, Counting, Init
    PROVE  CountersBalance
<1> SUFFICES ASSUME NEW u \in Users, NEW k \in Added
             PROVE  counter[u][k] + Pending(u, k) = Sum(u, k) + slip[u][k]
    BY Zenon DEF CountersBalance
<1> DEFINE S == RatingsFor(u, k)
<1>1. counter[u][k] = Likes(u, k) /\ slip[u][k] = 0
    BY DEF Init, Added, Counters
<1>2. Likes(u, k) \in Nat
    BY Zenon, Numbers
<1>3. Adding(u, k) = {}
    BY DEF Adding, Init
<1>4. Pending(u, k) = 0
    <2>1. \A f, v : Having({}, f, v) = {}
        BY Zenon DEF Having
    <2>2. \A f : Total({}, f) = 0
        BY <2>1 DEF Total, Counting
    <2> QED
        BY <1>3, <2>2 DEF Pending
<1>5. Sum(u, k) = Likes(u, k)
    <2>1. S \subseteq Things \X Users
        BY Zenon, RatingsOf
    <2>2. \A p \in S : /\ Rated[p] = rating[p[1]][p[2]]
                       /\ Rated[p] = IF p \in Liked THEN 1 ELSE NoRow
        BY <2>1 DEF Rated, Init
    <2>3. Having(S, Rated, -1) = {} /\ Having(S, Rated, -2) = {}
        BY <2>2 DEF Having, NoRow
    <2>4. Having(S, Rated, 1) = {p \in S : rating[p[1]][p[2]] = 1}
        BY <2>2 DEF Having
    <2>5. Cardinality(Having(S, Rated, 1)) = Likes(u, k)
        BY Zenon, <2>4 DEF Likes
    <2>6. Cardinality(Having(S, Rated, -1)) = 0 /\ Cardinality(Having(S, Rated, -2)) = 0
        BY <2>3 DEF Counting
    <2> QED
        BY <1>2, <2>5, <2>6 DEF Sum, Total
<1> QED
    BY Zenon, <1>1, <1>2, <1>4, <1>5

\* The invariant holds before the first rate.
LEMMA InitInv ==
    ASSUME ReputationConstants, Counting, Init
    PROVE  IInv
<1>1. Control /\ Alone
    BY Zenon DEF Init, Control, ControlOf, Alone
<1>2. Fresh
    BY Zenon DEF Init, Fresh, FreshOf
<1>3. Agree
    BY DEF Init, Agree, PointsAgree, FollowersAgree, FollowingAgrees, Counters
<1> QED
    BY Zenon, <1>1, <1>2, <1>3, InitTyped, InitBalance DEF IInv

\* Every step of a process keeps the invariant.
LEMMA StepInv ==
    ASSUME ReputationConstants, Counting, IInv, NEW w \in Workers, Step(w)
    PROVE  IInv'
<1> USE DEF IInv
<1>1. TypeOK' /\ Control' /\ Alone'
    BY TypeStep, ControlStep, AloneStep
<1> USE <1>1
<1>2. Fresh'
    BY FreshStep
<1>3. Agree'
    BY Zenon, PointsStep, FollowersStep, FollowingStep DEF Agree
<1>4. CountersBalance'
    <2>1. ASSUME NEW u \in Users, NEW k \in Added
          PROVE  counter'[u][k] + Pending(u, k)' = Sum(u, k)' + slip'[u][k]
        <3>1. counter[u][k] + Pending(u, k) = Sum(u, k) + slip[u][k]
            BY DEF CountersBalance
        <3> QED
            BY Zenon, <3>1, BalanceStep
    <2> QED
        BY Zenon, <2>1 DEF CountersBalance
<1> QED
    BY <1>2, <1>3, <1>4

\* Every step keeps the invariant, and so does none.
LEMMA NextInv ==
    ASSUME ReputationConstants, Counting, IInv, [Next]_vars
    PROVE  IInv'
<1>1. CASE Next
    <2>1. PICK w \in Workers : Step(w)
        BY Zenon, <1>1 DEF Next, Step
    <2> QED
        BY Zenon, <2>1, StepInv
<1>2. CASE UNCHANGED vars
    <2>1. /\ UNCHANGED <<rating, counter, point_count, at, job>>
          /\ UNCHANGED <<gainer, old, read, shared, handlers, slip, outdated>>
        BY Zenon, <1>2 DEF vars, rows, local
    <2> USE <2>1
    <2>2. TypeOK' /\ Control' /\ Alone'
        BY Zenon DEF IInv, TypeOK, Control, ControlOf, Alone
    <2>3. \A u, k : Sum(u, k)' = Sum(u, k) /\ Likes(u, k)' = Likes(u, k) /\ Following(u)' = Following(u)
        BY Zenon DEF Sum, Likes, Following, Total, Having, Rated
    <2> USE <2>3
    <2>4. \A u, k : Pending(u, k)' = Pending(u, k)
        BY DEF Pending, Total, Having, Adding
    <2>5. Fresh'
        BY Zenon DEF IInv, Fresh, FreshOf
    <2>6. Agree'
        <3>1. ASSUME NEW u \in Users
              PROVE  /\ PointsAgree(u)' <=> PointsAgree(u)
                     /\ FollowersAgree(u)' <=> FollowersAgree(u)
                     /\ FollowingAgrees(u)' <=> FollowingAgrees(u)
            <4>1. PointsAgree(u)' <=> PointsAgree(u)
                BY Zenon DEF PointsAgree, Points
            <4>2. FollowersAgree(u)' <=> FollowersAgree(u)
                BY DEF FollowersAgree
            <4>3. \A w : Follows(w, u)' <=> Follows(w, u)
                BY Zenon DEF Follows
            <4> QED
                BY Zenon, <4>1, <4>2, <4>3 DEF FollowingAgrees
        <3> QED
            BY Zenon, <3>1 DEF IInv, Agree
    <2>7. CountersBalance'
        BY Zenon, <2>4 DEF IInv, CountersBalance
    <2> QED
        BY <2>2, <2>5, <2>6, <2>7 DEF IInv
<1> QED
    BY <1>1, <1>2

\* What the invariant says of the counters (update_points, the follow counts).
LEMMA InvAgrees ==
    ASSUME IInv
    PROVE  TypeOK /\ CountersBalance /\ DerivedAgree
<1>1. ASSUME NEW u \in Users, FollowingAgrees(u)
      PROVE  \/ counter[u]["following"] = Following(u)
             \/ <<u, "following">> \in outdated
             \/ \E w \in Workers :
                   /\ job[w].user = u
                   /\ at[w] \in {"count", "followers", "reload", "points", "following",
                                "followed"}
    BY Zenon, <1>1 DEF FollowingAgrees, Follows
<1> QED
    BY <1>1 DEF IInv, Agree, DerivedAgree, PointsAgree, FollowersAgree

\* What the invariant says of a recalculation that runs alone.
LEMMA InvRepairs ==
    ASSUME IInv
    PROVE  RepairAlone
<1> SUFFICES ASSUME NEW w \in Workers \ shared, WriteSums(w)
             PROVE  /\ counter'[gainer[w]]["conversation"] = Sum(gainer[w], "conversation")
                    /\ counter'[gainer[w]]["request"] = Likes(gainer[w], "request")
    BY Zenon DEF RepairAlone
<1>1. at[w] = "summed" /\ FreshOf(w) /\ ControlOf(w)
    BY DEF IInv, Fresh, Control, WriteSums
<1>2. gainer[w] \in Users /\ {"conversation", "request"} \subseteq Counters
    BY Zenon, <1>1 DEF ControlOf, Counters, Added
<1>3. \A c \in Recalculated : counter'[gainer[w]][c] = read[w][c]
    BY Zenon, <1>2 DEF WriteSums, IInv, TypeOK, Recalculated
<1> QED
    BY Zenon, <1>1, <1>3 DEF FreshOf, Recalculated

FS == INSTANCE FiniteSetTheorems

\* What the proofs use about the sizes of finite sets holds.
LEMMA Counted == Counting
<1>1. \A S : FS!IsFiniteSet(S) <=> IsFiniteSet(S)
    BY Zenon DEF FS!IsFiniteSet, IsFiniteSet
<1> USE <1>1
<1>2. \A S : FS!Cardinality(S) = Cardinality(S)
    BY Zenon DEF FS!Cardinality, Cardinality
<1> USE <1>2
<1>3. IsFiniteSet({}) /\ Cardinality({}) = 0
    BY Zenon, FS!FS_EmptySet
<1>4. \A S : IsFiniteSet(S) => Cardinality(S) \in Nat /\ (Cardinality(S) = 0 <=> S = {})
    BY Zenon, FS!FS_EmptySet, FS!FS_CardinalityType
<1>5. \A S, T : IsFiniteSet(T) /\ S \subseteq T => IsFiniteSet(S) /\ Cardinality(S) <= Cardinality(T)
    BY FS!FS_Subset
<1>6. \A x : Cardinality({x}) = 1
    BY Zenon, FS!FS_Singleton
<1>7. \A S, x : IsFiniteSet(S) /\ x \notin S =>
          IsFiniteSet(S \cup {x}) /\ Cardinality(S \cup {x}) = Cardinality(S) + 1
    BY Zenon, FS!FS_AddElement
<1>8. \A S, T : IsFiniteSet(S) /\ IsFiniteSet(T) => IsFiniteSet(S \X T)
    BY FS!FS_Product
<1> QED
    BY Zenon, <1>3, <1>4, <1>5, <1>6, <1>7, <1>8 DEF Counting

\* What the theorems rest on: every process is where its job says, knows whether
\* it ran alone, and has fresh values if so.
THEOREM Inductive ==
    ASSUME ReputationConstants
    PROVE  Spec => []IInv
<1>1. Init => IInv
    BY Zenon, Counted, InitInv
<1>2. IInv /\ [Next]_vars => IInv'
    BY Zenon, Counted, NextInv
<1> QED
    BY <1>1, <1>2, PTL DEF Spec

\* Overlapping rates add their differences without losing one (Rating's
\* after_save), and a derived value that does not agree is about to be written or
\* was overtaken (update_points, update_follower_count, update_following_count).
THEOREM CountersStayBalanced ==
    ASSUME ReputationConstants
    PROVE  Spec => [](CountersBalance /\ DerivedAgree)
<1>1. IInv => CountersBalance /\ DerivedAgree
    BY InvAgrees
<1> QED
    BY <1>1, Inductive, PTL

\* A recalculation that runs alone writes the sums of the ratings
\* (recalculate_reputation).
THEOREM RepairsWhenAlone ==
    ASSUME ReputationConstants
    PROVE  Spec => [][RepairAlone]_vars
<1>1. IInv /\ [Next]_vars => [RepairAlone]_vars
    BY InvRepairs
<1> QED
    BY <1>1, Inductive, PTL DEF Spec

===============================================================================
