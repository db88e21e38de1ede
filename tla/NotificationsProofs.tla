------------------------ MODULE NotificationsProofs -------------------------
(***************************************************************************)
(* For any objects, processes and lengths of a page: what is marked read or  *)
(* done has no later news, the badge is the number of unread notifications   *)
(* and scrolling to the end shows all, but for what crosses a process        *)
(* between its reading and its writing.                                      *)
(*                                                                           *)
(* That the pages miss nothing rests on the ranks of the rows: different     *)
(* rows have different news (Distinct), so the ranks have no gap (Ranked), a *)
(* row only gets a higher rank by news of others, and whatever is due has a  *)
(* rank on a page to come until it is shown (Scrolled).                      *)
(***************************************************************************)
EXTENDS Notifications, TLAPS

\* What the proofs use about the sizes of finite sets.
Counting ==
    /\ Cardinality({}) = 0
    /\ \A S : IsFiniteSet(S) => Cardinality(S) \in Nat
    /\ \A S, T : IsFiniteSet(T) /\ S \subseteq T => IsFiniteSet(S) /\ Cardinality(S) <= Cardinality(T)
    /\ \A S : IsFiniteSet(S) /\ Cardinality(S) > 0 => S # {}
    /\ \A S, x : IsFiniteSet(S) /\ x \in S => Cardinality(S \ {x}) = Cardinality(S) - 1

\* The number of rows above o in the list.
Above(o) == Cardinality({q \in Existing : news[q] > news[o]})

\* A process that is about to save has a piece of news of its own.
Control ==
    \A w \in Workers : at[w] = "save" =>
        /\ job[w] \in Objects
        /\ mine[w] \in 1..latest
        /\ \A o \in Objects : news[o] # mine[w] /\ due[o] # mine[w]
        /\ \A v \in Workers \ {w} : at[v] = "save" => mine[v] # mine[w]

\* No two rows have the same news.
Distinct ==
    /\ \A o \in Objects : news[o] <= latest /\ due[o] <= latest
    /\ \A o, q \in Existing : o # q => news[o] # news[q]

\* Of two processes that run at once, both are known to.
Alone == \A v, w \in Workers : v # w /\ at[v] # "idle" /\ at[w] # "idle" => w \in shared

\* A process that runs alone pushes the number there is.
CountStands == \A w \in Workers \ shared : at[w] = "push" => counted[w] = Unread

\* What was in the list when its first page was loaded and has no news since is
\* shown, or on a page to come, and shown if there is no more page.
Scrolled ==
    /\ end => page > 1
    /\ ~moved => \A o \in Existing : news[o] = due[o] /\ page > 1 =>
          o \in shown \/ (~end /\ Above(o) >= (page - 1) * PerPage)

IInv == /\ TypeOK /\ Control /\ Distinct /\ Alone /\ CountStands
        /\ FlagsFollowNews /\ BadgeAgrees /\ Scrolled

\* Some row is the k-th of the list if there are rows below the k-th.
Ranked == \A k \in Nat : (\E o \in Existing : Above(o) >= k) => \E o \in Existing : Above(o) = k

-----------------------------------------------------------------------------
(* The types. *)

\* What the count of unread notifications is.
LEMMA UnreadTyped ==
    ASSUME NotificationsConstants, Counting
    PROVE  Unread \in 0..Cardinality(Objects)
<1>1. Existing \ flag["read"] \subseteq Objects
    BY Zenon DEF Existing
<1>2. QED
    BY <1>1 DEF Unread, Counting, NotificationsConstants

\* A process that ends forgets its job.
LEMMA IdleTyped ==
    ASSUME NotificationsConstants, Counting, TypeOK, NEW w \in Workers, Idle(w)
    PROVE  /\ at' \in [Workers -> {"idle", "save", "mark", "count", "push", "render"}]
           /\ job' \in [Workers -> Objects \cup {None}]
           /\ mine' \in [Workers -> 0..MaxNews]
           /\ copy' \in [Workers -> SUBSET (Flags \cup {"row"})]
           /\ counted' \in [Workers -> 0..Cardinality(Objects)]
           /\ shared' \subseteq Workers
<1>1. at' \in [Workers -> {"idle", "save", "mark", "count", "push", "render"}] /\ shared' \subseteq Workers
    BY DEF TypeOK, Idle, Go
<1>2. job' \in [Workers -> Objects \cup {None}] /\ copy' \in [Workers -> SUBSET (Flags \cup {"row"})]
    BY DEF TypeOK, Idle
<1>3. mine' \in [Workers -> 0..MaxNews] /\ counted' \in [Workers -> 0..Cardinality(Objects)]
  <2>1. 0 \in 0..MaxNews /\ 0 \in 0..Cardinality(Objects)
    BY DEF NotificationsConstants, Counting
  <2>2. QED
    BY Zenon, <2>1 DEF TypeOK, Idle
<1>4. QED
    BY <1>1, <1>2, <1>3
\* A process goes on to another step, and the rest stays.
LEMMA GoTyped ==
    ASSUME TypeOK, NEW w \in Workers, NEW step \in {"save", "mark", "count", "push", "render"}, Go(w, step)
    PROVE  at' \in [Workers -> {"idle", "save", "mark", "count", "push", "render"}]
    BY Zenon DEF TypeOK, Go

\* A process that begins.
LEMMA BeginTyped ==
    ASSUME TypeOK, NEW w \in Workers, Begin(w)
    PROVE  shared' \subseteq Workers
    BY Zenon DEF TypeOK, Begin

\* What notify finds is of its types.
LEMMA NotifyTyped ==
    ASSUME NotificationsConstants, TypeOK, NEW w \in Workers, NEW o \in Objects, notify(w, o)
    PROVE  TypeOK'
<1>1. latest' \in 0..MaxNews
    BY DEF notify, TypeOK, NotificationsConstants
<1>2. mine' \in [Workers -> 0..MaxNews]
    BY Zenon, <1>1 DEF notify, TypeOK
<1>3. job' \in [Workers -> Objects \cup {None}]
    BY Zenon DEF notify, TypeOK
<1>4. copy' \in [Workers -> SUBSET (Flags \cup {"row"})]
    BY DEF notify, TypeOK
<1>5. at' \in [Workers -> {"idle", "save", "mark", "count", "push", "render"}] /\ shared' \subseteq Workers
    BY Zenon, GoTyped, BeginTyped DEF notify
<1>6. UNCHANGED <<rows, counted, badge, tab, bounds, history, unsure>>
    BY Zenon DEF notify
<1>7. Existing' = Existing
    BY Zenon, <1>6 DEF rows, Existing
<1>8. QED
    BY Zenon, <1>1, <1>2, <1>3, <1>4, <1>5, <1>6, <1>7 DEF TypeOK, rows, tab, bounds, history

\* What is saved is news: the row exists from then on.
LEMMA SaveTyped ==
    ASSUME NotificationsConstants, TypeOK, Control, NEW w \in Workers, Save(w)
    PROVE  TypeOK'
<1>1. job[w] \in Objects /\ mine[w] \in 0..MaxNews /\ mine[w] # 0
    BY DEF Save, Control, TypeOK
<1>2. news' = [news EXCEPT ![job[w]] = mine[w]]
    BY Zenon DEF Save
<1>3. news' \in [Objects -> 0..MaxNews]
    BY Zenon, <1>1, <1>2 DEF TypeOK
<1>4. Existing \subseteq Existing'
    BY <1>1, <1>2, <1>3 DEF TypeOK, Existing
<1>5. flag' \in [Flags -> SUBSET Existing']
  <2>1. \A f \in Flags : flag[f] \subseteq Existing
    BY Zenon DEF TypeOK
  <2>2. flag' = [f \in Flags |-> IF f \in Cleared(w) THEN flag[f] \ {job[w]} ELSE flag[f]]
    BY Zenon DEF Save
  <2>3. QED
    BY <2>1, <2>2, <1>4
<1>6. crossed' \subseteq Flags \X Objects
    BY <1>1 DEF Save, TypeOK
<1>7. moved' \in BOOLEAN
    BY Zenon DEF Save
<1>8. at' \in [Workers -> {"idle", "save", "mark", "count", "push", "render"}]
    BY Zenon, GoTyped DEF Save
<1>9. UNCHANGED <<latest, job, mine, copy, counted, shared, badge, tab, bounds, marked, due, unsure>>
    BY Zenon DEF Save
<1>10. shown' \subseteq Existing'
    BY Zenon, <1>4, <1>9 DEF TypeOK, tab
<1>11. QED
    BY Zenon, <1>3, <1>5, <1>6, <1>7, <1>8, <1>9, <1>10 DEF TypeOK, tab, bounds
\* The other steps of processes keep the types.
LEMMA WorkerTyped ==
    ASSUME NotificationsConstants, Counting, TypeOK, NEW w \in Workers,
           Refused(w) \/ Count(w) \/ Push(w) \/ getNextNotifications(w) \/ Mark(w) \/ Fails(w)
    PROVE  TypeOK'
<1> USE DEF rows, tab, bounds, history
<1>0. Unread \in 0..Cardinality(Objects)
    BY UnreadTyped
<1>1. CASE Refused(w)
  <2>1. Idle(w) /\ UNCHANGED <<rows, latest, badge, tab, bounds, history, unsure>>
    BY Zenon, <1>1 DEF Refused
  <2>2. Existing' = Existing
    BY Zenon, <2>1 DEF Existing
  <2>3. QED
    BY Zenon, IdleTyped, <2>1, <2>2 DEF TypeOK
<1>2. CASE Count(w)
  <2>1. UNCHANGED <<rows, latest, job, mine, copy, shared, badge, tab, bounds, history, unsure>>
    BY Zenon, <1>2 DEF Count
  <2>2. Existing' = Existing
    BY Zenon, <2>1 DEF Existing
  <2>3. counted' \in [Workers -> 0..Cardinality(Objects)]
    BY Zenon, <1>0, <1>2 DEF Count, CountNow, TypeOK
  <2>4. at' \in [Workers -> {"idle", "save", "mark", "count", "push", "render"}]
    BY Zenon, GoTyped, <1>2 DEF Count
  <2>5. QED
    BY Zenon, <2>1, <2>2, <2>3, <2>4 DEF TypeOK
<1>3. CASE Push(w)
  <2>1. UNCHANGED <<rows, latest, tab, bounds, history>>
    BY Zenon, <1>3 DEF Push
  <2>2. Existing' = Existing
    BY Zenon, <2>1 DEF Existing
  <2>3. badge' \in 0..Cardinality(Objects) /\ unsure' \in BOOLEAN
    BY Zenon, <1>3 DEF Push, TypeOK
  <2>4. CASE job[w] = None
    <3>1. Go(w, "render") /\ UNCHANGED <<job, mine, copy, counted, shared>>
      BY Zenon, <1>3, <2>4 DEF Push
    <3>2. at' \in [Workers -> {"idle", "save", "mark", "count", "push", "render"}]
      BY Zenon, GoTyped, <3>1
    <3>3. QED
      BY Zenon, <2>1, <2>2, <2>3, <3>1, <3>2 DEF TypeOK
  <2>5. CASE job[w] # None
    <3>1. Idle(w)
      BY Zenon, <1>3, <2>5 DEF Push
    <3>2. QED
      BY Zenon, IdleTyped, <2>1, <2>2, <2>3, <3>1 DEF TypeOK
  <2>6. QED
    BY Zenon, <2>4, <2>5
<1>4. CASE getNextNotifications(w)
  <2>1. UNCHANGED <<rows, latest, job, mine, copy, counted, page, shown, end, bounds, history, unsure>>
    BY Zenon, <1>4 DEF getNextNotifications
  <2>2. Existing' = Existing
    BY Zenon, <2>1 DEF Existing
  <2>3. badge' \in 0..Cardinality(Objects) /\ loading' \in BOOLEAN
    BY <1>4 DEF getNextNotifications, TypeOK, NotificationsConstants, Counting
  <2>4. at' \in [Workers -> {"idle", "save", "mark", "count", "push", "render"}] /\ shared' \subseteq Workers
    BY Zenon, GoTyped, BeginTyped, <1>4 DEF getNextNotifications
  <2>5. QED
    BY Zenon, <2>1, <2>2, <2>3, <2>4 DEF TypeOK
<1>5. CASE Mark(w)
  <2>1. UNCHANGED <<news, latest, job, mine, copy, counted, shared, badge, tab, bounds, due, moved, unsure>>
    BY Zenon, <1>5 DEF Mark
  <2>2. Existing' = Existing
    BY Zenon, <2>1 DEF Existing
  <2>3. flag' \in [Flags -> SUBSET Existing]
    BY Zenon, <1>5 DEF Mark, TypeOK
  <2>4. marked' \in [Flags -> [Objects -> 0..MaxNews]] /\ crossed' \subseteq Flags \X Objects
    BY Zenon, <1>5 DEF Mark, TypeOK
  <2>5. at' \in [Workers -> {"idle", "save", "mark", "count", "push", "render"}]
    BY Zenon, GoTyped, <1>5 DEF Mark
  <2>6. QED
    BY Zenon, <2>1, <2>2, <2>3, <2>4, <2>5 DEF TypeOK
<1>6. CASE Fails(w)
  <2>1. Idle(w) /\ UNCHANGED <<rows, latest, badge, page, shown, end, visits, history>>
    BY Zenon, <1>6 DEF Fails
  <2>2. Existing' = Existing
    BY Zenon, <2>1 DEF Existing
  <2>3. loading' \in BOOLEAN /\ unsure' \in BOOLEAN
    BY Zenon, <1>6 DEF Fails
  <2>4. failures' \in 0..MaxFailures
    BY <1>6 DEF Fails, TypeOK, NotificationsConstants
  <2>5. QED
    BY Zenon, IdleTyped, <2>1, <2>2, <2>3, <2>4 DEF TypeOK
<1>7. QED
    BY Zenon, <1>1, <1>2, <1>3, <1>4, <1>5, <1>6

\* So do rendering a page and what the user does.
LEMMA TabTyped ==
    ASSUME NotificationsConstants, Counting, TypeOK,
           \/ \E w \in Workers : Render(w)
           \/ Visit
           \/ \E o \in Objects : done(o)
    PROVE  TypeOK'
<1> USE DEF rows, tab, bounds, history
<1>1. CASE \E w \in Workers : Render(w)
  <2>1. PICK w \in Workers : Render(w)
    BY Zenon, <1>1
  <2>2. Idle(w) /\ UNCHANGED <<rows, latest, badge, bounds, marked, crossed, unsure>>
    BY Zenon, <2>1 DEF Render
  <2>3. Existing' = Existing
    BY Zenon, <2>2 DEF Existing
  <2>4. shown' \subseteq Existing /\ end' \in BOOLEAN /\ loading' \in BOOLEAN /\ moved' \in BOOLEAN
    BY Zenon, <2>1 DEF Render, Page, TypeOK
  <2>5. page' \in Nat \ {0}
    BY <2>1 DEF Render, TypeOK
  <2>6. due' \in [Objects -> 0..MaxNews]
    BY Zenon, <2>1 DEF Render, TypeOK
  <2>7. QED
    BY Zenon, IdleTyped, <2>2, <2>3, <2>4, <2>5, <2>6 DEF TypeOK
<1>2. CASE Visit
  <2>1. UNCHANGED <<rows, latest, local, badge, loading, failures, history, unsure>>
    BY Zenon, <1>2 DEF Visit
  <2>2. Existing' = Existing
    BY Zenon, <2>1 DEF Existing
  <2>3. visits' \in 0..MaxVisits /\ page' \in Nat \ {0}
    BY <1>2 DEF Visit, TypeOK, NotificationsConstants
  <2>4. shown' = {} /\ end' = FALSE
    BY Zenon, <1>2 DEF Visit
  <2>5. QED
    BY Zenon, <2>1, <2>2, <2>3, <2>4 DEF TypeOK, local
<1>3. CASE \E o \in Objects : done(o)
  <2>1. PICK o \in Objects : done(o)
    BY Zenon, <1>3
  <2>2. UNCHANGED <<news, latest, local, badge, tab, bounds, due, moved, unsure>>
    BY Zenon, <2>1 DEF done
  <2>3. Existing' = Existing
    BY Zenon, <2>2 DEF Existing
  <2>4. flag' \in [Flags -> SUBSET Existing]
    <3>1. o \in Existing /\ flag' = [flag EXCEPT !["done"] = @ \cup {o}]
      BY Zenon, <2>1 DEF done, CanFollow, TypeOK
    <3>2. flag \in [Flags -> SUBSET Existing] /\ flag["done"] \cup {o} \subseteq Existing
      BY Zenon, <3>1 DEF TypeOK, Flags
    <3>3. QED
      BY Zenon, <3>1, <3>2
  <2>5. crossed' \subseteq Flags \X Objects
    BY Zenon, <2>1 DEF done, TypeOK
  <2>6. marked' \in [Flags -> [Objects -> 0..MaxNews]]
    BY Zenon, <2>1 DEF done, TypeOK
  <2>7. QED
    BY Zenon, <2>2, <2>3, <2>4, <2>5, <2>6 DEF TypeOK, local
<1>4. QED
    BY Zenon, <1>1, <1>2, <1>3
-----------------------------------------------------------------------------
(* What the steps say of jobs, news and the processes at work. *)

\* A process that ends is idle, and the others are where they were.
LEMMA AtMoves ==
    ASSUME TypeOK, NEW w \in Workers, NEW step, Go(w, step)
    PROVE  at'[w] = step /\ \A v \in Workers \ {w} : at'[v] = at[v]
    BY Zenon DEF TypeOK, Go

\* A new piece of news is later than all there are.
LEMMA NotifyControl ==
    ASSUME NotificationsConstants, TypeOK, Control, Distinct,
           NEW w \in Workers, NEW o \in Objects, notify(w, o)
    PROVE  Control' /\ Distinct'
<1>1. latest \in Nat /\ latest' = latest + 1 /\ news' = news /\ due' = due
    BY DEF notify, rows, history, TypeOK, NotificationsConstants
<1>2. job'[w] = o /\ mine'[w] = latest + 1 /\ at'[w] = "save"
    BY Zenon, <1>1 DEF notify, TypeOK, Go
<1>3. \A v \in Workers \ {w} : job'[v] = job[v] /\ mine'[v] = mine[v] /\ at'[v] = at[v]
    BY Zenon DEF notify, TypeOK, Go
<1>4. \A x \in Objects : news[x] \in Nat /\ due[x] \in Nat
    BY DEF TypeOK, NotificationsConstants
<1>5. Distinct'
    BY <1>1, <1>4 DEF Distinct, Existing
<1>6. Control'
  <2>1. SUFFICES ASSUME NEW v \in Workers, at'[v] = "save"
                 PROVE  /\ job'[v] \in Objects
                        /\ mine'[v] \in 1..latest'
                        /\ \A x \in Objects : news'[x] # mine'[v] /\ due'[x] # mine'[v]
                        /\ \A u \in Workers \ {v} : at'[u] = "save" => mine'[u] # mine'[v]
    BY Zenon DEF Control
  <2>2. CASE v = w
    <3>1. \A x \in Objects : news'[x] # mine'[v] /\ due'[x] # mine'[v]
      BY <2>2, <1>1, <1>2, <1>4 DEF Distinct
    <3>2. \A u \in Workers \ {v} : at'[u] = "save" => mine'[u] # mine'[v]
      BY <2>2, <1>1, <1>2, <1>3 DEF Control
    <3>3. QED
      BY <2>2, <1>1, <1>2, <3>1, <3>2
  <2>3. CASE v # w
    <3>1. job[v] \in Objects /\ mine[v] \in 1..latest /\ at[v] = "save" /\ mine'[v] = mine[v] /\ job'[v] = job[v]
      BY Zenon, <1>3, <2>1, <2>3 DEF Control
    <3>2. \A x \in Objects : news'[x] # mine'[v] /\ due'[x] # mine'[v]
      BY Zenon, <3>1, <1>1 DEF Control
    <3>3. \A u \in Workers \ {v} : at'[u] = "save" => mine'[u] # mine'[v]
      <4>1. \A u \in Workers \ {v, w} : at'[u] = "save" => mine'[u] # mine'[v]
        BY Zenon, <3>1, <1>3 DEF Control
      <4>2. mine'[w] # mine'[v]
        BY <1>1, <1>2, <3>1
      <4>3. QED
        BY Zenon, <4>1, <4>2
    <3>4. QED
      BY <3>1, <3>2, <3>3, <1>1
  <2>4. QED
    BY Zenon, <2>2, <2>3
<1>7. QED
    BY Zenon, <1>5, <1>6

\* The news that is saved was not stored, and nobody else is about to save it.
LEMMA SaveControl ==
    ASSUME NotificationsConstants, TypeOK, Control, Distinct, NEW w \in Workers, Save(w)
    PROVE  Control' /\ Distinct'
<1>1. job[w] \in Objects /\ mine[w] \in 1..latest
    BY Zenon DEF Save, Control
<1>2. \A x \in Objects : news'[x] = IF x = job[w] THEN mine[w] ELSE news[x]
    BY Zenon, <1>1 DEF Save, TypeOK
<1>3. latest' = latest /\ job' = job /\ mine' = mine /\ due' = due
    BY Zenon DEF Save
<1>4. at'[w] = "count" /\ \A v \in Workers \ {w} : at'[v] = at[v]
    BY Zenon, AtMoves DEF Save
<1>5. \A x \in Objects : news[x] # mine[w]
    BY Zenon DEF Save, Control
<1>6. Distinct'
  <2>1. \A x \in Objects : news'[x] <= latest' /\ due'[x] <= latest'
    BY <1>1, <1>2, <1>3 DEF Distinct, TypeOK
  <2>2. \A x, q \in Existing' : x # q => news'[x] # news'[q]
    BY Zenon, <1>2, <1>5 DEF Distinct, Existing
  <2>3. QED
    BY Zenon, <2>1, <2>2 DEF Distinct
<1>7. Control'
  <2>1. SUFFICES ASSUME NEW v \in Workers, at'[v] = "save"
                 PROVE  /\ job'[v] \in Objects
                        /\ mine'[v] \in 1..latest'
                        /\ \A x \in Objects : news'[x] # mine'[v] /\ due'[x] # mine'[v]
                        /\ \A u \in Workers \ {v} : at'[u] = "save" => mine'[u] # mine'[v]
    BY Zenon DEF Control
  <2>2. v # w /\ at[v] = "save"
    BY Zenon, <2>1, <1>4
  <2>3. mine[v] # mine[w]
    BY Zenon, <2>2 DEF Save, Control
  <2>4. \A x \in Objects : news'[x] # mine'[v] /\ due'[x] # mine'[v]
    BY Zenon, <1>2, <1>3, <2>2, <2>3 DEF Control
  <2>5. \A u \in Workers \ {v} : at'[u] = "save" => mine'[u] # mine'[v]
    BY Zenon, <1>3, <1>4, <2>2 DEF Control
  <2>6. QED
    BY Zenon, <1>3, <2>2, <2>4, <2>5 DEF Control
<1>8. QED
    BY Zenon, <1>6, <1>7
\* Ending touches only the process that ends.
LEMMA IdleMoves ==
    ASSUME TypeOK, NEW w \in Workers, Idle(w)
    PROVE  /\ at'[w] = "idle"
           /\ \A v \in Workers \ {w} : /\ at'[v] = at[v] /\ job'[v] = job[v] /\ mine'[v] = mine[v]
                                       /\ counted'[v] = counted[v]
                                       /\ v \in shared => v \in shared'
    BY Zenon, AtMoves DEF Idle, TypeOK

\* The steps that save no news leave the news and the other processes alone.
LEMMA OtherMoves ==
    ASSUME TypeOK, NEW w \in Workers,
           \/ Refused(w) \/ Count(w) \/ Push(w) \/ getNextNotifications(w) \/ Mark(w)
           \/ Render(w) \/ Fails(w)
    PROVE  /\ news' = news /\ latest' = latest /\ (due' = due \/ due' = news)
           /\ at'[w] # "save"
           /\ \A v \in Workers \ {w} : /\ at'[v] = at[v] /\ job'[v] = job[v] /\ mine'[v] = mine[v]
                                       /\ counted'[v] = counted[v]
                                       /\ v \in shared => v \in shared'
<1> USE DEF rows, tab, bounds, history
<1>1. CASE Refused(w)
    BY Zenon, IdleMoves, <1>1 DEF Refused
<1>2. CASE Count(w)
  <2>1. at'[w] = "push" /\ \A v \in Workers \ {w} : at'[v] = at[v]
    BY Zenon, AtMoves, <1>2 DEF Count
  <2>2. QED
    BY <2>1, <1>2 DEF Count, TypeOK
<1>3. CASE Push(w) /\ job[w] = None
  <2>1. at'[w] = "render" /\ \A v \in Workers \ {w} : at'[v] = at[v]
    BY Zenon, AtMoves, <1>3 DEF Push
  <2>2. QED
    BY <2>1, <1>3 DEF Push
<1>4. CASE Push(w) /\ job[w] # None
    BY Zenon, IdleMoves, <1>4 DEF Push
<1>5. CASE getNextNotifications(w)
  <2>1. at' = [at EXCEPT ![w] = IF page = 1 THEN "mark" ELSE "render"]
    BY Zenon, <1>5 DEF getNextNotifications, Go
  <2>2. at'[w] # "save" /\ \A v \in Workers \ {w} : at'[v] = at[v]
    BY <2>1 DEF TypeOK
  <2>3. QED
    BY Zenon, <1>5, <2>2 DEF getNextNotifications, Begin
<1>6. CASE Mark(w)
  <2>1. at'[w] = "count" /\ \A v \in Workers \ {w} : at'[v] = at[v]
    BY Zenon, AtMoves, <1>6 DEF Mark
  <2>2. QED
    BY <2>1, <1>6 DEF Mark
<1>7. CASE Render(w)
    BY Zenon, IdleMoves, <1>7 DEF Render
<1>8. CASE Fails(w)
    BY Zenon, IdleMoves, <1>8 DEF Fails
<1>9. QED
    BY Zenon, <1>1, <1>2, <1>3, <1>4, <1>5, <1>6, <1>7, <1>8

\* Where no news is stored and nobody comes to save, the news stay apart.
LEMMA QuietControl ==
    ASSUME TypeOK, Control, Distinct,
           news' = news, latest' = latest, due' = due \/ due' = news,
           \A v \in Workers : at'[v] = "save" =>
               at[v] = "save" /\ job'[v] = job[v] /\ mine'[v] = mine[v]
    PROVE  Control' /\ Distinct'
<1>1. Distinct'
    BY Zenon DEF Distinct, Existing
<1>2. Control'
  <2>1. SUFFICES ASSUME NEW v \in Workers, at'[v] = "save"
                 PROVE  /\ job'[v] \in Objects
                        /\ mine'[v] \in 1..latest'
                        /\ \A x \in Objects : news'[x] # mine'[v] /\ due'[x] # mine'[v]
                        /\ \A u \in Workers \ {v} : at'[u] = "save" => mine'[u] # mine'[v]
    BY Zenon DEF Control
  <2>2. \A x \in Objects : news'[x] # mine'[v] /\ due'[x] # mine'[v]
    BY Zenon, <2>1 DEF Control
  <2>3. QED
    BY Zenon, <2>1, <2>2 DEF Control
<1>3. QED
    BY Zenon, <1>1, <1>2

\* Every step keeps the news apart.
LEMMA ControlStep ==
    ASSUME NotificationsConstants, TypeOK, Control, Distinct, Next
    PROVE  Control' /\ Distinct'
<1>1. CASE \E w \in Workers : \E o \in Objects : notify(w, o)
    BY Zenon, <1>1, NotifyControl
<1>2. CASE \E w \in Workers : Save(w)
    BY Zenon, <1>2, SaveControl
<1>3. CASE \E w \in Workers : \/ Refused(w) \/ Count(w) \/ Push(w) \/ getNextNotifications(w)
                               \/ Mark(w) \/ Render(w) \/ Fails(w)
  <2>1. PICK w \in Workers : \/ Refused(w) \/ Count(w) \/ Push(w) \/ getNextNotifications(w)
                              \/ Mark(w) \/ Render(w) \/ Fails(w)
    BY Zenon, <1>3
  <2>2. news' = news /\ latest' = latest /\ (due' = due \/ due' = news)
    BY Zenon, OtherMoves, <2>1
  <2>3. at'[w] # "save"
    BY Zenon, OtherMoves, <2>1
  <2>4. \A v \in Workers \ {w} : at'[v] = at[v] /\ job'[v] = job[v] /\ mine'[v] = mine[v]
    BY OtherMoves, <2>1
  <2>5. QED
    BY Zenon, QuietControl, <2>2, <2>3, <2>4
<1>4. CASE Visit \/ \E o \in Objects : done(o)
  <2>1. news' = news /\ latest' = latest /\ due' = due /\ UNCHANGED local
    BY Zenon, <1>4 DEF Visit, done, rows, history
  <2>2. QED
    BY Zenon, <2>1, QuietControl DEF local
<1>5. QED
    BY Zenon, <1>1, <1>2, <1>3, <1>4 DEF Next

-----------------------------------------------------------------------------
(* Who runs alone. *)

\* A process that begins while others run shares the time with them.
LEMMA BeginAlone ==
    ASSUME TypeOK, Alone, NEW w \in Workers, Begin(w), \A v \in Workers \ {w} : at'[v] = at[v]
    PROVE  Alone'
    BY Zenon DEF Alone, Begin

\* Processes that go on or end stay known.
LEMMA QuietAlone ==
    ASSUME Alone,
           \A v \in Workers : at'[v] # "idle" => at[v] # "idle" /\ (v \in shared => v \in shared')
    PROVE  Alone'
    BY Zenon DEF Alone

\* Every step keeps track of who runs alone.
LEMMA AloneStep ==
    ASSUME TypeOK, Alone, Next
    PROVE  Alone'
<1>1. ASSUME NEW w \in Workers, NEW o \in Objects, notify(w, o) PROVE Alone'
    BY Zenon, <1>1, AtMoves, BeginAlone DEF notify
<1>2. ASSUME NEW w \in Workers, Save(w) PROVE Alone'
  <2>1. at[w] # "idle" /\ at'[w] # "idle" /\ shared' = shared /\ \A v \in Workers \ {w} : at'[v] = at[v]
    BY <1>2, AtMoves DEF Save
  <2>2. QED
    BY Zenon, <2>1, QuietAlone
<1>3. ASSUME NEW w \in Workers, getNextNotifications(w) PROVE Alone'
  <2>1. \A v \in Workers \ {w} : at'[v] = at[v]
    BY OtherMoves, <1>3
  <2>2. QED
    BY Zenon, <1>3, <2>1, BeginAlone DEF getNextNotifications
<1>4. ASSUME NEW w \in Workers, Refused(w) \/ Count(w) \/ Push(w) \/ Mark(w) \/ Render(w) \/ Fails(w)
      PROVE  Alone'
  <2>1. at[w] # "idle"
    BY <1>4 DEF Refused, Count, Push, Mark, Render, Fails
  <2>2. \A v \in Workers \ {w} : at'[v] = at[v] /\ (v \in shared => v \in shared')
    BY OtherMoves, <1>4
  <2>3. at'[w] # "idle" => shared' = shared
    BY Zenon, <1>4, IdleMoves DEF Refused, Count, Push, Mark, Render, Fails
  <2>4. QED
    BY Zenon, <2>1, <2>2, <2>3, QuietAlone
<1>5. CASE Visit \/ \E o \in Objects : done(o)
    BY Zenon, <1>5, QuietAlone DEF Visit, done, local
<1>6. QED
    BY Zenon, <1>1, <1>2, <1>3, <1>4, <1>5 DEF Next
-----------------------------------------------------------------------------
(* The badge. *)

\* The number of unread notifications is of the rows.
LEMMA UnreadSame ==
    ASSUME news' = news, flag'["read"] = flag["read"]
    PROVE  Unread' = Unread
    BY Zenon DEF Unread, Existing

\* Where the number and the processes that push stay, so does what they read.
LEMMA QuietCount ==
    ASSUME CountStands, Unread' = Unread,
           \A v \in Workers : at'[v] = "push" =>
               at[v] = "push" /\ counted'[v] = counted[v] /\ (v \in shared => v \in shared')
    PROVE  CountStands'
    BY Zenon DEF CountStands

\* While a process changes rows, nobody alone has a count to push.
LEMMA BusyCount ==
    ASSUME Alone, NEW w \in Workers, at[w] # "idle", at'[w] # "push", shared' = shared,
           \A v \in Workers \ {w} : at'[v] = at[v]
    PROVE  CountStands'
<1>1. SUFFICES ASSUME NEW v \in Workers \ shared, at'[v] = "push"
               PROVE  FALSE
    BY Zenon DEF CountStands
<1>2. v # w /\ at[v] = "push"
    BY Zenon, <1>1
<1>3. QED
    BY <1>2 DEF Alone

\* A process that runs alone pushes the number there is.
LEMMA CountStep ==
    ASSUME TypeOK, Alone, CountStands, Next
    PROVE  CountStands'
<1> USE DEF rows
<1>1. ASSUME NEW w \in Workers, NEW o \in Objects, notify(w, o) PROVE CountStands'
  <2>1. Unread' = Unread /\ counted' = counted
    BY Zenon, <1>1, UnreadSame DEF notify
  <2>2. at'[w] = "save" /\ \A v \in Workers \ {w} : at'[v] = at[v]
    BY Zenon, <1>1, AtMoves DEF notify
  <2>3. shared \subseteq shared'
    BY Zenon, <1>1 DEF notify, Begin
  <2>4. QED
    BY <2>1, <2>2, <2>3, QuietCount
<1>2. ASSUME NEW w \in Workers, Save(w) PROVE CountStands'
  <2>1. at[w] # "idle" /\ at'[w] # "push" /\ shared' = shared /\ \A v \in Workers \ {w} : at'[v] = at[v]
    BY <1>2, AtMoves DEF Save
  <2>2. QED
    BY Zenon, <2>1, BusyCount
<1>3. ASSUME NEW w \in Workers, Mark(w) PROVE CountStands'
  <2>1. at[w] # "idle" /\ at'[w] # "push" /\ shared' = shared /\ \A v \in Workers \ {w} : at'[v] = at[v]
    BY <1>3, AtMoves DEF Mark
  <2>2. QED
    BY Zenon, <2>1, BusyCount
<1>4. ASSUME NEW w \in Workers, Count(w) PROVE CountStands'
  <2>1. Unread' = Unread /\ shared' = shared
    BY Zenon, <1>4, UnreadSame DEF Count
  <2>2. counted'[w] = Unread
    BY Zenon, <1>4 DEF Count, CountNow, TypeOK
  <2>3. \A v \in Workers \ {w} : at'[v] = at[v] /\ counted'[v] = counted[v]
    BY OtherMoves, <1>4
  <2>4. QED
    BY Zenon, <2>1, <2>2, <2>3 DEF CountStands
<1>5. ASSUME NEW w \in Workers,
             Refused(w) \/ Push(w) \/ getNextNotifications(w) \/ Render(w) \/ Fails(w)
      PROVE  CountStands'
  <2>1. Unread' = Unread
    BY Zenon, <1>5, UnreadSame DEF Refused, Push, getNextNotifications, Render, Fails
  <2>2. at'[w] # "push"
    <3>1. Idle(w) \/ \E step \in {"mark", "render"} : Go(w, step)
      BY Zenon, <1>5 DEF Refused, Push, getNextNotifications, Render, Fails
    <3>2. QED
      BY <3>1, IdleMoves, AtMoves
  <2>3. \A v \in Workers \ {w} : at'[v] = at[v] /\ counted'[v] = counted[v] /\ (v \in shared => v \in shared')
    BY OtherMoves, <1>5
  <2>4. QED
    BY Zenon, <2>1, <2>2, <2>3, QuietCount
<1>6. CASE Visit \/ \E o \in Objects : done(o)
  <2>1. news' = news /\ flag'["read"] = flag["read"] /\ UNCHANGED local
    BY <1>6 DEF Visit, done, TypeOK, Flags
  <2>2. QED
    BY Zenon, <2>1, QuietCount, UnreadSame DEF local
<1>7. QED
    BY Zenon, <1>1, <1>2, <1>3, <1>4, <1>5, <1>6 DEF Next

\* Where the number, the badge and who is to push stay, the badge agrees.
LEMMA QuietBadge ==
    ASSUME BadgeAgrees, Unread' = Unread, badge' = badge, unsure' = unsure,
           \A v \in Workers : at[v] \in {"mark", "count", "push"} => at'[v] \in {"mark", "count", "push"}
    PROVE  BadgeAgrees'
    BY Zenon DEF BadgeAgrees

\* The badge agrees once all have pushed, unless it is of another moment.
LEMMA BadgeStep ==
    ASSUME TypeOK, CountStands, BadgeAgrees, Next
    PROVE  BadgeAgrees'
<1> USE DEF rows
<1>1. ASSUME NEW w \in Workers, NEW o \in Objects, notify(w, o) PROVE BadgeAgrees'
  <2>1. Unread' = Unread /\ badge' = badge /\ unsure' = unsure
    BY Zenon, <1>1, UnreadSame DEF notify
  <2>2. at[w] = "idle" /\ \A v \in Workers \ {w} : at'[v] = at[v]
    BY Zenon, <1>1, AtMoves DEF notify, Begin
  <2>3. QED
    BY <2>1, <2>2, QuietBadge
<1>2. ASSUME NEW w \in Workers, Save(w) \/ Mark(w) \/ Count(w) PROVE BadgeAgrees'
  <2>1. at'[w] \in {"count", "push"}
    BY Zenon, <1>2, AtMoves DEF Save, Mark, Count
  <2>2. QED
    BY Zenon, <2>1 DEF BadgeAgrees
<1>3. ASSUME NEW w \in Workers, Refused(w) \/ Render(w) PROVE BadgeAgrees'
  <2>1. Unread' = Unread /\ badge' = badge /\ unsure' = unsure
    BY Zenon, <1>3, UnreadSame DEF Refused, Render
  <2>2. at[w] \in {"save", "render"}
    BY Zenon, <1>3 DEF Refused, Render
  <2>3. \A v \in Workers \ {w} : at'[v] = at[v]
    BY OtherMoves, <1>3
  <2>4. QED
    BY <2>1, <2>2, <2>3, QuietBadge
<1>4. ASSUME NEW w \in Workers, Push(w) PROVE BadgeAgrees'
  <2>1. Unread' = Unread
    BY Zenon, <1>4, UnreadSame DEF Push
  <2>2. at[w] = "push" /\ badge' = counted[w] /\ unsure' = (counted[w] # Unread /\ w \in shared)
    BY Zenon, <1>4 DEF Push
  <2>3. QED
    BY Zenon, <2>1, <2>2 DEF BadgeAgrees, CountStands
<1>5. ASSUME NEW w \in Workers, getNextNotifications(w) PROVE BadgeAgrees'
  <2>1. Unread' = Unread /\ unsure' = unsure
    BY Zenon, <1>5, UnreadSame DEF getNextNotifications
  <2>2. at[w] = "idle"
    BY Zenon, <1>5 DEF getNextNotifications, Begin
  <2>3. \A v \in Workers \ {w} : at'[v] = at[v]
    BY OtherMoves, <1>5
  <2>4. CASE page = 1
    <3>1. at'[w] = "mark"
      BY Zenon, <1>5, <2>4 DEF getNextNotifications, Go, TypeOK
    <3>2. QED
      BY Zenon, <3>1 DEF BadgeAgrees
  <2>5. CASE page # 1
    <3>1. badge' = badge
      BY Zenon, <1>5, <2>5 DEF getNextNotifications
    <3>2. QED
      BY <2>1, <2>2, <2>3, <3>1, QuietBadge
  <2>6. QED
    BY Zenon, <2>4, <2>5
<1>6. ASSUME NEW w \in Workers, Fails(w) PROVE BadgeAgrees'
  <2>1. Unread' = Unread /\ badge' = badge /\ unsure' = (unsure \/ badge # Unread)
    BY Zenon, <1>6, UnreadSame DEF Fails
  <2>2. QED
    BY Zenon, <2>1 DEF BadgeAgrees
<1>7. CASE Visit \/ \E o \in Objects : done(o)
  <2>1. news' = news /\ flag'["read"] = flag["read"] /\ at' = at /\ badge' = badge /\ unsure' = unsure
    BY <1>7 DEF Visit, done, TypeOK, local, Flags
  <2>2. QED
    BY Zenon, <2>1, QuietBadge, UnreadSame
<1>8. QED
    BY Zenon, <1>1, <1>2, <1>3, <1>4, <1>5, <1>6, <1>7 DEF Next
-----------------------------------------------------------------------------
(* The flags. *)

\* Saving news clears the flags that were found set, and the others are crossed.
LEMMA SaveFlags ==
    ASSUME TypeOK, Control, FlagsFollowNews, NEW w \in Workers, Save(w)
    PROVE  FlagsFollowNews'
<1>1. SUFFICES ASSUME NEW f \in Flags, NEW o \in Existing', o \in flag'[f]
               PROVE  news'[o] <= marked'[f][o] \/ <<f, o>> \in crossed'
    BY Zenon DEF FlagsFollowNews
<1>2. job[w] \in Objects /\ marked' = marked
    BY Zenon DEF Save, Control
<1>3. \A x \in Objects : x # job[w] => news'[x] = news[x]
    BY Zenon, <1>2 DEF Save, TypeOK
<1>4. o \in Objects /\ o \in flag[f]
    BY Zenon, <1>1 DEF Save, Existing
<1>5. o \in Existing
    BY Zenon, <1>4 DEF TypeOK
<1>6. CASE o # job[w]
  <2>1. news[o] <= marked[f][o] \/ <<f, o>> \in crossed
    BY Zenon, <1>4, <1>5 DEF FlagsFollowNews
  <2>2. <<f, o>> \in crossed => <<f, o>> \in crossed'
    BY <1>6 DEF Save
  <2>3. QED
    BY Zenon, <2>1, <2>2, <1>2, <1>3, <1>4, <1>6
<1>7. CASE o = job[w]
  <2>1. f \notin copy[w]
    BY Zenon, <1>1, <1>7 DEF Save, Cleared
  <2>2. <<f, o>> \in crossed'
    BY Zenon, <1>4, <1>7, <2>1 DEF Save
  <2>3. QED
    BY Zenon, <2>2
<1>8. QED
    BY Zenon, <1>6, <1>7

\* Loading the first page marks every row as it is.
LEMMA MarkFlags ==
    ASSUME NotificationsConstants, TypeOK, FlagsFollowNews, NEW w \in Workers, Mark(w)
    PROVE  FlagsFollowNews'
<1>1. SUFFICES ASSUME NEW f \in Flags, NEW o \in Existing, o \in flag'[f]
               PROVE  news[o] <= marked'[f][o] \/ <<f, o>> \in crossed'
    BY Zenon DEF FlagsFollowNews, Mark, Existing
<1>2. CASE f = "read"
  <2>1. marked'[f][o] = news[o]
    BY Zenon, <1>2 DEF Mark, TypeOK, Flags
  <2>2. news[o] \in Nat
    BY DEF TypeOK, Existing, NotificationsConstants
  <2>3. QED
    BY <2>1, <2>2
<1>3. CASE f # "read"
  <2>1. flag'[f] = flag[f] /\ marked'[f] = marked[f]
    BY Zenon, <1>3 DEF Mark, TypeOK
  <2>2. <<f, o>> \in crossed => <<f, o>> \in crossed'
    BY <1>3 DEF Mark
  <2>3. QED
    BY Zenon, <1>1, <2>1, <2>2 DEF FlagsFollowNews
<1>4. QED
    BY Zenon, <1>2, <1>3

\* Following a notification marks its row as it is.
LEMMA DoneFlags ==
    ASSUME NotificationsConstants, TypeOK, FlagsFollowNews, NEW x \in Objects, done(x)
    PROVE  FlagsFollowNews'
<1>1. SUFFICES ASSUME NEW f \in Flags, NEW o \in Existing, o \in flag'[f]
               PROVE  news[o] <= marked'[f][o] \/ <<f, o>> \in crossed'
    BY Zenon DEF FlagsFollowNews, done, Existing
<1>2. CASE f = "done" /\ o = x
  <2>1. marked'[f][o] = news[o]
    BY <1>2 DEF done, TypeOK, Flags
  <2>2. news[o] \in Nat
    BY DEF TypeOK, Existing, NotificationsConstants
  <2>3. QED
    BY <2>1, <2>2
<1>3. CASE f # "done" \/ o # x
  <2>1. o \in flag[f] /\ marked'[f][o] = marked[f][o]
    BY <1>1, <1>3 DEF done, TypeOK, Flags, Existing
  <2>2. <<f, o>> \in crossed => <<f, o>> \in crossed'
    BY <1>3 DEF done
  <2>3. QED
    BY Zenon, <1>1, <2>1, <2>2 DEF FlagsFollowNews
<1>4. QED
    BY Zenon, <1>2, <1>3

\* Every step keeps the flags with their news.
LEMMA FlagsStep ==
    ASSUME NotificationsConstants, TypeOK, Control, FlagsFollowNews, Next
    PROVE  FlagsFollowNews'
<1>1. CASE \E w \in Workers : Save(w)
    BY Zenon, <1>1, SaveFlags
<1>2. CASE \E w \in Workers : Mark(w)
    BY Zenon, <1>2, MarkFlags
<1>3. CASE \E o \in Objects : done(o)
    BY Zenon, <1>3, DoneFlags
<1>4. CASE \/ \E w \in Workers : \/ \E o \in Objects : notify(w, o)
                                \/ Refused(w) \/ Count(w) \/ Push(w) \/ getNextNotifications(w)
                                \/ Render(w) \/ Fails(w)
           \/ Visit
  <2>1. UNCHANGED <<news, flag, marked, crossed>>
    BY Zenon, <1>4 DEF notify, Refused, Count, Push, getNextNotifications, Render, Fails, Visit,
                      rows, history
  <2>2. QED
    BY Zenon, <2>1 DEF FlagsFollowNews, Existing
<1>5. QED
    BY Zenon, <1>1, <1>2, <1>3, <1>4 DEF Next

-----------------------------------------------------------------------------
(* The list. *)

\* Where the rows and the list stay, nothing is lost.
LEMMA QuietScrolled ==
    ASSUME Scrolled, UNCHANGED <<news, due, moved, page, shown, end>>
    PROVE  Scrolled'
    BY Zenon DEF Scrolled, Above, Existing

\* A row that gets news goes above the others, so these move down the list.
LEMMA SaveScrolled ==
    ASSUME NotificationsConstants, Counting, TypeOK, Control, Distinct, Scrolled,
           NEW w \in Workers, Save(w)
    PROVE  Scrolled'
<1>1. SUFFICES ASSUME ~moved', NEW o \in Existing', news'[o] = due'[o], page' > 1
               PROVE  o \in shown' \/ (~end' /\ Above(o)' >= (page' - 1) * PerPage)
  <2>1. end' => page' > 1
    BY Zenon DEF Save, tab, Scrolled
  <2>2. QED
    BY Zenon, <2>1 DEF Scrolled
<1>2. page' = page /\ shown' = shown /\ end' = end /\ due' = due
    BY Zenon DEF Save, tab
<1>3. ~moved /\ ~(mine[w] < news[job[w]])
    BY Zenon, <1>1 DEF Save
<1>4. job[w] \in Objects /\ mine[w] \in Nat /\ mine[w] # 0
    BY DEF Save, Control, TypeOK, NotificationsConstants
<1>5. \A x \in Objects : news'[x] = IF x = job[w] THEN mine[w] ELSE news[x]
    BY Zenon, <1>4 DEF Save, TypeOK
<1>6. due[job[w]] # mine[w]
    BY Zenon, <1>4 DEF Save, Control
<1>7. o \in Existing /\ o # job[w] /\ news'[o] = news[o]
    BY Zenon, <1>1, <1>2, <1>5, <1>6 DEF Existing
<1>8. \A x \in Objects : news[x] \in Nat
    BY DEF TypeOK, NotificationsConstants
<1>9. {q \in Existing : news[q] > news[o]} \subseteq {q \in Existing' : news'[q] > news'[o]}
  <2>1. \A q \in Existing : q \in Existing'
    BY Zenon, <1>4, <1>5 DEF Existing
  <2>2. \A q \in Existing : news[q] > news[o] => news'[q] > news[o]
    <3>1. \A q \in Existing : q \in Objects /\ q # job[w] => news'[q] = news[q]
      BY Zenon, <1>5
    <3>2. news[job[w]] > news[o] => news'[job[w]] > news[o]
      <4>1. news'[job[w]] = mine[w]
        BY Zenon, <1>4, <1>5
      <4>2. o \in Objects
        BY Zenon, <1>7 DEF Existing
      <4>3. news[job[w]] \in Nat /\ news[o] \in Nat
        BY Zenon, <1>4, <1>8, <4>2
      <4>4. QED
        BY <1>3, <1>4, <4>1, <4>3
    <3>3. QED
      BY Zenon, <3>1, <3>2 DEF Existing
  <2>3. QED
    BY Zenon, <1>7, <2>1, <2>2
<1>10. Above(o)' >= Above(o) /\ Above(o) \in Nat /\ Above(o)' \in Nat
  <2>1. {q \in Existing' : news'[q] > news'[o]} \subseteq Objects
    BY Zenon DEF Existing
  <2>2. IsFiniteSet({q \in Existing' : news'[q] > news'[o]})
    BY Zenon, <2>1 DEF Counting, NotificationsConstants
  <2>3. QED
    BY <1>9, <2>2 DEF Above, Counting
<1>11. o \in shown \/ (~end /\ Above(o) >= (page - 1) * PerPage)
    BY Zenon, <1>1, <1>2, <1>3, <1>7 DEF Scrolled
<1>12. (page - 1) * PerPage \in Nat
    BY DEF TypeOK, NotificationsConstants
<1>13. QED
    BY <1>2, <1>10, <1>11, <1>12
\* A page is empty only if no row is left below the pages before it.
LEMMA RenderScrolled ==
    ASSUME NotificationsConstants, Counting, TypeOK, Scrolled, Ranked, NEW w \in Workers, Render(w)
    PROVE  Scrolled'
<1>0. page \in Nat \ {0} /\ PerPage \in Nat \ {0}
    BY Zenon DEF TypeOK, NotificationsConstants
<1>1. news' = news /\ page' = page + 1 /\ shown' = shown \cup Page(page) /\ end' = (Page(page) = {})
    BY Zenon DEF Render, rows
<1>2. SUFFICES ASSUME ~moved', NEW o \in Existing, news[o] = due'[o]
               PROVE  o \in shown' \/ (~end' /\ Above(o) >= (page' - 1) * PerPage)
  <2>1. page' > 1
    BY <1>0, <1>1
  <2>2. Existing' = Existing /\ \A o \in Existing : Above(o)' = Above(o)
    BY Zenon, <1>1 DEF Existing, Above
  <2>3. QED
    BY Zenon, <1>1, <2>1, <2>2 DEF Scrolled
<1>3. \A q \in Existing : Above(q) \in Nat
  <2>1. \A q \in Existing : {x \in Existing : news[x] > news[q]} \subseteq Objects
    BY Zenon DEF Existing
  <2>2. QED
    BY Zenon, <2>1 DEF Above, Counting, NotificationsConstants
<1>4. (page - 1) * PerPage \in Nat /\ page * PerPage \in Nat /\ (page - 1) * PerPage < page * PerPage
    BY <1>0
<1>5. o \in shown \/ Above(o) >= (page - 1) * PerPage
  <2>1. CASE page = 1
    BY <1>0, <1>3, <2>1
  <2>2. CASE page # 1
    <3>1. ~moved /\ due' = due
      BY Zenon, <1>2, <2>2 DEF Render
    <3>2. page > 1
      BY <1>0, <2>2
    <3>3. QED
      BY Zenon, <1>2, <3>1, <3>2 DEF Scrolled
  <2>3. QED
    BY Zenon, <2>1, <2>2
<1>6. CASE o \in shown
    BY Zenon, <1>1, <1>6
<1>7. CASE Above(o) >= (page - 1) * PerPage
  <2>1. CASE Above(o) < page * PerPage
    <3>1. o \in Page(page)
      BY <1>3, <1>4, <1>7, <2>1 DEF Page, Above
    <3>2. QED
      BY Zenon, <1>1, <3>1
  <2>2. CASE ~(Above(o) < page * PerPage)
    <3>1. PICK q \in Existing : Above(q) = (page - 1) * PerPage
      BY Zenon, <1>4, <1>7 DEF Ranked
    <3>2. q \in Page(page)
      BY <1>3, <1>4, <3>1 DEF Page, Above
    <3>3. page' - 1 = page
      BY <1>0, <1>1
    <3>4. Above(o) >= (page' - 1) * PerPage
      BY <1>3, <1>4, <2>2, <3>3
    <3>5. QED
      BY Zenon, <1>1, <3>2, <3>4
  <2>3. QED
    BY Zenon, <2>1, <2>2
<1>8. QED
    BY Zenon, <1>5, <1>6, <1>7

\* Every step keeps what has to be shown within reach.
LEMMA ScrolledStep ==
    ASSUME NotificationsConstants, Counting, TypeOK, Control, Distinct, Scrolled, Ranked, Next
    PROVE  Scrolled'
<1>1. CASE \E w \in Workers : Save(w)
    BY Zenon, <1>1, SaveScrolled
<1>2. CASE \E w \in Workers : Render(w)
    BY Zenon, <1>2, RenderScrolled
<1>3. CASE Visit
    BY <1>3 DEF Visit, Scrolled
<1>4. CASE \/ \E w \in Workers : \/ \E o \in Objects : notify(w, o)
                                \/ Refused(w) \/ Count(w) \/ Push(w) \/ getNextNotifications(w)
                                \/ Mark(w) \/ Fails(w)
           \/ \E o \in Objects : done(o)
  <2>1. UNCHANGED <<news, due, moved, page, shown, end>>
    BY Zenon, <1>4 DEF notify, Refused, Count, Push, getNextNotifications, Mark, Fails, done,
                      rows, history, tab
  <2>2. QED
    BY Zenon, <2>1, QuietScrolled
<1>5. QED
    BY Zenon, <1>1, <1>2, <1>3, <1>4 DEF Next

\* Every non-empty set of numbers has a least one.
WellOrdered == \A T : T \subseteq Nat /\ T # {} => \E x \in T : \A y \in T : x <= y

\* The rows have different news, so they are ranked without a gap.
LEMMA RowsRanked ==
    ASSUME NotificationsConstants, Counting, WellOrdered, TypeOK, Distinct
    PROVE  Ranked
<1>1. SUFFICES ASSUME NEW k \in Nat, NEW o \in Existing, Above(o) >= k
               PROVE  \E q \in Existing : Above(q) = k
    BY Zenon DEF Ranked
<1> DEFINE Higher(q) == {x \in Existing : news[x] > news[q]}
<1>2. \A q : IsFiniteSet(Higher(q))
  <2>1. \A q : Higher(q) \subseteq Objects
    BY Zenon DEF Existing
  <2>2. QED
    BY Zenon, <2>1 DEF Counting, NotificationsConstants
<1>3. \A q : Above(q) = Cardinality(Higher(q)) /\ Above(q) \in Nat
    BY Zenon, <1>2 DEF Above, Counting
<1>4. \A x \in Existing : news[x] \in Nat
    BY DEF TypeOK, NotificationsConstants, Existing
<1>5. PICK q \in Existing : Above(q) >= k /\ \A x \in Existing : Above(x) >= k => Above(q) <= Above(x)
  <2> DEFINE T == {Above(x) : x \in {y \in Existing : Above(y) >= k}}
  <2>1. T \subseteq Nat /\ T # {}
    BY Zenon, <1>1, <1>3
  <2>2. PICK m \in T : \A y \in T : m <= y
    BY Zenon, <2>1 DEF WellOrdered
  <2>3. QED
    BY Zenon, <2>2
<1>6. SUFFICES ASSUME Above(q) # k PROVE FALSE
    BY Zenon
<1>7. Above(q) > k
    BY <1>3, <1>5, <1>6
<1>8. Higher(q) # {}
  <2>1. Cardinality(Higher(q)) > 0
    BY <1>3, <1>7
  <2>2. QED
    BY Zenon, <2>1, <1>2 DEF Counting
<1>9. PICK r \in Higher(q) : \A x \in Higher(q) : news[r] <= news[x]
  <2> DEFINE T == {news[x] : x \in Higher(q)}
  <2>1. T \subseteq Nat /\ T # {}
    BY Zenon, <1>4, <1>8
  <2>2. PICK m \in T : \A y \in T : m <= y
    BY Zenon, <2>1 DEF WellOrdered
  <2>3. QED
    BY Zenon, <2>2
<1>10. Higher(r) = Higher(q) \ {r}
  <2>1. \A x \in Higher(r) : x \in Higher(q) /\ x # r
    BY <1>4, <1>9
  <2>2. \A x \in Higher(q) \ {r} : x \in Higher(r)
    BY <1>4, <1>9 DEF Distinct
  <2>3. QED
    BY Zenon, <2>1, <2>2
<1>11. Above(r) = Above(q) - 1
  <2>1. Cardinality(Higher(q) \ {r}) = Cardinality(Higher(q)) - 1
    BY Zenon, <1>2, <1>9 DEF Counting
  <2>2. QED
    BY Zenon, <2>1, <1>3, <1>10
<1>12. Above(r) >= k /\ r \in Existing
    BY <1>3, <1>7, <1>9, <1>11
<1>13. QED
    BY <1>3, <1>5, <1>11, <1>12
-----------------------------------------------------------------------------
(* The inductive invariant. *)

\* Nobody has notified and nothing is listed.
LEMMA InitInv ==
    ASSUME NotificationsConstants, Counting, Init
    PROVE  IInv
<1>1. Existing = {}
    BY DEF Init, Existing
<1>2. 0 \in 0..MaxNews /\ 0 \in 0..MaxVisits /\ 0 \in 0..MaxFailures /\ 0 \in 0..Cardinality(Objects)
    BY DEF NotificationsConstants, Counting
<1>3. TypeOK
  <2>1. news \in [Objects -> 0..MaxNews] /\ due \in [Objects -> 0..MaxNews]
    BY Zenon, <1>2 DEF Init
  <2>2. marked \in [Flags -> [Objects -> 0..MaxNews]] /\ flag \in [Flags -> SUBSET Existing]
    BY Zenon, <1>2 DEF Init
  <2>3. /\ at \in [Workers -> {"idle", "save", "mark", "count", "push", "render"}]
        /\ job \in [Workers -> Objects \cup {None}]
        /\ mine \in [Workers -> 0..MaxNews]
        /\ copy \in [Workers -> SUBSET (Flags \cup {"row"})]
        /\ counted \in [Workers -> 0..Cardinality(Objects)]
    BY Zenon, <1>2 DEF Init
  <2>4. page \in Nat \ {0}
    BY DEF Init
  <2>5. QED
    BY Zenon, <1>2, <2>1, <2>2, <2>3, <2>4 DEF Init, TypeOK
<1>4. Control /\ Alone /\ CountStands
    BY DEF Init, Control, Alone, CountStands
<1>5. Distinct
    BY <1>1 DEF Init, Distinct
<1>6. FlagsFollowNews /\ Scrolled
    BY <1>1 DEF Init, FlagsFollowNews, Scrolled
<1>7. BadgeAgrees
  <2>1. Unread = 0
    BY <1>1 DEF Unread, Counting
  <2>2. QED
    BY Zenon, <2>1 DEF Init, BadgeAgrees
<1>8. QED
    BY Zenon, <1>3, <1>4, <1>5, <1>6, <1>7 DEF IInv

\* Every step keeps the types.
LEMMA TypeStep ==
    ASSUME NotificationsConstants, Counting, TypeOK, Control, Next
    PROVE  TypeOK'
<1>1. CASE \E w \in Workers : \E o \in Objects : notify(w, o)
    BY Zenon, <1>1, NotifyTyped
<1>2. CASE \E w \in Workers : Save(w)
    BY Zenon, <1>2, SaveTyped
<1>3. CASE \E w \in Workers : \/ Refused(w) \/ Count(w) \/ Push(w) \/ getNextNotifications(w)
                               \/ Mark(w) \/ Fails(w)
    BY Zenon, <1>3, WorkerTyped
<1>4. CASE (\E w \in Workers : Render(w)) \/ Visit \/ \E o \in Objects : done(o)
    BY Zenon, <1>4, TabTyped
<1>5. QED
    BY Zenon, <1>1, <1>2, <1>3, <1>4 DEF Next

\* Every step keeps the invariant.
LEMMA NextInv ==
    ASSUME NotificationsConstants, Counting, WellOrdered
    PROVE  IInv /\ [Next]_vars => IInv'
<1>1. ASSUME IInv, Next PROVE IInv'
  <2>1. /\ TypeOK /\ Control /\ Distinct /\ Alone /\ CountStands
        /\ FlagsFollowNews /\ BadgeAgrees /\ Scrolled
    BY Zenon, <1>1 DEF IInv
  <2>2. TypeOK'
    BY Zenon, <1>1, <2>1, TypeStep
  <2>3. Control' /\ Distinct'
    BY Zenon, <1>1, <2>1, ControlStep
  <2>4. Alone'
    BY Zenon, <1>1, <2>1, AloneStep
  <2>5. CountStands'
    BY Zenon, <1>1, <2>1, CountStep
  <2>6. FlagsFollowNews'
    BY Zenon, <1>1, <2>1, FlagsStep
  <2>7. BadgeAgrees'
    BY Zenon, <1>1, <2>1, BadgeStep
  <2>8. Scrolled'
    BY Zenon, <1>1, <2>1, RowsRanked, ScrolledStep
  <2>9. QED
    BY Zenon, <2>2, <2>3, <2>4, <2>5, <2>6, <2>7, <2>8 DEF IInv
<1>2. ASSUME IInv, UNCHANGED vars PROVE IInv'
  <2>1. UNCHANGED <<news, flag, latest, at, job, mine, copy, counted, shared, badge>>
    BY Zenon, <1>2 DEF vars, rows, local
  <2>2. UNCHANGED <<loading, page, shown, end, visits, failures, marked, crossed, due, moved, unsure>>
    BY Zenon, <1>2 DEF vars, tab, bounds, history
  <2>3. Existing' = Existing /\ Unread' = Unread
    BY Zenon, <2>1 DEF Existing, Unread
  <2>4. TypeOK' /\ Control' /\ Distinct'
    BY Zenon, <1>2, <2>1, <2>2, <2>3 DEF IInv, TypeOK, Control, Distinct
  <2>5. Alone' /\ CountStands' /\ FlagsFollowNews' /\ BadgeAgrees'
    BY Zenon, <1>2, <2>1, <2>2, <2>3 DEF IInv, Alone, CountStands, FlagsFollowNews, BadgeAgrees
  <2>6. Scrolled'
    BY Zenon, <1>2, <2>1, <2>2, QuietScrolled DEF IInv
  <2>7. QED
    BY Zenon, <2>4, <2>5, <2>6 DEF IInv
<1>3. QED
    BY Zenon, <1>1, <1>2

-----------------------------------------------------------------------------
FS == INSTANCE FiniteSetTheorems

\* What the proofs use about the sizes of finite sets holds.
LEMMA Counted == Counting
<1>1. \A S : FS!IsFiniteSet(S) <=> IsFiniteSet(S)
    BY Zenon DEF FS!IsFiniteSet, IsFiniteSet
<1> USE <1>1
<1>2. \A S : FS!Cardinality(S) = Cardinality(S)
    BY Zenon DEF FS!Cardinality, Cardinality
<1> USE <1>2
<1>3. Cardinality({}) = 0
    BY Zenon, FS!FS_EmptySet
<1>4. \A S : IsFiniteSet(S) => Cardinality(S) \in Nat
    BY Zenon, FS!FS_CardinalityType
<1>5. \A S, T : IsFiniteSet(T) /\ S \subseteq T => IsFiniteSet(S) /\ Cardinality(S) <= Cardinality(T)
    BY FS!FS_Subset
<1>6. \A S : IsFiniteSet(S) /\ Cardinality(S) > 0 => S # {}
    BY <1>3
<1>7. \A S, x : IsFiniteSet(S) /\ x \in S => Cardinality(S \ {x}) = Cardinality(S) - 1
    BY FS!FS_RemoveElement
<1> QED
    BY Zenon, <1>3, <1>4, <1>5, <1>6, <1>7 DEF Counting

WF == INSTANCE WellFoundedInduction

\* The order of the natural numbers is well-founded.
LEMMA Ordered == WellOrdered
<1> SUFFICES ASSUME NEW T, T \subseteq Nat, T # {}
             PROVE  \E x \in T : \A y \in T : x <= y
    BY Zenon DEF WellOrdered
<1> DEFINE Less == {ss \in Nat \X Nat : ss[1] < ss[2]}
<1>1. WF!IsWellFoundedOn(Less, Nat)
    BY WF!NatLessThanWellFounded DEF WF!OpToRel
<1> HIDE DEF Less
<1>2. PICK x \in T : \A y \in T : ~ (<<y, x>> \in Less)
    BY <1>1, WF!WFMin, Zenon
<1>3. \A y \in T : <<y, x>> \in Nat \X Nat
    BY Zenon
<1>4. \A y \in T : ~ (<<y, x>>[1] < <<y, x>>[2])
    BY Zenon, <1>2, <1>3 DEF Less
<1> QED
    BY <1>4

\* The inductive invariant holds throughout: a process that is to save has news
\* of its own, rows have different news, a process alone pushes the number there
\* is, and what has to be shown is shown or on a page to come.
THEOREM Inductive ==
    ASSUME NotificationsConstants
    PROVE  Spec => []IInv
<1>1. Init => IInv
    BY Zenon, Counted, InitInv
<1>2. IInv /\ [Next]_vars => IInv'
    BY Zenon, Counted, Ordered, NextInv
<1> QED
    BY <1>1, <1>2, PTL DEF Spec

\* Flags, badge and list agree with the news but for what crosses a process
\* between its reading and its writing (Notification.notify, read_count,
\* NotificationsController#index).
THEOREM NewsArrives ==
    ASSUME NotificationsConstants
    PROVE  Spec => [](TypeOK /\ FlagsFollowNews /\ BadgeAgrees /\ ScrolledAll)
<1>1. IInv => TypeOK /\ FlagsFollowNews /\ BadgeAgrees /\ ScrolledAll
    BY Zenon DEF IInv, Scrolled, ScrolledAll
<1> QED
    BY <1>1, Inductive, PTL
=============================================================================
