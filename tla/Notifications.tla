--------------------------- MODULE Notifications ---------------------------
(***************************************************************************)
(* The notifications of one user.  There is one row per kind and object    *)
(* (somebody likes my request, somebody comments on it ...), which every   *)
(* further piece of news updates: it gets the latest user, moves to the    *)
(* top of the list, and is neither read nor done any more.  Web processes  *)
(* notify while the user's tab loads its list page by page.  Loading the   *)
(* first page marks all notifications read.                                *)
(*                                                                         *)
(* Pieces of news are numbered in the order of their updated_at.           *)
(***************************************************************************)
EXTENDS Integers, FiniteSets

CONSTANTS
    Objects,     \* what the notifications are about, with their kinds
    Workers,     \* web processes
    PerPage,     \* length of a page
    MaxNews,     \* bound on the pieces of news
    MaxVisits,   \* bound on visits to the list
    MaxFailures  \* bound on requests for the list that fail

\* What the model asks of its constants.
NotificationsConstants ==
    /\ IsFiniteSet(Objects)
    /\ PerPage \in Nat \ {0}
    /\ {MaxNews, MaxVisits, MaxFailures} \subseteq Nat

Flags == {"read", "done"}
None == "none"

VARIABLES
    news,       \* news[o]: the latest piece of news stored, 0 if there is no row
    flag,       \* flag[f]: the notifications that are read, done
    latest,     \* the number of pieces of news
    at,         \* at[w]: step of w
    job,        \* job[w]: the object w notifies about, None if it lists
    mine,       \* mine[w]: the piece of news
    copy,       \* copy[w]: the row w found: {} or {"row"} and the flags set
    counted,    \* counted[w]: the number of unread notifications w has read
    badge,      \* the number the tab shows
    loading,    \* the tab waits for a page
    page,       \* the page the tab loads next
    shown,      \* the notifications in the tab's list
    end,        \* isEndOfNotifications
    visits, failures,  \* counters for the bounds
    marked,     \* history: marked[f][o]: the news when o was last flagged
    crossed,    \* history: flags set between a process's reading and writing
    due,        \* history: news when the first page was loaded
    moved,      \* history: a row went down the list since then
    shared,     \* history: workers that have not run alone
    unsure      \* history: the badge may be of another moment

rows == <<news, flag>>
local == <<at, job, mine, copy, counted, shared>>
tab == <<loading, page, shown, end>>
bounds == <<visits, failures>>
history == <<marked, crossed, due, moved>>
vars == <<rows, latest, local, badge, tab, bounds, history, unsure>>

Existing == {o \in Objects : news[o] # 0}
Unread == Cardinality(Existing \ flag["read"])

TypeOK ==
    /\ news \in [Objects -> 0..MaxNews]
    /\ flag \in [Flags -> SUBSET Existing]
    /\ latest \in 0..MaxNews
    /\ at \in [Workers -> {"idle", "save", "mark", "count", "push", "render"}]
    /\ job \in [Workers -> Objects \cup {None}]
    /\ mine \in [Workers -> 0..MaxNews]
    /\ copy \in [Workers -> SUBSET (Flags \cup {"row"})]
    /\ counted \in [Workers -> 0..Cardinality(Objects)]
    /\ badge \in 0..Cardinality(Objects)
    /\ loading \in BOOLEAN
    /\ page \in Nat \ {0}
    /\ shown \subseteq Existing
    /\ end \in BOOLEAN
    /\ visits \in 0..MaxVisits
    /\ failures \in 0..MaxFailures
    /\ marked \in [Flags -> [Objects -> 0..MaxNews]]
    /\ crossed \subseteq Flags \X Objects
    /\ due \in [Objects -> 0..MaxNews]
    /\ moved \in BOOLEAN
    /\ shared \subseteq Workers
    /\ unsure \in BOOLEAN

Init ==
    /\ news = [o \in Objects |-> 0]
    /\ flag = [f \in Flags |-> {}]
    /\ latest = 0
    /\ at = [w \in Workers |-> "idle"]
    /\ job = [w \in Workers |-> None]
    /\ mine = [w \in Workers |-> 0]
    /\ copy = [w \in Workers |-> {}]
    /\ counted = [w \in Workers |-> 0]
    /\ badge = 0
    /\ loading = FALSE
    /\ page = 1
    /\ shown = {}
    /\ end = FALSE
    /\ visits = 0
    /\ failures = 0
    /\ marked = [f \in Flags |-> [o \in Objects |-> 0]]
    /\ crossed = {}
    /\ due = [o \in Objects |-> 0]
    /\ moved = FALSE
    /\ shared = {}
    /\ unsure = FALSE

-----------------------------------------------------------------------------
Go(w, step) == at' = [at EXCEPT ![w] = step]

Begin(w) ==
    LET busy == {v \in Workers : at[v] # "idle"}
    IN /\ at[w] = "idle"
       /\ shared' = IF busy = {} THEN shared ELSE shared \cup busy \cup {w}

Idle(w) ==
    /\ Go(w, "idle")
    /\ job' = [job EXCEPT ![w] = None]
    /\ mine' = [mine EXCEPT ![w] = 0]
    /\ copy' = [copy EXCEPT ![w] = {}]
    /\ counted' = [counted EXCEPT ![w] = 0]
    /\ shared' = shared \ {w}

(* notify: the row is looked for, *)
notify(w, o) ==
    /\ Begin(w)
    /\ latest < MaxNews
    /\ latest' = latest + 1
    /\ job' = [job EXCEPT ![w] = o]
    /\ mine' = [mine EXCEPT ![w] = latest']
    /\ copy' = [copy EXCEPT ![w] =
                   IF news[o] = 0 THEN {} ELSE {"row"} \cup {f \in Flags : o \in flag[f]}]
    /\ Go(w, "save")
    /\ UNCHANGED <<rows, counted, badge, tab, bounds, history, unsure>>

\* and written: the news, and of the flags those that were found set.
NoFlags(w) == {}
Cleared(w) == copy[w] \cap Flags

Save(w) ==
    LET o == job[w]
    IN /\ at[w] = "save"
       /\ copy[w] = {} => news[o] = 0
       /\ news' = [news EXCEPT ![o] = mine[w]]
       /\ flag' = [f \in Flags |-> IF f \in Cleared(w) THEN flag[f] \ {o} ELSE flag[f]]
       /\ crossed' = {c \in crossed : c[2] = o => c[1] \notin copy[w]}
                     \cup {<<f, o>> : f \in {g \in Flags \ copy[w] : o \in flag[g]}}
       /\ moved' = (moved \/ mine[w] < news[o])
       /\ Go(w, "count")
       /\ UNCHANGED <<latest, job, mine, copy, counted, shared, badge, tab, bounds, marked,
                      due, unsure>>

\* The unique index has a row by now: the handler raises.
Refused(w) ==
    /\ at[w] = "save"
    /\ copy[w] = {} /\ news[job[w]] # 0
    /\ Idle(w)
    /\ UNCHANGED <<rows, latest, badge, tab, bounds, history, unsure>>

\* The number of unread notifications is read, and pushed to the tab.
CountNow == Unread

Count(w) ==
    /\ at[w] = "count"
    /\ counted' = [counted EXCEPT ![w] = CountNow]
    /\ Go(w, "push")
    /\ UNCHANGED <<rows, latest, job, mine, copy, shared, badge, tab, bounds, history,
                   unsure>>

Push(w) ==
    /\ at[w] = "push"
    /\ badge' = counted[w]
    /\ unsure' = (counted[w] # Unread /\ w \in shared)
    /\ IF job[w] = None
       THEN Go(w, "render") /\ UNCHANGED <<job, mine, copy, counted, shared>>
       ELSE Idle(w)
    /\ UNCHANGED <<rows, latest, tab, bounds, history>>

-----------------------------------------------------------------------------
(* The list of notifications. *)

\* The user goes to the list, which is empty at first.
Visit ==
    /\ ~loading
    /\ visits < MaxVisits
    /\ visits' = visits + 1
    /\ page' = 1
    /\ shown' = {}
    /\ end' = FALSE
    /\ UNCHANGED <<rows, latest, local, badge, loading, failures, history, unsure>>

\* getNextNotifications asks for a page, and w gets the request.
getNextNotifications(w) ==
    /\ visits > 0
    /\ ~loading /\ ~end
    /\ Begin(w)
    /\ loading' = TRUE
    /\ badge' = IF page = 1 THEN 0 ELSE badge
    /\ Go(w, IF page = 1 THEN "mark" ELSE "render")
    /\ UNCHANGED <<rows, latest, job, mine, copy, counted, page, shown, end, bounds,
                   history, unsure>>

\* Every notification is marked read, the ones of later pages too.
Mark(w) ==
    /\ at[w] = "mark"
    /\ flag' = [flag EXCEPT !["read"] = Existing]
    /\ marked' = [marked EXCEPT !["read"] = news]
    /\ crossed' = {c \in crossed : c[1] # "read"}
    /\ Go(w, "count")
    /\ UNCHANGED <<news, latest, job, mine, copy, counted, shared, badge, tab, bounds, due,
                   moved, unsure>>

\* The query for the page runs only now, when it is rendered.
Page(p) ==
    {o \in Existing : LET above == Cardinality({q \in Existing : news[q] > news[o]})
                      IN (p - 1) * PerPage <= above /\ above < p * PerPage}

Render(w) ==
    /\ at[w] = "render"
    /\ shown' = shown \cup Page(page)
    /\ end' = (Page(page) = {})
    /\ page' = page + 1
    /\ loading' = FALSE
    /\ due' = IF page = 1 THEN news ELSE due
    /\ moved' = (page # 1 /\ moved)
    /\ Idle(w)
    /\ UNCHANGED <<rows, latest, badge, bounds, marked, crossed, unsure>>

\* The request or its answer is lost: the tab may ask again after a while.
Fails(w) ==
    /\ at[w] \in {"mark", "count", "push", "render"}
    /\ job[w] = None
    /\ failures < MaxFailures
    /\ failures' = failures + 1
    /\ loading' = FALSE
    /\ unsure' = (unsure \/ badge # Unread)
    /\ Idle(w)
    /\ UNCHANGED <<rows, latest, badge, page, shown, end, visits, history>>

\* The user follows a notification of the list that is not done.
AnyObject(o) == TRUE
CanFollow(o) == o \in shown \ flag["done"]

done(o) ==
    /\ CanFollow(o)
    /\ flag' = [flag EXCEPT !["done"] = @ \cup {o}]
    /\ marked' = [marked EXCEPT !["done"][o] = news[o]]
    /\ crossed' = crossed \ {<<"done", o>>}
    /\ UNCHANGED <<news, latest, local, badge, tab, bounds, due, moved, unsure>>

-----------------------------------------------------------------------------
Next ==
    \/ \E w \in Workers :
          \/ \E o \in Objects : notify(w, o)
          \/ Save(w)
          \/ Refused(w)
          \/ Count(w)
          \/ Push(w)
          \/ getNextNotifications(w)
          \/ Mark(w)
          \/ Render(w)
          \/ Fails(w)
    \/ Visit
    \/ \E o \in Objects : done(o)

Spec == Init /\ [][Next]_vars

-----------------------------------------------------------------------------
\* A notification that is read or done has no news since it was marked so,
\* unless it was marked between the finding and the saving of the news: saving
\* clears only the flags that were found set (notify).
FlagsFollowNews ==
    \A f \in Flags, o \in Existing :
        o \in flag[f] => news[o] <= marked[f][o] \/ <<f, o>> \in crossed

\* The badge of a tab is the number of unread notifications, unless a process
\* has still to push, or overlapping processes pushed their counts in another
\* order than they read them, or a request for the list failed.
BadgeAgrees ==
    \/ badge = Unread
    \/ unsure
    \/ \E w \in Workers : at[w] \in {"mark", "count", "push"}

\* Scrolling to the end shows every notification there was at the beginning
\* and that has no news since, although others move to the top between two
\* pages: only a late save that moves one down again can make the tab miss one.
ScrolledAll ==
    end /\ ~moved => \A o \in Existing : news[o] = due[o] => o \in shown

=============================================================================
