------------------------------- MODULE Scores -------------------------------
(***************************************************************************)
(* The counters of one request.  like_count, report_count, comment_count   *)
(* and user_reach_count are columns derived from the tables ratings,       *)
(* request_users and viewings.  A handler loads the request, changes one   *)
(* table, and calls update_score, which recounts the columns of that table *)
(* and writes all of them: those it does not recount go back as they were  *)
(* loaded.  raw_score and score are functions of the four counters, written *)
(* by the same statement, and have no state of their own here.             *)
(*                                                                         *)
(* Web processes and the task db:recalculate run such handlers at once; no *)
(* statement is in a transaction with another.                             *)
(***************************************************************************)
EXTENDS Integers, Sequences, FiniteSets

CONSTANTS
    Users,     \* who rates, views and comments
    Author,    \* the user who posts the request
    Workers,   \* web processes and rake tasks
    Handlers,  \* the handlers they run: a subset of AllHandlers
    Given,     \* the ratings users give: a subset of Ratings
    MaxHandlers   \* bound on the handlers run

AllHandlers == {"rate", "view", "comment", "destroy", "recalculate"}
Columns == {"like", "report", "comment", "reach"}
Ratings == {"like", "report", "neither"}   \* 1, -2 and 0
NoRow == "no row"
Row == "row"
Nobody == "nobody"

\* What the model asks of its constants.
ScoresConstants ==
    /\ IsFiniteSet(Users)
    /\ Author \in Users
    /\ Nobody \notin Users
    /\ Handlers \subseteq AllHandlers
    /\ Given \subseteq Ratings
    /\ MaxHandlers \in Nat

VARIABLES
    stage,       \* "none"; "new": stored; "posted": its author is in users
    active,      \* the workflow state is active
    rating,      \* rating[u]: u's row in ratings
    users,       \* request_users
    viewings,    \* users with a row in viewings
    comments,    \* users with an enabled comment
    row,         \* the columns of the request
    at,          \* at[w]: step of w
    job,         \* job[w]: the handler w runs, its user, the rating given
    copy,        \* copy[w]: the columns as w loaded or recounted them
    old,         \* old[w]: the row w found, or NoRow
    recount,     \* recount[w]: columns w has still to recount
    handlers,    \* number of handlers run
    shared,      \* history: workers that have not run alone
    early,       \* history: users were counted before the author was one
    overtaken    \* history: columns gone stale when handlers overlapped

tables == <<rating, users, viewings, comments>>
local == <<at, job, copy, old, recount, shared>>
vars == <<stage, active, tables, row, local, handlers, early, overtaken>>

\* The columns as the tables are now.
Rated(r) == {u \in Users : rating[u] = r}
Table ==
    [like    |-> Cardinality(Rated("like")),
     report  |-> Cardinality(Rated("report")),
     comment |-> Cardinality(users) - 1,
     reach   |-> Cardinality(viewings)]

Zero == [c \in Columns |-> 0]
NoJob == [handler |-> "none", user |-> Nobody, rating |-> "neither"]
Jobs == [handler : Handlers, user : Users, rating : Ratings]

TypeOK ==
    /\ stage \in {"none", "new", "posted"}
    /\ active \in BOOLEAN
    /\ rating \in [Users -> Ratings \cup {NoRow}]
    /\ users \subseteq Users
    /\ stage = "posted" => Author \in users
    /\ viewings \subseteq Users
    /\ comments \subseteq Users
    /\ row \in [Columns -> Int]
    /\ at \in [Workers -> {"idle", "find", "save", "count"}]
    /\ job \in [Workers -> Jobs \cup {NoJob}]
    /\ \A w \in Workers : at[w] # "idle" => job[w] \in Jobs /\ stage # "none"
    /\ copy \in [Workers -> [Columns -> Int]]
    /\ old \in [Workers -> Ratings \cup {NoRow, Row}]
    /\ recount \in [Workers -> Seq(Columns)]
    /\ handlers \in 0..MaxHandlers
    /\ shared \subseteq Workers
    /\ early \in BOOLEAN
    /\ overtaken \subseteq Columns

Init ==
    /\ stage = "none"
    /\ active = TRUE
    /\ rating = [u \in Users |-> NoRow]
    /\ users = {}
    /\ viewings = {}
    /\ comments = {}
    /\ row = Zero
    /\ at = [w \in Workers |-> "idle"]
    /\ job = [w \in Workers |-> NoJob]
    /\ copy = [w \in Workers |-> Zero]
    /\ old = [w \in Workers |-> NoRow]
    /\ recount = [w \in Workers |-> <<>>]
    /\ handlers = 0
    /\ shared = {}
    /\ early = FALSE
    /\ overtaken = {}

-----------------------------------------------------------------------------
(* The author posts the request: it is stored with its defaults, and then    *)
(* the author becomes one of its users.                                      *)

create ==
    /\ stage = "none"
    /\ stage' = "new"
    /\ UNCHANGED <<active, tables, row, local, handlers, early,
                   overtaken>>

AuthorJoins ==
    /\ stage = "new"
    /\ stage' = "posted"
    /\ users' = users \cup {Author}
    /\ UNCHANGED <<active, rating, viewings, comments, row, local, handlers, early,
                   overtaken>>

\* disable! and enable! write the workflow state alone.
Workflow ==
    /\ stage = "posted"
    /\ active' = ~active
    /\ UNCHANGED <<stage, tables, row, local, handlers, early,
                   overtaken>>

-----------------------------------------------------------------------------
(* The handlers. *)

\* What update_score recounts for the handler, in its order.
Forgetful(handler) ==
    CASE handler = "rate" -> <<"like">>
      [] handler = "view" -> <<"reach">>
      [] handler = "recalculate" -> <<"like", "report", "comment", "reach">>
      [] OTHER -> <<>>
Recounted(handler) ==
    CASE handler = "rate" -> <<"like", "report">>
      [] handler = "view" -> <<"reach">>
      [] handler = "recalculate" -> <<"like", "report", "comment", "reach">>
      [] OTHER -> <<"comment">>

IsRecounted(c, handler) ==
    \E i \in DOMAIN Recounted(handler) : Recounted(handler)[i] = c

\* Of the columns loaded, update_score uses those it does not recount.
Kept(handler) == [c \in Columns |-> IF IsRecounted(c, handler) THEN 0 ELSE row[c]]

Idle(w) ==
    /\ at' = [at EXCEPT ![w] = "idle"]
    /\ job' = [job EXCEPT ![w] = NoJob]
    /\ copy' = [copy EXCEPT ![w] = Zero]
    /\ old' = [old EXCEPT ![w] = NoRow]
    /\ recount' = [recount EXCEPT ![w] = <<>>]
    /\ shared' = shared \ {w}

Busy == {w \in Workers : at[w] # "idle"}

\* The request is loaded.  A disabled one is neither viewed nor commented; it
\* can be rated.  destroy disables an enabled comment first.
Load(w, j) ==
    /\ stage # "none"
    /\ at[w] = "idle"
    /\ handlers < MaxHandlers
    /\ handlers' = handlers + 1
    /\ j.handler \in {"view", "comment"} => active
    /\ j.handler = "destroy" => j.user \in comments
    /\ IF j.handler = "rate" THEN j.rating \in Given ELSE j.rating = "neither"
    /\ j.handler = "recalculate" => j.user = Author
    /\ at' = [at EXCEPT ![w] = IF j.handler \in {"destroy", "recalculate"}
                               THEN "count" ELSE "find"]
    /\ job' = [job EXCEPT ![w] = j]
    /\ copy' = [copy EXCEPT ![w] = Kept(j.handler)]
    /\ recount' = [recount EXCEPT ![w] = Recounted(j.handler)]
    /\ shared' = IF Busy = {} THEN shared ELSE shared \cup Busy \cup {w}
    /\ comments' = IF j.handler = "destroy" THEN comments \ {j.user} ELSE comments
    /\ UNCHANGED <<stage, active, rating, users, viewings, row, old, early, overtaken>>

\* The row the handler is about to create or update, if there is one.  A
\* comment is stored before its user is looked up.
Found(j) ==
    CASE j.handler = "rate" -> rating[j.user]
      [] j.handler = "view" -> IF j.user \in viewings THEN Row ELSE NoRow
      [] OTHER -> IF j.user \in users THEN Row ELSE NoRow

Find(w) ==
    /\ at[w] = "find"
    /\ at' = [at EXCEPT ![w] = "save"]
    /\ old' = [old EXCEPT ![w] = Found(job[w])]
    /\ comments' = IF job[w].handler = "comment" THEN comments \cup {job[w].user}
                   ELSE comments
    /\ UNCHANGED <<stage, active, rating, users, viewings, row, job, copy, recount,
                   shared, handlers, early, overtaken>>

\* The row was not there when it was looked up, and is now: the unique index
\* refuses the insertion, and the handler ends with an error.
Refused(w) ==
    /\ at[w] = "save"
    /\ old[w] = NoRow /\ Found(job[w]) # NoRow
    /\ Idle(w)
    /\ UNCHANGED <<stage, active, tables, row, handlers, early,
                   overtaken>>

\* A rating that was found is written only if it changes.  The handler has no
\* more use for its user and rating (but for the mails it sends in the end).
Save(w) ==
    LET j == job[w]
        rated == j.handler = "rate" /\ old[w] # j.rating
    IN /\ at[w] = "save"
       /\ old[w] # NoRow \/ Found(j) = NoRow
       /\ rating' = IF rated THEN [rating EXCEPT ![j.user] = j.rating] ELSE rating
       /\ viewings' = IF j.handler = "view" THEN viewings \cup {j.user} ELSE viewings
       /\ users' = IF j.handler = "comment" THEN users \cup {j.user} ELSE users
       /\ at' = [at EXCEPT ![w] = "count"]
       /\ old' = [old EXCEPT ![w] = NoRow]
       /\ job' = [job EXCEPT ![w].user = Author, ![w].rating = "neither"]
       /\ UNCHANGED <<stage, active, comments, row, copy, recount, shared, handlers,
                      early, overtaken>>

\* update_score: one COUNT after the other ...
Count(w) ==
    LET c == Head(recount[w])
    IN /\ at[w] = "count"
       /\ recount[w] # <<>>
       /\ copy' = [copy EXCEPT ![w][c] = Table[c]]
       /\ recount' = [recount EXCEPT ![w] = Tail(@)]
       /\ early' = (early \/ (c = "comment" /\ stage = "new"))
       /\ UNCHANGED <<stage, active, tables, row, at, job, old, shared, handlers,
                      overtaken>>

\* ... and then update_columns with all of them.
update_score(w) ==
    /\ at[w] = "count"
    /\ recount[w] = <<>>
    /\ row' = copy[w]
    /\ overtaken' = {c \in Columns : copy[w][c] # Table[c]
                                     /\ (w \in shared \/ c \in overtaken)}
    /\ Idle(w)
    /\ UNCHANGED <<stage, active, tables, handlers, early>>

-----------------------------------------------------------------------------
Next ==
    \/ create
    \/ AuthorJoins
    \/ Workflow
    \/ \E w \in Workers :
          \/ \E j \in Jobs : Load(w, j)
          \/ Find(w)
          \/ Refused(w)
          \/ Save(w)
          \/ Count(w)
          \/ update_score(w)

Spec == Init /\ [][Next]_vars

-----------------------------------------------------------------------------
\* w has changed the table of column c, or only means to recount it, and will
\* write the request.
Owes(w, c) ==
    /\ at[w] = "count"
    /\ IsRecounted(c, job[w].handler)

\* Every change of a table is followed by a recount: a column that does not
\* agree with its table is about to be written, or a handler that overlapped
\* another was overtaken between reading and writing it (or people were counted
\* before the author joined).  So handlers that do not overlap leave every column
\* exact, and a recalculation that overlaps nothing repairs all of them.
ExactUnlessOvertaken ==
    \A c \in Columns :
        \/ row[c] = Table[c]
        \/ c \in overtaken
        \/ c = "comment" /\ (early \/ stage # "posted")
        \/ \E w \in Workers : Owes(w, c)

\* Rows of viewings and request_users are never deleted, so a stale value is one
\* too small: the request never shows more viewers or more commenters than it
\* has, nor fewer than none unless people were counted before the author joined.
PlausibleCounts ==
    /\ row["reach"] \in 0..Cardinality(viewings)
    /\ row["comment"] < Cardinality(users \cup {Author})
    /\ row["comment"] >= 0 \/ early

=============================================================================
