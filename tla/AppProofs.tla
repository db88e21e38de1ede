------------------------------ MODULE AppProofs -----------------------------
(***************************************************************************)
(* For any users, processes and bounds, what App says of its three parts:    *)
(* the counters of a request agree with its tables (Scores), the counters of *)
(* users balance their ratings and are repaired (Reputation) and news        *)
(* reaches its reader (Notifications).                                       *)
(*                                                                           *)
(* The counters of a request are proved here.  The invariant adds to what is *)
(* stated of them what a process is about to write (PlausibleCopies), what   *)
(* it knows of others (Alone) and who is going to recount.  The other two    *)
(* parts are proved in modules of their own, for the instances App makes.     *)
(***************************************************************************)
EXTENDS App, TLAPS

\* What the proofs use about the sizes of finite sets.
Counting ==
    /\ IsFiniteSet({}) /\ Cardinality({}) = 0
    /\ \A S : IsFiniteSet(S) => Cardinality(S) \in Nat /\ (Cardinality(S) = 0 <=> S = {})
    /\ \A S, T : IsFiniteSet(T) /\ S \subseteq T => IsFiniteSet(S) /\ Cardinality(S) <= Cardinality(T)
    /\ \A x : Cardinality({x}) = 1
    /\ \A S, x : IsFiniteSet(S) /\ x \notin S =>
          IsFiniteSet(S \cup {x}) /\ Cardinality(S \cup {x}) = Cardinality(S) + 1

\* The columns that w has still to recount.
Rest(w) == {recount[w][i] : i \in DOMAIN recount[w]}

\* Of two handlers that run at once, both are known to.
Alone == \A v, w \in Workers : v # w /\ at[v] # "idle" /\ at[w] # "idle" => w \in shared

\* What a process is about to write is as plausible as what the row has.
PlausibleCopies ==
    \A w \in Workers :
        /\ copy[w]["reach"] \in 0..Cardinality(viewings)
        /\ copy[w]["comment"] < Cardinality(users \cup {Author})
        /\ copy[w]["comment"] >= 0 \/ early

\* Before the author has joined, and unless users were counted: nobody has
\* been counted, and whoever added a user is going to count.
Unposted ==
    stage # "posted" /\ ~early =>
        /\ row["comment"] = 0
        /\ \A w \in Workers : copy[w]["comment"] = 0
        /\ users # {} => \E w \in Workers : Owes(w, "comment")
        /\ \A w \in Workers :
              at[w] = "count" /\ IsRecounted("comment", job[w].handler) => "comment" \in Rest(w)

\* A process that runs alone has the columns as they are in the row, or as it
\* has recounted them.
Loaded ==
    \A w \in Workers : at[w] # "idle" =>
        /\ \A c \in Rest(w) : IsRecounted(c, job[w].handler)
        /\ at[w] # "count" => \A c \in Columns : IsRecounted(c, job[w].handler) => c \in Rest(w)
        /\ w \notin shared => \A c \in Columns :
              \/ c \in Rest(w)
              \/ IsRecounted(c, job[w].handler) /\ (copy[w][c] = Table[c] \/ (c = "comment" /\ early))
              \/ ~IsRecounted(c, job[w].handler) /\ copy[w][c] = row[c]

IInv == /\ TypeOK /\ PlausibleCounts /\ ExactUnlessOvertaken
        /\ Alone /\ PlausibleCopies /\ Unposted /\ Loaded

\* Sets of users can be counted, and a larger one has no fewer.
LEMMA Sizes ==
    ASSUME ScoresConstants, Counting, NEW A, NEW B, A \subseteq B, B \subseteq Users
    PROVE  Cardinality(A) \in Nat /\ Cardinality(B) \in Nat /\ Cardinality(A) <= Cardinality(B)
<1>1. IsFiniteSet(B)
    BY Zenon DEF ScoresConstants, Counting
<1>2. IsFiniteSet(A) /\ Cardinality(A) <= Cardinality(B)
    BY <1>1 DEF Counting
<1> QED
    BY <1>1, <1>2 DEF Counting

\* Whoever is in a set of users counts.
LEMMA AuthorCounts ==
    ASSUME ScoresConstants, Counting, NEW A, A \subseteq Users, NEW u \in A
    PROVE  Cardinality(A) >= 1
<1>1. IsFiniteSet(A)
    BY DEF ScoresConstants, Counting
<1>2. Cardinality(A) # 0 /\ Cardinality(A) \in Nat
    BY <1>1 DEF Counting
<1> QED
    BY <1>2

\* The columns as the tables are now are numbers.
LEMMA TableTyped ==
    ASSUME ScoresConstants, Counting, TypeOK
    PROVE  Table \in [Columns -> Int] /\ Cardinality(viewings) \in Nat /\ Cardinality(users) \in Nat
           /\ Table["reach"] = Cardinality(viewings) /\ Table["comment"] = Cardinality(users) - 1
<1>1. Rated("like") \subseteq Users /\ Rated("report") \subseteq Users
      /\ users \subseteq Users /\ viewings \subseteq Users
    BY DEF Rated, TypeOK
<1>2. /\ Cardinality(Rated("like")) \in Nat /\ Cardinality(Rated("report")) \in Nat
      /\ Cardinality(users) \in Nat /\ Cardinality(viewings) \in Nat
    BY Zenon, <1>1, Sizes
<1> QED
    BY <1>2 DEF Table, Columns

\* What update_score recounts are columns.
LEMMA RecountTyped ==
    ASSUME NEW h
    PROVE  /\ Recounted(h) \in Seq(Columns)
           /\ \A c : IsRecounted(c, h) <=> c \in {Recounted(h)[i] : i \in DOMAIN Recounted(h)}
<1>1. Recounted(h) \in Seq(Columns)
    <2>1. /\ "like" \in Columns /\ "report" \in Columns /\ "comment" \in Columns /\ "reach" \in Columns
        BY DEF Columns
    <2>2. /\ <<"like", "report">> \in Seq(Columns) /\ <<"reach">> \in Seq(Columns)
          /\ <<"like", "report", "comment", "reach">> \in Seq(Columns) /\ <<"comment">> \in Seq(Columns)
        BY <2>1
    <2>3. Recounted(h) \in {<<"like", "report">>, <<"reach">>, <<"comment">>,
                            <<"like", "report", "comment", "reach">>}
        BY Zenon DEF Recounted
    <2> QED
        BY Zenon, <2>2, <2>3
<1>2. ASSUME NEW c
      PROVE  IsRecounted(c, h) <=> c \in {Recounted(h)[i] : i \in DOMAIN Recounted(h)}
    BY Zenon DEF IsRecounted
<1> QED
    BY <1>1, <1>2

\* Every step keeps the types.
LEMMA TypeStep ==
    ASSUME ScoresConstants, Counting, TypeOK, [Next]_vars
    PROVE  TypeOK'
<1> USE DEF tables, local, TypeOK
<1>0. Author \in Users /\ MaxHandlers \in Nat /\ Zero \in [Columns -> Int] /\ "neither" \in Ratings
    BY DEF ScoresConstants, Zero, Ratings
<1>1. CASE create
    BY Zenon, <1>1 DEF create
<1>2. CASE AuthorJoins
    BY Zenon, <1>0, <1>2 DEF AuthorJoins
<1>3. CASE Workflow
    BY <1>3 DEF Workflow
<1>4. ASSUME NEW w \in Workers, NEW j \in Jobs, Load(w, j) PROVE TypeOK'
    <2>1. /\ Recounted(j.handler) \in Seq(Columns) /\ Kept(j.handler) \in [Columns -> Int]
          /\ handlers' \in 0..MaxHandlers
        BY <1>0, <1>4, RecountTyped DEF Kept, Load
    <2>2. /\ at' \in [Workers -> {"idle", "find", "save", "count"}] /\ job' \in [Workers -> Jobs \cup {NoJob}]
          /\ copy' \in [Workers -> [Columns -> Int]] /\ recount' \in [Workers -> Seq(Columns)]
          /\ shared' \subseteq Workers /\ comments' \subseteq Users
        BY Zenon, <1>4, <2>1 DEF Load, Busy
    <2>3. \A v \in Workers : at'[v] # "idle" => job'[v] \in Jobs /\ stage' # "none"
        BY Zenon, <1>4 DEF Load
    <2> QED
        BY Zenon, <1>4, <2>1, <2>2, <2>3 DEF Load
<1>5. ASSUME NEW w \in Workers, Find(w) PROVE TypeOK'
    <2>1. job[w] \in Jobs
        BY Zenon, <1>5 DEF Find
    <2>2. job[w].user \in Users /\ Found(job[w]) \in Ratings \cup {NoRow, Row}
        BY Zenon, <2>1 DEF Jobs, Found
    <2> QED
        BY Zenon, <1>5, <2>1, <2>2 DEF Find
<1>6. ASSUME NEW w \in Workers, Idle(w), UNCHANGED <<stage, active, tables, handlers, early>>,
             row' \in [Columns -> Int], overtaken' \subseteq Columns
      PROVE  TypeOK'
    BY <1>0, <1>6 DEF Idle
<1>7. ASSUME NEW w \in Workers, Save(w) PROVE TypeOK'
    <2>1. job[w] \in Jobs /\ stage # "none"
        BY Zenon, <1>7 DEF Save
    <2>2. job[w].user \in Users /\ job[w].rating \in Ratings /\ job[w].handler \in Handlers
        BY <2>1 DEF Jobs
    <2>3. rating' \in [Users -> Ratings \cup {NoRow}]
        <3>1. \/ rating' = rating
              \/ rating' = [rating EXCEPT ![job[w].user] = job[w].rating]
            BY Zenon, <1>7 DEF Save
        <3> QED
            BY Zenon, <2>2, <3>1
    <2>4. job' = [job EXCEPT ![w].user = Author, ![w].rating = "neither"]
        BY Zenon, <1>7 DEF Save
    <2>5. job'[w] \in Jobs /\ job' \in [Workers -> Jobs \cup {NoJob}] /\ \A v \in Workers \ {w} : job'[v] = job[v]
        <3>1. job'[w] = [handler |-> job[w].handler, user |-> Author, rating |-> "neither"]
            BY Zenon, <2>1, <2>4 DEF Jobs
        <3>2. job'[w] \in Jobs
            BY <1>0, <2>2, <3>1 DEF Jobs
        <3> QED
            BY Zenon, <2>4, <3>2
    <2>6. viewings' \subseteq Users /\ users \subseteq users' /\ users' \subseteq Users
        BY Zenon, <1>7, <2>2 DEF Save
    <2>7. at' = [at EXCEPT ![w] = "count"] /\ old' = [old EXCEPT ![w] = NoRow]
          /\ UNCHANGED <<stage, active, comments, row, copy, recount, shared, handlers, early, overtaken>>
        BY <1>7 DEF Save
    <2> QED
        BY Zenon, <2>1, <2>3, <2>5, <2>6, <2>7
<1>8. ASSUME NEW w \in Workers, Count(w) PROVE TypeOK'
    <2>1. recount[w] # <<>> /\ recount[w] \in Seq(Columns) /\ Table \in [Columns -> Int]
        BY Zenon, <1>8, TableTyped DEF Count
    <2>2. Head(recount[w]) \in Columns /\ Tail(recount[w]) \in Seq(Columns)
        BY <2>1
    <2> QED
        BY Zenon, <1>8, <2>1, <2>2 DEF Count
<1>9. ASSUME NEW w \in Workers, Refused(w) PROVE TypeOK'
    BY Zenon, <1>6, <1>9 DEF Refused
<1>10. ASSUME NEW w \in Workers, update_score(w) PROVE TypeOK'
    BY Zenon, <1>6, <1>10 DEF update_score
<1>11. CASE UNCHANGED vars
    BY Zenon, <1>11 DEF vars
<1> QED
    BY Zenon, <1>1, <1>2, <1>3, <1>4, <1>5, <1>7, <1>8, <1>9, <1>10, <1>11 DEF Next

\* The invariant holds when the request does not exist yet.
LEMMA InitInv ==
    ASSUME ScoresConstants, Counting, Init
    PROVE  IInv
<1>1. Author \in Users /\ MaxHandlers \in Nat
    BY Zenon DEF ScoresConstants
<1>2. /\ stage = "none" /\ rating = [u \in Users |-> NoRow] /\ users = {} /\ viewings = {}
      /\ comments = {} /\ row = [c \in Columns |-> 0] /\ at = [w \in Workers |-> "idle"]
      /\ job = [w \in Workers |-> NoJob] /\ copy = [w \in Workers |-> [c \in Columns |-> 0]]
      /\ old = [w \in Workers |-> NoRow] /\ recount = [w \in Workers |-> <<>>]
      /\ handlers = 0 /\ shared = {} /\ overtaken = {}
    BY DEF Init, Zero
<1>3. active \in BOOLEAN /\ early \in BOOLEAN
    BY Zenon DEF Init
<1>4. TypeOK
    BY <1>1, <1>2, <1>3 DEF TypeOK
<1>5. Cardinality({}) = 0 /\ Cardinality({} \cup {Author}) = 1
    <2>1. {} \cup {Author} = {Author}
        BY Zenon
    <2> QED
        BY <2>1 DEF Counting
<1>6. PlausibleCounts
    BY <1>2, <1>5 DEF PlausibleCounts, Columns
<1>7. PlausibleCopies
    BY <1>2, <1>5 DEF PlausibleCopies, Columns
<1>8. Rated("like") = {} /\ Rated("report") = {}
    BY Zenon, <1>2 DEF Rated, NoRow
<1>9. Table["like"] = 0 /\ Table["report"] = 0 /\ Table["reach"] = 0
    BY Zenon, <1>2, <1>5, <1>8 DEF Table
<1>10. ExactUnlessOvertaken
    BY Zenon, <1>2, <1>9 DEF ExactUnlessOvertaken, Columns
<1> QED
    BY Zenon, <1>2, <1>4, <1>6, <1>7, <1>10 DEF IInv, Alone, Unposted, Loaded, Columns

\* Storing the request, and disabling or enabling it, leave the columns alone.
LEMMA StageInv ==
    ASSUME IInv, TypeOK', create \/ Workflow \/ UNCHANGED vars
    PROVE  IInv'
<1>1. UNCHANGED <<tables, row, local, handlers, early, overtaken>>
      /\ (stage' = stage \/ (stage # "posted" /\ stage' # "posted"))
    BY Zenon DEF create, Workflow, vars
<1>2. Table' = Table /\ \A w \in Workers, c \in Columns : Owes(w, c)' = Owes(w, c)
    BY Zenon, <1>1 DEF Table, Rated, tables, local, Owes
<1>3. ExactUnlessOvertaken'
    BY Zenon, <1>1, <1>2 DEF IInv, ExactUnlessOvertaken
<1>4. Unposted'
    BY Zenon, <1>1, <1>2 DEF IInv, Unposted, local, tables, Columns, Rest
<1>5. PlausibleCounts' /\ PlausibleCopies' /\ Alone'
    BY Zenon, <1>1 DEF IInv, PlausibleCounts, PlausibleCopies, Alone, local, tables
<1>6. Loaded'
    BY <1>1, <1>2 DEF IInv, Loaded, local, Rest
<1> QED
    BY Zenon, <1>3, <1>4, <1>5, <1>6 DEF IInv

\* The author joins: one user more, and they are not counted.
LEMMA AuthorInv ==
    ASSUME ScoresConstants, Counting, IInv, TypeOK', AuthorJoins
    PROVE  IInv'
<1>1. /\ UNCHANGED <<rating, viewings, row, local, early, overtaken>>
      /\ stage = "new" /\ stage' = "posted" /\ users' = users \cup {Author}
    BY Zenon DEF AuthorJoins
<1>2. \A c \in Columns \ {"comment"} : Table'[c] = Table[c]
    BY <1>1 DEF Table, Rated, Columns
<1>3. \A w \in Workers, c \in Columns : Owes(w, c)' = Owes(w, c)
    BY Zenon, <1>1 DEF local, Owes
<1>4. users' \cup {Author} = users \cup {Author}
    BY <1>1
<1>5. PlausibleCounts' /\ PlausibleCopies' /\ Alone'
    BY Zenon, <1>1, <1>4 DEF IInv, PlausibleCounts, PlausibleCopies, Alone, local
<1>6. Unposted'
    BY Zenon, <1>1 DEF Unposted
<1>7. ASSUME NEW c \in Columns
      PROVE  \/ row'[c] = Table'[c] \/ c \in overtaken'
             \/ c = "comment" /\ (early' \/ stage' # "posted")
             \/ \E w \in Workers : Owes(w, c)'
    <2>1. CASE c # "comment"
        BY Zenon, <1>1, <1>2, <1>3, <2>1 DEF IInv, ExactUnlessOvertaken
    <2>2. CASE c = "comment" /\ users # {} /\ ~early
        BY Zenon, <1>1, <1>3, <2>2 DEF IInv, Unposted
    <2>3. CASE c = "comment" /\ users = {} /\ ~early
        <3>1. users' = {Author} /\ row["comment"] = 0
            BY Zenon, <1>1, <2>3 DEF IInv, Unposted
        <3>2. Cardinality(users') = 1
            BY Zenon, <3>1 DEF Counting
        <3> QED
            BY <1>1, <2>3, <3>1, <3>2 DEF Table
    <2> QED
        BY Zenon, <1>1, <2>1, <2>2, <2>3
<1>8. ASSUME NEW w \in Workers, at'[w] # "idle", w \notin shared', NEW c \in Columns
      PROVE  \/ c \in Rest(w)'
             \/ IsRecounted(c, job'[w].handler)
                /\ (copy'[w][c] = Table'[c] \/ (c = "comment" /\ early'))
             \/ ~IsRecounted(c, job'[w].handler) /\ copy'[w][c] = row'[c]
    <2>1. Rest(w)' = Rest(w) /\ at' = at /\ shared' = shared /\ job' = job /\ copy' = copy
        BY Zenon, <1>1 DEF Rest, local
    <2>2. CASE c # "comment"
        BY Zenon, <1>1, <1>2, <1>8, <2>1, <2>2 DEF IInv, Loaded
    <2>3. CASE c = "comment"
        BY Zenon, <1>1, <1>8, <2>1, <2>3 DEF IInv, Loaded, Unposted
    <2> QED
        BY <2>2, <2>3
<1>9. Loaded'
    BY <1>1, <1>8 DEF IInv, Loaded, local, Rest
<1> QED
    BY Zenon, <1>5, <1>6, <1>7, <1>9 DEF IInv, ExactUnlessOvertaken

\* A handler begins: it recounts its columns and has the others as they are.
LEMMA LoadInv ==
    ASSUME ScoresConstants, Counting, IInv, TypeOK', NEW w \in Workers, NEW j \in Jobs, Load(w, j)
    PROVE  IInv'
<1>1. /\ UNCHANGED <<stage, rating, users, viewings, row, early, overtaken>> /\ at[w] = "idle"
      /\ at' = [at EXCEPT ![w] = at'[w]] /\ job' = [job EXCEPT ![w] = j]
      /\ copy' = [copy EXCEPT ![w] = Kept(j.handler)]
      /\ recount' = [recount EXCEPT ![w] = Recounted(j.handler)]
      /\ shared' = IF Busy = {} THEN shared ELSE shared \cup Busy \cup {w}
    BY DEF Load, IInv, TypeOK
<1>2. TypeOK
    BY DEF IInv
<1>3. Table' = Table
    BY Zenon, <1>1 DEF Table, Rated
<1>4. \A v \in Workers \ {w} : at'[v] = at[v] /\ job'[v] = job[v] /\ copy'[v] = copy[v]
                               /\ recount'[v] = recount[v] /\ Rest(v)' = Rest(v)
    BY <1>1, <1>2 DEF TypeOK, Rest
<1>5. job'[w] = j /\ copy'[w] = Kept(j.handler) /\ recount'[w] = Recounted(j.handler)
      /\ \A c : c \in Rest(w)' <=> IsRecounted(c, j.handler)
    BY <1>1, <1>2, RecountTyped DEF TypeOK, Rest
<1>6. \A c \in Columns : copy'[w][c] = IF IsRecounted(c, j.handler) THEN 0 ELSE row[c]
    BY Zenon, <1>5 DEF Kept
<1>7. \A v \in Workers, c \in Columns : Owes(v, c) => Owes(v, c)'
    BY Zenon, <1>1, <1>4 DEF Owes
<1>8. ExactUnlessOvertaken'
    BY Zenon, <1>1, <1>3, <1>7 DEF IInv, ExactUnlessOvertaken
<1>9. Alone'
    <2>1. CASE Busy = {}
        BY Zenon, <1>4, <2>1 DEF Alone, Busy
    <2>2. CASE Busy # {}
        BY Zenon, <1>1, <1>4, <2>2 DEF IInv, Alone, Busy
    <2> QED
        BY Zenon, <2>1, <2>2
<1>10. PlausibleCounts' /\ PlausibleCopies'
    <2>1. Cardinality(users \cup {Author}) \in Nat /\ Cardinality(viewings) \in Nat
        BY Zenon, <1>2, Sizes, TableTyped DEF TypeOK, ScoresConstants
    <2>2. Cardinality(users \cup {Author}) >= 1
        BY Zenon, <1>2, AuthorCounts DEF TypeOK, ScoresConstants
    <2>3. PlausibleCounts'
        BY Zenon, <1>1 DEF IInv, PlausibleCounts
    <2>4. /\ copy'[w]["reach"] \in 0..Cardinality(viewings)
          /\ copy'[w]["comment"] < Cardinality(users \cup {Author})
          /\ copy'[w]["comment"] >= 0 \/ early
        BY <1>6, <2>1, <2>2 DEF IInv, PlausibleCounts, Columns
    <2> QED
        BY Zenon, <1>1, <1>4, <2>3, <2>4 DEF IInv, PlausibleCopies
<1>11. Unposted'
    BY <1>1, <1>4, <1>5, <1>6, <1>7 DEF IInv, Unposted, Columns
<1>12. Loaded'
    <2>1. \A v \in Workers \ {w} : v \notin shared' => v \notin shared
        BY <1>1
    <2> QED
        BY <1>1, <1>3, <1>4, <1>5, <1>6, <2>1 DEF IInv, Loaded
<1> QED
    BY Zenon, <1>8, <1>9, <1>10, <1>11, <1>12 DEF IInv

\* The lookup of the row to change.
LEMMA FindInv ==
    ASSUME IInv, TypeOK', NEW w \in Workers, Find(w)
    PROVE  IInv'
<1>1. /\ UNCHANGED <<stage, rating, users, viewings, row, job, copy, recount, shared, early, overtaken>>
      /\ at[w] = "find" /\ at' = [at EXCEPT ![w] = "save"]
    BY Zenon DEF Find
<1>2. Table' = Table /\ (\A v \in Workers : Rest(v)' = Rest(v))
    BY Zenon, <1>1 DEF Table, Rated, Rest
<1>3. \A v \in Workers : (at'[v] = "count" <=> at[v] = "count") /\ (at'[v] = "idle" <=> at[v] = "idle")
    BY Zenon, <1>1 DEF IInv, TypeOK
<1>4. \A v \in Workers, c \in Columns : Owes(v, c) <=> Owes(v, c)'
    BY Zenon, <1>1, <1>3 DEF Owes
<1>5. ExactUnlessOvertaken' /\ Alone' /\ PlausibleCounts' /\ PlausibleCopies'
    BY Zenon, <1>1, <1>2, <1>3, <1>4
        DEF IInv, ExactUnlessOvertaken, Alone, PlausibleCounts, PlausibleCopies
<1>6. Unposted'
    BY Zenon, <1>1, <1>2, <1>3, <1>4 DEF IInv, Unposted, Columns
<1>7. Loaded'
    BY <1>1, <1>2, <1>3 DEF IInv, Loaded
<1> QED
    BY Zenon, <1>5, <1>6, <1>7 DEF IInv

\* A handler that ends owes nothing, and the others know that they overlapped it.
LEMMA IdleInv ==
    ASSUME ScoresConstants, Counting, IInv, TypeOK', NEW w \in Workers, at[w] # "idle", Idle(w),
           UNCHANGED <<stage, rating, users, viewings, early>>
    PROVE  /\ Alone' /\ Table' = Table /\ PlausibleCopies'
           /\ \A v \in Workers \ {w}, c \in Columns : Owes(v, c) <=> Owes(v, c)'
           /\ \A v \in Workers \ {w} : Rest(v)' = Rest(v) /\ copy'[v] = copy[v] /\ at'[v] = at[v]
                                       /\ job'[v] = job[v]
           /\ copy'[w]["comment"] = 0 /\ at'[w] = "idle"
           /\ Loaded'
<1>1. \A v \in Workers \ {w} : at'[v] = at[v] /\ job'[v] = job[v] /\ copy'[v] = copy[v]
                               /\ recount'[v] = recount[v] /\ Rest(v)' = Rest(v)
    BY DEF Idle, IInv, TypeOK, Rest
<1>2. Table' = Table
    BY Zenon DEF Table, Rated
<1>3. at'[w] = "idle" /\ copy'[w]["reach"] = 0 /\ copy'[w]["comment"] = 0 /\ shared' = shared \ {w}
    BY Zenon DEF Idle, IInv, TypeOK, Zero, Columns
<1>4. \A v \in Workers \ {w}, c \in Columns : Owes(v, c) <=> Owes(v, c)'
    BY Zenon, <1>1 DEF Owes
<1>5. \A v \in Workers \ {w} : at[v] # "idle" => v \in shared
    BY Zenon DEF IInv, Alone
<1>6. Alone'
    BY Zenon, <1>1, <1>3, <1>5 DEF Alone
<1>7. PlausibleCopies'
    <2>1. Cardinality(users \cup {Author}) \in Nat /\ Cardinality(viewings) \in Nat
        BY Zenon, Sizes, TableTyped DEF IInv, TypeOK, ScoresConstants
    <2>2. Cardinality(users \cup {Author}) >= 1
        BY Zenon, AuthorCounts DEF IInv, TypeOK, ScoresConstants
    <2>3. users' = users /\ viewings' = viewings /\ early' = early
        BY Zenon
    <2>4. /\ copy'[w]["reach"] \in 0..Cardinality(viewings)
          /\ copy'[w]["comment"] < Cardinality(users \cup {Author})
          /\ copy'[w]["comment"] >= 0
        BY <1>3, <2>1, <2>2
    <2>5. ASSUME NEW v \in Workers \ {w}
          PROVE  /\ copy'[v]["reach"] \in 0..Cardinality(viewings)
                 /\ copy'[v]["comment"] < Cardinality(users \cup {Author})
                 /\ copy'[v]["comment"] >= 0 \/ early
        BY Zenon, <1>1 DEF IInv, PlausibleCopies
    <2> QED
        BY <2>3, <2>4, <2>5 DEF PlausibleCopies
<1>8. Loaded'
    BY Zenon, <1>1, <1>3, <1>5 DEF IInv, Loaded
<1> QED
    BY Zenon, <1>1, <1>2, <1>3, <1>4, <1>6, <1>7, <1>8

\* The unique index refuses a second row.
LEMMA RefusedInv ==
    ASSUME ScoresConstants, Counting, IInv, TypeOK', NEW w \in Workers, Refused(w)
    PROVE  IInv'
<1>1. /\ UNCHANGED <<stage, rating, users, viewings, row, early, overtaken>>
      /\ at[w] = "save" /\ Idle(w)
    BY Zenon DEF Refused, tables
<1>2. \A v \in Workers, c \in Columns : Owes(v, c) <=> Owes(v, c)'
    BY Zenon, <1>1, IdleInv DEF Owes
<1>3. ExactUnlessOvertaken' /\ PlausibleCounts'
    BY Zenon, <1>1, <1>2, IdleInv DEF IInv, ExactUnlessOvertaken, PlausibleCounts
<1>4. Unposted'
    BY Zenon, <1>1, <1>2, IdleInv DEF IInv, Unposted, Columns
<1> QED
    BY Zenon, <1>1, <1>3, <1>4, IdleInv DEF IInv

\* A change of a table is one of a column that the handler then recounts.
LEMMA SaveChanges ==
    ASSUME TypeOK, NEW w \in Workers, Save(w)
    PROVE  /\ at[w] = "save" /\ at' = [at EXCEPT ![w] = "count"]
           /\ \A v \in Workers : job'[v].handler = job[v].handler
           /\ UNCHANGED <<stage, row, copy, recount, shared, early, overtaken>>
           /\ users \subseteq users' /\ viewings \subseteq viewings'
           /\ \A c \in Columns : Table'[c] = Table[c] \/ IsRecounted(c, job[w].handler)
           /\ users' = users \/ IsRecounted("comment", job[w].handler)
<1>1. /\ at[w] = "save" /\ at' = [at EXCEPT ![w] = "count"]
      /\ job' = [job EXCEPT ![w].user = Author, ![w].rating = "neither"]
      /\ UNCHANGED <<stage, row, copy, recount, shared, early, overtaken>>
      /\ users \subseteq users' /\ viewings \subseteq viewings'
      /\ job[w].handler # "rate" => rating' = rating
      /\ job[w].handler # "view" => viewings' = viewings
      /\ job[w].handler # "comment" => users' = users
    BY Zenon DEF Save
<1>2. job[w] \in Jobs
    BY Zenon, <1>1 DEF TypeOK
<1>3. \A v \in Workers : job'[v].handler = job[v].handler
    BY Zenon, <1>1, <1>2 DEF TypeOK, Jobs
<1>4. /\ IsRecounted("like", "rate") /\ IsRecounted("report", "rate")
    BY DEF IsRecounted, Recounted
<1>5. IsRecounted("reach", "view") /\ IsRecounted("comment", "comment")
    <2>1. Recounted("view") = <<"reach">> /\ Recounted("comment") = <<"comment">>
        BY Zenon DEF Recounted
    <2> QED
        BY <2>1 DEF IsRecounted
<1>6. ASSUME NEW c \in Columns PROVE Table'[c] = Table[c] \/ IsRecounted(c, job[w].handler)
    <2>1. job[w].handler # "rate" => Rated("like")' = Rated("like") /\ Rated("report")' = Rated("report")
        BY Zenon, <1>1 DEF Rated
    <2>2. CASE c \in {"like", "report"}
        BY <1>4, <2>1, <2>2 DEF Table
    <2>3. CASE c = "comment"
        BY Zenon, <1>1, <1>5, <2>3 DEF Table
    <2>4. CASE c = "reach"
        BY Zenon, <1>1, <1>5, <2>4 DEF Table
    <2> QED
        BY Zenon, <2>2, <2>3, <2>4 DEF Columns
<1> QED
    BY Zenon, <1>1, <1>3, <1>5, <1>6

\* The row is created or changed, and will be counted.
LEMMA SaveInv ==
    ASSUME ScoresConstants, Counting, IInv, TypeOK', NEW w \in Workers, Save(w)
    PROVE  IInv'
<1>1. TypeOK
    BY Zenon DEF IInv
<1>2. /\ at[w] = "save" /\ at' = [at EXCEPT ![w] = "count"]
      /\ \A v \in Workers : job'[v].handler = job[v].handler
      /\ UNCHANGED <<stage, row, copy, recount, shared, early, overtaken>>
      /\ users \subseteq users' /\ viewings \subseteq viewings'
      /\ \A c \in Columns : Table'[c] = Table[c] \/ IsRecounted(c, job[w].handler)
      /\ users' = users \/ IsRecounted("comment", job[w].handler)
    BY Zenon, <1>1, SaveChanges
<1>3. at'[w] = "count" /\ (\A v \in Workers \ {w} : at'[v] = at[v]) /\ (\A v \in Workers : Rest(v)' = Rest(v))
    BY <1>1, <1>2 DEF TypeOK, Rest
<1>4. \A c \in Columns : Owes(w, c)' <=> IsRecounted(c, job[w].handler)
    BY Zenon, <1>2, <1>3 DEF Owes
<1>5. \A v \in Workers, c \in Columns : Owes(v, c) => Owes(v, c)'
    BY Zenon, <1>2, <1>3 DEF Owes
<1>6. ASSUME NEW c \in Columns
      PROVE  \/ row'[c] = Table'[c] \/ c \in overtaken'
             \/ c = "comment" /\ (early' \/ stage' # "posted")
             \/ \E v \in Workers : Owes(v, c)'
    BY Zenon, <1>2, <1>4, <1>5 DEF IInv, ExactUnlessOvertaken
<1>7. Alone'
    BY Zenon, <1>2, <1>3 DEF IInv, Alone
<1>8. /\ Cardinality(viewings) <= Cardinality(viewings') /\ Cardinality(viewings) \in Nat
      /\ Cardinality(users \cup {Author}) <= Cardinality(users' \cup {Author})
      /\ Cardinality(viewings') \in Nat /\ Cardinality(users \cup {Author}) \in Nat
      /\ Cardinality(users' \cup {Author}) \in Nat
    <2>1. viewings' \subseteq Users /\ users \cup {Author} \subseteq users' \cup {Author}
          /\ users' \cup {Author} \subseteq Users
        BY Zenon, <1>2 DEF TypeOK, ScoresConstants
    <2> QED
        BY <1>2, <2>1, Sizes
<1>9. PlausibleCounts'
    <2>1. row["reach"] \in Int /\ row["comment"] \in Int
        BY Zenon, <1>1 DEF TypeOK, Columns
    <2> QED
        BY <1>2, <1>8, <2>1 DEF IInv, PlausibleCounts
<1>10. PlausibleCopies'
    <2> SUFFICES ASSUME NEW v \in Workers
                 PROVE  /\ copy[v]["reach"] \in 0..Cardinality(viewings')
                        /\ copy[v]["comment"] < Cardinality(users' \cup {Author})
                        /\ copy[v]["comment"] >= 0 \/ early
        BY Zenon, <1>2 DEF PlausibleCopies
    <2>1. copy[v] \in [Columns -> Int] /\ "reach" \in Columns /\ "comment" \in Columns
        BY Zenon, <1>1 DEF TypeOK, Columns
    <2>2. /\ copy[v]["reach"] \in 0..Cardinality(viewings)
          /\ copy[v]["comment"] < Cardinality(users \cup {Author})
          /\ copy[v]["comment"] >= 0 \/ early
        BY Zenon DEF IInv, PlausibleCopies
    <2> QED
        BY <1>8, <2>1, <2>2
<1>11. \A c \in Columns : IsRecounted(c, job[w].handler) => c \in Rest(w)
    BY Zenon, <1>2 DEF IInv, Loaded
<1>12. Unposted'
    BY Zenon, <1>2, <1>3, <1>4, <1>5, <1>11 DEF IInv, Unposted, Columns
<1>13. \A v \in Workers \ {w} : at[v] # "idle" => v \in shared
    BY Zenon, <1>2 DEF IInv, Alone
<1>14. Loaded'
    <2>1. ASSUME NEW v \in Workers \ {w}, at'[v] # "idle"
          PROVE  /\ v \in shared'
                 /\ \A c \in Rest(v)' : IsRecounted(c, job'[v].handler)
                 /\ at'[v] # "count" =>
                        \A c \in Columns : IsRecounted(c, job'[v].handler) => c \in Rest(v)'
        <3>1. at'[v] = at[v] /\ job'[v].handler = job[v].handler /\ Rest(v)' = Rest(v) /\ shared' = shared
            BY Zenon, <1>2, <1>3
        <3> QED
            BY Zenon, <1>13, <2>1, <3>1 DEF IInv, Loaded
    <2>2. /\ \A c \in Rest(w)' : IsRecounted(c, job'[w].handler)
          /\ w \notin shared' => \A c \in Columns :
              \/ c \in Rest(w)'
              \/ ~IsRecounted(c, job'[w].handler) /\ copy'[w][c] = row'[c]
        <3>1. /\ at[w] # "idle" /\ job'[w].handler = job[w].handler /\ Rest(w)' = Rest(w)
              /\ shared' = shared /\ copy' = copy /\ row' = row
            BY Zenon, <1>2, <1>3
        <3> QED
            BY Zenon, <1>11, <3>1 DEF IInv, Loaded
    <2> QED
        BY Zenon, <1>3, <2>1, <2>2 DEF Loaded
<1> QED
    BY Zenon, <1>6, <1>7, <1>9, <1>10, <1>12, <1>14 DEF IInv, ExactUnlessOvertaken

\* The tail of a sequence has all but its first element.
LEMMA TailShifts ==
    ASSUME NEW S, NEW s \in Seq(S), NEW i \in 1..Len(s), i # 1
    PROVE  (i - 1) \in DOMAIN Tail(s) /\ Tail(s)[i - 1] = s[i]
<1>1. Len(Tail(s)) = Len(s) - 1 /\ Tail(s) \in Seq(S) /\ i - 1 \in 1..(Len(s) - 1) /\ s # <<>>
    OBVIOUS
<1>2. DOMAIN Tail(s) = 1..(Len(s) - 1)
    BY <1>1
<1>3. \A k \in 1..(Len(s) - 1) : Tail(s)[k] = s[k + 1]
    BY <1>1
<1> QED
    BY <1>1, <1>2, <1>3

\* update_score counts one column.
LEMMA CountInv ==
    ASSUME ScoresConstants, Counting, IInv, TypeOK', NEW w \in Workers, Count(w)
    PROVE  IInv'
<1> DEFINE h == Head(recount[w])
<1>1. TypeOK
    BY DEF IInv
<1>2. /\ at[w] = "count" /\ recount[w] # <<>> /\ recount[w] \in Seq(Columns)
      /\ copy' = [copy EXCEPT ![w][h] = Table[h]] /\ recount' = [recount EXCEPT ![w] = Tail(recount[w])]
      /\ (early => early') /\ (h = "comment" /\ stage = "new" => early')
      /\ UNCHANGED <<stage, rating, users, viewings, row, at, job, shared, overtaken>>
    BY Zenon, <1>1 DEF Count, tables, TypeOK
<1>3. h \in Columns /\ h \in Rest(w)
    BY <1>2 DEF Rest
<1>4. \A c : c \in Rest(w)' => c \in Rest(w)
    BY <1>1, <1>2 DEF Rest, TypeOK
<1>5. \A c : c \in Rest(w) /\ c # h => c \in Rest(w)'
    <2> SUFFICES ASSUME NEW i \in DOMAIN recount[w], recount[w][i] # h
                 PROVE  recount[w][i] \in Rest(w)'
        BY Zenon DEF Rest
    <2>1. recount'[w] = Tail(recount[w]) /\ i \in 1..Len(recount[w]) /\ i # 1
        BY <1>1, <1>2 DEF TypeOK
    <2>2. (i - 1) \in DOMAIN recount'[w] /\ recount'[w][i - 1] = recount[w][i]
        BY Zenon, <1>2, <2>1, TailShifts
    <2> QED
        BY Zenon, <2>2 DEF Rest
<1>6. \A v \in Workers \ {w} : copy'[v] = copy[v] /\ Rest(v)' = Rest(v)
    BY <1>1, <1>2 DEF TypeOK, Rest
<1>7. copy'[w][h] = Table[h] /\ \A c \in Columns \ {h} : copy'[w][c] = copy[w][c]
    BY Zenon, <1>1, <1>2, <1>3 DEF TypeOK
<1>8. Table' = Table /\ \A v \in Workers, c \in Columns : Owes(v, c) <=> Owes(v, c)'
    BY Zenon, <1>2 DEF Table, Rated, Owes
<1> HIDE DEF h
<1>9. ExactUnlessOvertaken' /\ Alone'
    BY Zenon, <1>2, <1>8 DEF IInv, ExactUnlessOvertaken, Alone
<1>10. PlausibleCounts'
    BY Zenon, <1>2 DEF IInv, PlausibleCounts
<1>11. /\ Table["reach"] \in 0..Cardinality(viewings)
       /\ Table["comment"] < Cardinality(users \cup {Author})
       /\ stage = "posted" => Table["comment"] >= 0
    <2>1. Table["reach"] = Cardinality(viewings) /\ Table["comment"] = Cardinality(users) - 1
          /\ Cardinality(viewings) \in Nat
        BY Zenon, <1>1, TableTyped
    <2>2. Cardinality(users) <= Cardinality(users \cup {Author}) /\ Cardinality(users) \in Nat
          /\ Cardinality(users \cup {Author}) \in Nat
        BY Zenon, <1>1, Sizes DEF TypeOK, ScoresConstants
    <2>3. stage = "posted" => Cardinality(users) >= 1
        BY Zenon, <1>1, AuthorCounts DEF TypeOK
    <2> QED
        BY <2>1, <2>2, <2>3
<1>12. stage \in {"new", "posted"}
    BY Zenon, <1>1, <1>2 DEF TypeOK
<1>13. PlausibleCopies'
    <2>1. /\ copy'[w]["reach"] \in 0..Cardinality(viewings)
          /\ copy'[w]["comment"] < Cardinality(users \cup {Author})
          /\ copy'[w]["comment"] >= 0 \/ early'
        BY Zenon, <1>2, <1>3, <1>7, <1>11, <1>12 DEF IInv, PlausibleCopies, Columns
    <2> QED
        BY Zenon, <1>2, <1>6, <2>1 DEF IInv, PlausibleCopies
<1>14. Unposted'
    <2> SUFFICES ASSUME stage' # "posted", ~early'
                 PROVE  /\ row'["comment"] = 0
                        /\ \A v \in Workers : copy'[v]["comment"] = 0
                        /\ users' # {} => \E v \in Workers : Owes(v, "comment")'
                        /\ \A v \in Workers : at'[v] = "count" /\ IsRecounted("comment", job'[v].handler)
                              => "comment" \in Rest(v)'
        BY Zenon DEF Unposted
    <2>1. h # "comment" /\ stage # "posted" /\ ~early
        BY Zenon, <1>2, <1>12
    <2> QED
        BY Zenon, <1>2, <1>5, <1>6, <1>7, <1>8, <2>1 DEF IInv, Unposted, Columns
<1>15. Loaded'
    <2>1. ASSUME NEW v \in Workers \ {w}, at'[v] # "idle"
          PROVE  /\ \A c \in Rest(v)' : IsRecounted(c, job'[v].handler)
                 /\ at'[v] # "count" =>
                        \A c \in Columns : IsRecounted(c, job'[v].handler) => c \in Rest(v)'
                 /\ v \notin shared' => \A c \in Columns :
                      \/ c \in Rest(v)'
                      \/ IsRecounted(c, job'[v].handler)
                         /\ (copy'[v][c] = Table'[c] \/ (c = "comment" /\ early'))
                      \/ ~IsRecounted(c, job'[v].handler) /\ copy'[v][c] = row'[c]
        BY <1>2, <1>6, <1>8, <2>1 DEF IInv, Loaded
    <2>2. /\ \A c \in Rest(w)' : IsRecounted(c, job'[w].handler)
          /\ w \notin shared' => \A c \in Columns :
                      \/ c \in Rest(w)'
                      \/ IsRecounted(c, job'[w].handler)
                         /\ (copy'[w][c] = Table'[c] \/ (c = "comment" /\ early'))
                      \/ ~IsRecounted(c, job'[w].handler) /\ copy'[w][c] = row'[c]
        BY <1>2, <1>3, <1>4, <1>5, <1>7, <1>8 DEF IInv, Loaded
    <2> QED
        BY Zenon, <1>2, <2>1, <2>2 DEF Loaded
<1> QED
    BY Zenon, <1>9, <1>10, <1>13, <1>14, <1>15 DEF IInv

\* update_score writes the columns: those of a handler that ran alone are
\* exact, or another one owes them.
LEMMA UpdateInv ==
    ASSUME ScoresConstants, Counting, IInv, TypeOK', NEW w \in Workers, update_score(w)
    PROVE  IInv'
<1>1. /\ at[w] = "count" /\ recount[w] = <<>> /\ row' = copy[w] /\ Idle(w)
      /\ overtaken' = {c \in Columns : copy[w][c] # Table[c] /\ (w \in shared \/ c \in overtaken)}
      /\ UNCHANGED <<stage, rating, users, viewings, early>>
    BY Zenon DEF update_score, tables
<1>2. /\ Alone' /\ Table' = Table /\ PlausibleCopies' /\ Loaded'
      /\ \A v \in Workers \ {w}, c \in Columns : Owes(v, c) <=> Owes(v, c)'
      /\ \A v \in Workers \ {w} : Rest(v)' = Rest(v) /\ copy'[v] = copy[v] /\ at'[v] = at[v]
                                  /\ job'[v] = job[v]
      /\ copy'[w]["comment"] = 0 /\ at'[w] = "idle"
    BY Zenon, <1>1, IdleInv
<1>3. Rest(w) = {}
    <2>1. DOMAIN recount[w] = {}
        BY <1>1
    <2> QED
        BY Zenon, <2>1 DEF Rest
<1>4. ASSUME NEW c \in Columns
      PROVE  \/ row'[c] = Table'[c] \/ c \in overtaken'
             \/ c = "comment" /\ (early' \/ stage' # "posted")
             \/ \E v \in Workers : Owes(v, c)'
    <2> SUFFICES ASSUME copy[w][c] # Table[c], w \notin shared, c \notin overtaken,
                        ~IsRecounted(c, job[w].handler), copy[w][c] = row[c]
                 PROVE  \/ c = "comment" /\ (early \/ stage # "posted")
                        \/ \E v \in Workers : Owes(v, c)'
        BY Zenon, <1>1, <1>2, <1>3 DEF IInv, Loaded
    <2>1. ~Owes(w, c)
        BY SMTT(20) DEF Owes
    <2> QED
        BY Zenon, <1>2, <2>1 DEF IInv, ExactUnlessOvertaken
<1>5. PlausibleCounts'
    <2>1. row' = copy[w] /\ users' = users /\ viewings' = viewings /\ early' = early
        BY Zenon, <1>1
    <2> QED
        BY Zenon, <2>1 DEF IInv, PlausibleCopies, PlausibleCounts
<1>6. Unposted'
    <2>1. ASSUME stage # "posted", ~early PROVE ~Owes(w, "comment")
        BY Zenon, <1>3, <2>1 DEF IInv, Unposted, Owes
    <2> QED
        BY Zenon, <1>1, <1>2, <2>1 DEF IInv, Unposted, Columns
<1> QED
    BY Zenon, <1>2, <1>4, <1>5, <1>6 DEF IInv, ExactUnlessOvertaken

\* Every step keeps the invariant.
LEMMA NextInv ==
    ASSUME ScoresConstants, Counting, IInv, [Next]_vars
    PROVE  IInv'
<1>1. TypeOK'
    BY Zenon, TypeStep DEF IInv
<1> QED
    BY Zenon, <1>1, StageInv, AuthorInv, LoadInv, FindInv, RefusedInv, SaveInv, CountInv, UpdateInv
        DEF Next

-----------------------------------------------------------------------------
(* The other parts of the application, and the three side by side.           *)

\* A behaviour of App is one of Scores.
LEMMA ScoresPart ==
    /\ AppInit => Init
    /\ [AppNext]_allVars => [Next]_vars
    BY Zenon DEF AppInit, AppNext, allVars

-----------------------------------------------------------------------------
R == INSTANCE ReputationProofs WITH
    Given <- UserRatings, MaxHandlers <- MaxRates,
    rating <- r_rating, at <- r_at, job <- r_job, old <- r_old,
    handlers <- r_handlers, shared <- r_shared

\* The facts on sizes that the lemmas on Scores assume.
LEMMA Counted == Counting
<1>1. \A S : R!IsFiniteSet(S) <=> IsFiniteSet(S)
    BY Zenon DEF R!IsFiniteSet, IsFiniteSet
<1>2. \A S : R!Cardinality(S) = Cardinality(S)
    BY Zenon DEF R!Cardinality, Cardinality
<1> QED
    BY Zenon, <1>1, <1>2, R!Counted DEF R!Counting, Counting

\* The counters of a request agree with its tables, for any users, any
\* processes that overlap and any number of handlers (update_score).
THEOREM ScoresStayExact == AppSpec => []ScoresAgree
<1> USE AppAssumption
<1>1. Init => IInv
    BY Zenon, Counted, InitInv
<1>2. IInv /\ [Next]_vars => IInv'
    BY Zenon, Counted, NextInv
<1>3. IInv => ScoresAgree
    BY Zenon DEF IInv, ScoresAgree
<1> QED
    BY <1>1, <1>2, <1>3, ScoresPart, PTL DEF AppSpec

\* The counters of users start in App as in Reputation.
LEMMA ReputationStart == Re!Init => R!Init
    BY Zenon DEF
        Re!Init, R!Init, Re!Following, R!Following, Re!Likes, R!Likes, Re!Points, R!Points,
        Re!Zero, R!Zero, Re!Gainer, R!Gainer, Re!Rateable, R!Rateable, Re!RatingsFor,
        R!RatingsFor, Re!Added, R!Added, Re!Counters, R!Counters, Re!Nobody, R!Nobody,
        Re!NoJob, R!NoJob, Re!NoRow, R!NoRow, Re!Cardinality, R!Cardinality,
        Re!IsFiniteSet, R!IsFiniteSet

\* A step of them in App is one in Reputation.
LEMMA ReputationStep == Re!Next => R!Next
    BY Zenon DEF
        Re!Added, R!Added, Re!Counters, R!Counters, Re!NoRow, R!NoRow, Re!Nobody, R!Nobody,
        Re!NoJob, R!NoJob, Re!Gainer, R!Gainer, Re!Valid, R!Valid, Re!rows, R!rows,
        Re!local, R!local, Re!vars, R!vars, Re!Jobs, R!Jobs, Re!Rateable, R!Rateable,
        Re!RatingsFor, R!RatingsFor, Re!Value, R!Value, Re!Having, R!Having, Re!Total,
        R!Total, Re!Rated, R!Rated, Re!Sum, R!Sum, Re!Likes, R!Likes, Re!Following,
        R!Following, Re!Points, R!Points, Re!Zero, R!Zero, Re!Go, R!Go, Re!Idle, R!Idle,
        Re!Begin, R!Begin, Re!Mark, R!Mark, Re!Reload, R!Reload, Re!UpdatePoints,
        R!UpdatePoints, Re!rate, R!rate, Re!Rejected, R!Rejected, Re!Saved, R!Saved,
        Re!Difference, R!Difference, Re!Add, R!Add, Re!CountFollowers, R!CountFollowers,
        Re!AfterFollowers, R!AfterFollowers, Re!WriteFollowers, R!WriteFollowers,
        Re!CountFollowing, R!CountFollowing, Re!WriteFollowing, R!WriteFollowing,
        Re!recalculate, R!recalculate, Re!RecalculateCounts, R!RecalculateCounts,
        Re!WriteCounts, R!WriteCounts, Re!RecalculateSum, R!RecalculateSum, Re!Recalculated,
        R!Recalculated, Re!WriteSums, R!WriteSums, Re!Next, R!Next, Re!Cardinality,
        R!Cardinality, Re!IsFiniteSet, R!IsFiniteSet

\* What App says of the counters of users is what Reputation does.
LEMMA SameCounters == R!TypeOK /\ R!CountersBalance /\ R!DerivedAgree => CountersBalance
    BY Zenon DEF CountersBalance,
        Re!TypeOK, R!TypeOK, Re!CountersBalance, R!CountersBalance, Re!DerivedAgree,
        R!DerivedAgree, Re!Pending, R!Pending, Re!Adding, R!Adding, Re!Sum, R!Sum,
        Re!Total, R!Total, Re!Having, R!Having, Re!Rated, R!Rated, Re!Likes, R!Likes,
        Re!Following, R!Following, Re!Points, R!Points, Re!Values, R!Values, Re!Jobs,
        R!Jobs, Re!Steps, R!Steps, Re!Gainer, R!Gainer, Re!Rateable, R!Rateable,
        Re!RatingsFor, R!RatingsFor, Re!Added, R!Added, Re!Counters, R!Counters, Re!Nobody,
        R!Nobody, Re!NoJob, R!NoJob, Re!NoRow, R!NoRow, Re!Cardinality, R!Cardinality,
        Re!IsFiniteSet, R!IsFiniteSet

\* What App says of a recalculation is what Reputation does.
LEMMA SameRepair == R!RepairAlone => Re!RepairAlone
    BY Zenon DEF
        Re!RepairAlone, R!RepairAlone, Re!WriteSums, R!WriteSums, Re!Recalculated,
        R!Recalculated, Re!Go, R!Go, Re!local, R!local, Re!Sum, R!Sum, Re!Total, R!Total,
        Re!Having, R!Having, Re!Rated, R!Rated, Re!Likes, R!Likes, Re!Gainer, R!Gainer,
        Re!Rateable, R!Rateable, Re!RatingsFor, R!RatingsFor, Re!Added, R!Added,
        Re!Counters, R!Counters, Re!Nobody, R!Nobody, Re!NoJob, R!NoJob, Re!NoRow, R!NoRow,
        Re!Cardinality, R!Cardinality, Re!IsFiniteSet, R!IsFiniteSet

\* What App assumes of the constants is what Reputation does.
LEMMA ReputationAssumed == R!ReputationConstants
    BY Zenon, AppAssumption DEF
        Re!ReputationConstants, R!ReputationConstants, Re!Valid, R!Valid, Re!Added, R!Added,
        Re!Nobody, R!Nobody, Re!IsFiniteSet, R!IsFiniteSet

\* A behaviour of App is one of Reputation.
LEMMA ReputationPart ==
    /\ AppInit => R!Init
    /\ [AppNext]_allVars => [R!Next]_(R!vars)
<1>1. AppInit => R!Init
    BY Zenon, ReputationStart DEF AppInit
<1>2. UNCHANGED rVars => UNCHANGED R!vars
    BY Zenon DEF rVars, R!vars, R!rows, R!local
<1>3. [AppNext]_allVars => [R!Next]_(R!vars)
    BY Zenon, <1>2, ReputationStep DEF AppNext, allVars
<1> QED
    BY Zenon, <1>1, <1>3

\* Overlapping rates lose no difference, and a derived value that does not
\* agree is about to be written or was overtaken, for any things rated, any
\* users and any number of processes (rate, update_points).
THEOREM CountersStayBalanced == AppSpec => []CountersBalance
<1>1. AppSpec => R!Spec
    BY ReputationPart, PTL DEF AppSpec, R!Spec
<1>2. R!IInv => CountersBalance
    BY Zenon, ReputationAssumed, R!InvAgrees, SameCounters
<1>3. R!Spec => []R!IInv
    BY Zenon, ReputationAssumed, R!Inductive
<1> QED
    BY <1>1, <1>2, <1>3, PTL

\* A recalculation that overlaps nothing repairs the counters of its user,
\* whatever was misplaced in them before (db:recalculate).
THEOREM RepairsWhenAlone == AppSpec => RepairsAlone
<1>1. AppSpec => R!Spec
    BY ReputationPart, PTL DEF AppSpec, R!Spec
<1>2. R!Spec => [][R!RepairAlone]_(R!vars)
    BY Zenon, ReputationAssumed, R!RepairsWhenAlone
<1>3. [R!RepairAlone]_(R!vars) => [Re!RepairAlone]_(rVars)
    BY Zenon, SameRepair DEF rVars, R!vars, R!rows, R!local
<1> QED
    BY <1>1, <1>2, <1>3, PTL DEF RepairsAlone

-----------------------------------------------------------------------------
N == INSTANCE NotificationsProofs WITH
    at <- n_at, job <- n_job, copy <- n_copy, shown <- listed, shared <- n_shared

\* Notifications start in App as in Notifications.
LEMMA NotificationsStart == No!Init => N!Init
    BY Zenon DEF
        No!Init, N!Init, No!Flags, N!Flags, No!None, N!None

\* A step of them in App is one in Notifications.
LEMMA NotificationsStep == No!Next => N!Next
    BY Zenon DEF
        No!Existing, N!Existing, No!Unread, N!Unread, No!Flags, N!Flags, No!None, N!None,
        No!rows, N!rows, No!local, N!local, No!tab, N!tab, No!bounds, N!bounds,
        No!history, N!history, No!vars, N!vars, No!Go, N!Go, No!Begin, N!Begin, No!Idle,
        N!Idle, No!notify, N!notify, No!Cleared, N!Cleared, No!Save, N!Save, No!Refused,
        N!Refused, No!CountNow, N!CountNow, No!Count, N!Count, No!Push, N!Push, No!Visit,
        N!Visit, No!getNextNotifications, N!getNextNotifications, No!Mark, N!Mark, No!Page,
        N!Page, No!Render, N!Render, No!Fails, N!Fails, No!CanFollow, N!CanFollow, No!done,
        N!done, No!Next, N!Next, No!Cardinality, N!Cardinality, No!IsFiniteSet, N!IsFiniteSet

\* What App says of news is what Notifications does.
LEMMA SameNews ==
    N!TypeOK /\ N!FlagsFollowNews /\ N!BadgeAgrees /\ N!ScrolledAll => NewsReachesReader
    BY Zenon DEF NewsReachesReader,
        No!TypeOK, N!TypeOK, No!FlagsFollowNews, N!FlagsFollowNews, No!BadgeAgrees,
        N!BadgeAgrees, No!ScrolledAll, N!ScrolledAll, No!Existing, N!Existing, No!Unread,
        N!Unread, No!Flags, N!Flags, No!None, N!None, No!Cardinality, N!Cardinality,
        No!IsFiniteSet, N!IsFiniteSet

\* What App assumes of the constants is what Notifications does.
LEMMA NotificationsAssumed == N!NotificationsConstants
    BY Zenon, AppAssumption DEF
        No!NotificationsConstants, N!NotificationsConstants, No!IsFiniteSet, N!IsFiniteSet

\* A behaviour of App is one of Notifications.
LEMMA NotificationsPart ==
    /\ AppInit => N!Init
    /\ [AppNext]_allVars => [N!Next]_(N!vars)
<1>1. AppInit => N!Init
    BY Zenon, NotificationsStart DEF AppInit
<1>2. UNCHANGED nVars => UNCHANGED N!vars
    BY Zenon DEF nVars, N!vars, N!rows, N!local, N!tab, N!bounds, N!history
<1>3. [AppNext]_allVars => [N!Next]_(N!vars)
    BY Zenon, <1>2, NotificationsStep DEF AppNext, allVars
<1> QED
    BY Zenon, <1>1, <1>3

\* News reaches its reader: flags, badge and list agree with the news but for
\* what crosses a process between its reading and its writing, for any objects,
\* any processes and any length of a page (Notification.notify, read_count,
\* NotificationsController#index).
THEOREM NewsArrives == AppSpec => []NewsReachesReader
<1>1. AppSpec => N!Spec
    BY NotificationsPart, PTL DEF AppSpec, N!Spec
<1>2. N!Spec => [](N!TypeOK /\ N!FlagsFollowNews /\ N!BadgeAgrees /\ N!ScrolledAll)
    BY Zenon, NotificationsAssumed, N!NewsArrives
<1> QED
    BY <1>1, <1>2, SameNews, PTL
=============================================================================
