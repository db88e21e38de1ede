--------------------------------- MODULE Sort ---------------------------------
(***************************************************************************)
(* SORT (sort.c).  SORT key options, with options the record of desc,       *)
(* alpha, limit (<<start, count>>), by, get and store.  A pattern is one of *)
(*   <<"none">>           no BY option                                      *)
(*   <<"fixed">>          no '*' in it                                      *)
(*   <<"#">>              the element itself                                *)
(*   <<"key", f>>         f names the key for an element                    *)
(*   <<"hash", f, field>> a field of the hash under that key                *)
(* Scores are the integers that string2ll reads.  The collation of strcoll  *)
(* is the one of the C locale, and qsort keeps equal objects in place.      *)
(***************************************************************************)
EXTENDS Hashes, Zsets, Lists

SortOptions(desc, alpha, limit, by, get, store) ==
  [desc |-> desc, alpha |-> alpha, limit |-> limit, by |-> by, get |-> get, store |-> store]

\* Where a pattern leads for an element: the context after the lookup and the
\* value, NULL when there is none.
lookupKeyByPattern(c, pattern, subst) ==
  LET value(o) ==
        IF pattern[1] = "key" THEN IF TypeOf(o) = "string" THEN o ELSE NULL
        ELSE IF TypeOf(o) = "hash" /\ pattern[3] \in DOMAIN Ptr(o).f
             THEN String(Ptr(o).f[pattern[3]]) ELSE NULL
      on(e) == [c |-> e, v |-> value(Found(e, pattern[2][subst]))]
  IN IF pattern[1] = "#" THEN [c |-> c, v |-> String(subst)]
     ELSE IF pattern[1] = "fixed" \/ subst \notin DOMAIN pattern[2] THEN [c |-> c, v |-> NULL]
     ELSE on(lookupKeyRead(c, pattern[2][subst]))

\* The values of the patterns for every element, looked up one after another.
LookupAll(c, patterns, elements) ==
  LET add(b, l) == [c |-> l.c, v |-> Append(b.v, l.v)]
      one(a, ele) == FoldLeft(LAMBDA b, p : add(b, lookupKeyByPattern(b.c, p, ele)), a, patterns)
  IN FoldLeft(one, [c |-> c, v |-> <<>>], elements)

\* The elements in the order they are loaded: a dict is walked in any order,
\* an intset in the order of its numbers.
LoadVector(c, o, dontsort) ==
  LET pairs == [i \in DOMAIN Ptr(o).z |-> Ptr(o).z[i][1]]
      ints == SetToSortSeq(Ptr(o).s, LAMBDA a, b : string2ll(a).v < string2ll(b).v)
      rest(S, free) == free \o SetToSeq(S \ Range(free))
      walk(S) == rest(S, SelectSeq(c.rnd, LAMBDA v : v \in S))
  IN IF o = NULL THEN <<>>
     ELSE IF TypeOf(o) = "list" THEN Ptr(o)
     ELSE IF TypeOf(o) = "zset" /\ dontsort THEN pairs
     ELSE IF TypeOf(o) = "set" /\ Ptr(o).enc = "intset" THEN ints
     ELSE walk(IF TypeOf(o) = "set" THEN Ptr(o).s ELSE Range(pairs))

\* The part of the output vector v that LIMIT selects.
Limited(v, limit) ==
  LET n == Len(v)
      cut(start, end) == IF start >= n THEN <<>>
                         ELSE SubSeq(v, start + 1, IF end >= n THEN n ELSE end + 1)
      from(start) == cut(start, IF limit[2] < 0 THEN n - 1 ELSE start + limit[2] - 1)
  IN from(IF limit[1] < 0 THEN 0 ELSE limit[1])

\* An entry of the vector: the object, its score and its compare object.
sortCompare(a, b, opt) ==
  (IF opt.desc THEN -1 ELSE 1) *
  (IF ~opt.alpha /\ a.score # b.score THEN a.score - b.score
   ELSE IF ~opt.alpha \/ opt.by[1] = "none" THEN sdscmp(a.obj, b.obj)
   ELSE IF a.by = NULL \/ b.by = NULL
   THEN IF a.by = b.by THEN 0 ELSE IF a.by = NULL THEN -1 ELSE 1
   ELSE sdscmp(Ptr(a.by), Ptr(b.by)))

\* The elements of the vector in sorted order.
qsort(vector, opt) ==
  LET before(cmp, i, j) == cmp < 0 \/ (cmp = 0 /\ i < j)
      objects(order) == [i \in DOMAIN order |-> vector[order[i]].obj]
  IN objects(SetToSortSeq(DOMAIN vector,
       LAMBDA i, j : before(sortCompare(vector[i], vector[j], opt), i, j)))

\* strtod: an empty string is 0.
SortScore(v) == IF v = NULL THEN Number(0)
                ELSE IF Ptr(v) = <<>> THEN Number(0) ELSE string2ll(Ptr(v))

\* What a pattern-less BY or GET reads for the elements: themselves.
Values(c, patterns, elements) ==
  IF patterns = <<>> THEN [c |-> c, v |-> [i \in DOMAIN elements |-> String(elements[i])]]
  ELSE LookupAll(c, patterns, elements)

\* The values got for the output are the answer, or the list stored under STORE.
SortOutput(got, store) ==
  LET put(g, list) ==
        IF list # <<>> THEN Reply(dirty(setKey(g, g.d, store, ListObject(list)), Len(list)), Len(list))
        ELSE IF dbExists(g, g.d, store) THEN Reply(Modified(dbDelete(g, g.d, store), store, 1), 0)
        ELSE Reply(g, 0)
  IN IF store = Nil THEN Reply(got.c, got.v)
     ELSE put(got.c, [i \in DOMAIN got.v |-> IF got.v[i] = NULL THEN <<>> ELSE Ptr(got.v[i])])

\* The vector of objs with what BY gives for each of them, sorted, cut and
\* answered; without ALPHA a value that is no number is an error.
SortVector(by, objs, opt) ==
  LET out(c, sorted) == SortOutput(Values(c, opt.get, Limited(sorted, opt.limit)), opt.store)
      numbers(scores) ==
        IF \E i \in DOMAIN scores : ~scores[i].ok THEN Reply(by.c, Error)
        ELSE out(by.c, qsort([i \in DOMAIN objs |->
                                [obj |-> objs[i], by |-> by.v[i], score |-> scores[i].v]], opt))
  IN numbers([i \in DOMAIN objs |-> IF opt.alpha THEN Number(0) ELSE SortScore(by.v[i])])

\* A sorted set is read through its skip list.  BY a fixed pattern only cuts
\* the vector, which DESC then takes from the other end, but not of a set.
SortObject(c, o, opt, dontsort) ==
  LET unsorted(v) == IF opt.desc /\ TypeOf(o) # "set" THEN Reverse(v) ELSE v
      load(objs) ==
        IF dontsort THEN SortOutput(Values(c, opt.get, Limited(unsorted(objs), opt.limit)), opt.store)
        ELSE SortVector(Values(c, IF opt.by[1] = "none" THEN <<>> ELSE <<opt.by>>, objs), objs, opt)
  IN load(LoadVector(c, o, dontsort))

sortCommand(c) ==
  LET k == Arg(c, 1)
      opt == Arg(c, 2)
      fixed == opt.by[1] \in {"fixed", "#"}
      \* a set that is stored is sorted whatever BY says
      sort(e, o, forced) ==
        SortObject(e, o, IF forced THEN [opt EXCEPT !.alpha = TRUE, !.by = <<"none">>] ELSE opt,
                   fixed /\ ~forced)
      on(e, o) == IF TypeOf(o) \notin {"none", "set", "list", "zset"} THEN Reply(e, Error)
                  ELSE sort(IF TypeOf(o) = "zset" THEN Store(e, k, zsetConvert(o, "skiplist")) ELSE e,
                            o, fixed /\ TypeOf(o) = "set" /\ opt.store # Nil)
      with(e) == on(e, Found(e, k))
  IN with(lookupKeyRead(c, k))
===============================================================================
