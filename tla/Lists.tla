-------------------------------- MODULE Lists ---------------------------------
(***************************************************************************)
(* The list type and the clients that block on lists (t_list.c, blocked.c). *)
(* A list object is the sequence of its elements; how quicklist.c keeps     *)
(* them is modelled by Quicklist.                                           *)
(***************************************************************************)
EXTENDS Strings

ListObject(l) == Object("list", l)

listTypePush(o, v, where) ==
  ListObject(IF where = "head" THEN <<v>> \o Ptr(o) ELSE Append(Ptr(o), v))
\* The element a pop takes, and the list it leaves.
PopValue(o, where) == IF where = "head" THEN Head(Ptr(o)) ELSE Last(Ptr(o))
listTypePop(o, where) == ListObject(IF where = "head" THEN Tail(Ptr(o)) ELSE Front(Ptr(o)))
listTypeLength(o) == Len(Ptr(o))

\* An index counts from the tail when it is negative; 0 when out of range.
At(o, i) ==
  LET in(p) == IF p \in 1..listTypeLength(o) THEN p ELSE 0
  IN in(IF i >= 0 THEN i + 1 ELSE listTypeLength(o) + i + 1)

\* An emptied list is deleted, and the key is signalled.
ListModified(c, k, o, n) ==
  Modified(IF listTypeLength(o) = 0 THEN dbDelete(c, c.d, k) ELSE Store(c, k, o), k, n)

\* A list command that answers `missing` for a missing key.
OnList(c, missing, present(_, _)) ==
  OnKey(c, Arg(c, 1), "list", LAMBDA e : Reply(e, missing), present)
ReadList(c, missing, answer(_)) == ReadKey(c, "list", missing, answer)

-------------------------------------------------------------------------------
\* LPUSH and RPUSH take a sequence of elements, pushed one by one.
PushAll(c, o, where) ==
  LET put(l) == Reply(ListModified(c, Arg(c, 1), l, Len(Arg(c, 2))), listTypeLength(l))
  IN put(FoldLeft(LAMBDA l, v : listTypePush(l, v, where), o, Arg(c, 2)))

pushGenericCommand(c, where) ==
  OnNewKey(c, Arg(c, 1), "list", ListObject(<<>>), LAMBDA e, o : PushAll(e, o, where))

pushxGenericCommand(c, where) == OnList(c, 0, LAMBDA e, o : PushAll(e, o, where))

\* LINSERT key BEFORE|AFTER pivot value: at the first pivot from the head.
linsertCommand(c) ==
  LET first(l) == CHOOSE i \in DOMAIN l : l[i] = Arg(c, 3) /\ \A j \in 1..(i - 1) : l[j] # Arg(c, 3)
      put(e, n) == Reply(ListModified(e, Arg(c, 1), ListObject(n), 1), Len(n))
      insert(e, l) == IF Arg(c, 3) \notin Range(l) THEN Reply(e, -1)
                      ELSE put(e, InsertAt(l, first(l) + (IF Arg(c, 2) = "after" THEN 1 ELSE 0), Arg(c, 4)))
  IN OnList(c, 0, LAMBDA e, o : insert(e, Ptr(o)))

llenCommand(c) == ReadList(c, 0, listTypeLength)

lindexCommand(c) ==
  LET answer(o, p) == IF p = 0 THEN Nil ELSE Ptr(o)[p]
  IN ReadList(c, Nil, LAMBDA o : answer(o, At(o, Arg(c, 2))))

lsetCommand(c) ==
  LET set(e, o, p) == IF p = 0 THEN Reply(e, Error)
                      ELSE Reply(ListModified(e, Arg(c, 1), ListObject(ReplaceAt(Ptr(o), p, Arg(c, 3))), 1), "OK")
  IN OnList(c, Error, LAMBDA e, o : set(e, o, At(o, Arg(c, 2))))

popGenericCommand(c, where) ==
  OnList(c, Nil, LAMBDA e, o : Reply(ListModified(e, Arg(c, 1), listTypePop(o, where), 1),
                                     PopValue(o, where)))

\* The index arithmetic of LRANGE and LTRIM: the part of l it selects.
ListRange(l, start0, end0) ==
  LET n == Len(l)
      back(i) == IF i < 0 THEN n + i ELSE i
      cut(start, end) == IF start > end \/ start >= n THEN <<>>
                         ELSE SubSeq(l, start + 1, (IF end >= n THEN n - 1 ELSE end) + 1)
  IN cut(IF back(start0) < 0 THEN 0 ELSE back(start0), back(end0))

lrangeCommand(c) == ReadList(c, <<>>, LAMBDA o : ListRange(Ptr(o), Arg(c, 2), Arg(c, 3)))

\* LTRIM counts as a change even when it removes nothing.
ltrimCommand(c) ==
  OnList(c, "OK", LAMBDA e, o :
           Reply(ListModified(e, Arg(c, 1), ListObject(ListRange(Ptr(o), Arg(c, 2), Arg(c, 3))), 1), "OK"))

\* LREM key count value: from the head, or from the tail when count < 0.
lremCommand(c) ==
  LET n == Arg(c, 2)
      way(l) == IF n < 0 THEN Reverse(l) ELSE l
      step(a, x) == IF x = Arg(c, 3) /\ (n = 0 \/ a[2] < (IF n < 0 THEN -n ELSE n))
                    THEN <<a[1], a[2] + 1>> ELSE <<Append(a[1], x), a[2]>>
      put(e, r) == IF r[2] = 0 THEN Reply(e, 0)
                   ELSE Reply(ListModified(e, Arg(c, 1), ListObject(way(r[1])), r[2]), r[2])
  IN OnList(c, 0, LAMBDA e, o : put(e, FoldLeft(step, <<<<>>, 0>>, way(Ptr(o)))))

\* The push side creates the list if there is none.
rpoplpushHandlePush(c, dst, v) ==
  LET push(s) == Store(s, dst, listTypePush(Found(s, dst), v, "head"))
  IN push(signalModifiedKey(IF Missing(c, dst) THEN dbAdd(c, c.d, dst, ListObject(<<>>)) ELSE c,
                            c.d, dst))

rpoplpushCommand(c) ==
  LET src == Arg(c, 1)
      dst == Arg(c, 2)
      done(p, v) == Reply(ListModified(p, src, Found(p, src), 1), v)
      move(f, o, v) == done(rpoplpushHandlePush(Store(f, src, listTypePop(o, "tail")), dst, v), v)
      to(f) == IF WrongType(f, dst, "list") THEN Reply(f, Error)
               ELSE move(f, Found(f, src), PopValue(Found(f, src), "tail"))
  IN OnList(c, Nil, LAMBDA e, o : to(lookupKeyWrite(e, dst)))

-------------------------------------------------------------------------------
\* Blocking.  A key given twice is waited for once.
blockForKeys(c, keys, target, where) ==
  LET waits == Range(keys)
  IN Reply([c EXCEPT
              !.bk[c.d] = [k \in Keys |-> IF k \in waits THEN Append(@[k], c.cl) ELSE @[k]],
              !.bpop[c.cl] = <<waits, target, where, c.d>>], "blocked")

\* unblockClientWaitingData, and the flags of unblockClient.
unblockClient(c, cl) ==
  LET d == c.bpop[cl][4]
  IN [c EXCEPT !.bk[d] = [k \in Keys |-> SelectSeq(@[k], LAMBDA x : x # cl)],
               !.bpop[cl] = Nil]

\* BLPOP and BRPOP take a sequence of keys: the first that is there decides.
blockingPopGenericCommand(c, where) ==
  LET pop(e, k, o) ==
        rewriteClientCommandVector(
          Reply(ListModified(e, k, listTypePop(o, where), 1), <<k, PopValue(o, where)>>),
          <<IF where = "head" THEN "LPOP" ELSE "RPOP", k>>)
      step(a, k) == IF a.reply # "go" THEN a
                    ELSE OnKey(a, k, "list", LAMBDA e : e, LAMBDA e, o : pop(e, k, o))
      wait(r) == IF r.reply # "go" THEN r
                 ELSE IF c.multi THEN Reply(r, Nil)
                 ELSE blockForKeys(r, Arg(c, 1), Nil, where)
  IN wait(FoldLeft(step, Reply(c, "go"), Arg(c, 1)))

brpoplpushCommand(c) ==
  LET wait(e) == IF c.multi THEN Reply(e, Nil)
                 ELSE blockForKeys(e, <<Arg(c, 1)>>, <<Arg(c, 2)>>, "tail")
  IN OnKey(c, Arg(c, 1), "list", wait, LAMBDA e, o : rpoplpushCommand(e))

\* One receiver of an element popped from k.  A BRPOPLPUSH whose target has
\* another type fails, and the element goes back where it came from.
serveClientBlockedOnList(c, d, k, target, v, where) ==
  LET dst == target[1]
      popped(a) == propagate(a, d, <<IF where = "head" THEN "LPOP" ELSE "RPOP", k>>)
      give(e) == IF WrongType(e, dst, "list")
                 THEN Store(e, k, listTypePush(Found(e, k), v, where))
                 ELSE propagate(rpoplpushHandlePush(popped(e), dst, v), d, <<"LPUSH", dst, <<v>> >>)
  IN IF target = Nil THEN popped(c) ELSE give(lookupKeyWrite(c, dst))

\* One blocked client is served from the list under k of the selected database.
ServeClient(c, k, cl) ==
  LET serve(o, w) ==
        IF listTypeLength(o) = 0 THEN c
        ELSE serveClientBlockedOnList(unblockClient(Store(c, k, listTypePop(o, w[3])), cl),
                                      c.d, k, w[2], PopValue(o, w[3]), w[3])
  IN serve(Found(c, k), c.bpop[cl])

\* The clients are served in turn, as long as there are elements; an emptied
\* list is deleted.
ServeAll(c, k, clients) ==
  LET done(r) == IF listTypeLength(Found(r, k)) = 0 THEN dbDelete(r, r.d, k) ELSE r
  IN IF TypeOf(Found(c, k)) # "list" THEN c
     ELSE done(FoldLeft(LAMBDA a, cl : ServeClient(a, k, cl), c, clients))

\* Mutant: the client that blocked last is served first.
ServeLastFirst(c, d, k) ==
  LET on(e) == ServeAll(e, k, Reverse(e.bk[d][k]))
  IN [on([expireIfNeeded(c, d, k) EXCEPT !.d = d]) EXCEPT !.d = c.d]

\* The clients blocked on a ready key are served in the order they blocked.
ServeKey(c, d, k) ==
  LET on(e) == ServeAll(e, k, e.bk[d][k])
  IN [on([expireIfNeeded(c, d, k) EXCEPT !.d = d]) EXCEPT !.d = c.d]

RECURSIVE handleClientsBlockedOnLists(_)
handleClientsBlockedOnLists(c) ==
  IF c.ready = <<>> THEN c
  ELSE handleClientsBlockedOnLists(
         ServeKey([c EXCEPT !.ready = Tail(@)], Head(c.ready)[1], Head(c.ready)[2]))

\* clientsCronHandleTimeout and the disconnection of a blocked client.
TimedOut(c, cl) == unblockClient(c, cl)
===============================================================================
