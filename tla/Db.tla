---------------------------------- MODULE Db ----------------------------------
(***************************************************************************)
(* The keyspace of one Redis server (db.c, expire.c, lazyfree.c) as the     *)
(* commands see it.  A command runs alone, so its C functions become        *)
(* operators from a context to a context.  The context c is a record:       *)
(*   db, exp    the dict and the expires dict of every database             *)
(*   now        the clock the command reads                                 *)
(*   role       "master", "slave" (masterhost set) or "loading" (the AOF)   *)
(*   d          the database selected by the client (c->db)                 *)
(*   argv       the command vector, possibly rewritten                      *)
(*   dirty      how much this call raised server.dirty                      *)
(*   touched    the keys passed to signalModifiedKey                        *)
(*   prevent    CLIENT_PREVENT_PROP;  also  the alsoPropagate operations    *)
(*   fed        what was handed to the AOF and the slaves, in order         *)
(*   rnd        the order in which random picks prefer elements             *)
(*   ready      the keys queued by signalListAsReady                        *)
(*   bk         the clients blocked on each key of each database, in order  *)
(*   bpop       what each blocked client waits for (Nil when not blocked)   *)
(*   cl         the client;  multi  whether it is inside an EXEC            *)
(*   reply      what the client is told                                     *)
(* A value is a tuple whose first element is its type.  A key that does not *)
(* exist holds NULL.  Keyspace events and statistics are left out.          *)
(***************************************************************************)
EXTENDS Integers, Sequences, FiniteSets, SequencesExt

CONSTANTS Keys,      \* the key names
          Dbs,       \* the database ids, 0..dbnum-1
          Second     \* milliseconds in a second (1000 in the code)

NULL == <<"none">>
Nil == <<"nil">>
Error == <<"error">>
Object(t, v) == <<t, v>>
TypeOf(o) == o[1]
Ptr(o) == o[2]

Reply(c, r) == [c EXCEPT !.reply = r]

\* dict lookups, without any expiry.
dbExists(c, d, k) == c.db[d][k] # NULL
lookupKey(c, d, k) == c.db[d][k]

getExpire(c, d, k) == c.exp[d][k]

signalModifiedKey(c, d, k) == [c EXCEPT !.touched = @ \cup {<<d, k>>}]

\* Mutant: a flush touches no key.
FlushUnsignalled(c, ds) == c

\* Only existing keys of the database are touched by a flush.
signalFlushedDb(c, ds) ==
  [c EXCEPT !.touched = @ \cup {<<d, k>> \in ds \X Keys : dbExists(c, d, k)}]

dirty(c, n) == [c EXCEPT !.dirty = @ + n]

\* One operation handed to the AOF and to the slaves.
propagate(c, d, argv) == [c EXCEPT !.fed = Append(@, <<d, argv>>)]

alsoPropagate(c, d, argv) ==
  IF c.role = "loading" THEN c ELSE [c EXCEPT !.also = Append(@, <<d, argv>>)]

preventCommandPropagation(c) == [c EXCEPT !.prevent = TRUE]

rewriteClientCommandVector(c, argv) == [c EXCEPT !.argv = argv]

-------------------------------------------------------------------------------
\* Expires.
removeExpire(c, d, k) == [c EXCEPT !.exp[d][k] = -1]

setExpire(c, d, k, when) == [c EXCEPT !.exp[d][k] = when]

\* Mutant: the expire of a deleted key stays.
DeleteKeepsExpire(c, d, k) == [c EXCEPT !.db[d][k] = NULL]

\* dbSyncDelete and dbAsyncDelete: the two differ in the thread that frees the
\* value, not in what the keyspace holds afterwards.
dbDelete(c, d, k) == [c EXCEPT !.db[d][k] = NULL, !.exp[d][k] = -1]

propagateExpire(c, d, k) == propagate(c, d, <<"DEL", k>>)

Expired(c, d, k) == getExpire(c, d, k) >= 0 /\ c.now > getExpire(c, d, k)

\* Nothing expires while loading, and a slave waits for the DEL of its master.
expireIfNeeded(c, d, k) ==
  IF c.role = "master" /\ Expired(c, d, k)
  THEN dbDelete(propagateExpire(c, d, k), d, k)
  ELSE c

\* The lookups delete an expired key first: the context after them is
\* expireIfNeeded, the object found is lookupKey in that context.
lookupKeyWrite(c, k) == expireIfNeeded(c, c.d, k)
\* Mutant: a read does not look at the expire.
LookupUnexpired(c, k) == c

lookupKeyRead(c, k) == expireIfNeeded(c, c.d, k)
Found(c, k) == lookupKey(c, c.d, k)
Missing(c, k) == Found(c, k) = NULL

\* checkType(c,o,t) of an existing key: TRUE when the type is wrong.
WrongType(c, k, t) == ~Missing(c, k) /\ TypeOf(Found(c, k)) # t

-------------------------------------------------------------------------------
\* A list that appears under a key with blocked clients makes the key ready.
signalListAsReady(c, d, k) ==
  IF c.bk[d][k] = <<>> \/ <<d, k>> \in Range(c.ready)
  THEN c ELSE [c EXCEPT !.ready = Append(@, <<d, k>>)]

\* Mutant: a new list wakes nobody.
AddUnsignalled(c, d, k, o) == [c EXCEPT !.db[d][k] = o]

dbOverwrite(c, d, k, o) == [c EXCEPT !.db[d][k] = o]

dbAdd(c, d, k, o) ==
  IF TypeOf(o) = "list" THEN signalListAsReady(dbOverwrite(c, d, k, o), d, k)
  ELSE dbOverwrite(c, d, k, o)

\* A value that is changed in place keeps its dict entry and its expire.
Store(c, k, o) == dbOverwrite(c, c.d, k, o)

\* A value that is replaced, or created.
Place(c, k, o) == IF Missing(c, k) THEN dbAdd(c, c.d, k, o) ELSE dbOverwrite(c, c.d, k, o)

setKey(c, d, k, o) ==
  LET set(e) == IF dbExists(e, d, k) THEN dbOverwrite(e, d, k, o) ELSE dbAdd(e, d, k, o)
  IN signalModifiedKey(removeExpire(set(expireIfNeeded(c, d, k)), d, k), d, k)

\* setTypeRandomElement, dictGetRandomKey: any element, the first that the
\* random order of this call prefers.
RandomPick(c, S) ==
  c.rnd[CHOOSE i \in DOMAIN c.rnd :
          c.rnd[i] \in S /\ \A j \in 1..(i - 1) : c.rnd[j] \notin S]

-------------------------------------------------------------------------------
\* argv[1] is the command name.
Arg(c, i) == c.argv[i + 1]
Argc(c) == Len(c.argv)

\* The frame of a command that changes the value of type t under k: one answer
\* for a missing key, an error for another type, or what it does to the object.
OnKey(c, k, t, absent(_), present(_, _)) ==
  LET on(e) == IF Missing(e, k) THEN absent(e)
               ELSE IF WrongType(e, k, t) THEN Reply(e, Error)
               ELSE present(e, Found(e, k))
  IN on(lookupKeyWrite(c, k))

\* The same for a command that creates the value when there is none.
OnNewKey(c, k, t, new, present(_, _)) ==
  LET with(a) == present(a, Found(a, k))
      on(e) == IF WrongType(e, k, t) THEN Reply(e, Error)
               ELSE with(IF Missing(e, k) THEN dbAdd(e, e.d, k, new) ELSE e)
  IN on(lookupKeyWrite(c, k))

\* The frame of a read command: what it says of a missing key, and of a value.
ReadKey(c, t, missing, answer(_)) ==
  LET k == Arg(c, 1)
      on(e) == IF Missing(e, k) THEN Reply(e, missing)
               ELSE IF WrongType(e, k, t) THEN Reply(e, Error)
               ELSE Reply(e, answer(Found(e, k)))
  IN on(lookupKeyRead(c, k))

\* n changes to key k of the selected database.
Modified(c, k, n) == dirty(signalModifiedKey(c, c.d, k), n)

-------------------------------------------------------------------------------
\* Commands on keys of any type.

emptyDb(c, ds) ==
  [c EXCEPT !.db = [d \in Dbs |-> IF d \in ds THEN [k \in Keys |-> NULL] ELSE @[d]],
            !.exp = [d \in Dbs |-> IF d \in ds THEN [k \in Keys |-> -1] ELSE @[d]]]

SizeOf(c, ds) == Cardinality({p \in ds \X Keys : dbExists(c, p[1], p[2])})

flushdbCommand(c) ==
  Reply(dirty(emptyDb(signalFlushedDb(c, {c.d}), {c.d}), SizeOf(c, {c.d})), "OK")

\* FLUSHALL counts itself even when nothing was there.
flushallCommand(c) ==
  Reply(dirty(emptyDb(signalFlushedDb(c, Dbs), Dbs), SizeOf(c, Dbs) + 1), "OK")

\* DEL and UNLINK, key after key.
delGenericCommand(c) ==
  LET delete(e, k) == IF Missing(e, k) THEN e
                      ELSE Reply(Modified(dbDelete(e, e.d, k), k, 1), e.reply + 1)
  IN FoldLeft(LAMBDA a, k : delete(expireIfNeeded(a, a.d, k), k), Reply(c, 0), Tail(c.argv))

existsCommand(c) ==
  LET count(e, k) == IF Missing(e, k) THEN e ELSE Reply(e, e.reply + 1)
  IN FoldLeft(LAMBDA a, k : count(expireIfNeeded(a, a.d, k), k), Reply(c, 0), Tail(c.argv))

\* dbRandomKey deletes the expired keys it meets and tries again.
randomkeyCommand(c) ==
  LET pick(e, k) == IF Missing(e, k) \/ Expired(e, e.d, k) THEN e ELSE Reply(e, k)
      step(a, k) == IF a.reply = Nil /\ ~Missing(a, k) THEN pick(expireIfNeeded(a, a.d, k), k) ELSE a
  IN FoldLeft(step, Reply(c, Nil), c.rnd)

\* KEYS with a pattern given as the set of the names it matches.
keysCommand(c) ==
  LET live(e, k) == IF Missing(e, k) \/ Expired(e, e.d, k) THEN e ELSE Reply(e, e.reply \cup {k})
      step(a, k) == IF k \in Arg(c, 1) /\ ~Missing(a, k) THEN live(expireIfNeeded(a, a.d, k), k) ELSE a
  IN FoldLeft(step, Reply(c, {}), SetToSeq(Keys))

typeCommand(c) ==
  LET answer(e) == Reply(e, TypeOf(Found(e, Arg(c, 1)))) IN answer(lookupKeyRead(c, Arg(c, 1)))

\* RENAME and RENAMENX.  The expire travels with the value.
\* The value and the expire of src of the selected database become those of
\* key dst of database d, and src goes.
Transfer(c, src, d, dst) ==
  dbDelete(setExpire(dbAdd(c, d, dst, Found(c, src)), d, dst, getExpire(c, c.d, src)), c.d, src)

renameGenericCommand(c, nx) ==
  LET src == Arg(c, 1)
      dst == Arg(c, 2)
      to(f) == IF nx /\ ~Missing(f, dst) THEN Reply(f, 0)
               ELSE Reply(Modified(signalModifiedKey(Transfer(dbDelete(f, f.d, dst), src, f.d, dst),
                                                     f.d, src), dst, 1), 1)
      from(e) == IF Missing(e, src) THEN Reply(e, Error)
                 ELSE IF src = dst THEN Reply(e, IF nx THEN 0 ELSE 1)
                 ELSE to(lookupKeyWrite(e, dst))
  IN from(lookupKeyWrite(c, src))

\* MOVE key db: neither the source nor the target key is signalled.
moveCommand(c) ==
  LET k == Arg(c, 1)
      dst == Arg(c, 2)
      to(f) == IF dbExists(f, dst, k) THEN Reply(f, 0)
               ELSE Reply(dirty(Transfer(f, k, dst, k), 1), 1)
      from(e) == IF Missing(e, k) THEN Reply(e, 0) ELSE to(expireIfNeeded(e, dst, k))
  IN IF dst \notin Dbs \/ dst = c.d THEN Reply(c, Error) ELSE from(lookupKeyWrite(c, k))

scanDatabaseForReadyLists(c, d) ==
  LET one(a, k) == IF a.bk[d][k] # <<>> /\ TypeOf(a.db[d][k]) = "list"
                   THEN signalListAsReady(a, d, k) ELSE a
  IN FoldLeft(one, c, SetToSeq(Keys))

\* SWAPDB: the dicts change places, the watched and blocking keys do not.
dbSwapDatabases(c, x, y) ==
  LET swap(f) == [f EXCEPT ![x] = f[y], ![y] = f[x]]
      s == [c EXCEPT !.db = swap(@), !.exp = swap(@)]
  IN IF x = y THEN c
     ELSE scanDatabaseForReadyLists(scanDatabaseForReadyLists(s, x), y)

swapdbCommand(c) ==
  IF {Arg(c, 1), Arg(c, 2)} \subseteq Dbs
  THEN Reply(dirty(dbSwapDatabases(c, Arg(c, 1), Arg(c, 2)), 1), "OK")
  ELSE Reply(c, Error)

selectCommand(c) ==
  IF Arg(c, 1) \in Dbs THEN Reply([c EXCEPT !.d = Arg(c, 1)], "OK") ELSE Reply(c, Error)

-------------------------------------------------------------------------------
\* EXPIRE and its variants.  A time that is already over deletes the key, and
\* is propagated as a DEL; a slave and the AOF loader only record it.
expireGenericCommand(c, basetime, unit) ==
  LET k == Arg(c, 1)
      when == Arg(c, 2) * unit + basetime
      set(e) == IF when <= e.now /\ e.role = "master"
                THEN rewriteClientCommandVector(dbDelete(e, e.d, k), <<"DEL", k>>)
                ELSE setExpire(e, e.d, k, when)
      on(e) == IF Missing(e, k) THEN Reply(e, 0) ELSE Reply(Modified(set(e), k, 1), 1)
  IN on(lookupKeyWrite(c, k))

ttlGenericCommand(c) ==
  LET k == Arg(c, 1)
      ttl(e, when) == IF Missing(e, k) THEN -2
                      ELSE IF when = -1 THEN -1
                      ELSE IF when < e.now THEN 0 ELSE when - e.now
      on(e) == Reply(e, ttl(e, getExpire(e, e.d, k)))
  IN on(lookupKeyRead(c, k))

persistCommand(c) ==
  LET k == Arg(c, 1)
      on(e) == IF Missing(e, k) \/ getExpire(e, e.d, k) = -1 THEN Reply(e, 0)
               ELSE Reply(dirty(removeExpire(e, e.d, k), 1), 1)
  IN on(lookupKeyWrite(c, k))

\* The timer's side of expiry, for one entry of an expires dict.
activeExpireCycleTryExpire(c, d, k) ==
  IF Expired(c, d, k) THEN dbDelete(propagateExpire(c, d, k), d, k) ELSE c
===============================================================================
