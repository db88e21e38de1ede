--------------------------------- MODULE Sets ---------------------------------
(***************************************************************************)
(* The set type (t_set.c).  A set object holds its elements s and its       *)
(* encoding: an intset while every element is the decimal form of an        *)
(* integer and there are few, a hash table afterwards.                      *)
(***************************************************************************)
EXTENDS Strings

CONSTANTS MaxIntset      \* set_max_intset_entries

SetObject(s, enc) == Object("set", [s |-> s, enc |-> enc])
isSdsRepresentableAsLongLong(v) == string2ll(v).ok

setTypeCreate(v) ==
  SetObject({}, IF isSdsRepresentableAsLongLong(v) THEN "intset" ELSE "ht")
createIntsetObject == SetObject({}, "intset")

setTypeConvert(o) == SetObject(Ptr(o).s, "ht")
setTypeSize(o) == Cardinality(Ptr(o).s)

\* An intset answers only for integers.
setTypeIsMember(o, v) ==
  /\ Ptr(o).enc = "intset" => isSdsRepresentableAsLongLong(v)
  /\ v \in Ptr(o).s

setTypeAdd(o, v) ==
  SetObject(Ptr(o).s \cup {v},
            IF Ptr(o).enc = "ht" \/ setTypeIsMember(o, v) THEN Ptr(o).enc
            ELSE IF isSdsRepresentableAsLongLong(v) /\ setTypeSize(o) < MaxIntset
            THEN "intset" ELSE "ht")

setTypeRemove(o, v) ==
  IF setTypeIsMember(o, v) THEN SetObject(Ptr(o).s \ {v}, Ptr(o).enc) ELSE o

\* The iterator of either encoding: every element once, in an order that no
\* command depends on.
SetElements(o) == SetToSeq(Ptr(o).s)

setTypeRandomElement(c, o) == RandomPick(c, Ptr(o).s)

AddAll(o, elements) == FoldLeft(setTypeAdd, o, elements)

SetModified(c, k, o, n) ==
  Modified(IF setTypeSize(o) = 0 THEN dbDelete(c, c.d, k) ELSE Store(c, k, o), k, n)

-------------------------------------------------------------------------------
\* SADD and SREM take a sequence of elements.
saddCommand(c) ==
  LET k == Arg(c, 1)
      put(a, s, added) == IF added = 0 THEN Reply(Store(a, k, s), 0)
                          ELSE Reply(Modified(Store(a, k, s), k, added), added)
      add(a, o, s) == put(a, s, setTypeSize(s) - setTypeSize(o))
  IN OnNewKey(c, k, "set", setTypeCreate(Arg(c, 2)[1]), LAMBDA a, o : add(a, o, AddAll(o, Arg(c, 2))))

sremCommand(c) ==
  LET k == Arg(c, 1)
      put(e, s, deleted) == IF deleted = 0 THEN Reply(e, 0)
                            ELSE Reply(SetModified(e, k, s, deleted), deleted)
      cut(e, o, s) == put(e, s, setTypeSize(o) - setTypeSize(s))
  IN OnKey(c, k, "set", LAMBDA e : Reply(e, 0),
           LAMBDA e, o : cut(e, o, FoldLeft(setTypeRemove, o, Arg(c, 2))))

smoveCommand(c) ==
  LET src == Arg(c, 1)
      dst == Arg(c, 2)
      v == Arg(c, 3)
      add(m, t) == Reply(dirty(Store(m, dst, setTypeAdd(t, v)),
                               IF setTypeIsMember(t, v) THEN 1 ELSE 2), 1)
      into(a) == add(signalModifiedKey(a, a.d, dst), Found(a, dst))
      take(w) == into(IF Missing(w, dst) THEN dbAdd(w, w.d, dst, setTypeCreate(v)) ELSE w)
      on(e) == IF Missing(e, src) THEN Reply(e, 0)
               ELSE IF WrongType(e, src, "set") \/ WrongType(e, dst, "set") THEN Reply(e, Error)
               ELSE IF ~setTypeIsMember(Found(e, src), v) THEN Reply(e, 0)
               ELSE IF src = dst THEN Reply(e, 1)
               ELSE take(SetModified(e, src, setTypeRemove(Found(e, src), v), 0))
  IN on(lookupKeyWrite(lookupKeyWrite(c, src), dst))

ReadSet(c, missing, answer(_)) == ReadKey(c, "set", missing, answer)

sismemberCommand(c) ==
  ReadSet(c, 0, LAMBDA o : IF setTypeIsMember(o, Arg(c, 2)) THEN 1 ELSE 0)
scardCommand(c) == ReadSet(c, 0, setTypeSize)

-------------------------------------------------------------------------------
\* SINTER over the objects sets: the smallest one is walked, the others asked.
Inter(sets) ==
  LET i == CHOOSE i \in DOMAIN sets :
             \A j \in DOMAIN sets : setTypeSize(sets[i]) <= setTypeSize(sets[j])
      inAll(v) == \A j \in DOMAIN sets : setTypeIsMember(sets[j], v)
  IN AddAll(createIntsetObject, SelectSeq(SetElements(sets[i]), inAll))

\* SUNION, and SDIFF in its two algorithms: the members of the first set that
\* no other has, or the first set with the others taken out one by one until
\* nothing is left.  A missing key is NULL.
Union(sets) ==
  FoldLeft(LAMBDA a, o : IF o = NULL THEN a ELSE AddAll(a, SetElements(o)),
           createIntsetObject, sets)

DiffAlgo(sets) ==
  LET work(there) == IF (Len(there) * setTypeSize(sets[1])) \div 2
                          <= FoldLeft(LAMBDA n, o : n + setTypeSize(o), 0, there) THEN 1 ELSE 2
  IN work(SelectSeq(sets, LAMBDA o : o # NULL))

DiffOne(sets) ==
  LET alone(v) == \A j \in 2..Len(sets) : sets[j] = NULL \/ ~setTypeIsMember(sets[j], v)
  IN AddAll(createIntsetObject, SelectSeq(SetElements(sets[1]), alone))

DiffTwo(sets) ==
  FoldLeft(LAMBDA a, o : IF o = NULL THEN a ELSE FoldLeft(setTypeRemove, a, SetElements(o)),
           AddAll(createIntsetObject, SetElements(sets[1])), Tail(sets))

Diff(sets) ==
  IF sets[1] = NULL THEN createIntsetObject
  ELSE IF DiffAlgo(sets) = 1 THEN DiffOne(sets) ELSE DiffTwo(sets)

\* The result becomes the value of dst, or dst is deleted.
StoreSet(c, dst, o) ==
  LET add(x) == IF setTypeSize(o) > 0 THEN dbAdd(x, x.d, dst, o) ELSE x
  IN Reply(Modified(add(dbDelete(c, c.d, dst)), dst, 1), setTypeSize(o))

AnswerSet(c, store, dst, o) == IF store THEN StoreSet(c, dst, o) ELSE Reply(c, Ptr(o).s)

Objects(c, keys) == [i \in DOMAIN keys |-> Found(c, keys[i])]

\* Keys are looked up in order until one is missing or of another type.
sinterGenericCommand(c, keys, store, dst) ==
  LET look(e, k) == IF Missing(e, k) THEN Reply(e, "missing")
                    ELSE IF WrongType(e, k, "set") THEN Reply(e, "wrong") ELSE e
      step(a, k) == IF a.reply = "go" THEN look(lookupKeyWrite(a, k), k) ELSE a
      empty(e) == IF ~store THEN Reply(e, {})
                  ELSE IF Missing(e, dst) THEN Reply(e, 0)
                  ELSE Reply(Modified(dbDelete(e, e.d, dst), dst, 1), 0)
      on(e) == IF e.reply = "wrong" THEN Reply(e, Error)
               ELSE IF e.reply = "missing" THEN empty(e)
               ELSE AnswerSet(e, store, dst, Inter(Objects(e, keys)))
  IN on(FoldLeft(step, Reply(c, "go"), keys))

sunionDiffGenericCommand(c, keys, store, dst, diff) ==
  LET look(e, k) == IF WrongType(e, k, "set") THEN Reply(e, "wrong") ELSE e
      step(a, k) == IF a.reply = "wrong" THEN a ELSE look(lookupKeyWrite(a, k), k)
      with(sets) == IF diff THEN Diff(sets) ELSE Union(sets)
      on(e) == IF e.reply = "wrong" THEN Reply(e, Error)
               ELSE AnswerSet(e, store, dst, with(Objects(e, keys)))
  IN on(FoldLeft(step, Reply(c, "go"), keys))

-------------------------------------------------------------------------------
\* SPOP without a count becomes the SREM of the element that went.
SpopOne(c) ==
  LET k == Arg(c, 1)
      pop(e, o, v) == Reply(SetModified(rewriteClientCommandVector(e, <<"SREM", k, <<v>> >>), k,
                                        setTypeRemove(o, v), 1), <<v>>)
  IN OnKey(c, k, "set", LAMBDA e : Reply(e, Nil),
           LAMBDA e, o : pop(e, o, setTypeRandomElement(e, o)))

\* The n elements a random order prefers, and the SREM of each of them.
RandomPicks(c, S, n) ==
  {v \in S : Cardinality({w \in S : \E i, j \in DOMAIN c.rnd :
                            c.rnd[i] = w /\ c.rnd[j] = v /\ i < j}) < n}
SremAll(c, k, S) ==
  FoldLeft(LAMBDA a, v : alsoPropagate(a, a.d, <<"SREM", k, <<v>> >>), c, SetToSeq(S))

SPOP_MOVE_STRATEGY_MUL == 5

\* All of the set, a few random elements removed in place, or a new set made of
\* the few random elements that stay.  (Its read lookup does what a write lookup does.)
spopWithCountCommand(c) ==
  LET k == Arg(c, 1)
      count == Arg(c, 2)
      done(e, new, gone) ==
        Reply(Modified(preventCommandPropagation(SremAll(Store(e, k, new), k, gone)), k, count + 1), gone)
      remove(e, o, picked) == done(e, SetObject(Ptr(o).s \ picked, Ptr(o).enc), picked)
      renew(p) == AddAll(setTypeCreate(p[1]), p)
      keep(e, o, picked) == done(e, renew(SetToSeq(picked)), Ptr(o).s \ picked)
      pop(e, o, size) ==
        IF count = 0 THEN Reply(e, {})
        ELSE IF count >= size
        THEN Reply(Modified(dbDelete(rewriteClientCommandVector(e, <<"DEL", k>>), e.d, k), k, count + 1),
                   Ptr(o).s)
        ELSE IF (size - count) * SPOP_MOVE_STRATEGY_MUL > count
        THEN remove(e, o, RandomPicks(e, Ptr(o).s, count))
        ELSE keep(e, o, RandomPicks(e, Ptr(o).s, size - count))
  IN IF count < 0 THEN Reply(c, Error)
     ELSE OnKey(c, k, "set", LAMBDA e : Reply(e, {}), LAMBDA e, o : pop(e, o, setTypeSize(o)))

spopCommand(c) == IF Argc(c) = 3 THEN spopWithCountCommand(c) ELSE SpopOne(c)

SRANDMEMBER_SUB_STRATEGY_MUL == 3

\* With repetitions for a negative count; else the whole set, the set without
\* random elements, or random elements until there are enough different ones.
srandmemberWithCountCommand(c) ==
  LET answer(S, n, size) ==
        IF n < 0 THEN {RandomPick(c, S)}
        ELSE IF n >= size THEN S
        ELSE IF n * SRANDMEMBER_SUB_STRATEGY_MUL > size THEN S \ RandomPicks(c, S, size - n)
        ELSE RandomPicks(c, S, n)
  IN ReadSet(c, {}, LAMBDA o : answer(Ptr(o).s, Arg(c, 2), setTypeSize(o)))

srandmemberCommand(c) ==
  IF Argc(c) = 3 THEN srandmemberWithCountCommand(c)
  ELSE ReadSet(c, Nil, LAMBDA o : <<setTypeRandomElement(c, o)>>)
===============================================================================
