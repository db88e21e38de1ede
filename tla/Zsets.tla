-------------------------------- MODULE Zsets ---------------------------------
(***************************************************************************)
(* The sorted set type (t_zset.c).  A sorted set object holds the sequence  *)
(* z of its <<element, score>> pairs in their order and its encoding.  The  *)
(* ziplist is that sequence; the skip list holds it too (module Skiplist),  *)
(* and the commands that use its ranks do so here.  A score is an integer,  *)
(* one of the infinities or NaN.                                            *)
(***************************************************************************)
EXTENDS Sets

CONSTANTS MaxZsetEntries,   \* zset_max_ziplist_entries
          MaxZsetValue      \* zset_max_ziplist_value

Inf == 1000000
NaN == 2000000
Plus(a, b) == IF NaN \in {a, b} \/ {a, b} = {Inf, -Inf} THEN NaN
              ELSE IF Inf \in {a, b} THEN Inf
              ELSE IF -Inf \in {a, b} THEN -Inf ELSE a + b
Times(a, b) == IF {Inf, -Inf} \cap {a, b} = {} THEN a * b
               ELSE IF 0 \in {a, b} THEN NaN
               ELSE IF (a > 0) = (b > 0) THEN Inf ELSE -Inf

\* memcmp of the common part, then the lengths.
sdscmp(a, b) ==
  LET differ(at) == IF at = {} THEN Len(a) - Len(b) ELSE a[Min(at)] - b[Min(at)]
  IN differ({i \in DOMAIN a \cap DOMAIN b : a[i] # b[i]})

ZsetObject(z, enc) == Object("zset", [z |-> z, enc |-> enc])
createZsetObject == ZsetObject(<<>>, "skiplist")
createZsetZiplistObject == ZsetObject(<<>>, "ziplist")
zsetLength(o) == Len(Ptr(o).z)
zsetConvert(o, enc) == ZsetObject(Ptr(o).z, enc)
zsetConvertToZiplistIfNeeded(o, maxelelen) ==
  IF zsetLength(o) <= MaxZsetEntries /\ maxelelen <= MaxZsetValue
  THEN zsetConvert(o, "ziplist") ELSE o

\* The position of an element, 0 when it is not there.
zzlFind(z, ele) ==
  Max({0} \cup {i \in DOMAIN z : z[i][1] = ele})
zsetScore(o, ele) == Ptr(o).z[zzlFind(Ptr(o).z, ele)][2]

zzlDelete(z, i) == RemoveAt(z, i)
\* Before the first pair that is greater, by score and then by element.
zzlInsert(z, ele, score) ==
  InsertAt(z, Min({Len(z) + 1} \cup {i \in DOMAIN z : \/ z[i][2] > score
                                                      \/ z[i][2] = score /\ sdscmp(z[i][1], ele) > 0}),
           <<ele, score>>)

\* What zsetAdd answers: the object after it, the flags it sets and the score.
zsetAdd(o, score, ele, flags) ==
  LET z == Ptr(o).z
      answer(obj, what, s) == [o |-> obj, what |-> what, score |-> s]
      move(i, new) ==
        IF new = NaN THEN answer(o, "nan", 0)
        ELSE IF new = z[i][2] THEN answer(o, "same", new)
        ELSE answer(ZsetObject(zzlInsert(zzlDelete(z, i), ele, new), Ptr(o).enc), "updated", new)
      grown == ZsetObject(zzlInsert(z, ele, score),
                          IF zsetLength(o) >= MaxZsetEntries \/ Len(ele) > MaxZsetValue
                          THEN "skiplist" ELSE Ptr(o).enc)
      at(i) == IF i = 0
               THEN IF "XX" \in flags THEN answer(o, "nop", 0) ELSE answer(grown, "added", score)
               ELSE IF "NX" \in flags THEN answer(o, "nop", 0)
               ELSE move(i, IF "INCR" \in flags THEN Plus(score, z[i][2]) ELSE score)
  IN at(zzlFind(z, ele))

zsetDel(o, ele) ==
  LET at(i) == IF i = 0 THEN o ELSE ZsetObject(zzlDelete(Ptr(o).z, i), Ptr(o).enc)
  IN at(zzlFind(Ptr(o).z, ele))

zsetRank(o, ele, reverse) ==
  LET at(i) == IF i = 0 THEN -1 ELSE IF reverse THEN zsetLength(o) - i ELSE i - 1
  IN at(zzlFind(Ptr(o).z, ele))

ZsetModified(c, k, o, n) ==
  Modified(IF zsetLength(o) = 0 THEN dbDelete(c, c.d, k) ELSE Store(c, k, o), k, n)

-------------------------------------------------------------------------------
\* ZADD key flags pairs, with pairs a sequence of <<score, element>>.  ZINCRBY
\* is ZADD with INCR.
zaddGenericCommand(c, incr) ==
  LET k == Arg(c, 1)
      flags == Arg(c, 2) \cup incr
      pairs == Arg(c, 3)
      count(r, s) == [o |-> s.o, what |-> s.what, score |-> s.score,
                      added |-> r.added + (IF s.what = "added" THEN 1 ELSE 0),
                      updated |-> r.updated + (IF s.what = "updated" THEN 1 ELSE 0)]
      step(r, p) == IF r.what = "nan" THEN r ELSE count(r, zsetAdd(r.o, p[1], p[2], flags))
      put(a, r, n) == IF n > 0 THEN Modified(Store(a, k, r.o), k, n) ELSE a
      done(a, r) ==
        IF r.what = "nan" THEN Reply(a, Error)
        ELSE Reply(put(a, r, r.added + r.updated),
                   IF "INCR" \in flags THEN IF r.what = "nop" THEN Nil ELSE <<r.score>>
                   ELSE IF "CH" \in flags THEN r.added + r.updated ELSE r.added)
      add(a, o) == done(a, FoldLeft(step, [o |-> o, what |-> "go", score |-> 0,
                                           added |-> 0, updated |-> 0], pairs))
      new == IF MaxZsetEntries = 0 \/ MaxZsetValue < Len(pairs[1][2])
             THEN createZsetObject ELSE createZsetZiplistObject
      on(e) == IF Missing(e, k) /\ "XX" \in flags THEN Reply(e, IF "INCR" \in flags THEN Nil ELSE 0)
               ELSE OnNewKey(e, k, "zset", new, add)
  IN IF {"NX", "XX"} \subseteq flags \/ ("INCR" \in flags /\ Len(pairs) > 1) THEN Reply(c, Error)
     ELSE on(lookupKeyWrite(c, k))

\* A change that leaves the pairs z of the sorted set o.
ZsetLeft(c, k, o, z) ==
  LET put(deleted) == IF deleted = 0 THEN Reply(c, 0)
                      ELSE Reply(ZsetModified(c, k, ZsetObject(z, Ptr(o).enc), deleted), deleted)
  IN put(zsetLength(o) - Len(z))

\* The loop stops when the set is gone.
zremCommand(c) ==
  OnKey(c, Arg(c, 1), "zset", LAMBDA e : Reply(e, 0),
        LAMBDA e, o : ZsetLeft(e, Arg(c, 1), o, Ptr(FoldLeft(zsetDel, o, Arg(c, 2))).z))

-------------------------------------------------------------------------------
\* Ranges over the pairs, by score or by element.  A bound is <<score>>, or for
\* a lexicographical range <<-1>> for -, <<1>> for + and <<0, bytes>> otherwise.
ScoreRange(min, max, minex, maxex) ==
  [lex |-> FALSE, min |-> min, max |-> max, minex |-> minex, maxex |-> maxex]
LexRange(min, max, minex, maxex) ==
  [lex |-> TRUE, min |-> min, max |-> max, minex |-> minex, maxex |-> maxex]

sdscmplex(a, b) == IF a[1] = 0 /\ b[1] = 0 THEN sdscmp(a[2], b[2]) ELSE a[1] - b[1]
Compare(p, bound, lex) == IF lex THEN sdscmplex(<<0, p[1]>>, bound) ELSE p[2] - bound[1]
GteMin(p, r) == Compare(p, r.min, r.lex) >= (IF r.minex THEN 1 ELSE 0)
LteMax(p, r) == Compare(p, r.max, r.lex) <= (IF r.maxex THEN -1 ELSE 0)

EmptyRange(r) ==
  (IF r.lex THEN sdscmplex(r.min, r.max) ELSE r.min[1] - r.max[1])
    >= (IF r.minex \/ r.maxex THEN 0 ELSE 1)

zzlIsInRange(z, r) ==
  /\ ~EmptyRange(r)
  /\ z # <<>> /\ GteMin(Last(z), r) /\ LteMax(Head(z), r)

\* The positions of the first and of the last pair in range, 0 if there is none.
zzlFirstInRange(z, r) ==
  LET check(i) == IF i <= Len(z) /\ LteMax(z[i], r) THEN i ELSE 0
  IN IF zzlIsInRange(z, r)
     THEN check(Min({Len(z) + 1} \cup {i \in DOMAIN z : GteMin(z[i], r)})) ELSE 0
zzlLastInRange(z, r) ==
  LET check(i) == IF i > 0 /\ GteMin(z[i], r) THEN i ELSE 0
  IN IF zzlIsInRange(z, r)
     THEN check(Max({0} \cup {i \in DOMAIN z : LteMax(z[i], r)})) ELSE 0

\* The pairs from a first one on, as long as they are in range.
InRange(z, r) ==
  LET from(i) == IF i = 0 THEN <<0, 0>>
                 ELSE <<i, Min({Len(z) + 1} \cup {j \in i..Len(z) : ~LteMax(z[j], r)}) - 1>>
  IN from(zzlFirstInRange(z, r))

\* The sequence without the pairs of at, <<0, 0>> for none.
DeleteSpan(z, at) ==
  IF at[1] = 0 THEN z ELSE SubSeq(z, 1, at[1] - 1) \o SubSeq(z, at[2] + 1, Len(z))
zzlDeleteRange(z, r) == DeleteSpan(z, InRange(z, r))
zzlDeleteRangeByRank(z, at) == DeleteSpan(z, at)

\* The index arithmetic of the commands that take ranks: <<start, end>> from 1,
\* or <<0, 0>> for an empty range.
Ranks(n, start0, end0) ==
  LET back(i) == IF i < 0 THEN n + i ELSE i
      clip(start, end) == IF start > end \/ start >= n THEN <<0, 0>>
                          ELSE <<start + 1, (IF end >= n THEN n - 1 ELSE end) + 1>>
  IN clip(IF back(start0) < 0 THEN 0 ELSE back(start0), back(end0))

\* ZREMRANGEBYRANK takes <<start, end>>, the others a range.
zremrangeGenericCommand(c, byrank) ==
  LET cut(z) == IF byrank THEN zzlDeleteRangeByRank(z, Ranks(Len(z), Arg(c, 2)[1], Arg(c, 2)[2]))
                ELSE zzlDeleteRange(z, Arg(c, 2))
  IN OnKey(c, Arg(c, 1), "zset", LAMBDA e : Reply(e, 0),
           LAMBDA e, o : ZsetLeft(e, Arg(c, 1), o, cut(Ptr(o).z)))

-------------------------------------------------------------------------------
ReadZset(c, missing, answer(_)) == ReadKey(c, "zset", missing, answer)

zrangeGenericCommand(c, reverse) ==
  LET cut(z, at) == IF at[1] = 0 THEN <<>> ELSE SubSeq(z, at[1], at[2])
      answer(z) == cut(IF reverse THEN Reverse(z) ELSE z, Ranks(Len(z), Arg(c, 2), Arg(c, 3)))
  IN ReadZset(c, <<>>, LAMBDA o : answer(Ptr(o).z))

\* ZRANGEBYSCORE, ZRANGEBYLEX and their reverses: key range offset limit.  The
\* offset skips pairs without a look at them; a negative offset skips all.
genericZrangeby(c, reverse) ==
  LET r == Arg(c, 2)
      offset == Arg(c, 3)
      limit == Arg(c, 4)
      outside(p) == IF reverse THEN ~GteMin(p, r) ELSE ~LteMax(p, r)
      stop(walk) == Min({Len(walk) + 1} \cup {i \in (offset + 1)..Len(walk) : outside(walk[i])}) - 1
      cut(walk, end) == SubSeq(walk, offset + 1,
                               IF limit >= 0 /\ offset + limit < end THEN offset + limit ELSE end)
      along(walk) == cut(walk, stop(walk))
      from(z, first) == IF first = 0 \/ offset < 0 THEN <<>>
                        ELSE along(IF reverse THEN Reverse(SubSeq(z, 1, first))
                                              ELSE SubSeq(z, first, Len(z)))
      answer(z) == from(z, IF reverse THEN zzlLastInRange(z, r) ELSE zzlFirstInRange(z, r))
  IN ReadZset(c, <<>>, LAMBDA o : answer(Ptr(o).z))

\* ZCOUNT and ZLEXCOUNT: a ziplist is walked, a skip list is asked for ranks.
zcountCommand(c) ==
  LET r == Arg(c, 2)
      walked(at) == IF at[1] = 0 THEN 0 ELSE at[2] - at[1] + 1
      ranked(z, first, last) ==
        IF first = 0 THEN 0
        ELSE Len(z) - (first - 1) - (IF last = 0 THEN 0 ELSE Len(z) - last)
      count(o, z) == IF Ptr(o).enc = "ziplist" THEN walked(InRange(z, r))
                     ELSE ranked(z, zzlFirstInRange(z, r), zzlLastInRange(z, r))
  IN ReadZset(c, 0, LAMBDA o : count(o, Ptr(o).z))

zcardCommand(c) == ReadZset(c, 0, zsetLength)
zscoreCommand(c) ==
  ReadZset(c, Nil, LAMBDA o : IF zzlFind(Ptr(o).z, Arg(c, 2)) = 0 THEN Nil
                              ELSE <<zsetScore(o, Arg(c, 2))>>)
zrankGenericCommand(c, reverse) ==
  LET answer(n) == IF n >= 0 THEN <<n>> ELSE Nil
  IN ReadZset(c, Nil, LAMBDA o : answer(zsetRank(o, Arg(c, 2), reverse)))

-------------------------------------------------------------------------------
\* ZUNIONSTORE and ZINTERSTORE.  A source is a set, whose scores are 1, a
\* sorted set, or a missing key.
zuiLength(o) == IF o = NULL THEN 0 ELSE IF TypeOf(o) = "set" THEN setTypeSize(o) ELSE zsetLength(o)
zuiPairs(o) ==
  LET ones(s) == [i \in DOMAIN s |-> <<s[i], 1>>]
  IN IF TypeOf(o) = "set" THEN ones(SetElements(o)) ELSE Ptr(o).z
\* <<score>>, or <<>> when the element is not there.
zuiFind(o, ele) ==
  IF o = NULL THEN <<>>
  ELSE IF TypeOf(o) = "set" THEN IF setTypeIsMember(o, ele) THEN <<1>> ELSE <<>>
  ELSE IF zzlFind(Ptr(o).z, ele) = 0 THEN <<>> ELSE <<zsetScore(o, ele)>>

Finite(s) == IF s = NaN THEN 0 ELSE s
zunionInterAggregate(target, val, aggregate) ==
  CASE aggregate = "sum" -> Finite(Plus(target, val))
    [] aggregate = "min" -> IF val # NaN /\ val < target THEN val ELSE target
    [] aggregate = "max" -> IF val # NaN /\ val > target THEN val ELSE target
Weighted(w, score) == Finite(Times(w, score))

\* src is a sequence of <<object, weight>>, by growing size.
ZInter(src, aggregate) ==
  LET others == Tail(src)
      score(p) ==
        FoldLeft(LAMBDA s, q : zunionInterAggregate(s, Times(zuiFind(q[1], p[1])[1], q[2]), aggregate),
                 Weighted(src[1][2], p[2]), others)
      inAll(p) == \A i \in DOMAIN others : zuiFind(others[i][1], p[1]) # <<>>
  IN IF zuiLength(src[1][1]) = 0 THEN <<>>
     ELSE FoldLeft(LAMBDA z, p : IF inAll(p) THEN zzlInsert(z, p[1], score(p)) ELSE z,
                   <<>>, zuiPairs(src[1][1]))

\* The accumulator is a function from elements to scores.
ZUnion(src, aggregate) ==
  LET one(acc, ele, s) ==
        [x \in DOMAIN acc \cup {ele} |->
           IF x # ele THEN acc[x]
           ELSE IF x \in DOMAIN acc THEN zunionInterAggregate(acc[x], s, aggregate) ELSE s]
      source(acc, q) ==
        IF zuiLength(q[1]) = 0 THEN acc
        ELSE FoldLeft(LAMBDA a, p : one(a, p[1], Weighted(q[2], p[2])), acc, zuiPairs(q[1]))
      inserted(acc) == FoldLeft(LAMBDA z, x : zzlInsert(z, x, acc[x]), <<>>, SetToSeq(DOMAIN acc))
  IN inserted(FoldLeft(source, <<>>, src))

\* dst keys weights aggregate.
zunionInterGenericCommand(c, union) ==
  LET dst == Arg(c, 1)
      keys == Arg(c, 2)
      look(e, k) == IF WrongType(e, k, "zset") /\ WrongType(e, k, "set") THEN Reply(e, "wrong") ELSE e
      step(a, k) == IF a.reply = "wrong" THEN a ELSE look(lookupKeyWrite(a, k), k)
      sources(e) == SortSeq([i \in DOMAIN keys |-> <<Found(e, keys[i]), Arg(c, 3)[i]>>],
                            LAMBDA p, q : zuiLength(p[1]) < zuiLength(q[1]))
      result(src) == IF union THEN ZUnion(src, Arg(c, 4)) ELSE ZInter(src, Arg(c, 4))
      add(x, z) == Modified(dbAdd(x, x.d, dst, zsetConvertToZiplistIfNeeded(
                              ZsetObject(z, "skiplist"), Max({Len(p[1]) : p \in Range(z)}))), dst, 1)
      put(e, x, z) == IF z # <<>> THEN Reply(add(x, z), Len(z))
                      ELSE Reply(IF Missing(e, dst) THEN x ELSE Modified(x, dst, 1), 0)
      on(e) == IF e.reply = "wrong" THEN Reply(e, Error)
               ELSE put(e, dbDelete(e, e.d, dst), result(sources(e)))
  IN on(FoldLeft(step, Reply(c, "go"), keys))
===============================================================================
