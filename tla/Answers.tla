------------------------------- MODULE Answers --------------------------------
(***************************************************************************)
(* What the read commands must answer in any state the server reaches: sets *)
(* of pairs <<command, reply>>, from definitions that say what the answer   *)
(* means and not how it is found.                                           *)
(***************************************************************************)
EXTENDS Server, TLC

\* The answer to a client of database 0, and the value a key has for it.
Answer(argv) == proc(Context([db |-> host.db, exp |-> host.exp, d |-> 0], "master", now, <<>>,
                             "reader", FALSE, argv, NoBlocked)).reply
Live(k) == IF host.exp[0][k] >= 0 /\ now > host.exp[0][k] THEN NULL ELSE host.db[0][k]
KeysOf(t) == {k \in Keys : TypeOf(Live(k)) = t}
Value(k) == Ptr(Live(k))

\* The elements of s from index a to index b; a negative one counts from the end.
From(s, i) == IF i < 0 THEN Len(s) + i ELSE i
Slice(s, a, b) ==
  LET in == {p \in DOMAIN s : From(s, a) <= p - 1 /\ p - 1 <= From(s, b)}
  IN IF in = {} THEN <<>> ELSE SubSeq(s, Min(in), Max(in))
Ends(s) == (0 - Len(s))..Len(s)

\* However the dataset came about, no read sees a key whose time is over, and
\* all the reads of a value tell of the same value: its length, its parts by
\* index or name, and its rank (lookupKeyRead and the read commands).
KeyTruths ==
  { << <<"KEYS", Keys>>, {k \in Keys : Live(k) # NULL}>> }
  \cup {<< <<"EXISTS", k, k>>, IF Live(k) = NULL THEN 0 ELSE 2>> : k \in Keys}
  \cup {<< <<"TYPE", k>>, TypeOf(Live(k))>> : k \in Keys}
  \cup {<< <<"TTL", k>>, IF Live(k) = NULL THEN -2 ELSE IF host.exp[0][k] = -1 THEN -1
                         ELSE host.exp[0][k] - now>> : k \in Keys}
  \cup {<< <<"MGET", k>>, <<IF TypeOf(Live(k)) = "string" THEN Live(k) ELSE NULL>> >> : k \in Keys}

SequenceTruths ==
  {<< <<"STRLEN", k>>, Len(Value(k))>> : k \in KeysOf("string")}
  \cup {<< <<"LLEN", k>>, Len(Value(k))>> : k \in KeysOf("list")}
  \cup UNION {{<< <<IF TypeOf(Live(k)) = "list" THEN "LRANGE" ELSE "GETRANGE", k, a, b>>, Slice(Value(k), a, b)>> :
                 a, b \in Ends(Value(k))} : k \in KeysOf("string") \cup KeysOf("list")}
  \cup UNION {{<< <<"LINDEX", k, a>>, IF Slice(Value(k), a, a) = <<>> THEN Nil ELSE Slice(Value(k), a, a)[1]>> :
                 a \in Ends(Value(k))} : k \in KeysOf("list")}

HashTruths(k, f) ==
  { << <<"HLEN", k>>, Cardinality(DOMAIN f)>>, << <<"HGETALL", k>>, {<<x, f[x]>> : x \in DOMAIN f}>> }
  \cup {<< <<"HGET", k, x>>, f[x]>> : x \in DOMAIN f}
  \cup {<< <<"HMGET", k, <<x>> >>, <<f[x]>> >> : x \in DOMAIN f}
  \cup {<< <<"HSTRLEN", k, x>>, Len(f[x])>> : x \in DOMAIN f}
  \cup {<< <<"HEXISTS", k, x>>, 1>> : x \in DOMAIN f}

SetTruths(k, S) ==
  { << <<"SCARD", k>>, Cardinality(S)>> } \cup {<< <<"SISMEMBER", k, v>>, 1>> : v \in S}

ZsetTruths(k, z) ==
  { << <<"ZCARD", k>>, Len(z)>>, << <<"ZREVRANGE", k, 0, -1>>, Reverse(z)>> }
  \cup {<< <<"ZRANGE", k, a, b>>, Slice(z, a, b)>> : a, b \in Ends(z)}
  \cup {<< <<"ZRANK", k, z[i][1]>>, <<i - 1>> >> : i \in DOMAIN z}
  \cup {<< <<"ZREVRANK", k, z[i][1]>>, <<Len(z) - i>> >> : i \in DOMAIN z}
  \cup {<< <<"ZSCORE", k, z[i][1]>>, <<z[i][2]>> >> : i \in DOMAIN z}

ReadTruths ==
  KeyTruths \cup SequenceTruths
  \cup UNION {HashTruths(k, Value(k).f) : k \in KeysOf("hash")}
  \cup UNION {SetTruths(k, Value(k).s) : k \in KeysOf("set")}
  \cup UNION {ZsetTruths(k, Value(k).z) : k \in KeysOf("zset")}

\* SINTER, SUNION and SDIFF answer the operation of set theory, whichever set
\* is walked, whatever the encodings and whichever algorithm SDIFF chooses
\* (sinterGenericCommand, sunionDiffGenericCommand).
Elements(k) == IF Live(k) = NULL THEN {} ELSE Value(k).s
AlgebraTruths ==
  UNION {{ << <<"SINTER", <<k, l>> >>, Elements(k) \cap Elements(l)>>,
           << <<"SUNION", <<k, l>> >>, Elements(k) \cup Elements(l)>>,
           << <<"SDIFF", <<k, l>> >>, Elements(k) \ Elements(l)>>,
           << <<"SDIFF", <<k, l, l>> >>, Elements(k) \ Elements(l)>> } :
         k, l \in KeysOf("set") \cup KeysOf("none")}

\* A range of scores, or of elements when all the scores are equal, answers
\* exactly the pairs between its bounds: in order, in reverse, counted, and
\* from an offset on, in both encodings (genericZrangebyscoreCommand,
\* genericZrangebylexCommand, zcountCommand).
Compared(p, r, bound) == IF r.lex THEN sdscmplex(<<0, p[1]>>, bound) ELSE p[2] - bound[1]
Within(p, r) ==
  /\ IF r.minex THEN Compared(p, r, r.min) > 0 ELSE Compared(p, r, r.min) >= 0
  /\ IF r.maxex THEN Compared(p, r, r.max) < 0 ELSE Compared(p, r, r.max) <= 0
Flat(z) == \A i, j \in DOMAIN z : z[i][2] = z[j][2]
RangeTruths(ranges) ==
  UNION {LET in == SelectSeq(Value(p[1]).z, LAMBDA e : Within(e, p[2]))
         IN { << <<"ZRANGEBY", p[1], p[2], 0, -1>>, in>>,
              << <<"ZREVRANGEBY", p[1], p[2], 0, -1>>, Reverse(in)>>,
              << <<"ZRANGEBY", p[1], p[2], 1, 1>>, Slice(in, 1, 1)>>,
              << <<"ZCOUNT", p[1], p[2]>>, Len(in)>> } :
         p \in {q \in KeysOf("zset") \X ranges : q[2].lex => Flat(Value(q[1]).z)}}

\* SORT answers a window of the elements in the order of their numbers or, with
\* ALPHA, of their bytes, and an error for what is not a number; an empty
\* string counts as 0 (sortCommand, pqsort).
Sorted(s, alpha) ==
  SortSeq(s, LAMBDA x, y : IF alpha THEN sdscmp(x, y) < 0 ELSE string2ll(x).v < string2ll(y).v)
Members(k) ==
  CASE TypeOf(Live(k)) = "list" -> Value(k)
    [] TypeOf(Live(k)) = "set" -> SetToSeq(Value(k).s)
    [] OTHER -> [i \in DOMAIN Value(k).z |-> Value(k).z[i][1]]
Window(s, limit) == SubSeq(s, limit[1] + 1, IF limit[2] = -1 THEN Len(s) ELSE Min({limit[1] + limit[2], Len(s)}))
SortTruth(k, s, desc, alpha, limit) ==
  << <<"SORT", k, SortOptions(desc, alpha, limit, <<"none">>, <<>>, Nil)>>,
     IF ~alpha /\ \E x \in Range(s) : x # <<>> /\ ~string2ll(x).ok THEN Error
     ELSE [i \in DOMAIN Window(s, limit) |->
             String(Window(IF desc THEN Reverse(Sorted(s, alpha)) ELSE Sorted(s, alpha), limit)[i])]>>
SortTruths(limits) ==
  {SortTruth(k, Members(k), desc, alpha, limit) :
     k \in KeysOf("list") \cup KeysOf("set") \cup KeysOf("zset"), desc, alpha \in BOOLEAN, limit \in limits}

\* BITCOUNT and BITPOS see the bits of the string one by one, whatever the
\* alignment of the range and the words they are read in (redisBitpos).
With(s, a, b, v) == {i \in (8 * a)..(8 * b + 7) : BitAt(s, i) = v}
First(S, none) == IF S = {} THEN none ELSE Min(S)
BitTruths(k, s) ==
  { << <<"BITCOUNT", k>>, Cardinality(With(s, 0, Len(s) - 1, 1))>> }
  \cup {<< <<"BITCOUNT", k, a, b>>, Cardinality(With(s, a, b, 1))>> : a, b \in 0..(Len(s) - 1)}
  \cup {<< <<"BITPOS", k, v, a, b>>, First(With(s, a, b, v), -1)>> : v \in {0, 1}, a, b \in 0..(Len(s) - 1)}
  \cup {<< <<"BITPOS", k, v, a>>, First(With(s, a, Len(s) - 1, v), IF v = 1 THEN -1 ELSE 8 * Len(s))>> :
          v \in {0, 1}, a \in 0..(Len(s) - 1)}

\* BITFIELD does the arithmetic of integers of the given width: a number that
\* was set in an empty string and incremented reads back wrapped around or
\* saturated as OVERFLOW says (checkSignedBitfieldOverflow,
\* checkUnsignedBitfieldOverflow).
Least(sign, bits) == IF sign THEN -(2 ^ (bits - 1)) ELSE 0
Wanted(n, ow, min, bits) ==
  IF ow = "wrap" THEN ((n - min) % 2 ^ bits) + min ELSE Max({min, Min({n, min + 2 ^ bits - 1})})
FieldOp(op, sign, bits, n, ow) == [op |-> op, sign |-> sign, bits |-> bits, offset |-> 5, v |-> n, ow |-> ow]
FieldTruth(k, sign, bits, ow, v, incr) ==
  << <<"BITFIELD", k, <<FieldOp("set", sign, bits, v, ow), FieldOp("incrby", sign, bits, incr, ow),
                        FieldOp("get", sign, bits, 0, ow)>> >>,
     << <<0>>, <<Wanted(v + incr, ow, Least(sign, bits), bits)>>, <<Wanted(v + incr, ow, Least(sign, bits), bits)>> >> >>
FieldTruths(widths) ==
  UNION {{FieldTruth(k, p[1], p[2], ow, v, incr) :
            k \in KeysOf("none"), ow \in {"wrap", "sat"}, incr \in {LLONG_MIN, -3, 0, 1, LLONG_MAX},
            v \in Least(p[1], p[2])..(Least(p[1], p[2]) + 2 ^ p[2] - 1)} : p \in BOOLEAN \X widths}
===============================================================================
