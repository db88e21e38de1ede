-------------------------------- MODULE Hashes --------------------------------
(***************************************************************************)
(* The hash type (t_hash.c).  A hash object holds the function f from its   *)
(* fields to their values and its encoding: a ziplist while it is small, a  *)
(* hash table once it has outgrown the limits, and never back.              *)
(***************************************************************************)
EXTENDS Strings, Functions

CONSTANTS MaxHashEntries,   \* hash_max_ziplist_entries
          MaxHashValue      \* hash_max_ziplist_value

HashObject(f, enc) == Object("hash", [f |-> f, enc |-> enc])
createHashObject == HashObject(<<>>, "ziplist")

hashTypeConvert(o) == HashObject(Ptr(o).f, "ht")

\* The arguments are looked at before any of them is stored.
hashTypeTryConversion(o, strings) ==
  IF Ptr(o).enc = "ziplist" /\ \E s \in strings : Len(s) > MaxHashValue
  THEN hashTypeConvert(o) ELSE o

hashTypeLength(o) == Cardinality(DOMAIN Ptr(o).f)
hashTypeExists(o, field) == field \in DOMAIN Ptr(o).f
hashTypeGetValue(o, field) == IF hashTypeExists(o, field) THEN Ptr(o).f[field] ELSE Nil
hashTypeGetValueLength(o, field) ==
  IF hashTypeExists(o, field) THEN Len(Ptr(o).f[field]) ELSE 0

\* Only a ziplist is checked for its length.
hashTypeSet(o, field, value) ==
  LET fit(s) == IF Ptr(s).enc = "ziplist" /\ hashTypeLength(s) > MaxHashEntries
                THEN hashTypeConvert(s) ELSE s
  IN fit(HashObject([x \in DOMAIN Ptr(o).f \cup {field} |->
                       IF x = field THEN value ELSE Ptr(o).f[x]], Ptr(o).enc))

hashTypeDelete(o, field) ==
  HashObject(Restrict(Ptr(o).f, DOMAIN Ptr(o).f \ {field}), Ptr(o).enc)

\* The iterator of either encoding: every field with its value, once.
HashPairs(o) == {<<x, Ptr(o).f[x]>> : x \in DOMAIN Ptr(o).f}

\* The value was changed in place, n times.
Changed(c, k, o, n) == Modified(Store(c, k, o), k, n)

-------------------------------------------------------------------------------
\* A hash that is created is empty until the command has stored a field.
OnHash(c, present(_, _)) == OnNewKey(c, Arg(c, 1), "hash", createHashObject, present)

hsetnxCommand(c) ==
  LET k == Arg(c, 1)
      set(e, o) == IF hashTypeExists(o, Arg(c, 2)) THEN Reply(Store(e, k, o), 0)
                   ELSE Reply(Changed(e, k, hashTypeSet(o, Arg(c, 2), Arg(c, 3)), 1), 1)
  IN OnHash(c, LAMBDA e, o : set(e, hashTypeTryConversion(o, {Arg(c, 2), Arg(c, 3)})))

\* HSET and HMSET take the pairs as a sequence of <<field, value>>.
hsetCommand(c) ==
  LET k == Arg(c, 1)
      pairs == Arg(c, 2)
      stored(e, o, s) == Reply(Changed(e, k, s, 1), hashTypeLength(s) - hashTypeLength(o))
      set(e, o) == stored(e, o, FoldLeft(LAMBDA h, p : hashTypeSet(h, p[1], p[2]), o, pairs))
  IN OnHash(c, LAMBDA e, o : set(e, hashTypeTryConversion(o, UNION {Range(p) : p \in Range(pairs)})))

\* The number under a field; a missing field counts as zero.
FieldNumber(o, field) ==
  IF hashTypeExists(o, field) THEN string2ll(hashTypeGetValue(o, field)) ELSE Number(0)

SetField(e, k, o, field, new) == Reply(Changed(e, k, hashTypeSet(o, field, new), 1), new)

hincrbyCommand(c) ==
  LET add(e, o, old) == IF ~old.ok \/ Overflows(old.v, Arg(c, 3)) THEN Reply(e, Error)
                        ELSE SetField(e, Arg(c, 1), o, Arg(c, 2), ll2string(old.v + Arg(c, 3)))
  IN OnHash(c, LAMBDA e, o : add(e, o, FieldNumber(o, Arg(c, 2))))

\* Propagated as an HSET of the result; floats are integers here.
hincrbyfloatCommand(c) ==
  LET set(e, o, new) == rewriteClientCommandVector(SetField(e, Arg(c, 1), o, Arg(c, 2), new),
                          <<"HSET", Arg(c, 1), << <<Arg(c, 2), new>> >> >>)
      add(e, o, old) == IF old.ok THEN set(e, o, ll2string(old.v + Arg(c, 3))) ELSE Reply(e, Error)
  IN OnHash(c, LAMBDA e, o : add(e, o, FieldNumber(o, Arg(c, 2))))

\* The read commands: the answer is a function of the hash, or the reply for a
\* missing key.
ReadHash(c, missing, answer(_)) == ReadKey(c, "hash", missing, answer)

hgetCommand(c) == ReadHash(c, Nil, LAMBDA o : hashTypeGetValue(o, Arg(c, 2)))
hmgetCommand(c) ==
  LET fields == Arg(c, 2)
  IN ReadHash(c, [i \in DOMAIN fields |-> Nil],
              LAMBDA o : [i \in DOMAIN fields |-> hashTypeGetValue(o, fields[i])])
hlenCommand(c) == ReadHash(c, 0, hashTypeLength)
hstrlenCommand(c) == ReadHash(c, 0, LAMBDA o : hashTypeGetValueLength(o, Arg(c, 2)))
hexistsCommand(c) ==
  ReadHash(c, 0, LAMBDA o : IF hashTypeExists(o, Arg(c, 2)) THEN 1 ELSE 0)
genericHgetallCommand(c) == ReadHash(c, {}, HashPairs)

\* HDEL key with a sequence of fields: the loop stops when the hash is gone.
hdelCommand(c) ==
  LET k == Arg(c, 1)
      put(e, s, deleted) ==
        IF deleted = 0 THEN Reply(e, 0)
        ELSE Reply(Modified(IF hashTypeLength(s) = 0 THEN dbDelete(e, e.d, k) ELSE Store(e, k, s),
                            k, deleted), deleted)
      cut(e, o, s) == put(e, s, hashTypeLength(o) - hashTypeLength(s))
  IN OnKey(c, k, "hash", LAMBDA e : Reply(e, 0),
           LAMBDA e, o : cut(e, o, FoldLeft(hashTypeDelete, o, Arg(c, 2))))
===============================================================================
