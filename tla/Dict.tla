-------------------------------- MODULE Dict --------------------------------
(* dict.c: the hash table behind every keyspace, hash, set and sorted set.  *)
(* Two tables of chained buckets; while a resize is in progress each        *)
(* operation first moves one bucket of the old table to the new one, unless *)
(* a safe iterator is open.  dictScan walks the buckets by a stateless      *)
(* cursor, between whose calls the table may grow, shrink and move.         *)
(* A key is identified with its hash; the hash function itself is external. *)
EXTENDS Integers, Sequences, FiniteSets, FiniteSetsExt, SequencesExt
CONSTANTS DictKeys, CursorBits, InitialSize, EmptyVisits, ForceRatio, MinFill
VARIABLES d, can_resize, keys, answer, scan, iter

dvars == <<d, can_resize, keys, answer, scan, iter>>

\* The dictionary: ht[1] and ht[2] are the code's ht[0] and ht[1].
Empty == [ht |-> << <<>>, <<>> >>, rehashidx |-> -1, iterators |-> 0]

dictHashKey(k) == k % 2 ^ CursorBits

size(t) == Len(t)

used(t) == MapThenSumSet(LAMBDA i : Len(t[i]), DOMAIN t)

Entries(t) == UNION {ToSet(t[i]) : i \in DOMAIN t}

Contents(x) == Entries(x.ht[1]) \union Entries(x.ht[2])

dictIsRehashing(x) == x.rehashidx /= -1

\* Bucket index (from 1) of hash h in table t.
Slot(t, h) == (h % size(t)) + 1

------------------------------------------------------------------------------
RECURSIVE NextPower(_, _)
NextPower(i, n) == IF i >= n THEN i ELSE NextPower(2 * i, n)
_dictNextPower(n) == NextPower(InitialSize, n)

\* <<accepted, dictionary>>
dictExpand(x, n) ==
  LET realsize == _dictNextPower(n)
      table == [i \in 1..realsize |-> <<>>]
  IN IF \/ dictIsRehashing(x)
        \/ used(x.ht[1]) > n
        \/ realsize = size(x.ht[1])
     THEN <<FALSE, x>>
     ELSE IF size(x.ht[1]) = 0
          THEN <<TRUE, [x EXCEPT !.ht[1] = table]>>
          ELSE <<TRUE, [x EXCEPT !.ht[2] = table, !.rehashidx = 0]>>

RECURSIVE Rehash(_, _, _)
Rehash(x, n, visits) ==
  IF n = 0 \/ used(x.ht[1]) = 0
  THEN IF used(x.ht[1]) = 0
       THEN [x EXCEPT !.ht = <<x.ht[2], <<>> >>, !.rehashidx = -1]
       ELSE x
  ELSE LET at == x.rehashidx + 1
           bucket == x.ht[1][at]
           move(t, k) == [t EXCEPT ![Slot(t, dictHashKey(k))] = <<k>> \o @]
       IN IF bucket = <<>>
          THEN LET y == [x EXCEPT !.rehashidx = @ + 1]
               IN IF visits = 1 THEN y ELSE Rehash(y, n, visits - 1)
          ELSE Rehash([x EXCEPT !.ht = <<[x.ht[1] EXCEPT ![at] = <<>>],
                                         FoldLeft(move, x.ht[2], bucket)>>,
                                !.rehashidx = @ + 1], n - 1, visits)

dictRehash(x, n) == IF dictIsRehashing(x) THEN Rehash(x, n, n * EmptyVisits) ELSE x

_dictRehashStep(x) == IF x.iterators = 0 THEN dictRehash(x, 1) ELSE x

_dictExpandIfNeeded(x) ==
  LET t == x.ht[1]
  IN IF dictIsRehashing(x) THEN <<TRUE, x>>
     ELSE IF \/ size(t) = 0
             \/ used(t) >= size(t) /\ (can_resize \/ used(t) \div size(t) > ForceRatio)
     THEN dictExpand(x, IF size(t) = 0 THEN InitialSize ELSE used(t) * 2)
     ELSE <<TRUE, x>>

\* The table (1 or 2) whose bucket of k holds k, or 0.
TableOf(x, k) ==
  LET holds(t) == size(x.ht[t]) > 0 /\ k \in ToSet(x.ht[t][Slot(x.ht[t], dictHashKey(k))])
  IN IF holds(1) THEN 1
     ELSE IF dictIsRehashing(x) /\ holds(2) THEN 2 ELSE 0

\* k at the front of its bucket in table t.
Push(x, t, k) == [x EXCEPT !.ht[t][Slot(x.ht[t], dictHashKey(k))] = <<k>> \o @]

\* <<added, dictionary>>; _dictKeyIndex may expand the table before it finds k.
dictAddRaw(x, k) ==
  LET into(e) == IF ~e[1] \/ TableOf(e[2], k) /= 0 THEN <<FALSE, e[2]>>
                 ELSE <<TRUE, Push(e[2], IF dictIsRehashing(e[2]) THEN 2 ELSE 1, k)>>
  IN into(_dictExpandIfNeeded(_dictRehashStep(x)))

Unlink(x, t, k) ==
  IF t = 0 THEN <<FALSE, x>>
  ELSE <<TRUE, [x EXCEPT !.ht[t][Slot(x.ht[t], dictHashKey(k))] = Remove(@, k)]>>
dictGenericDelete(x, k) ==
  LET from(y) == Unlink(y, TableOf(y, k), k)
  IN IF Contents(x) = {} THEN <<FALSE, x>> ELSE from(_dictRehashStep(x))

\* Mutant: the second table is not looked up.
FindInFirst(x, k) ==
  LET in(y) == <<TableOf(y, k) = 1, y>>
  IN IF Contents(x) = {} THEN <<FALSE, x>> ELSE in(_dictRehashStep(x))

dictFind(x, k) ==
  LET in(y) == <<TableOf(y, k) /= 0, y>>
  IN IF Contents(x) = {} THEN <<FALSE, x>> ELSE in(_dictRehashStep(x))

dictResize(x) ==
  IF ~can_resize \/ dictIsRehashing(x) THEN x
  ELSE dictExpand(x, Max({used(x.ht[1]), InitialSize}))[2]

\* server.c: the cron shrinks a table that is mostly empty.
htNeedsResize(x) ==
  LET n == size(x.ht[1]) + size(x.ht[2])
  IN n > InitialSize /\ (Cardinality(Contents(x)) * 100) \div n < MinFill

\* The keys dictGetRandomKey can return from x: those of the buckets its
\* random index h may hit.
RandomHits(x) ==
  LET s == size(x.ht[1])
      hits == IF dictIsRehashing(x)
              THEN {x.rehashidx + r : r \in 0..(s + size(x.ht[2]) - x.rehashidx - 1)}
              ELSE 0..(s - 1)
      bucket(h) == IF h >= s THEN x.ht[2][h - s + 1] ELSE x.ht[1][h + 1]
  IN UNION {ToSet(bucket(h)) : h \in hits}
dictGetRandomKey(x) == IF Contents(x) = {} THEN {} ELSE RandomHits(_dictRehashStep(x))

\* The walk of dictGetSomeKeys from bucket i: the keys stored so far, followed
\* up to the point where a run of empty buckets makes it jump elsewhere.
RECURSIVE SampleFrom(_, _, _, _, _, _)
SampleFrom(x, count, i, stored, empties, steps) ==
  LET tables == IF dictIsRehashing(x) THEN 2 ELSE 1
      largest == Max({size(x.ht[t]) : t \in 1..tables})
      skips == tables = 2 /\ i < x.rehashidx
      at == IF skips /\ i >= size(x.ht[2]) THEN x.rehashidx ELSE i
      in(t) == t <= tables /\ ~(t = 1 /\ skips) /\ at < size(x.ht[t])
      bucket(t) == IF in(t) THEN x.ht[t][at + 1] ELSE <<>>
      after(t, n) == IF ~in(t) THEN n ELSE IF bucket(t) = <<>> THEN n + 1 ELSE 0
      run1 == after(1, empties)
      run2 == after(2, run1)
      all == stored \o bucket(1) \o bucket(2)
  IN IF Len(all) >= count THEN SubSeq(all, 1, count)
     ELSE IF steps = 1 \/ Max({run1, run2}) >= Max({5, count + 1}) THEN all
     ELSE SampleFrom(x, count, (at + 1) % largest, all, run2, steps - 1)

dictGetSomeKeys(x, n, start) ==
  LET count == Min({n, Cardinality(Contents(x))})
      y == IF dictIsRehashing(x) /\ x.iterators = 0 THEN dictRehash(x, count) ELSE x
  IN IF count = 0 THEN <<>> ELSE SampleFrom(y, count, start % Max({size(t) : t \in ToSet(y.ht)}), <<>>, 0, count * 10)

------------------------------------------------------------------------------
(* dictScan *)
rev(v) ==
  MapThenSumSet(LAMBDA i : ((v \div 2 ^ i) % 2) * 2 ^ (CursorBits - 1 - i), 0..(CursorBits - 1))

Mask(v, s) == v % s

\* Cursor values v takes over the larger table, from v on, for a smaller table
\* of s buckets and a larger one of l.
RECURSIVE Expansions(_, _, _)
Expansions(v, s, l) ==
  LET w == (((v \div s) + 1) * s + Mask(v, s)) % 2 ^ CursorBits
  IN {v} \union IF Mask(w, l) \div s /= 0 THEN Expansions(w, s, l) ELSE {}

\* Mutant: of two tables only the smaller one is visited.
ScanSmaller(x, v) ==
  LET small == IF dictIsRehashing(x) /\ size(x.ht[1]) > size(x.ht[2]) THEN 2 ELSE 1
      t0 == x.ht[small]
      next == rev((rev(Mask(v, size(t0)) + 2 ^ CursorBits - size(t0)) + 1) % 2 ^ CursorBits)
  IN IF Contents(x) = {} THEN <<0, {}>> ELSE <<next, ToSet(t0[Mask(v, size(t0)) + 1])>>

\* <<next cursor, keys emitted>>
dictScan(x, v) ==
  LET small == IF dictIsRehashing(x) /\ size(x.ht[1]) > size(x.ht[2]) THEN 2 ELSE 1
      t0 == x.ht[small]
      t1 == x.ht[3 - small]
      at(t, w) == ToSet(t[Mask(w, size(t)) + 1])
      unmasked == Mask(v, size(t0)) + 2 ^ CursorBits - size(t0)
      next == rev((rev(unmasked) + 1) % 2 ^ CursorBits)
  IN IF Contents(x) = {} THEN <<0, {}>>
     ELSE <<next, at(t0, v) \union
                  IF dictIsRehashing(x)
                  THEN UNION {at(t1, w) : w \in Expansions(v, size(t0), size(t1))}
                  ELSE {}>>

------------------------------------------------------------------------------
(* dictGetSafeIterator, dictNext and dictReleaseIterator.  pos is the entry *)
(* last returned, next the rest of its bucket saved by dictNext.            *)
NoIter == [open |-> FALSE, table |-> 1, index |-> -1, pos |-> <<>>, next |-> <<>>,
           seen |-> {}, twice |-> FALSE, due |-> {}]

\* First entry at or after bucket index i of table t: the iterator, or closed.
RECURSIVE Advance(_, _, _, _)
Advance(x, it, t, i) ==
  IF i >= size(x.ht[t])
  THEN IF dictIsRehashing(x) /\ t = 1
       THEN Advance(x, it, 2, 0)
       ELSE [it EXCEPT !.table = t, !.index = i, !.pos = <<>>]
  ELSE IF x.ht[t][i + 1] = <<>>
       THEN Advance(x, it, t, i + 1)
       ELSE [it EXCEPT !.table = t, !.index = i, !.pos = <<Head(x.ht[t][i + 1])>>,
                       !.next = Tail(x.ht[t][i + 1])]

dictNext(x, it) ==
  LET y == IF it.pos = <<>> \/ it.next = <<>>
           THEN Advance(x, it, it.table, it.index + 1)
           ELSE [it EXCEPT !.pos = <<Head(it.next)>>, !.next = Tail(it.next)]
  IN [y EXCEPT !.seen = @ \union ToSet(y.pos), !.due = @ \ ToSet(y.pos),
               !.twice = ToSet(y.pos) \intersect it.seen /= {}]

------------------------------------------------------------------------------
\* due: the keys present since the start and not returned yet.
NoScan == [on |-> FALSE, v |-> 0, due |-> {}, missed |-> {}, shrunk |-> FALSE]

DInit ==
  /\ d = Empty
  /\ can_resize = TRUE
  /\ keys = {}
  /\ answer = FALSE
  /\ scan = NoScan
  /\ iter = NoIter

\* Bookkeeping of the scan and the iterator when key k leaves the dictionary.
Gone(k) ==
  /\ scan' = [scan EXCEPT !.due = @ \ {k}]
  /\ iter' = [iter EXCEPT !.due = @ \ {k}, !.seen = @ \ {k}]

\* The answer <<found, dictionary>> becomes the state.
Becomes(r) == d' = r[2] /\ answer' = r[1]

Add(k) ==
  /\ keys' = keys \union {k}
  /\ UNCHANGED <<can_resize, scan, iter>>
  /\ Becomes(dictAddRaw(d, k))

\* While an iterator is open its user deletes only the entry just returned.
Delete(k) ==
  /\ iter.open => iter.pos = <<k>>
  /\ keys' = keys \ {k}
  /\ Gone(k)
  /\ UNCHANGED can_resize
  /\ Becomes(dictGenericDelete(d, k))

Find(k) ==
  /\ UNCHANGED <<can_resize, keys, scan, iter>>
  /\ Becomes(dictFind(d, k))

\* server.c databasesCron: tryResizeHashTables, then dictRehashMilliseconds.
Cron ==
  /\ ~iter.open
  /\ LET x == IF htNeedsResize(d) THEN dictResize(d) ELSE d
     IN /\ d' \in {x, dictRehash(x, 100)}
        /\ scan' = [scan EXCEPT !.shrunk = @ \/ (scan.on /\ dictIsRehashing(x)
                                                   /\ size(x.ht[2]) < size(x.ht[1]))]
  /\ UNCHANGED <<can_resize, keys, answer, iter>>

\* updateDictResizePolicy: no resizing while a child process saves.
ResizePolicy ==
  /\ can_resize' = ~can_resize
  /\ UNCHANGED <<d, keys, answer, scan, iter>>

dictEmpty ==
  /\ ~iter.open
  /\ d' = Empty
  /\ keys' = {}
  /\ scan' = [scan EXCEPT !.due = {}]
  /\ UNCHANGED <<can_resize, answer, iter>>

ScanStart ==
  /\ ~scan.on /\ ~iter.open
  /\ scan' = [NoScan EXCEPT !.on = TRUE, !.due = keys,
              !.shrunk = dictIsRehashing(d) /\ size(d.ht[2]) < size(d.ht[1])]
  /\ UNCHANGED <<d, can_resize, keys, answer, iter>>

\* One call; a cursor of zero ends the scan.
ScanCall ==
  LET r == dictScan(d, scan.v)
      due == scan.due \ r[2]
  IN /\ scan.on
     /\ scan' = IF r[1] = 0
                THEN [NoScan EXCEPT !.missed = due, !.shrunk = scan.shrunk]
                ELSE [scan EXCEPT !.v = r[1], !.due = due]
     /\ UNCHANGED <<d, can_resize, keys, answer, iter>>

\* Scans and iterations are explored separately: an iterator lives within one
\* command.  The first dictNext of a safe iterator counts it; the one that finds
\* nothing is followed by dictReleaseIterator.
IterOpen ==
  /\ ~scan.on /\ ~iter.open
  /\ d' = [d EXCEPT !.iterators = @ + 1]
  /\ iter' = dictNext(d, [NoIter EXCEPT !.open = TRUE, !.due = keys])
  /\ UNCHANGED <<can_resize, keys, answer, scan>>

IterNext ==
  /\ iter.open /\ iter.pos /= <<>>
  /\ iter' = dictNext(d, iter)
  /\ UNCHANGED <<d, can_resize, keys, answer, scan>>

IterRelease ==
  /\ iter.open
  /\ d' = [d EXCEPT !.iterators = @ - 1]
  /\ iter' = NoIter
  /\ UNCHANGED <<can_resize, keys, answer, scan>>

DNext ==
  \/ \E k \in DictKeys : Add(k) \/ Delete(k) \/ Find(k)
  \/ Cron \/ ResizePolicy \/ dictEmpty
  \/ ScanStart \/ ScanCall
  \/ IterOpen \/ IterNext \/ IterRelease

------------------------------------------------------------------------------
\* dict.c "We are sure there are no elements in indexes from 0 to rehashidx-1":
\* every entry sits once, in the bucket of its hash, in one of the tables, the
\* second table exists exactly while a rehashing is in progress, and the part
\* of the first one already moved is empty.
DictWellFormed ==
  /\ \A t \in 1..2 : \A i \in DOMAIN d.ht[t] :
        /\ \A k \in ToSet(d.ht[t][i]) : Slot(d.ht[t], dictHashKey(k)) = i
        /\ IsInjective(d.ht[t][i])
  /\ Entries(d.ht[1]) \intersect Entries(d.ht[2]) = {}
  /\ dictIsRehashing(d) <=> d.ht[2] /= <<>>
  /\ \A i \in 1..d.rehashidx : d.ht[1][i] = <<>>
  /\ Contents(d) = keys

\* dict.c dictGetRandomKey: at any point of a rehashing no key is out of the
\* reach of the random index, and no index is out of the tables.
EveryKeyCanBePicked == dictGetRandomKey(d) = keys

\* dict.c dictGetSomeKeys: wherever the walk starts and however far a rehashing
\* has come, a sample as large as the dictionary has every key, none of them
\* twice, unless the walk meets empty buckets enough to jump.
SampleIsComplete ==
  \A start \in 0..(Max({size(t) : t \in ToSet(d.ht)}) - 1) :
    LET got == dictGetSomeKeys(d, Cardinality(keys), start)
    IN /\ IsInjective(got) /\ ToSet(got) \subseteq keys
       /\ size(d.ht[1]) + size(d.ht[2]) - Cardinality(keys) < 5 => ToSet(got) = keys

\* dict.c dictScan: "The function guarantees all elements present in the
\* dictionary get returned between the start and end of the iteration", for
\* scans during which the table does not shrink.
ScanReturnsAll == ~scan.shrunk => scan.missed = {}

\* The guarantee as dict.c states it, whatever the table does meanwhile.
ScanReturnsAllAlways == scan.missed = {}

\* dict.c dictNext on a safe iterator: whatever its user adds, looks up or
\* deletes meanwhile, no entry is returned twice and a finished iteration has
\* returned every key that was there throughout.
IterationIsComplete ==
  iter.open =>
    /\ ~iter.twice
    /\ iter.pos = <<>> => iter.due = {}

=============================================================================
