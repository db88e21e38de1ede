----------------------------- MODULE Quicklist -----------------------------
(* quicklist.c: a list is a sequence of nodes, each a ziplist of at most    *)
(* Fill entries; nodes further than Compress from both ends may be stored   *)
(* compressed (LZF).  A node opened for use is marked recompress.  The head *)
(* and the tail are used as plain ziplists without looking at the encoding. *)
(* The actions are the list commands of t_list.c, which call it.            *)
EXTENDS Integers, Sequences, SequencesExt
CONSTANTS ListValues, Fill, Compress, MinCompress, SizeLimit, MaxList
VARIABLES ql, list, opened

qvars == <<ql, list, opened>>

QEmpty == [nodes |-> <<>>, count |-> 0]

createNode(zl) == [zl |-> zl, enc |-> "RAW", recompress |-> FALSE]

\* A value is its length in bytes; 2 bytes of overhead each, 11 per ziplist.
sz(n) == FoldLeft(LAMBDA a, v : a + v + 2, 11, n.zl)

CompressNode(n) ==
  IF n.enc = "RAW" /\ sz(n) >= MinCompress
  THEN [n EXCEPT !.enc = "LZF", !.recompress = FALSE] ELSE n

DecompressNode(n) == [n EXCEPT !.enc = "RAW"]

DecompressNodeForUse(n) ==
  IF n.enc = "LZF" THEN [n EXCEPT !.enc = "RAW", !.recompress = TRUE] ELSE n

On(nodes, i, f(_)) == IF i \in DOMAIN nodes THEN [nodes EXCEPT ![i] = f(@)] ELSE nodes

\* len is the code's node counter, which lags behind the links while a node
\* is inserted or unlinked; node is 0 for NULL.
OpenEnds(nodes, ends) ==
  SubSeq([k \in DOMAIN nodes |-> IF k \in ends THEN DecompressNode(nodes[k]) ELSE nodes[k]],
         1, Len(nodes))
CloseInner(nodes, ends, node) ==
  LET closes == IF node \in ends THEN nodes ELSE On(nodes, node, CompressNode)
  IN IF Compress + 1 > 2
     THEN On(On(closes, Compress + 1, CompressNode), Len(nodes) - Compress, CompressNode)
     ELSE closes
__quicklistCompress(nodes, len, node) ==
  LET n == Len(nodes)
      meet == {k \in 1..Compress : k = n + 1 - k}
      ends(deep) == {k \in 1..n : k <= deep \/ n + 1 - k <= deep}
  IN IF Compress = 0 \/ len < Compress * 2 THEN nodes
     ELSE IF meet /= {} THEN OpenEnds(nodes, ends(CHOOSE k \in meet : TRUE))
     ELSE CloseInner(OpenEnds(nodes, ends(Compress)), ends(Compress), node)

quicklistCompress(nodes, len, i) ==
  IF nodes[i].recompress THEN On(nodes, i, CompressNode) ELSE __quicklistCompress(nodes, len, i)

RecompressOnly(nodes, i) ==
  IF nodes[i].recompress THEN On(nodes, i, CompressNode) ELSE nodes

\* New node at position i, next to the old one at position old of the result.
__quicklistInsertNode(nodes, i, new, old) ==
  LET linked == InsertAt(nodes, i, new)
  IN IF nodes = <<>> THEN linked ELSE quicklistCompress(linked, Len(nodes), old)

__quicklistDelNode(nodes, i) == __quicklistCompress(RemoveAt(nodes, i), Len(nodes), 0)

AllowInsert(nodes, i, v) ==
  /\ i \in DOMAIN nodes
  /\ sz(nodes[i]) + v + 2 <= SizeLimit
  /\ Len(nodes[i].zl) < Fill

AllowMerge(nodes, i, j) ==
  /\ {i, j} \subseteq DOMAIN nodes
  /\ sz(nodes[i]) + sz(nodes[j]) - 11 <= SizeLimit
  /\ Len(nodes[i].zl) + Len(nodes[j].zl) <= Fill

------------------------------------------------------------------------------
PushHead(q, v) ==
  [count |-> q.count + 1,
   nodes |-> IF AllowInsert(q.nodes, 1, v)
             THEN [q.nodes EXCEPT ![1].zl = <<v>> \o @]
             ELSE __quicklistInsertNode(q.nodes, 1, createNode(<<v>>), 2)]

PushTail(q, v) ==
  LET n == Len(q.nodes)
  IN [count |-> q.count + 1,
      nodes |-> IF AllowInsert(q.nodes, n, v)
                THEN [q.nodes EXCEPT ![n].zl = Append(@, v)]
                ELSE __quicklistInsertNode(q.nodes, n + 1, createNode(<<v>>), n)]

\* RDB loading: a node made of a whole saved ziplist.
AppendZiplist(q, zl) ==
  LET n == Len(q.nodes)
  IN [count |-> q.count + Len(zl),
      nodes |-> __quicklistInsertNode(q.nodes, n + 1, createNode(zl), n)]

\* Mutant: an emptied node stays.
KeepsEmptyNode(q, i, p) == [count |-> q.count - 1, nodes |-> [q.nodes EXCEPT ![i].zl = RemoveAt(@, p)]]

\* Entry p of node i.
DelIndex(q, i, p) ==
  LET nodes == [q.nodes EXCEPT ![i].zl = RemoveAt(@, p)]
  IN [count |-> q.count - 1,
      nodes |-> IF nodes[i].zl = <<>> THEN __quicklistDelNode(nodes, i) ELSE nodes]

PopCustom(q, where) ==
  LET n == Len(q.nodes)
  IN IF where = "head" THEN DelIndex(q, 1, 1) ELSE DelIndex(q, n, Len(q.nodes[n].zl))

\* The position a ziplist offset denotes; 0 for none.
ziplistIndex(zl, off) ==
  LET p == IF off >= 0 THEN off + 1 ELSE Len(zl) + 1 + off
  IN IF p \in 1..Len(zl) THEN p ELSE 0

\* <<node, offset>> of the entry at idx, <<0, 0>> if out of range.
RECURSIVE Seek(_, _, _, _, _)
Seek(nodes, i, step, accum, index) ==
  IF i \notin DOMAIN nodes THEN <<0, 0>>
  ELSE IF accum + Len(nodes[i].zl) > index
       THEN <<i, IF step = 1 THEN index - accum ELSE (0 - index) - 1 + accum>>
       ELSE Seek(nodes, i + step, step, accum + Len(nodes[i].zl), index)

Position(q, idx) ==
  LET index == IF idx < 0 THEN (0 - idx) - 1 ELSE idx
  IN IF index >= q.count THEN <<0, 0>>
     ELSE IF idx < 0 THEN Seek(q.nodes, Len(q.nodes), -1, 0, index)
     ELSE Seek(q.nodes, 1, 1, 0, index)

\* The list after the node was opened for the caller.
quicklistIndex(q, idx) == [q EXCEPT !.nodes = On(@, Position(q, idx)[1], DecompressNodeForUse)]

ReplaceEntry(nodes, at, v) ==
  quicklistCompress([nodes EXCEPT ![at[1]].zl[ziplistIndex(nodes[at[1]].zl, at[2])] = v],
                    Len(nodes), at[1])
ReplaceAtIndex(q, idx, v) ==
  IF Position(q, idx)[1] = 0 THEN q
  ELSE [q EXCEPT !.nodes = ReplaceEntry(quicklistIndex(q, idx).nodes, Position(q, idx), v)]

------------------------------------------------------------------------------
CompressAt(nodes, i) == quicklistCompress(nodes, Len(nodes), i)

\* ziplistMerge keeps the longer one of i and i + 1.
ZiplistMerge(nodes, i) ==
  LET a == DecompressNode(nodes[i])
      b == DecompressNode(nodes[i + 1])
      longer == IF Len(a.zl) >= Len(b.zl) THEN a ELSE b
      merged == [nodes EXCEPT ![i] = [longer EXCEPT !.zl = a.zl \o b.zl]]
  IN CompressAt(__quicklistDelNode(merged, i + 1), i)

\* Tries to merge nodes i and i + 1 of m; center is the node it started from.
TryMerge(m, offset) ==
  LET i == m.center + offset
  IN IF AllowMerge(m.nodes, i, i + 1)
     THEN [nodes |-> ZiplistMerge(m.nodes, i), center |-> IF offset < 0 THEN m.center - 1 ELSE m.center]
     ELSE m

\* The two before the center, the two after it, the center with the one before
\* it and the result with the one after it.
MergeNodes(nodes, center) ==
  FoldLeft(TryMerge, [nodes |-> nodes, center |-> center], <<-2, 1, -1, 0>>).nodes

\* Insert v after (or before) the entry at offset off >= 0 of node i.  The
\* at_tail test compares the offset with the count, which no entry's equals.
quicklistInsert(q, i, off, v, after) ==
  LET node == q.nodes[i]
      full == ~AllowInsert(q.nodes, i, v)
      at_tail == after /\ off = Len(node.zl)
      at_head == ~after /\ off = 0
      other == IF after THEN i + 1 ELSE i - 1
      full_other == ~AllowInsert(q.nodes, other, v)
      aside == (at_tail \/ at_head) /\ other \in DOMAIN q.nodes
      opened_ == On(q.nodes, i, DecompressNodeForUse)
      p == off + 1
      cut == IF after THEN p ELSE off
      kept == [opened_ EXCEPT ![i].zl = IF after THEN SubSeq(@, 1, cut)
                                                 ELSE SubSeq(@, cut + 1, Len(@))]
      new == createNode(IF after THEN <<v>> \o SubSeq(node.zl, cut + 1, Len(node.zl))
                                 ELSE Append(SubSeq(node.zl, 1, cut), v))
      place == IF after THEN i + 1 ELSE i
      mine == IF after THEN i ELSE i + 1
  IN [count |-> q.count + 1,
      nodes |->
        IF ~full
        THEN RecompressOnly([opened_ EXCEPT ![i].zl = InsertAt(@, cut + 1, v)], i)
        ELSE IF aside /\ ~full_other
        THEN RecompressOnly([On(q.nodes, other, DecompressNodeForUse) EXCEPT ![other].zl =
                                IF after THEN <<v>> \o @ ELSE Append(@, v)], other)
        ELSE IF aside
        THEN __quicklistInsertNode(q.nodes, place, createNode(<<v>>), mine)
        ELSE MergeNodes(__quicklistInsertNode(kept, place, new, mine), mine)]

------------------------------------------------------------------------------
\* The nodes without del entries of node i from position from on.
CutFrom(nodes, i, from, del) ==
  [On(nodes, i, DecompressNodeForUse) EXCEPT ![i].zl =
     SubSeq(@, 1, from - 1) \o SubSeq(@, from + del, Len(@))]
DropEmpty(nodes, i) ==
  IF nodes[i].zl = <<>> THEN __quicklistDelNode(nodes, i) ELSE RecompressOnly(nodes, i)

RECURSIVE DelFrom(_, _, _, _)
DelFrom(q, i, off, extent) ==
  IF extent = 0 THEN q
  ELSE LET n == Len(q.nodes[i].zl)
           whole == off = 0 /\ extent >= n
           del == IF whole THEN n
                  ELSE IF off >= 0 /\ extent >= n THEN n - off
                  ELSE IF off < 0 THEN (IF 0 - off > extent THEN extent ELSE 0 - off)
                  ELSE extent
           from == ziplistIndex(q.nodes[i].zl, off)
       IN DelFrom([nodes |-> IF whole THEN __quicklistDelNode(q.nodes, i)
                             ELSE DropEmpty(CutFrom(q.nodes, i, from, del), i),
                   count |-> q.count - del],
                  IF del = n THEN i ELSE i + 1, 0, extent - del)

quicklistDelRange(q, start, count) ==
  LET extent == IF start >= 0 /\ count > q.count - start THEN q.count - start
                ELSE IF start < 0 /\ count > 0 - start THEN 0 - start ELSE count
      at == Position(q, start)
  IN IF count <= 0 \/ at[1] = 0 THEN q
     ELSE DelFrom(quicklistIndex(q, start), at[1], at[2], extent)

------------------------------------------------------------------------------
(* Iterators: node cur (0 at the end), offset off, position zi (0: NULL).   *)
GetIteratorAtIdx(q, dir, idx) ==
  LET at == Position(q, idx) IN [cur |-> at[1], off |-> at[2], zi |-> 0, dir |-> dir]

\* <<list, iterator>>; the iterator's zi is 0 when the iteration is over.
\* The current node is opened before its first entry.
OpenCurrent(q, it) ==
  IF it.zi = 0 THEN [q EXCEPT !.nodes = On(@, it.cur, DecompressNodeForUse)] ELSE q
NextIndex(zl, it) ==
  IF it.zi = 0 THEN ziplistIndex(zl, it.off)
  ELSE IF (it.zi + it.dir) \in DOMAIN zl THEN it.zi + it.dir ELSE 0
RECURSIVE quicklistNext(_, _), NextOf(_, _, _)
NextOf(q, it, zi) ==
  LET next == it.cur + it.dir
  IN IF zi /= 0
     THEN <<q, [it EXCEPT !.zi = zi, !.off = IF it.zi = 0 THEN @ ELSE @ + it.dir]>>
     ELSE quicklistNext([q EXCEPT !.nodes = CompressAt(@, it.cur)],
                        [it EXCEPT !.cur = IF next \in DOMAIN q.nodes THEN next ELSE 0,
                                   !.off = IF it.dir = 1 THEN 0 ELSE -1, !.zi = 0])
quicklistNext(q, it) ==
  IF it.cur = 0 THEN <<q, it>>
  ELSE NextOf(OpenCurrent(q, it), it, NextIndex(q.nodes[it.cur].zl, it))

ReleaseIterator(q, it) ==
  IF it.cur = 0 THEN q
  ELSE [q EXCEPT !.nodes = CompressAt(@, it.cur)]

quicklistDelEntry(q, it) ==
  LET gone == Len(q.nodes[it.cur].zl) = 1
      next == IF it.dir = 1 THEN it.cur ELSE it.cur - 1
  IN <<DelIndex(q, it.cur, it.zi),
       IF gone THEN [it EXCEPT !.zi = 0, !.off = IF it.dir = 1 THEN 0 ELSE -1,
                               !.cur = IF next \in 1..(Len(q.nodes) - 1) THEN next ELSE 0]
       ELSE [it EXCEPT !.zi = 0]>>

------------------------------------------------------------------------------
(* The commands of t_list.c. *)
Flat(q) == FoldLeft(LAMBDA a, n : a \o n.zl, <<>>, q.nodes)

QInit == ql = QEmpty /\ list = <<>> /\ opened = FALSE

\* Some node was left open by its user, still marked recompress.
MarkLeft(q) == \E i \in DOMAIN q.nodes : q.nodes[i].recompress

StaysOpen(q) == opened' = (opened \/ MarkLeft(q))

\* Pushing and popping use the end node as a ziplist whatever its encoding;
\* what that does to a compressed one is not followed further.
EndIsRaw(where) ==
  ql.nodes /= <<>> => (IF where = "head" THEN Head(ql.nodes) ELSE Last(ql.nodes)).enc = "RAW"

listTypePush(v, where) ==
  /\ Len(list) < MaxList
  /\ EndIsRaw(where)
  /\ ql' = IF where = "head" THEN PushHead(ql, v) ELSE PushTail(ql, v)
  /\ list' = IF where = "head" THEN <<v>> \o list ELSE Append(list, v)
  /\ StaysOpen(ql')

listTypePop(where) ==
  /\ list /= <<>>
  /\ EndIsRaw(where)
  /\ ql' = PopCustom(ql, where)
  /\ list' = IF where = "head" THEN Tail(list) ELSE Front(list)
  /\ StaysOpen(ql')

Load(a, b) ==
  /\ list = <<>>
  /\ ql' = AppendZiplist(AppendZiplist(ql, a), b)
  /\ list' = a \o b
  /\ StaysOpen(ql')

lindexCommand(idx) ==
  /\ ql' = quicklistIndex(ql, idx)
  /\ UNCHANGED list
  /\ StaysOpen(ql')

lsetCommand(idx, v) ==
  /\ ql' = ReplaceAtIndex(ql, idx, v)
  /\ list' = IF ziplistIndex(list, idx) = 0 THEN list
             ELSE [list EXCEPT ![ziplistIndex(list, idx)] = v]
  /\ StaysOpen(ql')

\* <<list, iterator>> at the first entry equal to v, or past the last one.
RECURSIVE FindValue(_, _, _), StopAt(_, _)
StopAt(r, v) ==
  IF r[2].zi = 0 \/ r[1].nodes[r[2].cur].zl[r[2].zi] = v THEN r
  ELSE FindValue(r[1], r[2], v)
FindValue(q, it, v) == StopAt(quicklistNext(q, it), v)

\* After an insertion into a full node the iterator's node may be gone; its
\* release is then left out.
linsertCommand(pivot, v, after) ==
  /\ Len(list) \in 1..(MaxList - 1)
  /\ \E r \in {FindValue(quicklistIndex(ql, 0), GetIteratorAtIdx(ql, 1, 0), pivot)} :
       LET it == r[2]
           full == ~AllowInsert(r[1].nodes, it.cur, v)
           left == it.zi /= 0 /\ full
           q == IF it.zi = 0 THEN r[1] ELSE quicklistInsert(r[1], it.cur, it.off, v, after)
       IN /\ ql' = ReleaseIterator(q, IF left THEN [it EXCEPT !.cur = 0] ELSE it)
          /\ opened' = (opened \/ MarkLeft(ql') \/ (left /\ MarkLeft(r[1])))
  /\ LET at == SelectInSeq(list, LAMBDA x : x = pivot)
     IN list' = IF at = 0 THEN list ELSE InsertAt(list, IF after THEN at + 1 ELSE at, v)

\* r is <<list, iterator>>.
Release(r) == ReleaseIterator(r[1], r[2])
RECURSIVE RemoveSome(_, _, _, _)
RemoveSome(r, v, left, here) ==
  IF left = 0 \/ (here /\ r[2].zi = 0) THEN Release(r)
  ELSE IF here THEN RemoveSome(quicklistDelEntry(r[1], r[2]), v, left - 1, FALSE)
  ELSE RemoveSome(FindValue(r[1], r[2], v), v, left, TRUE)

\* The list without its first n occurrences of v.
RECURSIVE Without(_, _, _)
Without(s, v, n) ==
  IF n = 0 \/ s = <<>> THEN s
  ELSE IF Head(s) = v THEN Without(Tail(s), v, n - 1)
  ELSE <<Head(s)>> \o Without(Tail(s), v, n)

lremCommand(toremove, v) ==
  LET back == toremove < 0
      idx == IF back THEN -1 ELSE 0
      n == IF toremove = 0 THEN MaxList + 1 ELSE IF back THEN 0 - toremove ELSE toremove
  IN /\ list /= <<>>
     /\ ql' = RemoveSome(<<quicklistIndex(ql, idx),
                           GetIteratorAtIdx(ql, IF back THEN -1 ELSE 1, idx)>>, v, n, FALSE)
     /\ list' = IF back THEN Reverse(Without(Reverse(list), v, n)) ELSE Without(list, v, n)
     /\ StaysOpen(ql')

ltrimCommand(ltrim, rtrim) ==
  /\ ltrim + rtrim < Len(list)
  /\ ql' = quicklistDelRange(quicklistDelRange(ql, 0, ltrim), 0 - rtrim, rtrim)
  /\ list' = SubSeq(list, ltrim + 1, Len(list) - rtrim)
  /\ StaysOpen(ql')

RECURSIVE Walk(_, _)
Walk(r, n) == IF n = 0 THEN Release(r) ELSE Walk(quicklistNext(r[1], r[2]), n - 1)

lrangeCommand(start, n) ==
  /\ start + n <= Len(list) /\ n > 0
  /\ ql' = Walk(<<quicklistIndex(ql, start), GetIteratorAtIdx(ql, 1, start)>>, n)
  /\ UNCHANGED list
  /\ StaysOpen(ql')

QNext ==
  \/ \E w \in {"head", "tail"} : listTypePop(w) \/ \E v \in ListValues : listTypePush(v, w)
  \/ \E v, u \in ListValues : Load(<<v, v>>, <<u>>)
  \/ \E i \in (0 - Len(list))..(Len(list) - 1) : lindexCommand(i) \/ \E v \in ListValues : lsetCommand(i, v)
  \/ \E p, v \in ListValues, after \in BOOLEAN : linsertCommand(p, v, after)
  \/ \E n \in -2..2, v \in ListValues : lremCommand(n, v)
  \/ \E l, r \in 0..(MaxList - 1) : ltrimCommand(l, r) \/ lrangeCommand(l, r)

------------------------------------------------------------------------------
\* quicklist.c: whatever nodes are split, merged, emptied or compressed, the
\* nodes hold the elements of the list in order, the entry counter agrees with
\* them, and no node is empty or longer than the fill factor allows.
ListIsKept ==
  /\ Flat(ql) = list
  /\ ql.count = Len(list)
  /\ \A i \in DOMAIN ql.nodes : Len(ql.nodes[i].zl) \in 1..Fill

\* redis.conf "The head and tail of the list are always uncompressed for fast
\* push/pop operations", which quicklistPushHead and quicklistPopCustom rely on.
EndsAreRaw ==
  ql.nodes /= <<>> => Head(ql.nodes).enc = "RAW" /\ Last(ql.nodes).enc = "RAW"

\* The same, until a command leaves a node open or splits one it had to open:
\* quicklistCompress compresses a node so marked wherever it is by then.
EndsStayRaw == ~opened => EndsAreRaw
=============================================================================
