-------------------------------- MODULE Rax --------------------------------
(* rax.c: the radix tree the cluster keeps its slot-to-keys index in.  A    *)
(* node has one edge per character of chars, in order, or, when compressed, *)
(* a single edge labelled by all of them.  A node is addressed by its path, *)
(* the sequence of child indexes from the head; the stack of parents the    *)
(* code keeps while walking is the path's prefixes.                         *)
EXTENDS Integers, Sequences, SequencesExt, FiniteSetsExt, Functions
CONSTANTS RaxKeys, RaxValues, Probes, MaxNodeSize
VARIABLES rax, map

rvars == <<rax, map>>

Leaf == [iskey |-> FALSE, data |-> 0, compr |-> FALSE, chars |-> <<>>, kids |-> <<>>]

raxNew == [head |-> Leaf, numnodes |-> 1, numele |-> 0]

SetKey(n, v) == [n EXCEPT !.iskey = TRUE, !.data = v]

\* A node with these characters leading to one child: compressed beyond one.
Chain(cs, kid) == [Leaf EXCEPT !.compr = Len(cs) > 1, !.chars = cs, !.kids = <<kid>>]

RECURSIVE NodeAt(_, _)
NodeAt(n, path) == IF path = <<>> THEN n ELSE NodeAt(n.kids[Head(path)], Tail(path))

RECURSIVE Put(_, _, _)
Put(n, path, new) ==
  IF path = <<>> THEN new
  ELSE [n EXCEPT !.kids[Head(path)] = Put(@, Tail(path), new)]

RECURSIVE Nodes(_)
Nodes(n) == 1 + FoldLeft(LAMBDA a, k : a + Nodes(k), 0, n.kids)

\* Length of the longest common prefix.
Common(a, b) ==
  Max({j \in 0..Len(a) : j <= Len(b) /\ SubSeq(a, 1, j) = SubSeq(b, 1, j)})

\* Where the walk along s stops: the path, how much of s it followed, and the
\* position inside the compressed node it stopped at.
RECURSIVE Walk(_, _, _, _)
Walk(n, s, path, i) ==
  LET stop(j) == [path |-> path, i |-> i + j, j |-> j]
      along(e, j) == Walk(n.kids[e], s, Append(path, e), i + j)
      compressed(j) == IF j < Len(n.chars) THEN stop(j) ELSE along(1, j)
      plain(edge) == IF edge = {} THEN stop(0) ELSE along(CHOOSE e \in edge : TRUE, 1)
  IN IF n.chars = <<>> \/ i = Len(s) THEN stop(0)
     ELSE IF n.compr THEN compressed(Common(n.chars, SubSeq(s, i + 1, Len(s))))
     ELSE plain({e \in DOMAIN n.chars : n.chars[e] = s[i + 1]})

raxLowWalk(r, s) == Walk(r.head, s, <<>>, 0)

\* A new edge c, kept in character order, to child kid.
raxAddChild(n, c, kid) ==
  LET at == 1 + Cardinality({e \in DOMAIN n.chars : n.chars[e] < c})
  IN [n EXCEPT !.chars = InsertAt(@, at, c), !.kids = InsertAt(@, at, kid)]

\* The nodes still missing below n for the rest s of the key.
RECURSIVE Grow(_, _, _)
Grow(n, s, v) ==
  IF s = <<>> THEN SetKey(n, v)
  ELSE LET size == Min({Len(s), MaxNodeSize})
       IN IF n.chars = <<>> /\ Len(s) > 1
          THEN [n EXCEPT !.compr = TRUE, !.chars = SubSeq(s, 1, size),
                         !.kids = <<Grow(Leaf, SubSeq(s, size + 1, Len(s)), v)>>]
          ELSE raxAddChild(n, s[1], Grow(Leaf, Tail(s), v))

\* ALGO 1: a mismatch at position j of compressed node n; an empty postfix is
\* the next node itself, an empty prefix leaves the split node in n's place.
SplitForMismatch(n, j, s, v) ==
  LET size == Len(n.chars)
      postfix == IF j + 1 = size THEN n.kids[1]
                 ELSE Chain(SubSeq(n.chars, j + 2, size), n.kids[1])
      split == [Leaf EXCEPT !.chars = <<n.chars[j + 1]>>, !.kids = <<postfix>>]
      keep(x) == [x EXCEPT !.iskey = n.iskey, !.data = n.data]
  IN IF j = 0 THEN Grow(keep(split), s, v)
     ELSE keep(Chain(SubSeq(n.chars, 1, j), Grow(split, s, v)))

\* Mutant: the node that is split forgets that it is a key.
EndLosesKey(n, j, v) ==
  Chain(SubSeq(n.chars, 1, j), SetKey(Chain(SubSeq(n.chars, j + 1, Len(n.chars)), n.kids[1]), v))

\* ALGO 2: the key ends inside compressed node n, after j characters.
SplitForEnd(n, j, v) ==
  LET postfix == SetKey(Chain(SubSeq(n.chars, j + 1, Len(n.chars)), n.kids[1]), v)
  IN [Chain(SubSeq(n.chars, 1, j), postfix) EXCEPT !.iskey = n.iskey, !.data = n.data]

\* What takes the place of node n, where the walk w along s stopped.
Inserted(n, w, s, v) ==
  LET rest == SubSeq(s, w.i + 1, Len(s))
  IN IF w.i = Len(s) /\ (~n.compr \/ w.j = 0) THEN SetKey(n, v)
     ELSE IF n.compr /\ w.i /= Len(s) THEN SplitForMismatch(n, w.j, rest, v)
     ELSE IF n.compr THEN SplitForEnd(n, w.j, v)
     ELSE Grow(n, rest, v)
Replace(r, path, n, new, more) ==
  [head |-> Put(r.head, path, new),
   numnodes |-> r.numnodes + Nodes(new) - Nodes(n), numele |-> r.numele + more]
InsertAtNode(r, n, w, s, v) ==
  Replace(r, w.path, n, Inserted(n, w, s, v),
          IF w.i = Len(s) /\ w.j = 0 /\ n.iskey THEN 0 ELSE 1)
raxInsert(r, s, v) ==
  LET at(w) == InsertAtNode(r, NodeAt(r.head, w.path), w, s, v) IN at(raxLowWalk(r, s))

\* <<found, data>>
FoundAt(n, w, s) ==
  IF w.i /= Len(s) \/ (n.compr /\ w.j /= 0) \/ ~n.iskey THEN <<FALSE>> ELSE <<TRUE, n.data>>
raxFind(r, s) ==
  LET at(w) == FoundAt(NodeAt(r.head, w.path), w, s) IN at(raxLowWalk(r, s))

------------------------------------------------------------------------------
raxRemoveChild(n, e) ==
  IF n.compr THEN [n EXCEPT !.compr = FALSE, !.chars = <<>>, !.kids = <<>>]
  ELSE [n EXCEPT !.chars = RemoveAt(@, e), !.kids = RemoveAt(@, e)]

\* Nodes that only pass on to a single child.
Passes(n) == ~n.iskey /\ (n.compr \/ Len(n.chars) = 1)

\* The first ancestor above path that stays when its child goes: a key, a node
\* with other children, or the head.
RECURSIVE Stays(_, _)
Stays(h, path) ==
  LET up == Front(path) IN IF up = <<>> \/ ~Passes(NodeAt(h, up)) THEN up ELSE Stays(h, up)

RECURSIVE Topmost(_, _)
Topmost(h, path) ==
  IF path = <<>> \/ ~Passes(NodeAt(h, Front(path))) THEN path ELSE Topmost(h, Front(path))

\* The chain of passing nodes from n on: its characters, its length and the
\* first node not taken in.
RECURSIVE Chained(_, _, _)
Chained(n, cs, nodes) ==
  LET next == Last(n.kids)
      all == cs \o n.chars
  IN IF ~Passes(next) \/ Len(all) + Len(next.chars) > MaxNodeSize
     THEN [chars |-> all, nodes |-> nodes, next |-> next]
     ELSE Chained(next, all, nodes + 1)

\* Replace the chain around path by one compressed node.
RecompressFrom(h, start) ==
  LET join(c) == IF c.nodes > 1
                 THEN Put(h, start, [Leaf EXCEPT !.compr = TRUE, !.chars = c.chars, !.kids = <<c.next>>])
                 ELSE h
  IN join(Chained(NodeAt(h, start), <<>>, 1))
Recompress(h, path) == RecompressFrom(h, Topmost(h, path))

\* The tree with node left at stop: what lost its last fork is compressed.
CutAt(h, stop, left) ==
  IF Len(left.chars) = 1 /\ ~left.iskey THEN Recompress(Put(h, stop, left), stop)
  ELSE Put(h, stop, left)
CutBranch(h, path, stop) == CutAt(h, stop, raxRemoveChild(NodeAt(h, stop), path[Len(stop) + 1]))

\* Node n, at path of the tree h, is a key no more.
Unkeyed(h, path, n) ==
  IF n.chars = <<>> THEN IF path = <<>> THEN h ELSE CutBranch(h, path, Stays(h, path))
  ELSE IF Len(n.chars) = 1 THEN Recompress(h, path) ELSE h
RemoveNode(r, path, n) ==
  Replace(r, <<>>, r.head,
          Unkeyed(Put(r.head, path, [n EXCEPT !.iskey = FALSE, !.data = 0]), path, n), -1)

raxRemove(r, s) ==
  LET at(w) == RemoveNode(r, w.path, NodeAt(r.head, w.path))
  IN IF raxFind(r, s)[1] THEN at(raxLowWalk(r, s)) ELSE r

------------------------------------------------------------------------------
(* Iterators: the current node's path, the key it stands for, end-of-file.  *)
At(path, key) == [path |-> path, key |-> key, eof |-> FALSE]

EOF(it) == [it EXCEPT !.eof = TRUE]

Edge(n, e) == IF n.compr THEN n.chars ELSE <<n.chars[e]>>

Enter(r, it, e) == At(Append(it.path, e), it.key \o Edge(NodeAt(r.head, it.path), e))

IsKey(r, it) == NodeAt(r.head, it.path).iskey

\* The node above (the node itself under noup), the key cut accordingly.
Above(r, it, noup) ==
  LET path == IF noup THEN it.path ELSE Front(it.path)
      n == NodeAt(r.head, path)
  IN At(path, SubSeq(it.key, 1, Len(it.key) - IF n.compr THEN Len(n.chars) ELSE 1))

RECURSIVE NextStep(_, _, _, _), NextUp(_, _, _, _), KeyOrNext(_, _, _)
KeyOrNext(r, it, orig) == IF IsKey(r, it) THEN it ELSE NextStep(r, it, FALSE, orig)
NextStep(r, it, noup, orig) ==
  IF ~noup /\ NodeAt(r.head, it.path).chars /= <<>>
  THEN KeyOrNext(r, Enter(r, it, 1), orig)
  ELSE NextUp(r, it, noup, orig)
NextUp(r, it, noup, orig) ==
  LET from(up, n) ==
        LET greater == {e \in DOMAIN n.chars : n.chars[e] > Last(it.key)}
        IN IF ~n.compr /\ Len(n.chars) > (IF noup THEN 0 ELSE 1) /\ greater /= {}
           THEN KeyOrNext(r, Enter(r, up, Min(greater)), orig)
           ELSE NextUp(r, up, FALSE, orig)
      above(up) == from(up, NodeAt(r.head, up.path))
  IN IF ~noup /\ it.path = <<>> THEN EOF(orig) ELSE above(Above(r, it, noup))

raxIteratorNextStep(r, it, noup) == IF it.eof THEN it ELSE NextStep(r, it, noup, it)

RECURSIVE raxSeekGreatest(_, _)
raxSeekGreatest(r, it) ==
  LET n == NodeAt(r.head, it.path)
  IN IF n.chars = <<>> THEN it ELSE raxSeekGreatest(r, Enter(r, it, Len(n.kids)))

RECURSIVE PrevStep(_, _, _, _)
PrevStep(r, it, noup, orig) ==
  LET from(up, n) ==
        LET smaller == {e \in DOMAIN n.chars : n.chars[e] < Last(it.key)}
        IN IF ~n.compr /\ Len(n.chars) > (IF noup THEN 0 ELSE 1) /\ smaller /= {}
           THEN raxSeekGreatest(r, Enter(r, up, Max(smaller))) ELSE up
      above(up) == from(up, NodeAt(r.head, up.path))
      arrive(to) == IF IsKey(r, to) THEN to ELSE PrevStep(r, to, FALSE, orig)
  IN IF ~noup /\ it.path = <<>> THEN EOF(orig) ELSE arrive(above(Above(r, it, noup)))

raxIteratorPrevStep(r, it, noup) == IF it.eof THEN it ELSE PrevStep(r, it, noup, it)

\* op is <<first, eq>> with first one of ">", "<", "=", "^", "$".  Where the
\* walk w along ele stopped at node n: the whole subtree may be on the sought
\* side, inside a compressed node; else the step starts from the edge taken.
SeekAt(r, op, ele, w, n) ==
  LET here == At(w.path, SubSeq(ele, 1, w.i - w.j))
      edge == [here EXCEPT !.key = @ \o IF n.compr THEN n.chars ELSE <<ele[w.i + 1]>>]
      ended == w.i = Len(ele)
      gt == op[1] = ">"
      subtree == n.compr /\ IF gt THEN n.chars[w.j + 1] > ele[w.i + 1]
                                  ELSE n.chars[w.j + 1] < ele[w.i + 1]
      noup == ~ended /\ ~subtree
      step(it) == IF gt THEN raxIteratorNextStep(r, it, noup) ELSE raxIteratorPrevStep(r, it, noup)
  IN IF op[2] /\ ended /\ (~n.compr \/ w.j = 0) /\ n.iskey THEN here
     ELSE IF op[1] = "=" THEN EOF(here)
     ELSE IF ~ended /\ subtree /\ ~gt THEN raxSeekGreatest(r, here)
     ELSE step(IF noup THEN edge ELSE here)
SeekWalk(r, op, ele) ==
  LET at(w) == SeekAt(r, op, ele, w, NodeAt(r.head, w.path)) IN at(raxLowWalk(r, ele))
raxSeek(r, op, ele) ==
  IF r.numele = 0 THEN EOF(At(<<>>, <<>>))
  ELSE IF op[1] = "$" THEN raxSeekGreatest(r, At(<<>>, <<>>))
  ELSE IF op[1] = "^" THEN SeekWalk(r, <<">", TRUE>>, <<>>) ELSE SeekWalk(r, op, ele)

\* The keys met from it on, forwards.
RECURSIVE Forwards(_, _), Backwards(_, _)
Forwards(r, it) ==
  IF it.eof THEN <<>> ELSE <<it.key>> \o Forwards(r, raxIteratorNextStep(r, it, FALSE))
Backwards(r, it) ==
  IF it.eof THEN <<>> ELSE <<it.key>> \o Backwards(r, raxIteratorPrevStep(r, it, FALSE))

------------------------------------------------------------------------------
RInit == rax = raxNew /\ map = <<>>

RaxInsert(s, v) ==
  /\ rax' = raxInsert(rax, s, v)
  /\ map' = [x \in DOMAIN map \union {s} |-> IF x = s THEN v ELSE map[x]]

RaxRemove(s) ==
  /\ rax' = raxRemove(rax, s)
  /\ map' = Restrict(map, DOMAIN map \ {s})

RNext == \E s \in RaxKeys : RaxRemove(s) \/ \E v \in RaxValues : RaxInsert(s, v)

------------------------------------------------------------------------------
\* Order of byte strings: a proper prefix comes first.
Before(a, b) ==
  LET j == Common(a, b)
  IN IF j = Len(a) THEN j < Len(b) ELSE j < Len(b) /\ a[j + 1] < b[j + 1]

Sorted(S) ==
  SubSeq([i \in 1..Cardinality(S) |->
            CHOOSE k \in S : Cardinality({x \in S : Before(x, k)}) = i - 1], 1, Cardinality(S))

RECURSIVE SoundNode(_)
SoundNode(n) ==
  /\ \A e \in 2..Len(n.chars) : ~n.compr => n.chars[e - 1] < n.chars[e]
  /\ Len(n.kids) = IF n.compr THEN 1 ELSE Len(n.chars)
  /\ n.compr => Len(n.chars) \in 2..MaxNodeSize
  /\ \A e \in DOMAIN n.kids : (n.kids[e].chars = <<>> => n.kids[e].iskey) /\ SoundNode(n.kids[e])

\* rax.c raxInsert and raxRemove: through every split and recompression the tree
\* maps exactly the inserted keys to their last values, keeps its edges sorted
\* and no dead branch, and counts its nodes (asserted by raxFree) and elements.
RaxIsTheMap ==
  /\ \A s \in RaxKeys : raxFind(rax, s) = IF s \in DOMAIN map THEN <<TRUE, map[s]>> ELSE <<FALSE>>
  /\ SoundNode(rax.head)
  /\ rax.numnodes = Nodes(rax.head)
  /\ rax.numele = Cardinality(DOMAIN map)

\* rax.c raxNext and raxPrev: the whole tree forwards from "^" is the keys in
\* order, backwards from "$" the keys in reverse order.
RaxIteratesInOrder ==
  LET all == Sorted(DOMAIN map)
  IN map /= <<>> =>
       /\ Forwards(rax, raxSeek(rax, <<"^", FALSE>>, <<>>)) = all
       /\ Backwards(rax, raxSeek(rax, <<"$", FALSE>>, <<>>)) = Reverse(all)

\* The key a seek must find.
Sought(op, p) ==
  SelectSeq(Sorted(DOMAIN map), LAMBDA k : (op[2] /\ k = p)
                                           \/ (op[1] = ">" /\ Before(p, k))
                                           \/ (op[1] = "<" /\ Before(k, p)))

SeekAnswers(op) ==
  LET right(it, all) == IF all = <<>> THEN it.eof
                        ELSE ~it.eof /\ it.key = IF op[1] = "<" THEN Last(all) ELSE Head(all)
  IN \A p \in Probes : right(raxSeek(rax, op, p), Sought(op, p))

\* rax.c raxSeek: seeking an equal, the next or the same-or-next key finds the
\* right one wherever in the tree the walk along the sought string stops.
SeekForwards ==
  map /= <<>> => \A op \in {<<"=", TRUE>>, <<">", FALSE>>, <<">", TRUE>>} : SeekAnswers(op)

\* rax.c raxSeek with "<" and "<=": the greatest key before the sought string.
SeekBackwards == map /= <<>> => SeekAnswers(<<"<", FALSE>>) /\ SeekAnswers(<<"<", TRUE>>)
=============================================================================
