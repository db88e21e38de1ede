------------------------------- MODULE Skiplist -------------------------------
(***************************************************************************)
(* The skip list of a sorted set (t_zset.c).  A node is named by its        *)
(* element, a positive integer in the order of sdscmp; the header is 0 and  *)
(* NULL is -1.  The list is a record:                                       *)
(*   level, length, tail   as in zskiplist                                  *)
(*   score                 the score of every node                          *)
(*   fwd, span             per node and level, from the header on           *)
(*   back                  the backward pointers                            *)
(***************************************************************************)
EXTENDS Integers, Sequences, FiniteSets, SequencesExt

CONSTANTS ZSKIPLIST_MAXLEVEL, ZslElements, ZslScores
VARIABLES zsl,      \* the skip list
          scoreOf   \* the dict of the sorted set: element to score

zslvars == <<zsl, scoreOf>>

Header == 0
NoNode == -1
Levels == 1..ZSKIPLIST_MAXLEVEL

zslCreate ==
  [level |-> 1, length |-> 0, tail |-> NoNode, score |-> <<>>,
   fwd |-> [x \in {Header} |-> [i \in Levels |-> NoNode]],
   span |-> [x \in {Header} |-> [i \in Levels |-> 0]], back |-> <<>>]

\* The order of the list: by score, then by element.
Before(z, y, score, ele) == z.score[y] < score \/ (z.score[y] = score /\ y < ele)

\* Every search: for every level from the top, go along it while go(node, rank)
\* holds of the next node and its rank; the node and rank where it leaves the
\* level.
Descend(z, go(_, _)) ==
  LET RECURSIVE along(_, _, _)
      along(x, rank, i) ==
        LET y == z.fwd[x][i]
            n == rank + z.span[x][i]
        IN IF y # NoNode /\ go(y, n) THEN along(y, n, i) ELSE <<x, rank>>
      step(acc, i) ==
        LET from == IF i = z.level THEN <<Header, 0>> ELSE acc[i + 1]
        IN [acc EXCEPT ![i] = along(from[1], from[2], i)]
  IN FoldLeft(step, [i \in Levels |-> <<Header, 0>>], Reverse([j \in 1..z.level |-> j]))

\* level is what zslRandomLevel returns.
zslInsert(z, score, ele, level) ==
  LET path == Descend(z, LAMBDA y, r : Before(z, y, score, ele))
      rank(i) == path[i][2]
      update(i) == path[i][1]
      old(i) == IF i > z.level THEN z.length ELSE z.span[update(i)][i]
      prev == update(1)
      next == z.fwd[prev][1]
      top == IF level > z.level THEN level ELSE z.level
      nodes == DOMAIN z.fwd \cup {ele}
      linked(y, i) == i <= level /\ y = update(i)
      passed(y, i) == i > level /\ i <= top /\ y = update(i)
  IN [z EXCEPT
        !.level = top,
        !.length = @ + 1,
        !.score = [y \in DOMAIN @ \cup {ele} |-> IF y = ele THEN score ELSE @[y]],
        !.fwd = [y \in nodes |-> [i \in Levels |->
                   IF y = ele THEN IF i <= level THEN z.fwd[update(i)][i] ELSE NoNode
                   ELSE IF linked(y, i) THEN ele ELSE @[y][i]]],
        !.span = [y \in nodes |-> [i \in Levels |->
                    IF y = ele THEN IF i <= level THEN old(i) - (rank(1) - rank(i)) ELSE 0
                    ELSE IF linked(y, i) THEN (rank(1) - rank(i)) + 1
                    ELSE IF passed(y, i) THEN @[y][i] + 1 ELSE @[y][i]]],
        !.back = [y \in DOMAIN @ \cup {ele} |->
                    IF y = ele THEN IF prev = Header THEN NoNode ELSE prev
                    ELSE IF y = next THEN ele ELSE @[y]],
        !.tail = IF next = NoNode THEN ele ELSE @]

\* Mutant: the levels that pass over the node keep their spans.
DeleteKeepsSpans(z, x, path) ==
  LET nodes == DOMAIN z.fwd \ {x}
      hit(y, i) == i <= z.level /\ y = path[i][1] /\ z.fwd[y][i] = x
      fwd == [y \in nodes |-> [i \in Levels |-> IF hit(y, i) THEN z.fwd[x][i] ELSE z.fwd[y][i]]]
      used == {i \in Levels : i <= z.level /\ fwd[Header][i] # NoNode} \cup {1}
  IN [z EXCEPT
        !.fwd = fwd,
        !.span = [y \in nodes |-> [i \in Levels |-> IF hit(y, i) THEN @[y][i] + @[x][i] - 1 ELSE @[y][i]]],
        !.back = [y \in DOMAIN @ \ {x} |-> IF y = z.fwd[x][1] THEN @[x] ELSE @[y]],
        !.tail = IF z.fwd[x][1] = NoNode THEN z.back[x] ELSE @,
        !.score = [y \in DOMAIN @ \ {x} |-> @[y]],
        !.level = CHOOSE i \in used : \A j \in used : j <= i,
        !.length = @ - 1]

\* x is unlinked from every level; path tells where the search left each.
zslDeleteNode(z, x, path) ==
  LET nodes == DOMAIN z.fwd \ {x}
      update(i) == path[i][1]
      on(y, i) == i <= z.level /\ y = update(i)
      fwd == [y \in nodes |-> [i \in Levels |->
                IF on(y, i) /\ z.fwd[y][i] = x THEN z.fwd[x][i] ELSE z.fwd[y][i]]]
      used == {i \in Levels : i <= z.level /\ fwd[Header][i] # NoNode} \cup {1}
  IN [z EXCEPT
        !.fwd = fwd,
        !.span = [y \in nodes |-> [i \in Levels |->
                    IF ~on(y, i) THEN @[y][i]
                    ELSE IF z.fwd[y][i] = x THEN @[y][i] + @[x][i] - 1 ELSE @[y][i] - 1]],
        !.back = [y \in DOMAIN @ \ {x} |-> IF y = z.fwd[x][1] THEN @[x] ELSE @[y]],
        !.tail = IF z.fwd[x][1] = NoNode THEN z.back[x] ELSE @,
        !.score = [y \in DOMAIN @ \ {x} |-> @[y]],
        !.level = CHOOSE i \in used : \A j \in used : j <= i,
        !.length = @ - 1]

zslDelete(z, score, ele) ==
  LET path == Descend(z, LAMBDA y, r : Before(z, y, score, ele))
      x == z.fwd[path[1][1]][1]
  IN IF x # NoNode /\ z.score[x] = score /\ x = ele THEN zslDeleteNode(z, x, path) ELSE z

-------------------------------------------------------------------------------
\* Ranges.  A range says which values are not below its min and which are not
\* above its max; empty holds of the ranges that can have no member.
ScoreRange(min, minex, max, maxex) ==
  [min |-> min, minex |-> minex, max |-> max, maxex |-> maxex]
zslValueGteMin(v, r) == IF r.minex THEN v > r.min ELSE v >= r.min
zslValueLteMax(v, r) == IF r.maxex THEN v < r.max ELSE v <= r.max
EmptyRange(r) == r.min > r.max \/ (r.min = r.max /\ (r.minex \/ r.maxex))

\* For the lexicographical ranges of a set with equal scores the values are
\* the elements; MinString and MaxString stand for - and +.
MinString == -2
MaxString == 1000000
sdscmplex(a, b) ==
  IF a = b THEN 0
  ELSE IF a = MinString \/ b = MaxString THEN -1
  ELSE IF a = MaxString \/ b = MinString THEN 1
  ELSE a - b
zslLexValueGteMin(v, r) == IF r.minex THEN sdscmplex(v, r.min) > 0 ELSE sdscmplex(v, r.min) >= 0
zslLexValueLteMax(v, r) == IF r.maxex THEN sdscmplex(v, r.max) < 0 ELSE sdscmplex(v, r.max) <= 0
EmptyLexRange(r) == sdscmplex(r.min, r.max) > 1 \/ (r.min = r.max /\ (r.minex \/ r.maxex))

\* By score or by element, as lex says.
GteMin(z, y, r, lex) == IF lex THEN zslLexValueGteMin(y, r) ELSE zslValueGteMin(z.score[y], r)
LteMax(z, y, r, lex) == IF lex THEN zslLexValueLteMax(y, r) ELSE zslValueLteMax(z.score[y], r)

zslIsInRange(z, r, lex) ==
  /\ ~(IF lex THEN EmptyLexRange(r) ELSE EmptyRange(r))
  /\ z.tail # NoNode /\ GteMin(z, z.tail, r, lex)
  /\ LteMax(z, z.fwd[Header][1], r, lex)

zslFirstInRange(z, r, lex) ==
  LET path == Descend(z, LAMBDA y, n : ~GteMin(z, y, r, lex))
      x == z.fwd[path[1][1]][1]
  IN IF zslIsInRange(z, r, lex) /\ LteMax(z, x, r, lex) THEN x ELSE NoNode

zslLastInRange(z, r, lex) ==
  LET x == Descend(z, LAMBDA y, n : LteMax(z, y, r, lex))[1][1]
  IN IF zslIsInRange(z, r, lex) /\ GteMin(z, x, r, lex) THEN x ELSE NoNode

\* The list read forwards on level i.
RECURSIVE Forward(_, _, _)
Forward(z, x, i) == IF x = NoNode THEN <<>> ELSE <<x>> \o Forward(z, z.fwd[x][i], i)

\* Deletion of a range: the first node is searched once, and the search path
\* serves for all the nodes after it.
DeleteWhile(z, path, in(_)) ==
  LET RECURSIVE from(_, _)
      from(w, x) == IF x # NoNode /\ in(x) THEN from(zslDeleteNode(w, x, path), w.fwd[x][1]) ELSE w
  IN from(z, z.fwd[path[1][1]][1])

zslDeleteRangeByScore(z, r) ==
  LET path == Descend(z, LAMBDA y, n : ~zslValueGteMin(z.score[y], r))
  IN DeleteWhile(z, path, LAMBDA y : zslValueLteMax(z.score[y], r))

zslDeleteRangeByLex(z, r) ==
  LET path == Descend(z, LAMBDA y, n : ~zslLexValueGteMin(y, r))
  IN DeleteWhile(z, path, LAMBDA y : zslLexValueLteMax(y, r))

\* start and end count from 1.
zslDeleteRangeByRank(z, start, end) ==
  LET path == Descend(z, LAMBDA y, n : n < start)
      at == Forward(z, z.fwd[path[1][1]][1], 1)
      doomed == {at[j] : j \in {j \in DOMAIN at : path[1][2] + j <= end}}
  IN DeleteWhile(z, path, LAMBDA y : y \in doomed)

\* The search may stop on a level above the lowest.
zslGetRank(z, score, ele) ==
  LET path == Descend(z, LAMBDA y, n : Before(z, y, score, ele) \/ (z.score[y] = score /\ y = ele))
      hits == {i \in 1..z.level : path[i][1] = ele}
  IN IF hits = {} THEN 0 ELSE path[CHOOSE i \in hits : \A j \in hits : j <= i][2]

zslGetElementByRank(z, rank) ==
  LET path == Descend(z, LAMBDA y, n : n <= rank)
      hits == {i \in 1..z.level : path[i][2] = rank}
  IN IF hits = {} THEN NoNode ELSE path[CHOOSE i \in hits : \A j \in hits : j <= i][1]

\* The list read backwards from the tail.
RECURSIVE Backward(_, _)
Backward(z, x) == IF x = NoNode THEN <<>> ELSE <<x>> \o Backward(z, z.back[x])

-------------------------------------------------------------------------------
ZslInit == zsl = zslCreate /\ scoreOf = <<>>

\* The part of f on S.
On(f, S) == [x \in S |-> f[x]]

\* zsetAdd: an element that is there is deleted and inserted with its new score.
ZslAdd(e, s, level) ==
  /\ zsl' = zslInsert(IF e \in DOMAIN scoreOf THEN zslDelete(zsl, scoreOf[e], e) ELSE zsl, s, e, level)
  /\ scoreOf' = [x \in DOMAIN scoreOf \cup {e} |-> IF x = e THEN s ELSE scoreOf[x]]

ZslRemove(e) ==
  /\ e \in DOMAIN scoreOf
  /\ zsl' = zslDelete(zsl, scoreOf[e], e)
  /\ scoreOf' = On(scoreOf, DOMAIN scoreOf \ {e})

\* The deletions of a range take the elements out of the dict one by one.
ZslDeleteRange(to) == zsl' = to /\ scoreOf' = On(scoreOf, DOMAIN to.score)

ScoreRanges == {r \in [min : ZslScores, minex : BOOLEAN, max : ZslScores, maxex : BOOLEAN] : ~EmptyRange(r)}
LexRanges == {r \in [min : ZslElements \cup {MinString}, minex : BOOLEAN,
                     max : ZslElements \cup {MaxString}, maxex : BOOLEAN] : ~EmptyLexRange(r)}

\* The ranges by element are for sets whose scores are all equal.
SameScores == \A e, f \in DOMAIN scoreOf : scoreOf[e] = scoreOf[f]

ZslNext ==
  \/ \E e \in ZslElements, s \in ZslScores, l \in Levels : ZslAdd(e, s, l)
  \/ \E e \in ZslElements : ZslRemove(e)
  \/ \E r \in ScoreRanges : ZslDeleteRange(zslDeleteRangeByScore(zsl, r))
  \/ SameScores /\ \E r \in LexRanges : ZslDeleteRange(zslDeleteRangeByLex(zsl, r))
  \/ \E m, n \in 1..zsl.length : m <= n /\ ZslDeleteRange(zslDeleteRangeByRank(zsl, m, n))

-------------------------------------------------------------------------------
\* The elements in the order of the sorted set.
InOrder ==
  LET less(x, y) == scoreOf[x] < scoreOf[y] \/ (scoreOf[x] = scoreOf[y] /\ x < y)
      place(e) == Cardinality({x \in DOMAIN scoreOf : less(x, e)}) + 1
      n == Cardinality(DOMAIN scoreOf)
  IN SubSeq([i \in 1..n |-> CHOOSE e \in DOMAIN scoreOf : place(e) = i], 1, n)

\* However tall the nodes are and whatever was deleted, alone or as a range,
\* every level is a sublist in order, the spans measure it, and the list read
\* backwards is the list (zslInsert, zslDeleteNode and their callers).
SkiplistIsOrdered ==
  LET all == InOrder
      place(x) == IF x = Header THEN 0 ELSE CHOOSE i \in DOMAIN all : all[i] = x
  IN /\ zsl.score = scoreOf /\ zsl.length = Len(all)
     /\ Forward(zsl, zsl.fwd[Header][1], 1) = all
     /\ Backward(zsl, zsl.tail) = Reverse(all)
     /\ \A i \in 1..zsl.level, x \in DOMAIN zsl.fwd :
          zsl.fwd[x][i] # NoNode => zsl.span[x][i] = place(zsl.fwd[x][i]) - place(x)
     /\ zsl.level > 1 => zsl.fwd[Header][zsl.level] # NoNode

\* Ranks and elements by rank are each other's inverse, and the first and last
\* of a range are the ones a search from end to end would find
\* (zslGetRank, zslGetElementByRank, zslFirstInRange, zslLastInRange).
SkiplistAnswers ==
  LET all == InOrder
      ends(r, lex) == LET in == SelectSeq(all, LAMBDA e : GteMin(zsl, e, r, lex) /\ LteMax(zsl, e, r, lex))
                      IN IF in = <<>> THEN <<NoNode, NoNode>> ELSE <<Head(in), Last(in)>>
      right(r, lex) == <<zslFirstInRange(zsl, r, lex), zslLastInRange(zsl, r, lex)>> = ends(r, lex)
  IN /\ \A i \in DOMAIN all : /\ zslGetRank(zsl, scoreOf[all[i]], all[i]) = i
                              /\ zslGetElementByRank(zsl, i) = all[i]
     /\ \A r \in ScoreRanges : right(r, FALSE)
     /\ SameScores => \A r \in LexRanges : right(r, TRUE)
===============================================================================
