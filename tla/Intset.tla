------------------------------- MODULE Intset -------------------------------
(* intset.c: a set of integers in one sorted array whose elements all have  *)
(* the width of the widest value ever added.  The array is modelled down to *)
(* its cells (Base values each, little endian two's complement), because    *)
(* the upgrade to a wider encoding rewrites it in place.  Widths are in     *)
(* cells; a cell never written since a resize holds 0.                      *)
EXTENDS Integers, Sequences, SequencesExt, FiniteSetsExt
CONSTANTS Ints, Widths, Base
VARIABLES is, found

ivars == <<is, found>>

intsetNew == [encoding |-> Min(Widths), length |-> 0, contents |-> <<>>]

Fits(v, w) == v >= 0 - Base ^ w \div 2 /\ v < Base ^ w \div 2

_intsetValueEncoding(v) == Min({w \in Widths : Fits(v, w)})

_intsetGetEncoded(s, pos, w) ==
  LET n == FoldLeft(LAMBDA a, c : a * Base + c, 0,
                    Reverse(SubSeq(s.contents, pos * w + 1, pos * w + w)))
  IN IF n >= Base ^ w \div 2 THEN n - Base ^ w ELSE n

_intsetGet(s, pos) == _intsetGetEncoded(s, pos, s.encoding)

_intsetSet(s, pos, v) ==
  LET w == s.encoding
      cell(i) == ((v % Base ^ w) \div Base ^ i) % Base
      at == pos * w
  IN [s EXCEPT !.contents = SubSeq(@, 1, at) \o SubSeq([i \in 1..w |-> cell(i - 1)], 1, w)
                            \o SubSeq(@, at + w + 1, Len(@))]

intsetResize(s, len) ==
  LET n == len * s.encoding
  IN [s EXCEPT !.contents =
        IF n <= Len(@) THEN SubSeq(@, 1, n)
        ELSE @ \o SubSeq([i \in 1..(n - Len(@)) |-> 0], 1, n - Len(@))]

\* memmove of everything from element `from` on to element `to`.
intsetMoveTail(s, from, to) ==
  LET w == s.encoding
      moved == SubSeq(s.contents, from * w + 1, s.length * w)
      at == to * w
  IN [s EXCEPT !.contents = SubSeq(@, 1, at) \o moved \o SubSeq(@, at + Len(moved) + 1, Len(@))]

RECURSIVE BinarySearch(_, _, _, _)
BinarySearch(s, v, min, max) ==
  LET mid == (min + max) \div 2
      next(cur) == IF v > cur THEN BinarySearch(s, v, mid + 1, max)
                   ELSE IF v < cur THEN BinarySearch(s, v, min, mid - 1)
                   ELSE <<TRUE, mid>>
  IN IF max < min THEN <<FALSE, min>> ELSE next(_intsetGet(s, mid))

\* <<found, position of the value or where to insert it>>
intsetSearch(s, v) ==
  IF s.length = 0 THEN <<FALSE, 0>>
  ELSE IF v > _intsetGet(s, s.length - 1) THEN <<FALSE, s.length>>
  ELSE IF v < _intsetGet(s, 0) THEN <<FALSE, 0>>
  ELSE BinarySearch(s, v, 0, s.length - 1)

\* Mutant: a value that needs a wider encoding goes to the end whatever its sign.
UpgradeAppends(s, v) ==
  LET wide == intsetResize([s EXCEPT !.encoding = _intsetValueEncoding(v)], s.length + 1)
      rewrite(x, i) == _intsetSet(x, i, _intsetGetEncoded(x, i, s.encoding))
      all == FoldLeft(rewrite, wide, SubSeq([i \in 1..s.length |-> s.length - i], 1, s.length))
  IN [_intsetSet(all, s.length, v) EXCEPT !.length = @ + 1]

intsetUpgradeAndAdd(s, v) ==
  LET prepend == IF v < 0 THEN 1 ELSE 0
      wide == intsetResize([s EXCEPT !.encoding = _intsetValueEncoding(v)], s.length + 1)
      rewrite(x, i) == _intsetSet(x, i + prepend, _intsetGetEncoded(x, i, s.encoding))
      all == FoldLeft(rewrite, wide, SubSeq([i \in 1..s.length |-> s.length - i], 1, s.length))
  IN [_intsetSet(all, IF v < 0 THEN 0 ELSE s.length, v) EXCEPT !.length = @ + 1]

\* The array with a free place at pos.
MakeRoom(s, pos) == IF pos < s.length THEN intsetMoveTail(s, pos, pos + 1) ELSE s

\* <<added, intset>>
intsetAdd(s, v) ==
  LET at(r) == IF r[1] THEN <<FALSE, s>>
               ELSE <<TRUE, [_intsetSet(MakeRoom(intsetResize(s, s.length + 1), r[2]), r[2], v)
                             EXCEPT !.length = @ + 1]>>
  IN IF _intsetValueEncoding(v) > s.encoding THEN <<TRUE, intsetUpgradeAndAdd(s, v)>>
     ELSE at(intsetSearch(s, v))

intsetFind(s, v) == _intsetValueEncoding(v) <= s.encoding /\ intsetSearch(s, v)[1]

\* The array without its place pos.
CloseUp(s, pos) == IF pos < s.length - 1 THEN intsetMoveTail(s, pos + 1, pos) ELSE s
RemoveAtPlace(s, r) ==
  IF ~r[1] THEN <<FALSE, s>>
  ELSE <<TRUE, [intsetResize(CloseUp(s, r[2]), s.length - 1) EXCEPT !.length = @ - 1]>>

\* Mutant: a value wider than the encoding is searched for in its low cells.
RemoveNarrowed(s, v) ==
  LET w == s.encoding
      low == LET n == v % Base ^ w IN IF n >= Base ^ w \div 2 THEN n - Base ^ w ELSE n
  IN RemoveAtPlace(s, intsetSearch(s, low))

intsetRemove(s, v) ==
  IF _intsetValueEncoding(v) > s.encoding THEN <<FALSE, s>>
  ELSE RemoveAtPlace(s, intsetSearch(s, v))

Members(s) == {_intsetGet(s, i) : i \in 0..(s.length - 1)}

------------------------------------------------------------------------------
IInit == is = intsetNew /\ found = FALSE

\* The answer <<found, intset>> becomes the state.
Becomes(r) == is' = r[2] /\ found' = r[1]

IntsetAdd(v) == Becomes(intsetAdd(is, v))

IntsetRemove(v) == Becomes(intsetRemove(is, v))

IntsetFind(v) == UNCHANGED is /\ found' = intsetFind(is, v)

INext == \E v \in Ints : IntsetAdd(v) \/ IntsetRemove(v) \/ IntsetFind(v)

------------------------------------------------------------------------------
\* intset.c checkConsistency: the array has room for exactly its elements, and
\* they are strictly increasing, whatever upgrades happened on the way.
IntsetIsSorted ==
  /\ Len(is.contents) = is.length * is.encoding
  /\ \A i \in 1..(is.length - 1) : _intsetGet(is, i - 1) < _intsetGet(is, i)
=============================================================================
