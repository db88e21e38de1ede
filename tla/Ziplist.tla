------------------------------ MODULE Ziplist ------------------------------
(* ziplist.c: a list in one block of bytes.  Each entry is prefixed by the  *)
(* raw length of the entry before it, in 1 byte if smaller than BigPrevlen  *)
(* and in 5 otherwise, so that inserting or deleting an entry may change    *)
(* the size of the next one, and so on down the list.  An entry is its      *)
(* prefix size ps, the length pl stored there, and its body, named by its   *)
(* size in bytes (encoding and payload).  The header holds the total size,  *)
(* the offset of the last entry and a saturating entry count.               *)
EXTENDS Integers, Sequences, SequencesExt, FiniteSetsExt
CONSTANTS Bodies, BigPrevlen, MaxCount, MaxEntries
VARIABLES zl, second, content, content2

zvars == <<zl, second, content, content2>>

HEADER == 10

ziplistNew == [entries |-> <<>>, bytes |-> HEADER + 1, tail |-> HEADER, length |-> 0]

zipRawEntryLength(e) == e.ps + e.body

zipStorePrevEntryLength(len) == IF len < BigPrevlen THEN 1 ELSE 5

\* Write len in the prefix of e: resized to what len needs, or kept large.
StorePrev(e, len) == [e EXCEPT !.pl = len, !.ps = zipStorePrevEntryLength(len)]

StorePrevLarge(e, len) == [e EXCEPT !.pl = len, !.ps = 5]

zipPrevLenByteDiff(e, len) == zipStorePrevEntryLength(len) - e.ps

Size(es) == FoldLeft(LAMBDA a, e : a + zipRawEntryLength(e), 0, es)

\* Offset of entry i; of the end mark for i = Len + 1.
OffsetOf(z, i) == HEADER + Size(SubSeq(z.entries, 1, i - 1))

INCR_LENGTH(n, incr) == IF n < MaxCount THEN n + incr ELSE n

RECURSIVE __ziplistCascadeUpdate(_, _)
__ziplistCascadeUpdate(z, i) ==
  IF i >= Len(z.entries) THEN z
  ELSE LET rawlen == zipRawEntryLength(z.entries[i])
           need == zipStorePrevEntryLength(rawlen)
           next == z.entries[i + 1]
       IN IF next.pl = rawlen THEN z
          ELSE IF next.ps < need
          THEN __ziplistCascadeUpdate(
                 [z EXCEPT !.entries[i + 1] = StorePrev(@, rawlen),
                           !.bytes = @ + (need - next.ps),
                           !.tail = @ + IF @ /= OffsetOf(z, i + 1) THEN need - next.ps ELSE 0],
                 i + 1)
          ELSE [z EXCEPT !.entries[i + 1] =
                  IF next.ps > need THEN StorePrevLarge(@, rawlen) ELSE StorePrev(@, rawlen)]

\* Delete num entries from entry i on.
__ziplistDelete(z, i, num) ==
  LET n == Len(z.entries)
      last == IF i + num - 1 > n THEN n ELSE i + num - 1
      gone == SubSeq(z.entries, i, last)
      totlen == Size(gone)
      first == z.entries[i]
      rest == SubSeq(z.entries, last + 1, n)
      nextdiff == zipPrevLenByteDiff(rest[1], first.pl)
      moved == [rest EXCEPT ![1] = StorePrev(@, first.pl)]
      length == INCR_LENGTH(z.length, 0 - Len(gone))
      front == SubSeq(z.entries, 1, i - 1)
      cut == [entries |-> front \o moved, length |-> length,
              bytes |-> z.bytes - totlen + nextdiff,
              tail |-> z.tail - totlen + IF Len(rest) > 1 THEN nextdiff ELSE 0]
  IN IF totlen = 0 THEN z
     ELSE IF rest = <<>>
     THEN [entries |-> front, length |-> length, bytes |-> z.bytes - totlen,
           tail |-> OffsetOf(z, i) - first.pl]
     ELSE IF nextdiff /= 0 THEN __ziplistCascadeUpdate(cut, i) ELSE cut

\* Insert a body before entry i, at the end for i = Len + 1.
__ziplistInsert(z, i, body) ==
  LET n == Len(z.entries)
      end == i > n
      prevlen == IF ~end THEN z.entries[i].pl
                 ELSE IF n > 0 THEN zipRawEntryLength(Last(z.entries)) ELSE 0
      reqlen == body + zipStorePrevEntryLength(prevlen)
      new == [ps |-> zipStorePrevEntryLength(prevlen), pl |-> prevlen, body |-> body]
      diff == IF end THEN 0 ELSE zipPrevLenByteDiff(z.entries[i], reqlen)
      forcelarge == diff = -4 /\ reqlen < 4
      nextdiff == IF forcelarge THEN 0 ELSE diff
      shifted == IF end THEN z.entries
                 ELSE IF forcelarge
                      THEN [z.entries EXCEPT ![i] = StorePrevLarge(@, reqlen)]
                      ELSE [z.entries EXCEPT ![i] = StorePrev(@, reqlen)]
      put == [entries |-> InsertAt(shifted, i, new),
              length |-> INCR_LENGTH(z.length, 1),
              bytes |-> z.bytes + reqlen + nextdiff,
              tail |-> IF end THEN OffsetOf(z, i)
                       ELSE z.tail + reqlen + IF i < n THEN nextdiff ELSE 0]
  IN IF nextdiff /= 0 THEN __ziplistCascadeUpdate(put, i + 1) ELSE put

\* <<merged, which one was kept>>
ziplistMerge(a, b) ==
  LET sum == a.length + b.length
      joined == [entries |-> a.entries \o b.entries,
                 length |-> IF sum < MaxCount THEN sum ELSE MaxCount,
                 bytes |-> a.bytes + b.bytes - HEADER - 1,
                 tail |-> (a.bytes - 1) + (b.tail - HEADER)]
      at == CHOOSE i \in 1..(Len(a.entries) + 1) : OffsetOf(a, i) = a.tail
  IN __ziplistCascadeUpdate(joined, at)

\* Walking back from the tail by the stored lengths: the entry at distance n.
RECURSIVE Back(_, _, _)
Back(z, off, n) ==
  LET at == {i \in DOMAIN z.entries : OffsetOf(z, i) = off}
      i == CHOOSE i \in at : TRUE
  IN IF at = {} THEN 0
     ELSE IF n = 0 THEN i
     ELSE IF z.entries[i].pl = 0 THEN 0
     ELSE Back(z, off - z.entries[i].pl, n - 1)

\* The entry a (possibly negative) index denotes; 0 for NULL.
ziplistIndex(z, index) ==
  IF index < 0 THEN Back(z, z.tail, (0 - index) - 1)
  ELSE IF index < Len(z.entries) THEN index + 1 ELSE 0

ziplistDeleteRange(z, index, num) ==
  LET i == ziplistIndex(z, index) IN IF i = 0 THEN z ELSE __ziplistDelete(z, i, num)

\* First entry with this body among every (skip + 1)-th one; 0 for NULL.
RECURSIVE ziplistFind(_, _, _, _)
ziplistFind(z, i, body, skip) ==
  IF i > Len(z.entries) THEN 0
  ELSE IF z.entries[i].body = body THEN i
  ELSE ziplistFind(z, i + skip + 1, body, skip)

ziplistLen(z) == IF z.length < MaxCount THEN z.length ELSE Len(z.entries)

------------------------------------------------------------------------------
ZInit == zl = ziplistNew /\ second = ziplistNew /\ content = <<>> /\ content2 = <<>>

Insert(i, body) ==
  /\ Len(content) + Len(content2) < MaxEntries
  /\ zl' = __ziplistInsert(zl, i, body)
  /\ content' = InsertAt(content, i, body)
  /\ UNCHANGED <<second, content2>>

DeleteRange(index, num) ==
  LET i == IF index < 0 THEN Len(content) + 1 + index ELSE index + 1
  IN /\ content /= <<>>
     /\ zl' = ziplistDeleteRange(zl, index, num)
     /\ content' = SubSeq(content, 1, i - 1) \o SubSeq(content, i + num, Len(content))
     /\ UNCHANGED <<second, content2>>

\* ziplistLen stores the count again once it is small enough.
Count ==
  /\ zl.length = MaxCount /\ Len(content) < MaxCount
  /\ zl' = [zl EXCEPT !.length = ziplistLen(zl)]
  /\ UNCHANGED <<second, content, content2>>

\* The callers' second list, and its merge behind or before the first.
SetAside ==
  /\ second.entries = <<>> /\ zl.entries /= <<>>
  /\ second' = zl /\ content2' = content
  /\ zl' = ziplistNew /\ content' = <<>>

MergeBoth(before) ==
  /\ second.entries /= <<>> /\ zl.entries /= <<>>
  /\ zl' = IF before THEN ziplistMerge(second, zl) ELSE ziplistMerge(zl, second)
  /\ content' = IF before THEN content2 \o content ELSE content \o content2
  /\ second' = ziplistNew /\ content2' = <<>>

ZNext ==
  \/ \E i \in 1..(Len(content) + 1), b \in Bodies : Insert(i, b)
  \/ \E x \in (0 - Len(content))..(Len(content) - 1), n \in 1..3 : DeleteRange(x, n)
  \/ Count \/ SetAside
  \/ \E before \in BOOLEAN : MergeBoth(before)

------------------------------------------------------------------------------
\* ziplist.c __ziplistCascadeUpdate: after every operation the list can be
\* walked back from its tail: the total size and the tail offset are right, and
\* each prefix holds the raw length of the entry before it in enough bytes.
WalkableBackwards ==
  LET n == Len(zl.entries)
  IN /\ zl.bytes = HEADER + Size(zl.entries) + 1
     /\ zl.tail = IF n = 0 THEN HEADER ELSE OffsetOf(zl, n)
     /\ \A i \in 1..n :
          /\ zl.entries[i].pl = IF i = 1 THEN 0 ELSE zipRawEntryLength(zl.entries[i - 1])
          /\ zl.entries[i].ps >= zipStorePrevEntryLength(zl.entries[i].pl)

\* ziplistInsert, ziplistDeleteRange, ziplistMerge, ziplistIndex, ziplistFind
\* and ziplistLen answer as on the plain sequence of the bodies.
AnswersAsASequence ==
  LET n == Len(content)
  IN /\ [i \in DOMAIN zl.entries |-> zl.entries[i].body] = content
     /\ ziplistLen(zl) = n
     /\ \A x \in (0 - n)..(n - 1) : ziplistIndex(zl, x) = IF x < 0 THEN n + 1 + x ELSE x + 1
     /\ ziplistIndex(zl, n) = 0 /\ ziplistIndex(zl, (0 - n) - 1) = 0
     /\ \A b \in Bodies, skip \in 0..1 :
          LET hits == {i \in 1..n : content[i] = b /\ (i - 1) % (skip + 1) = 0}
          IN ziplistFind(zl, 1, b, skip) = IF hits = {} THEN 0 ELSE Min(hits)
=============================================================================
