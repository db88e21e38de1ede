-------------------------------- MODULE Bitops --------------------------------
(***************************************************************************)
(* The bit commands on strings (bitops.c).  Bit 0 is the most significant   *)
(* bit of the first byte.  The integers of BITFIELD have Bits bits where    *)
(* the code has 64, and memory is read WordBytes bytes at a time where the  *)
(* code reads an unsigned long.                                             *)
(***************************************************************************)
EXTENDS Strings

CONSTANTS WordBytes     \* sizeof(unsigned long)

BitOf(b, i) == (b \div 2 ^ (7 - i)) % 2
BitAt(s, i) == IF i \div 8 < Len(s) THEN BitOf(s[i \div 8 + 1], i % 8) ELSE 0
FromBits(n, bit(_)) == FoldLeft(LAMBDA v, i : 2 * v + bit(i - 1), 0, [i \in 1..n |-> i])
WithBits(s, from, n, bit(_)) ==
  LET new(i) == IF i \in from..(from + n - 1) THEN bit(i - from) ELSE BitAt(s, i)
  IN [j \in DOMAIN s |-> FromBits(8, LAMBDA b : new(8 * (j - 1) + b))]
Padded(s, n) == s \o [i \in 1..(IF n > Len(s) THEN n - Len(s) ELSE 0) |-> 0]

\* What an unsigned and a signed integer of the machine make of a value.
Unsigned(v) == v % 2 ^ Bits
Signed(v) == LET of(u) == IF u > LLONG_MAX THEN u - 2 ^ Bits ELSE u IN of(Unsigned(v))
\* (uint64_t)-1 << bits: the machine shifts by bits modulo the width.
HighMask(bits) == Unsigned(-(2 ^ (bits % Bits)))
WordBit(u, i) == (u \div 2 ^ (Bits - 1 - i)) % 2
BitOr(u, mask) == FromBits(Bits, LAMBDA i : IF WordBit(u, i) + WordBit(mask, i) > 0 THEN 1 ELSE 0)
BitAndNot(u, mask) == FromBits(Bits, LAMBDA i : WordBit(u, i) * (1 - WordBit(mask, i)))

-------------------------------------------------------------------------------
\* The aligned blocks and the bytes around them only differ in speed.
redisPopcount(s) ==
  FoldLeft(LAMBDA n, b : n + Cardinality({i \in 0..7 : BitOf(b, i) = 1}), 0, s)

\* align is the number of bytes before the next word boundary.  Bytes are
\* skipped to the boundary, then words, and one word padded with zeros is
\* searched bit by bit.
redisBitpos(s, bit, align) ==
  LET skip == IF bit = 1 THEN 0 ELSE 255
      whole(from) == \A j \in 1..WordBytes : s[from + j] = skip
      words(edge, n) == edge + WordBytes * Min({n} \cup {i \in 0..(n - 1) : ~whole(edge + WordBytes * i)})
      start(edge, first) == IF first <= edge THEN first - 1
                            ELSE words(edge, (Len(s) - edge) \div WordBytes)
      from(edge) == start(edge, Min({edge + 1} \cup {i \in 1..edge : s[i] # skip}))
      answer(at, here) == IF bit = 1 /\ here = {} THEN -1 ELSE 8 * at + Min(here)
      bits(word) == {i \in 0..(8 * WordBytes - 1) : BitAt(word, i) = bit}
      search(at) == answer(at, bits(SubSeq(Padded(s, at + WordBytes), at + 1, at + WordBytes)))
  IN search(from(IF align < Len(s) THEN align ELSE Len(s)))

setUnsignedBitfield(s, offset, bits, value) ==
  WithBits(s, offset, bits, LAMBDA i : (value \div 2 ^ (bits - 1 - i)) % 2)
setSignedBitfield(s, offset, bits, value) == setUnsignedBitfield(s, offset, bits, Unsigned(value))
getUnsignedBitfield(s, offset, bits) == FromBits(bits, LAMBDA i : BitAt(s, offset + i))
getSignedBitfield(s, offset, bits) ==
  LET of(u) == Signed(IF u >= 2 ^ (bits - 1) THEN BitOr(u, HighMask(bits)) ELSE u)
  IN of(getUnsignedBitfield(s, offset, bits))

\* The overflow checks: whether value + incr does not fit, and the value that
\* takes its place.
Verdict(overflow, limit) == [overflow |-> overflow, limit |-> limit]
checkUnsignedBitfieldOverflow(value, incr, bits, owtype) ==
  LET max == 2 ^ bits - 1
      over(limit) == Verdict(TRUE, IF owtype = "wrap"
                                   THEN BitAndNot(Unsigned(value + incr), HighMask(bits)) ELSE limit)
      high == value > max \/ (incr > 0 /\ incr > Signed(max - value))
      low == incr < 0 /\ incr < Signed(-value)
  IN IF high \/ low THEN over(IF high THEN max ELSE 0) ELSE Verdict(FALSE, 0)

checkSignedBitfieldOverflow(value, incr, bits, owtype) ==
  LET max == 2 ^ (bits - 1) - 1
      min == -max - 1
      wrapped(c) == Signed(IF (c \div 2 ^ (bits - 1)) % 2 = 1 THEN BitOr(c, HighMask(bits))
                                                              ELSE BitAndNot(c, HighMask(bits)))
      over(limit) == Verdict(TRUE, IF owtype = "wrap" THEN wrapped(Unsigned(value + incr)) ELSE limit)
      high == value > max \/ ((bits # Bits \/ (value >= 0 /\ incr > 0)) /\ incr > Signed(max - value))
      low == value < min \/ ((bits # Bits \/ (value < 0 /\ incr < 0)) /\ incr < Signed(min - value))
  IN IF high \/ low THEN over(IF high THEN max ELSE min) ELSE Verdict(FALSE, 0)

-------------------------------------------------------------------------------
BadOffset(offset) == offset < 0 \/ offset \div 8 >= MaxString
BadType(sign, bits) == bits < 1 \/ bits > (IF sign THEN Bits ELSE Bits - 1)

\* The key exists afterwards, with room for maxbit.
lookupStringForBitCommand(c, k, maxbit) ==
  Place(c, k, String(Padded(IF Missing(c, k) THEN <<>> ELSE Ptr(Found(c, k)), maxbit \div 8 + 1)))

setbitCommand(c) ==
  LET k == Arg(c, 1)
      offset == Arg(c, 2)
      write(a, s) == Reply(Modified(Store(a, k, String(WithBits(s, offset, 1, LAMBDA i : Arg(c, 3)))), k, 1),
                           BitAt(s, offset))
      grown(a) == write(a, Ptr(Found(a, k)))
      on(e) == IF WrongType(e, k, "string") THEN Reply(e, Error)
               ELSE grown(lookupStringForBitCommand(e, k, offset))
  IN IF BadOffset(offset) \/ Arg(c, 3) \notin {0, 1} THEN Reply(c, Error)
     ELSE on(lookupKeyWrite(c, k))

\* The read commands: answer of the string, or the reply for a missing key.
ReadString(c, missing, answer(_)) == ReadKey(c, "string", missing, LAMBDA o : answer(Ptr(o)))

getbitCommand(c) ==
  IF BadOffset(Arg(c, 2)) THEN Reply(c, Error)
  ELSE ReadString(c, 0, LAMBDA s : BitAt(s, Arg(c, 2)))

\* BITOP op target keys.  Missing keys and missing bytes count as zeros.
bitopCommand(c) ==
  LET op == Arg(c, 1)
      target == Arg(c, 2)
      keys == Arg(c, 3)
      source(e, k) == IF Missing(e, k) THEN <<>> ELSE Ptr(Found(e, k))
      combine(x, y) == IF op = "and" THEN x * y ELSE IF op = "or" THEN IF x + y > 0 THEN 1 ELSE 0
                       ELSE (x + y) % 2
      first(x) == IF op = "not" THEN 1 - x ELSE x
      bit(src, i) == FoldLeft(LAMBDA v, s : combine(v, BitAt(s, i)), first(BitAt(src[1], i)), Tail(src))
      put(e, src, n) ==
        IF n > 0 THEN setKey(e, e.d, target,
                             String(WithBits(Padded(<<>>, n), 0, 8 * n, LAMBDA i : bit(src, i))))
        ELSE IF dbExists(e, e.d, target) THEN signalModifiedKey(dbDelete(e, e.d, target), e.d, target)
        ELSE e
      done(e, src, n) == Reply(dirty(put(e, src, n), 1), n)
      with(e, src) == done(e, src, Max({Len(s) : s \in Range(src)}))
      look(e, k) == IF WrongType(e, k, "string") THEN Reply(e, Error) ELSE e
      step(a, k) == IF a.reply = Error THEN a ELSE look(lookupKeyRead(a, k), k)
      on(e) == IF e.reply = Error THEN e ELSE with(e, [i \in DOMAIN keys |-> source(e, keys[i])])
  IN IF op = "not" /\ Len(keys) # 1 THEN Reply(c, Error)
     ELSE on(FoldLeft(step, Reply(c, Nil), keys))

\* The range of bytes of BITCOUNT and BITPOS, from 0.
ByteRange(n, start, end) ==
  LET back(i) == IF i >= 0 THEN i ELSE IF n + i < 0 THEN 0 ELSE n + i
  IN <<back(start), IF back(end) >= n THEN n - 1 ELSE back(end)>>

bitcountCommand(c) ==
  LET whole == Argc(c) = 2
      count(s, r) ==
        IF ~whole /\ Arg(c, 2) < 0 /\ Arg(c, 3) < 0 /\ Arg(c, 2) > Arg(c, 3) THEN 0
        ELSE IF r[1] > r[2] THEN 0 ELSE redisPopcount(SubSeq(s, r[1] + 1, r[2] + 1))
  IN ReadString(c, 0, LAMBDA s : count(s, IF whole THEN <<0, Len(s) - 1>>
                                          ELSE ByteRange(Len(s), Arg(c, 2), Arg(c, 3))))

\* BITPOS key bit [start [end]]: without an end the string goes on with zeros.
bitposCommand(c) ==
  LET bit == Arg(c, 2)
      found(r, pos) == IF pos = -1 THEN -1
                       ELSE IF Argc(c) = 5 /\ bit = 0 /\ pos = 8 * (r[2] - r[1] + 1) THEN -1
                       ELSE pos + 8 * r[1]
      search(s, r) == IF r[1] > r[2] THEN -1
                      ELSE found(r, redisBitpos(SubSeq(s, r[1] + 1, r[2] + 1), bit,
                                                (WordBytes - (r[1] % WordBytes)) % WordBytes))
      range(s) == IF Argc(c) = 3 THEN <<0, Len(s) - 1>>
                  ELSE ByteRange(Len(s), Arg(c, 3), IF Argc(c) = 5 THEN Arg(c, 4) ELSE Len(s) - 1)
  IN IF bit \notin {0, 1} THEN Reply(c, Error)
     ELSE ReadString(c, IF bit = 1 THEN -1 ELSE 0, LAMBDA s : search(s, range(s)))

-------------------------------------------------------------------------------
\* BITFIELD key ops.  An operation is a record of op, sign, bits, offset, v
\* and the overflow type in force; its answer is <<number>>, or <<>> for nil.
OneBitfieldOp(s, op) ==
  LET old == IF op.sign THEN getSignedBitfield(s, op.offset, op.bits)
                        ELSE getUnsignedBitfield(s, op.offset, op.bits)
      set(new) == IF op.sign THEN setSignedBitfield(s, op.offset, op.bits, new)
                             ELSE setUnsignedBitfield(s, op.offset, op.bits, new)
      put(get, new) == [s |-> set(new), r |-> <<IF op.op = "incrby" THEN new ELSE get>>]
      judge(get, raw, v) == IF v.overflow /\ op.ow = "fail" THEN [s |-> s, r |-> <<>>]
                            ELSE put(get, IF v.overflow THEN v.limit ELSE raw)
      check(get, v, incr) ==
        judge(get, v + incr, IF op.sign THEN checkSignedBitfieldOverflow(v, incr, op.bits, op.ow)
                                        ELSE checkUnsignedBitfieldOverflow(v, incr, op.bits, op.ow))
      with(get) == IF op.op = "get" THEN [s |-> s, r |-> <<get>>]
                   ELSE check(get, IF op.op = "incrby" THEN get
                                   ELSE IF op.sign THEN op.v ELSE Unsigned(op.v),
                              IF op.op = "incrby" THEN op.v ELSE 0)
  IN with(old)

bitfieldCommand(c) ==
  LET k == Arg(c, 1)
      ops == Arg(c, 2)
      add(b, x) == [s |-> x.s, r |-> Append(b.r, x.r)]
      run(s) == FoldLeft(LAMBDA b, op : add(b, OneBitfieldOp(b.s, op)), [s |-> s, r |-> <<>>], ops)
      done(a, n, r) == IF n = 0 THEN Reply(a, r.r)
                       ELSE Reply(Modified(Store(a, k, String(r.s)), k, n), r.r)
      all(a, n) == done(a, n, run(IF Missing(a, k) THEN <<>> ELSE Ptr(Found(a, k))))
      with(e, ends) == all(IF ends = <<>> THEN e ELSE lookupStringForBitCommand(e, k, Max(Range(ends))),
                           Len(ends))
      writes == SelectSeq(ops, LAMBDA op : op.op # "get")
      on(e) == IF WrongType(e, k, "string") THEN Reply(e, Error)
               ELSE with(e, [i \in DOMAIN writes |-> writes[i].offset + writes[i].bits - 1])
  IN IF \E i \in DOMAIN ops : BadOffset(ops[i].offset) \/ BadType(ops[i].sign, ops[i].bits)
     THEN Reply(c, Error)
     ELSE on(lookupKeyWrite(c, k))
===============================================================================
