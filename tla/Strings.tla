------------------------------- MODULE Strings --------------------------------
(***************************************************************************)
(* The string commands (t_string.c) and the conversions between strings and *)
(* integers they rest on (util.c, object.c).  A string is the sequence of   *)
(* its bytes; long long has Bits bits.  Whether a value is stored as an     *)
(* integer or as bytes (tryObjectEncoding) does not show: string2ll accepts *)
(* a string only if ll2string gives the same bytes back.                    *)
(***************************************************************************)
EXTENDS Db

CONSTANTS Bits,        \* the width of long long
          MaxString,   \* the longest string allowed (512MB in the code)
          LDMax        \* the largest finite long double

LLONG_MAX == 2 ^ (Bits - 1) - 1
LLONG_MIN == -(2 ^ (Bits - 1))
ULLONG_MAX == 2 ^ Bits - 1
IsDigit(b) == b \in 48..57
Number(v) == [ok |-> TRUE, v |-> v]
NotANumber == [ok |-> FALSE, v |-> 0]

\* Accepts exactly the canonical decimal form: no sign +, no leading zero, no
\* space, and nothing out of range of a long long.
string2ll(s) ==
  LET neg == s # <<>> /\ s[1] = 45
      p == IF neg THEN Tail(s) ELSE s
      step(v, b) ==
        IF v = -1 \/ ~IsDigit(b) THEN -1
        ELSE IF v > ULLONG_MAX \div 10 THEN -1
        ELSE IF v * 10 > ULLONG_MAX - (b - 48) THEN -1
        ELSE v * 10 + (b - 48)
      signed(v) == IF v = -1 \/ v > (IF neg THEN -LLONG_MIN ELSE LLONG_MAX) THEN NotANumber
                   ELSE Number(IF neg THEN -v ELSE v)
  IN IF s = <<48>> THEN Number(0)
     ELSE IF p = <<>> \/ p[1] \notin 49..57 THEN NotANumber
     ELSE signed(FoldLeft(step, p[1] - 48, Tail(p)))

\* Two digits at a time, from the table of pairs.
Decimal[n \in 0..ULLONG_MAX] ==
  IF n >= 100 THEN Decimal[n \div 100] \o <<48 + (n % 100) \div 10, 48 + (n % 10)>>
  ELSE IF n < 10 THEN <<48 + n>>
  ELSE <<48 + n \div 10, 48 + (n % 10)>>

ll2string(v) == IF v < 0 THEN <<45>> \o Decimal[-v] ELSE Decimal[v]

\* A missing object counts as zero.
getLongLongFromObject(o) == IF o = NULL THEN Number(0) ELSE string2ll(Ptr(o))

String(s) == Object("string", s)

-------------------------------------------------------------------------------
setGenericCommand(c, nx, xx, k, v, ex, unit, aborted) ==
  LET set(s) == Reply(IF ex = <<>> THEN s ELSE setExpire(s, s.d, k, s.now + ex[1] * unit), "OK")
      on(e) == IF (nx /\ ~Missing(e, k)) \/ (xx /\ Missing(e, k)) THEN Reply(e, aborted)
               ELSE set(dirty(setKey(c, c.d, k, String(v)), 1))
  IN IF ex # <<>> /\ ex[1] <= 0 THEN Reply(c, Error) ELSE on(lookupKeyWrite(c, k))

\* SET key value [NX] [XX] [EX seconds] [PX milliseconds]: the options are
\* the set of the flags and the expire as <<option, amount>> or Nil.
setCommand(c) ==
  LET flags == IF Argc(c) > 3 THEN Arg(c, 3) ELSE {}
      ex == IF Argc(c) > 4 THEN Arg(c, 4) ELSE Nil
  IN IF {"NX", "XX"} \subseteq flags THEN Reply(c, Error)
     ELSE setGenericCommand(c, "NX" \in flags, "XX" \in flags, Arg(c, 1), Arg(c, 2),
                            IF ex = Nil THEN <<>> ELSE <<ex[2]>>,
                            IF ex # Nil /\ ex[1] = "EX" THEN Second ELSE 1, Nil)

setnxCommand(c) == setGenericCommand(c, TRUE, FALSE, Arg(c, 1), Arg(c, 2), <<>>, 1, 0)

\* SETEX counts in seconds, PSETEX in milliseconds.
setexCommand(c, unit) ==
  setGenericCommand(c, FALSE, FALSE, Arg(c, 1), Arg(c, 3), <<Arg(c, 2)>>, unit, Nil)

getGenericCommand(c) == ReadKey(c, "string", NULL, LAMBDA o : o)

getsetCommand(c) ==
  LET set(g) == IF g.reply = Error THEN g
                ELSE dirty(setKey(g, g.d, Arg(c, 1), String(Arg(c, 2))), 1)
  IN set(getGenericCommand(c))

checkStringLength(n) == n <= MaxString

\* sdsgrowzero pads with zero bytes up to the offset.
Overwritten(s, offset, value) ==
  LET n == offset + Len(value)
  IN [i \in 1..(IF Len(s) > n THEN Len(s) ELSE n) |->
        IF i > offset /\ i <= n THEN value[i - offset]
        ELSE IF i <= Len(s) THEN s[i] ELSE 0]

\* The bytes s of key k are changed, or a string is created with them.
Written(c, k, s, reply) == Reply(Modified(Place(c, k, String(s)), k, 1), reply)

setrangeCommand(c) ==
  LET k == Arg(c, 1)
      offset == Arg(c, 2)
      value == Arg(c, 3)
      write(e, s) == Written(e, k, s, Len(s))
      with(e, s) == IF value = <<>> THEN Reply(e, Len(s))
                    ELSE IF ~checkStringLength(offset + Len(value)) THEN Reply(e, Error)
                    ELSE write(e, Overwritten(s, offset, value))
  IN IF offset < 0 THEN Reply(c, Error)
     ELSE OnKey(c, k, "string", LAMBDA e : with(e, <<>>), LAMBDA e, o : with(e, Ptr(o)))

\* The index arithmetic of GETRANGE, with a length that is unsigned in C.
getrange(s, start0, end0) ==
  LET n == Len(s)
      neg(i) == IF i < 0 THEN IF n + i < 0 THEN 0 ELSE n + i ELSE i
      cut(start, end) == IF start > end \/ n = 0 THEN <<>> ELSE SubSeq(s, start + 1, end + 1)
      last(end) == IF end >= n THEN n - 1 ELSE end
  IN IF start0 < 0 /\ end0 < 0 /\ start0 > end0 THEN <<>>
     ELSE cut(neg(start0), last(neg(end0)))

getrangeCommand(c) ==
  ReadKey(c, "string", <<>>, LAMBDA o : getrange(Ptr(o), Arg(c, 2), Arg(c, 3)))

\* A key of another type reads as nil.
mgetCommand(c) ==
  LET read(e, k) == Reply(e, Append(e.reply, IF WrongType(e, k, "string") THEN NULL ELSE Found(e, k)))
  IN FoldLeft(LAMBDA a, k : read(lookupKeyRead(a, k), k), Reply(c, <<>>), Tail(c.argv))

\* MSET and MSETNX take the pairs as a sequence of <<key, value>>.
msetGenericCommand(c, nx) ==
  LET pairs == Arg(c, 1)
      set(a, p) == setKey(a, a.d, p[1], String(p[2]))
      on(e) == IF nx /\ \E i \in DOMAIN pairs : ~Missing(e, pairs[i][1]) THEN Reply(e, 0)
               ELSE Reply(dirty(FoldLeft(set, e, pairs), Len(pairs)), 1)
  IN on(IF nx THEN FoldLeft(LAMBDA a, p : lookupKeyWrite(a, p[1]), c, pairs) ELSE c)

\* The sum would not fit a long long.
Overflows(v, incr) == \/ incr < 0 /\ v < 0 /\ incr < LLONG_MIN - v
                      \/ incr > 0 /\ v > 0 /\ incr > LLONG_MAX - v

incrDecrCommand(c, incr) ==
  LET k == Arg(c, 1)
      write(e, s) == Written(e, k, s, String(s))
      add(e, old) == IF ~old.ok \/ Overflows(old.v, incr) THEN Reply(e, Error)
                     ELSE write(e, ll2string(old.v + incr))
      on(e) == IF WrongType(e, k, "string") THEN Reply(e, Error)
               ELSE add(e, getLongLongFromObject(Found(e, k)))
  IN on(lookupKeyWrite(c, k))

\* -incr of the smallest long long wraps to itself.
Negated(incr) == IF incr = LLONG_MIN THEN LLONG_MIN ELSE -incr

\* Floats are integers here.  The command is propagated as a SET of the result.
incrbyfloatCommand(c) ==
  LET k == Arg(c, 1)
      write(e, s) == rewriteClientCommandVector(Written(e, k, s, String(s)), <<"SET", k, s>>)
      set(e, v) == IF v > LDMax \/ v < -LDMax THEN Reply(e, Error) ELSE write(e, ll2string(v))
      add(e, old) == IF old.ok THEN set(e, old.v + Arg(c, 2)) ELSE Reply(e, Error)
      on(e) == IF WrongType(e, k, "string") THEN Reply(e, Error)
               ELSE add(e, getLongLongFromObject(Found(e, k)))
  IN on(lookupKeyWrite(c, k))

\* The length is checked only when there is a string to append to.
appendCommand(c) ==
  LET k == Arg(c, 1)
      with(e, s) == IF ~Missing(e, k) /\ ~checkStringLength(Len(s)) THEN Reply(e, Error)
                    ELSE Written(e, k, s, Len(s))
  IN OnKey(c, k, "string", LAMBDA e : with(e, Arg(c, 2)), LAMBDA e, o : with(e, Ptr(o) \o Arg(c, 2)))

strlenCommand(c) == ReadKey(c, "string", 0, LAMBDA o : Len(Ptr(o)))
===============================================================================
