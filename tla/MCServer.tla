------------------------------- MODULE MCServer -------------------------------
(***************************************************************************)
(* Families of commands on one server, its file and its replica: a          *)
(* behaviour runs the commands of one family.                               *)
(***************************************************************************)
EXTENDS Answers
CONSTANTS Parts, k1, k2, c1, c2, c3
VARIABLES part

A == <<49>>          \* "1"
B == <<97>>          \* "a"
C == <<50>>          \* "2"
L == <<97, 97, 97>>  \* longer than a ziplist value may be

\* The keys, for the commands on every type.
Expiring(k) == {<<"PEXPIRE", k, 1>>, <<"EXPIRE", k, -1>>, <<"PERSIST", k>>}

StringCmds ==
  {<<"SET", k1, v, {}, e>> : v \in {A, B}, e \in {Nil, <<"PX", 1>>, <<"EX", 1>>}}
  \cup Expiring(k1)
  \cup {<<"SET", k1, B, {"NX"}>>, <<"SET", k1, A, {"XX"}, <<"PX", 2>> >>, <<"SETNX", k1, A>>,
        <<"SETEX", k1, 1, A>>, <<"PSETEX", k1, 1, B>>, <<"APPEND", k1, A>>,
        <<"SETRANGE", k1, 2, A>>, <<"INCRBY", k1, 1>>, <<"DECRBY", k1, LLONG_MIN>>,
        <<"INCRBYFLOAT", k1, 1>>, <<"GETSET", k1, B>>, <<"MSET", << <<k1, A>>, <<k2, B>> >> >>,
        <<"MSETNX", << <<k1, A>>, <<k2, B>> >> >>, <<"RENAME", k1, k2>>, <<"DEL", k1>>}

HashCmds ==
  {<<"HSET", k1, << <<f, v>> >> >> : f \in {A, B}, v \in {A, L}}
  \cup {<<"HSETNX", k1, f, v>> : f \in {A, C}, v \in {B, L}}
  \cup {<<"HINCRBY", k1, f, n>> : f \in {A, B}, n \in {1, LLONG_MIN}}
  \cup {<<"HDEL", k1, fs>> : fs \in {<<A>>, <<A, B>>, <<C, A>>}}
  \cup Expiring(k1)
  \cup {<<"HSET", k1, << <<A, A>>, <<B, B>>, <<C, C>> >> >>, <<"HINCRBYFLOAT", k1, A, 1>>,
        <<"SETNX", k1, A>>, <<"RENAME", k1, k2>>}

SetCmds ==
  {<<"SADD", k, vs>> : k \in {k1, k2}, vs \in {<<A>>, <<B>>, <<A, C>>, <<A, B, C>>}}
  \cup {<<"SREM", k1, vs>> : vs \in {<<A>>, <<C, A>>}}
  \cup {<<"SMOVE", k1, k2, v>> : v \in {A, B}}
  \cup {<<"SPOP", k1>>, <<"SPOP", k1, 1>>, <<"SPOP", k1, 2>>, <<"SPOP", k1, 3>>}
  \cup {<<op, k1, <<k1, k2>> >> : op \in {"SINTERSTORE", "SUNIONSTORE", "SDIFFSTORE"}}
  \cup {<<"PEXPIRE", k1, 1>>, <<"SETNX", k2, A>>}

ListCmds ==
  {<<op, k, <<v>> >> : op \in {"LPUSH", "RPUSH"}, k \in {k1, k2}, v \in {A, B}}
  \cup {<<"LPOP", k1>>, <<"RPOP", k2>>, <<"RPOPLPUSH", k1, k2>>, <<"RPOPLPUSH", k1, k1>>,
        <<"LTRIM", k1, 1, -1>>, <<"LREM", k1, -1, A>>, <<"LREM", k1, 0, B>>, <<"LSET", k1, -1, B>>,
        <<"LINSERT", k1, "after", A, B>>, <<"LPUSHX", k1, <<B>> >>, <<"RENAME", k2, k1>>,
        <<"PEXPIRE", k1, 1>>, <<"SETNX", k2, A>>, <<"BLPOP", <<k2, k1>> >>}

BlockCmds == {<<"BLPOP", <<k1>> >>, <<"BRPOP", <<k2, k1>> >>, <<"BRPOPLPUSH", k1, k2>>,
              <<"BRPOPLPUSH", k1, k1>>}
WakeCmds == {<<"RPUSH", k1, <<A>> >>, <<"RPUSH", k1, <<A, B>> >>, <<"RPUSH", k2, <<B>> >>,
             <<"RENAME", k2, k1>>, <<"DEL", k1>>, <<"SETNX", k2, A>>, <<"PEXPIRE", k1, 1>>}

KeyCmds ==
  {<<"SET", k1, A>>, <<"SET", k2, B>>, <<"PEXPIRE", k1, 1>>, <<"PEXPIREAT", k1, 2>>,
   <<"RENAME", k1, k2>>, <<"RENAMENX", k2, k1>>, <<"MOVE", k1, 1>>, <<"SWAPDB", 0, 1>>,
   <<"SELECT", 1>>, <<"SELECT", 2>>, <<"FLUSHDB">>, <<"FLUSHALL">>, <<"DEL", k1, k2>>, <<"RPUSH", k1, <<B>> >>,
   <<"BLPOP", <<k1>> >>}

WatchCmds == {<<"SET", k1, A>>, <<"INCRBY", k1, 1>>, <<"GET", k1>>, <<"FLUSHALL">>, <<"PEXPIRE", k1, 1>>,
              <<"MSET", << <<k1, A>>, <<k2, B>> >> >>, <<"RENAME", k2, k1>>}

All == ScoreRange(<<-Inf>>, <<Inf>>, FALSE, FALSE)
Some == ScoreRange(<<1>>, <<2>>, TRUE, FALSE)
ZsetCmds ==
  {<<"ZADD", k1, f, p>> : f \in {{}, {"XX"}, {"NX"}}, p \in {<< <<1, A>> >>, << <<2, A>>, <<1, B>> >>}}
  \cup {<<"ZADD", k2, {}, p>> : p \in {<< <<Inf, A>> >>, << <<1, L>> >>, << <<1, A>>, <<1, B>>, <<0, C>> >>}}
  \cup {<<"ZINCRBY", k, {}, << <<n, A>> >> >> : k \in {k1, k2}, n \in {1, -Inf}}
  \cup {<<"ZREM", k1, <<A>> >>, <<"ZREMRANGEBYRANK", k2, <<0, -2>> >>, <<"ZREMRANGEBY", k2, Some>>,
        <<"ZREMRANGEBY", k2, LexRange(<<-1>>, <<0, A>>, FALSE, FALSE)>>}
  \cup {<<op, k1, <<k1, k2>>, w, g>> : op \in {"ZUNIONSTORE", "ZINTERSTORE"}, w \in {<<1, 1>>, <<0, -1>>},
                                       g \in {"sum", "max"}}
  \cup {<<"SADD", k2, <<A, B>> >>, <<"PEXPIRE", k1, 1>>}

Weight(a, b) == <<"key", (A :> a) @@ (B :> b)>>
SortCmds ==
  {<<"SORT", k1, SortOptions(d, a, <<0, -1>>, by, <<>>, k)>> :
     d, a \in BOOLEAN, by \in {<<"none">>, <<"fixed">>}, k \in {k1, k2}}
  \cup {<<"SORT", k1, SortOptions(FALSE, FALSE, l, Weight(k2, k1), g, k2)>> :
          l \in {<<0, 1>>, <<5, 1>>}, g \in {<<>>, << <<"#">>, Weight(k1, k2)>>}}
  \cup {<<"RPUSH", k1, <<B, A>> >>, <<"SADD", k1, <<C, B, A>> >>, <<"SADD", k1, <<A, C>> >>,
        <<"ZADD", k1, {}, << <<2, A>>, <<1, C>> >> >>, <<"SET", k2, A>>, <<"PEXPIRE", k2, 1>>}

Field(o, sign, bits, n, ow) == [op |-> o, sign |-> sign, bits |-> bits, offset |-> 5, v |-> n, ow |-> ow]
BitCmds ==
  {<<"SETBIT", k, i, v>> : k \in {k1, k2}, i \in {0, 9}, v \in {0, 1}}
  \cup {<<"BITOP", op, k1, <<k1, k2>> >> : op \in {"and", "or", "xor"}}
  \cup {<<"BITOP", "not", k2, <<k1>> >>, <<"SET", k1, <<255, 255, 15>> >>, <<"PEXPIRE", k1, 1>>,
        <<"BITFIELD", k1, <<Field("set", TRUE, 3, -2, "wrap"), Field("incrby", FALSE, 2, 3, "fail")>> >>,
        <<"BITFIELD", k1, <<Field("incrby", TRUE, 3, 3, "sat")>> >>}

\* The orders in which random picks prefer elements.
Orders == IF part = "sets" THEN {<<A, B, C>>, <<C, B, A>>} ELSE {<<>>}
\* What a client sends in a family, and how many commands run in all.
Sends(cl) ==
  CASE part = "strings" /\ cl = c1 -> StringCmds
    [] part = "hashes" /\ cl = c1 -> HashCmds
    [] part = "sets" /\ cl = c1 -> SetCmds
    [] part = "zsets" /\ cl = c1 -> ZsetCmds
    [] part = "lists" /\ cl = c1 -> ListCmds
    [] part = "sort" /\ cl = c1 -> SortCmds
    [] part = "bits" /\ cl = c1 -> BitCmds
    [] part = "keys" /\ cl = c1 -> KeyCmds
    [] part = "blocking" -> IF cl = c3 THEN WakeCmds ELSE BlockCmds
    [] part = "watch" /\ cl = c1 -> { <<"EXEC">> }
    [] part = "watch" /\ cl = c2 -> WatchCmds
    [] OTHER -> {}
Most == CASE part = "bits" -> 2 [] part \in {"blocking", "keys"} -> 4 [] OTHER -> 3

ServerNext ==
  /\ UNCHANGED part
  /\ \/ \E cl \in Clients : \E argv \in Sends(cl), rnd \in Orders :
          (steps < Most \/ argv = <<"EXEC">>) /\ processCommand(cl, argv, rnd)
     \/ part = "watch" /\ steps < Most /\ \E argv \in WatchCmds : queueMultiCommand(c1, argv)
     \/ part = "watch" /\ multiCommand(c1)
     \/ part = "watch" /\ flagTransaction(c1)
     \/ part = "watch" /\ \E k \in {k1} : watchCommand(c1, k)
     \/ part = "watch" /\ unwatchCommand(c1)
     \/ part = "watch" /\ discardCommand(c1)
     \/ part = "watch" /\ ExecRefused(c1)
     \/ part \in {"blocking", "lists", "keys"} /\ \E cl \in Clients : GiveUp(cl)
     \/ \E f \in Followers, rnd \in Orders : Deliver(f, rnd)
     \/ Tick
     \/ \E d \in Dbs, k \in Keys : ActiveExpire(d, k)

ServerInit == Init /\ part \in Parts
ServerSpec == ServerInit /\ [][ServerNext]_<<part, vars>>

-------------------------------------------------------------------------------
\* The answers depend on the dataset and the clock alone: they are asked once
\* the followers have caught up.
Idle == \A f \in Followers : stream[f] = <<>>
Truths ==
  CASE ~Idle \/ part = "watch" -> {}
    [] part = "sets" -> ReadTruths \cup AlgebraTruths
    [] part = "zsets" -> ReadTruths \cup RangeTruths({All, Some, LexRange(<<0, A>>, <<1>>, TRUE, FALSE)})
    [] part = "sort" -> ReadTruths \cup SortTruths({<<0, -1>>, <<1, 1>>, <<2, 2>>})
    [] part = "bits" /\ now = 0 -> ReadTruths \cup UNION {BitTruths(k, Value(k)) : k \in KeysOf("string")}
                                   \cup (IF steps = 0 THEN FieldTruths(1..(Bits - 1)) ELSE {})
    [] OTHER -> ReadTruths

\* The reads of a key agree with each other and see no key whose time is over;
\* SINTER, SUNION and SDIFF are the operations of set theory, ranges answer
\* what is between their bounds, SORT a window of the order, and BITCOUNT,
\* BITPOS and BITFIELD do what the bits say, for fields narrower than the widest.
ReadsAnswer == \A q \in Truths : Answer(q[1]) = q[2]
===============================================================================
