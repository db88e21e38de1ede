------------------------------- MODULE Commands -------------------------------
(***************************************************************************)
(* The command table (redisCommandTable of server.c) for the commands of    *)
(* the data types: the function of every command, and its flags.            *)
(***************************************************************************)
EXTENDS Sort, Bitops

\* The r flag: EXEC of read only commands is not propagated.
ReadOnly ==
  {"GET", "STRLEN", "EXISTS", "GETRANGE", "MGET", "LLEN", "LINDEX", "LRANGE",
   "SISMEMBER", "SCARD", "SRANDMEMBER", "SINTER", "SUNION", "SDIFF", "HGET", "HMGET",
   "HLEN", "HSTRLEN", "HGETALL", "HEXISTS", "ZRANGE", "ZREVRANGE", "ZRANGEBY", "ZREVRANGEBY",
   "ZCOUNT", "ZCARD", "ZSCORE", "ZRANK", "ZREVRANK", "RANDOMKEY", "KEYS", "TYPE", "TTL",
   "GETBIT", "BITCOUNT", "BITPOS"}

StringProc(c) ==
  CASE c.argv[1] = "GET" -> getGenericCommand(c)
    [] c.argv[1] = "SET" -> setCommand(c)
    [] c.argv[1] = "SETNX" -> setnxCommand(c)
    [] c.argv[1] \in {"SETEX", "PSETEX"} -> setexCommand(c, IF c.argv[1] = "SETEX" THEN Second ELSE 1)
    [] c.argv[1] = "APPEND" -> appendCommand(c)
    [] c.argv[1] = "STRLEN" -> strlenCommand(c)
    [] c.argv[1] = "SETRANGE" -> setrangeCommand(c)
    [] c.argv[1] = "GETRANGE" -> getrangeCommand(c)
    [] c.argv[1] \in {"INCRBY", "DECRBY"} ->
         incrDecrCommand(c, IF c.argv[1] = "INCRBY" THEN Arg(c, 2) ELSE Negated(Arg(c, 2)))
    [] c.argv[1] = "INCRBYFLOAT" -> incrbyfloatCommand(c)
    [] c.argv[1] = "MGET" -> mgetCommand(c)
    [] c.argv[1] = "GETSET" -> getsetCommand(c)
    [] c.argv[1] \in {"MSET", "MSETNX"} -> msetGenericCommand(c, c.argv[1] = "MSETNX")
    [] c.argv[1] = "SETBIT" -> setbitCommand(c)
    [] c.argv[1] = "GETBIT" -> getbitCommand(c)
    [] c.argv[1] = "BITOP" -> bitopCommand(c)
    [] c.argv[1] = "BITCOUNT" -> bitcountCommand(c)
    [] c.argv[1] = "BITPOS" -> bitposCommand(c)
    [] c.argv[1] = "BITFIELD" -> bitfieldCommand(c)
    [] OTHER -> c

KeyProc(c) ==
  CASE c.argv[1] = "DEL" -> delGenericCommand(c)
    [] c.argv[1] = "EXISTS" -> existsCommand(c)
    [] c.argv[1] = "RANDOMKEY" -> randomkeyCommand(c)
    [] c.argv[1] = "KEYS" -> keysCommand(c)
    [] c.argv[1] = "TYPE" -> typeCommand(c)
    [] c.argv[1] = "SELECT" -> selectCommand(c)
    [] c.argv[1] = "SWAPDB" -> swapdbCommand(c)
    [] c.argv[1] = "MOVE" -> moveCommand(c)
    [] c.argv[1] \in {"RENAME", "RENAMENX"} -> renameGenericCommand(c, c.argv[1] = "RENAMENX")
    [] c.argv[1] \in {"EXPIRE", "EXPIREAT", "PEXPIRE", "PEXPIREAT"} ->
         expireGenericCommand(c, IF c.argv[1] \in {"EXPIRE", "PEXPIRE"} THEN c.now ELSE 0,
                                 IF c.argv[1] \in {"EXPIRE", "EXPIREAT"} THEN Second ELSE 1)
    [] c.argv[1] = "TTL" -> ttlGenericCommand(c)
    [] c.argv[1] = "PERSIST" -> persistCommand(c)
    [] c.argv[1] = "FLUSHDB" -> flushdbCommand(c)
    [] c.argv[1] = "FLUSHALL" -> flushallCommand(c)
    [] c.argv[1] = "SORT" -> sortCommand(c)
    [] OTHER -> c

\* The end a list command works at.
Where(c) == IF c.argv[1] \in {"LPUSH", "LPUSHX", "LPOP", "BLPOP"} THEN "head" ELSE "tail"

ListProc(c) ==
  CASE c.argv[1] \in {"LPUSH", "RPUSH"} -> pushGenericCommand(c, Where(c))
    [] c.argv[1] \in {"LPUSHX", "RPUSHX"} -> pushxGenericCommand(c, Where(c))
    [] c.argv[1] = "LINSERT" -> linsertCommand(c)
    [] c.argv[1] \in {"LPOP", "RPOP"} -> popGenericCommand(c, Where(c))
    [] c.argv[1] \in {"BLPOP", "BRPOP"} -> blockingPopGenericCommand(c, Where(c))
    [] c.argv[1] = "BRPOPLPUSH" -> brpoplpushCommand(c)
    [] c.argv[1] = "LLEN" -> llenCommand(c)
    [] c.argv[1] = "LINDEX" -> lindexCommand(c)
    [] c.argv[1] = "LSET" -> lsetCommand(c)
    [] c.argv[1] = "LRANGE" -> lrangeCommand(c)
    [] c.argv[1] = "LTRIM" -> ltrimCommand(c)
    [] c.argv[1] = "LREM" -> lremCommand(c)
    [] c.argv[1] = "RPOPLPUSH" -> rpoplpushCommand(c)
    [] OTHER -> c

\* The keys of the set operations are the last argument, after a destination.
Storing(c) == c.argv[1] \in {"SINTERSTORE", "SUNIONSTORE", "SDIFFSTORE"}
SetProc(c) ==
  CASE c.argv[1] = "SADD" -> saddCommand(c)
    [] c.argv[1] = "SREM" -> sremCommand(c)
    [] c.argv[1] = "SMOVE" -> smoveCommand(c)
    [] c.argv[1] = "SISMEMBER" -> sismemberCommand(c)
    [] c.argv[1] = "SCARD" -> scardCommand(c)
    [] c.argv[1] = "SPOP" -> spopCommand(c)
    [] c.argv[1] = "SRANDMEMBER" -> srandmemberCommand(c)
    [] c.argv[1] \in {"SINTER", "SINTERSTORE"} ->
         sinterGenericCommand(c, Last(c.argv), Storing(c), Arg(c, 1))
    [] c.argv[1] \in {"SUNION", "SUNIONSTORE", "SDIFF", "SDIFFSTORE"} ->
         sunionDiffGenericCommand(c, Last(c.argv), Storing(c), Arg(c, 1),
                                  c.argv[1] \in {"SDIFF", "SDIFFSTORE"})
    [] OTHER -> c

\* ZRANGEBY stands for ZRANGEBYSCORE and ZRANGEBYLEX, ZCOUNT also for ZLEXCOUNT,
\* as the range says.
ZsetProc(c) ==
  CASE c.argv[1] \in {"ZADD", "ZINCRBY"} ->
         zaddGenericCommand(c, IF c.argv[1] = "ZINCRBY" THEN {"INCR"} ELSE {})
    [] c.argv[1] = "ZREM" -> zremCommand(c)
    [] c.argv[1] \in {"ZREMRANGEBY", "ZREMRANGEBYRANK"} ->
         zremrangeGenericCommand(c, c.argv[1] = "ZREMRANGEBYRANK")
    [] c.argv[1] \in {"ZUNIONSTORE", "ZINTERSTORE"} ->
         zunionInterGenericCommand(c, c.argv[1] = "ZUNIONSTORE")
    [] c.argv[1] \in {"ZRANGE", "ZREVRANGE"} -> zrangeGenericCommand(c, c.argv[1] = "ZREVRANGE")
    [] c.argv[1] \in {"ZRANGEBY", "ZREVRANGEBY"} -> genericZrangeby(c, c.argv[1] = "ZREVRANGEBY")
    [] c.argv[1] = "ZCOUNT" -> zcountCommand(c)
    [] c.argv[1] = "ZCARD" -> zcardCommand(c)
    [] c.argv[1] = "ZSCORE" -> zscoreCommand(c)
    [] c.argv[1] \in {"ZRANK", "ZREVRANK"} -> zrankGenericCommand(c, c.argv[1] = "ZREVRANK")
    [] OTHER -> c

HashProc(c) ==
  CASE c.argv[1] = "HSET" -> hsetCommand(c)
    [] c.argv[1] = "HSETNX" -> hsetnxCommand(c)
    [] c.argv[1] = "HGET" -> hgetCommand(c)
    [] c.argv[1] = "HMGET" -> hmgetCommand(c)
    [] c.argv[1] = "HINCRBY" -> hincrbyCommand(c)
    [] c.argv[1] = "HINCRBYFLOAT" -> hincrbyfloatCommand(c)
    [] c.argv[1] = "HDEL" -> hdelCommand(c)
    [] c.argv[1] = "HLEN" -> hlenCommand(c)
    [] c.argv[1] = "HSTRLEN" -> hstrlenCommand(c)
    [] c.argv[1] = "HGETALL" -> genericHgetallCommand(c)
    [] c.argv[1] = "HEXISTS" -> hexistsCommand(c)
    [] OTHER -> c

StringCommands ==
  {"GET", "SET", "SETNX", "SETEX", "PSETEX", "APPEND", "STRLEN", "SETRANGE", "GETRANGE",
   "INCRBY", "DECRBY", "INCRBYFLOAT", "MGET", "GETSET", "MSET", "MSETNX",
   "SETBIT", "GETBIT", "BITOP", "BITCOUNT", "BITPOS", "BITFIELD"}
KeyCommands ==
  {"DEL", "EXISTS", "RANDOMKEY", "KEYS", "TYPE", "SELECT", "SWAPDB", "MOVE", "RENAME",
   "RENAMENX", "EXPIRE", "EXPIREAT", "PEXPIRE", "PEXPIREAT", "TTL", "PERSIST", "FLUSHDB",
   "FLUSHALL", "SORT"}
ListCommands ==
  {"LPUSH", "RPUSH", "LPUSHX", "RPUSHX", "LINSERT", "LPOP", "RPOP", "BLPOP", "BRPOP",
   "BRPOPLPUSH", "LLEN", "LINDEX", "LSET", "LRANGE", "LTRIM", "LREM", "RPOPLPUSH"}
SetCommands ==
  {"SADD", "SREM", "SMOVE", "SISMEMBER", "SCARD", "SPOP", "SRANDMEMBER", "SINTER",
   "SINTERSTORE", "SUNION", "SUNIONSTORE", "SDIFF", "SDIFFSTORE"}

ZsetCommands ==
  {"ZADD", "ZINCRBY", "ZREM", "ZREMRANGEBY", "ZREMRANGEBYRANK", "ZUNIONSTORE", "ZINTERSTORE",
   "ZRANGE", "ZREVRANGE", "ZRANGEBY", "ZREVRANGEBY", "ZCOUNT", "ZCARD", "ZSCORE", "ZRANK", "ZREVRANK"}

\* c->cmd->proc(c).
proc(c) ==
  CASE c.argv[1] \in StringCommands -> StringProc(c)
    [] c.argv[1] \in KeyCommands -> KeyProc(c)
    [] c.argv[1] \in ListCommands -> ListProc(c)
    [] c.argv[1] \in SetCommands -> SetProc(c)
    [] c.argv[1] \in ZsetCommands -> ZsetProc(c)
    [] OTHER -> HashProc(c)
===============================================================================
