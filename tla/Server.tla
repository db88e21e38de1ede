-------------------------------- MODULE Server --------------------------------
(***************************************************************************)
(* One Redis master with its clients, its append only file and one replica. *)
(* A command runs to its end before the next starts: call() of server.c,    *)
(* the propagation it makes, and the service of the clients that it         *)
(* unblocks are one step.  What is propagated goes to two followers, in the *)
(* form that each is fed: the append only file, kept as the dataset that    *)
(* loading it gives, and the replica, kept as its dataset.  Each has a      *)
(* stream of operations it has not executed yet.  A command reads one clock.*)
(***************************************************************************)
EXTENDS Commands

CONSTANTS Clients,
          MaxTime,       \* bound: ticks of the clock
          MaxCommands,   \* bound: commands run
          MaxLag         \* bound: operations the replica may be behind

VARIABLES now,           \* the clock
          host,          \* the dataset of the master
          clients,       \* the state of each client, see NoClient
          blocked,       \* the blocked clients: bk and bpop of Db
          copy,          \* the dataset of each follower, with the client that runs its operations
          seldb,         \* aof_selected_db and slaveseldb
          stream,        \* operations fed to each follower and not yet executed by it
          excused,       \* history: keys with a change that is known not to be signalled
          seen,          \* history: the values each client has seen when it watched
          lapsed,        \* history: INCRBYFLOAT met a key with a TTL
          steps          \* history: commands run so far

Followers == {"file", "replica"}
links == <<copy, seldb, stream>>
histories == <<excused, seen, lapsed>>
vars == <<now, host, clients, blocked, links, histories, steps>>

EmptyKeyspace == [d \in Dbs |-> [k \in Keys |-> NULL]]
NoExpires == [d \in Dbs |-> [k \in Keys |-> -1]]
\* A dataset with the client that runs commands on it.
EmptyHost == [db |-> EmptyKeyspace, exp |-> NoExpires, d |-> 0, multi |-> FALSE, queue |-> <<>>]
NoBlocked == [bk |-> [d \in Dbs |-> [k \in Keys |-> <<>>]], bpop |-> [cl \in Clients |-> Nil]]
\* A client: its database, CLIENT_MULTI and the queue, CLIENT_DIRTY_CAS,
\* CLIENT_DIRTY_EXEC and the keys it watches.
NoClient == [d |-> 0, multi |-> FALSE, queue |-> <<>>, cas |-> FALSE, bad |-> FALSE, watched |-> {}]

\* The context of Db for a command on host h.
Context(h, role, time, rnd, cl, multi, argv, b) ==
  [db |-> h.db, exp |-> h.exp, d |-> h.d, now |-> time, role |-> role, cl |-> cl,
   multi |-> multi, argv |-> argv, dirty |-> 0, touched |-> {}, prevent |-> FALSE,
   also |-> <<>>, fed |-> <<>>, rnd |-> rnd, ready |-> <<>>, bk |-> b.bk,
   bpop |-> b.bpop, reply |-> Nil]

-------------------------------------------------------------------------------
\* call(): what a command changed is propagated unless it says otherwise, then
\* what it asked to propagate besides.
PropagateOp(c, op) == propagate(c, op[1], op[2])

AfterProc(c, p) ==
  [FoldLeft(PropagateOp, IF p.dirty > 0 /\ ~p.prevent THEN propagate(p, p.d, p.argv) ELSE p, p.also)
     EXCEPT !.dirty = c.dirty + @, !.prevent = c.prevent, !.also = c.also]

call(c) == AfterProc(c, proc([c EXCEPT !.dirty = 0, !.prevent = FALSE, !.also = <<>>]))

\* MULTI goes out before the first command of a transaction that is not read
\* only; told says that it did, or that there is no transaction.
Announced(c, argv, told) ==
  [IF told \/ argv[1] \in ReadOnly THEN c ELSE propagate(c, c.d, <<"MULTI">>) EXCEPT !.argv = argv]

RECURSIVE CallAll(_, _, _)
CallAll(c, queue, told) ==
  IF queue = <<>> THEN c
  ELSE CallAll(call(Announced(c, Head(queue), told)), Tail(queue), told \/ Head(queue)[1] \notin ReadOnly)

\* EXEC goes out at the end if MULTI did.
ExecEnd(c, must) == IF must THEN propagate(c, c.d, <<"EXEC">>) ELSE c

\* The commands of the queue, as a transaction (EXEC) or one after the other.
execCommand(c, queue, exec) ==
  ExecEnd(CallAll(c, queue, ~exec), exec /\ \E i \in DOMAIN queue : queue[i][1] \notin ReadOnly)

-------------------------------------------------------------------------------
\* Mutant: relative times are written as they are.
ExpireStaysRelative(name, k, amount, time) ==
  <<"PEXPIREAT", k, IF name \in {"EXPIRE", "SETEX", "EXPIREAT"} THEN amount * Second ELSE amount>>

\* The append only file.  Times become absolute, and a SELECT goes before a
\* command for another database than the last.
catAppendOnlyExpireAtCommand(name, k, amount, time) ==
  LET ms == IF name \in {"EXPIRE", "SETEX", "EXPIREAT"} THEN amount * Second ELSE amount
  IN <<"PEXPIREAT", k,
       IF name \in {"EXPIRE", "PEXPIRE", "SETEX", "PSETEX"} THEN ms + time ELSE ms>>

Translated(argv, time) ==
  LET at(name, amount) == catAppendOnlyExpireAtCommand(name, argv[2], amount, time)
      set(v) == <<"SET", argv[2], v>>
  IN IF argv[1] \in {"EXPIRE", "PEXPIRE", "EXPIREAT"} THEN <<at(argv[1], argv[3])>>
     ELSE IF argv[1] \in {"SETEX", "PSETEX"} THEN <<set(argv[4]), at(argv[1], argv[3])>>
     ELSE IF argv[1] = "SET" /\ Len(argv) > 3
     THEN IF Len(argv) < 5 \/ argv[5] = Nil THEN <<set(argv[3])>>
          ELSE <<set(argv[3]), at(IF argv[5][1] = "EX" THEN "EXPIRE" ELSE "PEXPIRE", argv[5][2])>>
     ELSE <<argv>>

SelectFor(sel, d) == IF sel # d THEN << <<"SELECT", d>> >> ELSE <<>>

feedAppendOnlyFile(fed, sel, time) ==
  LET one(a, op) == [ops |-> a.ops \o SelectFor(a.sel, op[1]) \o Translated(op[2], time),
                     sel |-> op[1]]
  IN FoldLeft(one, [ops |-> <<>>, sel |-> sel], fed)

\* Mutant: no SELECT is sent.
FeedWithoutSelect(fed, sel) ==
  FoldLeft(LAMBDA a, op : [ops |-> Append(a.ops, op[2]), sel |-> op[1]], [ops |-> <<>>, sel |-> sel], fed)

replicationFeedSlaves(fed, sel) ==
  LET one(a, op) == [ops |-> a.ops \o SelectFor(a.sel, op[1]) \o <<op[2]>>, sel |-> op[1]]
  IN FoldLeft(one, [ops |-> <<>>, sel |-> sel], fed)

\* A dataset after its client ran commands.
Left(c, multi) == [db |-> c.db, exp |-> c.exp, d |-> c.d, multi |-> multi, queue |-> <<>>]

-------------------------------------------------------------------------------
Init ==
  /\ now = 0 /\ steps = 0
  /\ host = [db |-> EmptyKeyspace, exp |-> NoExpires]
  /\ clients = [cl \in Clients |-> NoClient] /\ blocked = NoBlocked
  /\ copy = [f \in Followers |-> EmptyHost]
  /\ seldb = [f \in Followers |-> -1] /\ stream = [f \in Followers |-> <<>>]
  /\ excused = {} /\ lapsed = FALSE /\ seen = [cl \in Clients |-> <<>>]

\* What two datasets have in common whatever the encodings.
Content(o) ==
  IF TypeOf(o) = "hash" THEN Object("hash", Ptr(o).f)
  ELSE IF TypeOf(o) = "set" THEN Object("set", Ptr(o).s)
  ELSE IF TypeOf(o) = "zset" THEN Object("zset", Ptr(o).z) ELSE o
ContentAt(db, p) == Content(db[p[1]][p[2]])

On(cl, rnd, multi) ==
  Context([db |-> host.db, exp |-> host.exp, d |-> clients[cl].d],
          "master", now, rnd, cl, multi, <<"none">>, blocked)

\* touchWatchedKey, for every client that watches one of the keys.
touchWatchedKeys(clis, touched) ==
  [cl \in Clients |-> IF clis[cl].watched \cap touched # {}
                      THEN [clis[cl] EXCEPT !.cas = TRUE] ELSE clis[cl]]

Past == {p \in Dbs \X Keys : host.exp[p[1]][p[2]] >= 0 /\ now > host.exp[p[1]][p[2]]}
\* Keys of which MOVE and SWAPDB change the value and do not say so.
Unsaid(r) == {p \in (Dbs \X Keys) \ r.touched : /\ ContentAt(r.db, p) # ContentAt(host.db, p)
                                               /\ \E op \in Range(r.fed) : op[2][1] \in {"MOVE", "SWAPDB"}}

\* The end of a command with context r, its ready clients served: what it
\* propagated is fed to the file and to the replica.  clis are the clients
\* after it.
Finish(r, clis) ==
  LET a == feedAppendOnlyFile(r.fed, seldb["file"], now)
      s == replicationFeedSlaves(r.fed, seldb["replica"])
  IN /\ host' = [db |-> r.db, exp |-> r.exp]
     /\ blocked' = [bk |-> r.bk, bpop |-> r.bpop]
     /\ clients' = touchWatchedKeys(clis, r.touched)
     /\ stream' = [f \in Followers |-> stream[f] \o (IF f = "file" THEN a.ops ELSE s.ops)]
     /\ seldb' = [f \in Followers |-> IF f = "file" THEN a.sel ELSE s.sel]
     /\ excused' = excused \cup Past \cup Unsaid(r)
     /\ UNCHANGED copy

\* Bounds: the file is followed at once, the replica may lag behind.
Loaded == stream["file"] = <<>>
Followed == Loaded /\ Len(stream["replica"]) <= MaxLag
Ready(cl) == steps < MaxCommands /\ Followed /\ blocked.bpop[cl] = Nil

unwatchAllKeys(c) == [c EXCEPT !.watched = {}]
discardTransaction(c) ==
  unwatchAllKeys([c EXCEPT !.multi = FALSE, !.queue = <<>>, !.cas = FALSE, !.bad = FALSE])

-------------------------------------------------------------------------------
\* processCommand of a client that is not inside a MULTI, and EXEC of one that
\* is, with no key touched and no error.  rnd is the random order it meets.
processCommand(cl, argv, rnd) ==
  LET exec == argv = <<"EXEC">>
      queue == IF exec THEN clients[cl].queue ELSE <<argv>>
  IN /\ Ready(cl) /\ clients[cl].multi = exec
     /\ exec => ~clients[cl].cas /\ ~clients[cl].bad
     /\ \E r \in {handleClientsBlockedOnLists(execCommand(On(cl, rnd, exec), queue, exec))} :
          Finish(r, [clients EXCEPT ![cl] = [IF exec THEN discardTransaction(@) ELSE @ EXCEPT !.d = r.d]])
     /\ lapsed' = (lapsed \/ \E i \in DOMAIN queue :
                      queue[i][1] = "INCRBYFLOAT" /\ (exec \/ host.exp[clients[cl].d][queue[i][2]] # -1))
     /\ seen' = IF exec THEN [seen EXCEPT ![cl] = <<>>] ELSE seen
     /\ steps' = IF exec THEN steps ELSE steps + 1
     /\ UNCHANGED now

\* Commands that touch nothing but the state of the client.
ClientOnly == UNCHANGED <<now, host, blocked, links, excused, lapsed>>

multiCommand(cl) ==
  /\ Ready(cl) /\ ~clients[cl].multi
  /\ clients' = [clients EXCEPT ![cl].multi = TRUE]
  /\ ClientOnly /\ UNCHANGED <<seen, steps>>

queueMultiCommand(cl, argv) ==
  /\ Ready(cl) /\ clients[cl].multi
  /\ clients' = [clients EXCEPT ![cl].queue = Append(@, argv)]
  /\ steps' = steps + 1
  /\ ClientOnly /\ UNCHANGED seen

\* A command that cannot be queued dooms the transaction.
flagTransaction(cl) ==
  /\ Ready(cl) /\ clients[cl].multi
  /\ clients' = [clients EXCEPT ![cl].bad = TRUE]
  /\ ClientOnly /\ UNCHANGED <<seen, steps>>

\* WATCH is refused inside a MULTI.  seen keeps what the client can read now.
watchCommand(cl, k) ==
  LET p == <<clients[cl].d, k>>
  IN /\ Ready(cl) /\ ~clients[cl].multi
     /\ p \notin clients[cl].watched
     /\ clients' = [clients EXCEPT ![cl].watched = @ \cup {p}]
     /\ seen' = [seen EXCEPT ![cl] = [q \in DOMAIN @ \cup {p} |->
                    IF q = p THEN ContentAt(host.db, p) ELSE @[q]]]
     /\ ClientOnly /\ UNCHANGED steps

unwatchCommand(cl) ==
  /\ Ready(cl) /\ ~clients[cl].multi /\ clients[cl].watched # {}
  /\ clients' = [clients EXCEPT ![cl] = unwatchAllKeys([@ EXCEPT !.cas = FALSE])]
  /\ seen' = [seen EXCEPT ![cl] = <<>>]
  /\ ClientOnly /\ UNCHANGED steps

discardCommand(cl) ==
  /\ Ready(cl) /\ clients[cl].multi
  /\ clients' = [clients EXCEPT ![cl] = discardTransaction(@)]
  /\ seen' = [seen EXCEPT ![cl] = <<>>]
  /\ ClientOnly /\ UNCHANGED steps

\* EXEC is refused after a touched key or an error.
ExecRefused(cl) ==
  /\ Ready(cl) /\ clients[cl].multi /\ (clients[cl].cas \/ clients[cl].bad)
  /\ clients' = [clients EXCEPT ![cl] = discardTransaction(@)]
  /\ seen' = [seen EXCEPT ![cl] = <<>>]
  /\ ClientOnly /\ UNCHANGED steps

-------------------------------------------------------------------------------
\* The timer finds a key whose time is over.
ActiveExpire(d, k) ==
  /\ Followed
  /\ host.exp[d][k] >= 0 /\ now > host.exp[d][k]
  /\ \E cl \in Clients : Finish(activeExpireCycleTryExpire(On(cl, <<>>, FALSE), d, k), clients)
  /\ UNCHANGED <<now, seen, lapsed, steps>>

\* A blocked client waits no longer: its timeout, or its disconnection.
GiveUp(cl) ==
  /\ Loaded /\ blocked.bpop[cl] # Nil
  /\ \E c \in {TimedOut(On(cl, <<>>, FALSE), cl)} : blocked' = [bk |-> c.bk, bpop |-> c.bpop]
  /\ UNCHANGED <<now, host, clients, links, histories, steps>>

\* What follower f does with an operation: the replica queues what is between
\* MULTI and EXEC, the loader runs every command at once.  (The loader calls
\* cmd->proc itself; what call() would propagate reaches nobody.)
Queued(f, h, argv) == f = "replica" /\ h.multi /\ argv # <<"EXEC">>

\* A follower executes the next operation of its stream.
Deliver(f, rnd) ==
  /\ stream[f] # <<>> /\ (f = "replica" => Loaded)
  /\ \E argv \in {Head(stream[f])}, h \in {copy[f]} :
       copy' = [copy EXCEPT ![f] =
         IF argv = <<"MULTI">> THEN [h EXCEPT !.multi = TRUE]
         ELSE IF Queued(f, h, argv) THEN [h EXCEPT !.queue = Append(@, argv)]
         ELSE Left(execCommand(Context(h, IF f = "file" THEN "loading" ELSE "slave", IF f = "file" THEN 0 ELSE now,
                                       rnd, f, h.multi, <<"none">>, NoBlocked),
                               IF argv = <<"EXEC">> THEN h.queue ELSE <<argv>>, argv = <<"EXEC">>),
                   h.multi /\ argv # <<"EXEC">>)]
  /\ stream' = [stream EXCEPT ![f] = Tail(@)]
  /\ UNCHANGED <<now, host, clients, blocked, seldb, histories, steps>>

Tick ==
  /\ now < MaxTime /\ Loaded
  /\ now' = now + 1
  /\ UNCHANGED <<host, clients, blocked, links, histories, steps>>

-------------------------------------------------------------------------------
(* Properties. *)
Types == {"none", "string", "list", "hash", "set", "zset"}
\* The state has its types: every key holds a value of a known type, and every
\* client has a database of the server selected (selectDb).
TypeOK ==
  /\ now \in 0..MaxTime /\ steps \in 0..MaxCommands
  /\ \A h \in {host, copy["file"], copy["replica"]}, d \in Dbs, k \in Keys :
       TypeOf(h.db[d][k]) \in Types /\ h.exp[d][k] \in Int
  /\ \A cl \in Clients : clients[cl].d \in Dbs /\ clients[cl].watched \subseteq Dbs \X Keys

\* An expire belongs to a key, no aggregate value is empty, and the compact
\* encodings are kept only within their limits, whatever sequence of commands
\* led here (dbDelete, the deletions of emptied values, hashTypeTryConversion,
\* setTypeAdd).
WellFormed ==
  TypeOK /\ \A d \in Dbs, k \in Keys :
    LET o == host.db[d][k]
    IN /\ o = NULL => host.exp[d][k] = -1
       /\ TypeOf(o) = "list" => Ptr(o) # <<>>
       /\ TypeOf(o) = "hash" =>
            /\ Ptr(o).f # <<>>
            /\ Ptr(o).enc = "ziplist" => /\ hashTypeLength(o) <= MaxHashEntries
                                         /\ \A p \in HashPairs(o) : Len(p[1]) <= MaxHashValue /\ Len(p[2]) <= MaxHashValue
       /\ TypeOf(o) = "set" =>
            /\ Ptr(o).s # {}
            /\ Ptr(o).enc = "intset" => /\ setTypeSize(o) <= MaxIntset
                                        /\ \A v \in Ptr(o).s : isSdsRepresentableAsLongLong(v)
       /\ TypeOf(o) = "zset" =>
            LET z == Ptr(o).z
            IN /\ z # <<>>
               /\ \A i, j \in DOMAIN z : i < j =>
                    z[i][2] < z[j][2] \/ (z[i][2] = z[j][2] /\ sdscmp(z[i][1], z[j][1]) < 0)
               /\ \A i \in DOMAIN z : z[i][2] \in -Inf..Inf
               /\ Ptr(o).enc = "ziplist" => /\ Len(z) <= MaxZsetEntries
                                            /\ \A i \in DOMAIN z : Len(z[i][1]) <= MaxZsetValue

SameKey(h, d, k) == ContentAt(h.db, <<d, k>>) = ContentAt(host.db, <<d, k>>)

\* Loading the append only file gives the dataset of the server, with the same
\* absolute expires, except for the TTL that INCRBYFLOAT does not propagate
\* (feedAppendOnlyFile, the rewritten command vectors, alsoPropagate).
AofReloads ==
  Loaded => \A d \in Dbs, k \in Keys :
    /\ SameKey(copy["file"], d, k)
    /\ lapsed \/ copy["file"].exp[d][k] = host.exp[d][k]

\* A replica that has executed the whole stream has the dataset of its master.
\* Its expires are relative to when it executed them, so never earlier.
ReplicaAgrees ==
  stream["replica"] = <<>> => \A d \in Dbs, k \in Keys :
    /\ SameKey(copy["replica"], d, k)
    /\ \/ lapsed
       \/ /\ (copy["replica"].exp[d][k] = -1) = (host.exp[d][k] = -1)
          /\ copy["replica"].exp[d][k] >= host.exp[d][k]

\* EXEC cannot miss a change: a client not flagged CLIENT_DIRTY_CAS sees in
\* its watched keys what it saw at WATCH, but for MOVE, SWAPDB and expiry,
\* which signal no key (signalModifiedKey, touchWatchedKey).
WatchedUnchanged ==
  \A cl \in Clients : \A p \in clients[cl].watched :
    clients[cl].cas \/ p \in excused \/ ContentAt(host.db, p) = seen[cl][p]

\* No client stays blocked on a key of its database that holds a list
\* (dbAdd, scanDatabaseForReadyLists, handleClientsBlockedOnLists).
NoLostWakeup ==
  \A cl \in Clients : blocked.bpop[cl] # Nil =>
    \A k \in blocked.bpop[cl][1] : TypeOf(host.db[blocked.bpop[cl][4]][k]) # "list"

\* A client is queued on exactly the keys it waits for, once on each
\* (blockForKeys, unblockClientWaitingData).
QueuedWhereBlocked ==
  \A cl \in Clients, d \in Dbs, k \in Keys :
    LET q == blocked.bk[d][k]
    IN Cardinality({i \in DOMAIN q : q[i] = cl}) =
         IF blocked.bpop[cl] # Nil /\ d = blocked.bpop[cl][4] /\ k \in blocked.bpop[cl][1] THEN 1 ELSE 0

\* A blocked client waits in the right queues and for nothing that is there
\* (blockForKeys, handleClientsBlockedOnLists).
BlockedAreServed == NoLostWakeup /\ QueuedWhereBlocked

\* A step that serves a client served every client that had been waiting for
\* the same key before it (the order of db->blocking_keys).
ServedInOrder ==
  [][ \A d \in Dbs, k \in Keys :
        LET q == blocked.bk[d][k]
            served(i) == blocked.bpop[q[i]] # Nil /\ blocked'.bpop[q[i]] = Nil
        IN \A i, j \in DOMAIN q :
             /\ i < j /\ served(j) /\ blocked.bpop[q[j]][1] = {k} /\ stream' # stream
             => served(i) ]_vars
===============================================================================
