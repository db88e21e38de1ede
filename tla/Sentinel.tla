------------------------------ MODULE Sentinel ------------------------------
(***************************************************************************)
(* The failover of one monitored master by a group of Redis Sentinels:     *)
(* redis-stable/src/sentinel.c.  Each Sentinel is one single-threaded       *)
(* process, so an action is one call from its event loop: the timer on an   *)
(* instance, a reply, a command, a Hello message.  The C functions that     *)
(* change a Sentinel's memory are operators from record to record, so that  *)
(* a handler is the composition the code makes of them.                     *)
(*                                                                          *)
(* Time is abstracted: a test "mstime() - t > period" is a choice of the    *)
(* action, except that failover_start_time keeps the one fact elections     *)
(* depend on (field recent).  All Sentinels know one another, as after       *)
(* their first Hello messages.                                              *)
(***************************************************************************)
EXTENDS Integers, FiniteSets

CONSTANTS
    Sentinels,      \* the Sentinel processes (their run ids)
    Redis,          \* the Redis instances (their addresses)
    None,
    FirstMaster,    \* the address in the first "sentinel monitor" line
    Quorum,         \* its <quorum>
    ParallelSyncs,  \* master->parallel_syncs
    MaxEpoch,       \* bound: no failover starts beyond this epoch
    MaxFaults       \* bound: crashes, tilts, lost links, timeouts, instances
                    \* that go down or come back, forced failovers

ASSUME SentinelAssumption ==
    /\ None \notin Sentinels \cup Redis /\ IsFiniteSet(Sentinels)
    /\ FirstMaster \in Redis
    /\ Quorum \in Nat \ {0} /\ ParallelSyncs \in Nat \ {0}
    /\ MaxEpoch \in Nat /\ MaxFaults \in Nat

VARIABLES
    st,        \* the memory of each Sentinel
    redis,     \* the master each Redis instance replicates (None: a master)
    link,      \* link[s][t]: the request or reply between s and t, or None
    slaveof,   \* SLAVEOF commands accepted for delivery
    hellos,    \* Hello payloads published so far
    faults,
    cast,      \* history: every vote given, <<voter, epoch, candidate>>
    elected    \* history: every election won

vars == <<st, redis, link, slaveof, hellos, faults, cast, elected>>

\* SENTINEL_FAILOVER_STATE_*
NONE == 0
WAIT_START == 1
SELECT_SLAVE == 2
SEND_SLAVEOF_NOONE == 3
WAIT_PROMOTION == 4
RECONF_SLAVES == 5
UPDATE_CONFIG == 6

-----------------------------------------------------------------------------
(* Persistence. *)

sentinelGetCurrentMasterAddress(x) ==
    IF "FAILOVER" \in x.flags /\ x.promoted # None
       /\ x.failover_state >= RECONF_SLAVES
    THEN x.promoted ELSE x.addr

rewriteConfigSentinelOption(x) ==
    LET now == sentinelGetCurrentMasterAddress(x)
    IN [current_epoch |-> x.current_epoch, config_epoch |-> x.config_epoch,
        leader_epoch |-> x.leader_epoch, addr |-> now,
        slaves |-> {IF r = now THEN x.addr ELSE r : r \in x.slaves}]

sentinelFlushConfig(x) == [x EXCEPT !.disk = rewriteConfigSentinelOption(x)]

\* A peer as it is first created, and the flags of a new slave.
NoPeer == [down |-> FALSE, leader |-> None, leader_epoch |-> 0]
NoFlags == [r \in Redis |-> {}]

\* The memory of a Sentinel that has read the configuration file d.
sentinelHandleConfiguration(d) ==
    [current_epoch |-> IF d.config_epoch > d.current_epoch
                       THEN d.config_epoch ELSE d.current_epoch,
     config_epoch |-> d.config_epoch, leader_epoch |-> d.leader_epoch,
     leader |-> None, addr |-> d.addr, slaves |-> d.slaves, flags |-> {},
     sflags |-> NoFlags, failover_state |-> NONE, failover_epoch |-> 0,
     promoted |-> None, reported |-> "master", recent |-> {}, leads |-> FALSE,
     peers |-> [t \in Sentinels |-> NoPeer], tilt |-> FALSE, out |-> {},
     disk |-> d]

Init ==
    /\ st = [s \in Sentinels |-> sentinelHandleConfiguration(
                [current_epoch |-> 0, config_epoch |-> 0, leader_epoch |-> 0,
                 addr |-> FirstMaster, slaves |-> Redis \ {FirstMaster}])]
    /\ redis = [r \in Redis |-> IF r = FirstMaster THEN None ELSE FirstMaster]
    /\ link = [s \in Sentinels |-> [t \in Sentinels |-> None]]
    /\ slaveof = {} /\ hellos = {} /\ faults = 0
    /\ cast = {} /\ elected = {}

-----------------------------------------------------------------------------
(* Resetting a master, and switching it to another address. *)

sentinelResetMaster(x) ==
    [x EXCEPT !.slaves = {}, !.sflags = NoFlags, !.flags = {}, !.leader = None,
              !.failover_state = NONE, !.recent = {}, !.promoted = None,
              !.reported = "master"]

sentinelResetMasterAndChangeAddress(x, new) ==
    LET back == (x.slaves \ {new}) \cup (IF new # x.addr THEN {x.addr} ELSE {})
    IN sentinelFlushConfig([sentinelResetMaster(x) EXCEPT !.addr = new,
                                                          !.slaves = back])

sentinelFailoverSwitchToPromotedSlave(x) ==
    sentinelResetMasterAndChangeAddress(
        x, IF x.promoted # None THEN x.promoted ELSE x.addr)

-----------------------------------------------------------------------------
(* Voting.  P is the set of elections in progress, so that recent says       *)
(* which of them are not older than failover_start_time.                     *)

Waiting == {<<s, st[s].failover_epoch>> :
               s \in {t \in Sentinels : st[t].failover_state = WAIT_START}}

\* A bug: a vote is given again in the epoch it was given in.
VoteAgain(x, me, req_epoch, req_runid, P) ==
    LET y == IF req_epoch > x.current_epoch
             THEN sentinelFlushConfig([x EXCEPT !.current_epoch = req_epoch])
             ELSE x
    IN IF y.leader_epoch <= req_epoch /\ y.current_epoch <= req_epoch
       THEN [sentinelFlushConfig([y EXCEPT !.leader = req_runid,
                                           !.leader_epoch = y.current_epoch])
             EXCEPT !.recent = IF req_runid # me THEN P ELSE y.recent]
       ELSE y

sentinelVoteLeader(x, me, req_epoch, req_runid, P) ==
    LET y == IF req_epoch > x.current_epoch
             THEN sentinelFlushConfig([x EXCEPT !.current_epoch = req_epoch])
             ELSE x
    IN IF y.leader_epoch < req_epoch /\ y.current_epoch <= req_epoch
       THEN [sentinelFlushConfig([y EXCEPT !.leader = req_runid,
                                           !.leader_epoch = y.current_epoch])
             EXCEPT !.recent = IF req_runid # me THEN P ELSE y.recent]
       ELSE y

\* The votes the peers reported for c, and the candidates that lead (the one
\* found first in the dictionary wins a tie).
VotesFor(x, me, c) ==
    Cardinality({t \in Sentinels \ {me} :
        x.peers[t].leader = c /\ x.peers[t].leader_epoch = x.current_epoch})

MostVoted(x, me) ==
    {c \in Sentinels : /\ VotesFor(x, me, c) > 0
                       /\ \A d \in Sentinels :
                             VotesFor(x, me, d) <= VotesFor(x, me, c)}

\* The first half of sentinelGetLeader: this Sentinel votes, if it still can,
\* for the leading candidate w, or for itself.
CountMyVote(x, me, w, P) ==
    sentinelVoteLeader(x, me, x.failover_epoch,
                       IF w # None THEN w ELSE me, P)

\* The second half: the winner, or None, after this Sentinel has voted (y).
sentinelGetLeader(x, y, me, w) ==
    LET max == IF w # None THEN VotesFor(x, me, w) ELSE 0
        mine == IF y.leader # None /\ y.leader_epoch = x.failover_epoch
                THEN VotesFor(x, me, y.leader) + 1 ELSE 0
        winner == IF mine > max THEN y.leader ELSE w
        votes == IF mine > max THEN mine ELSE max
    IN IF votes < Cardinality(Sentinels) \div 2 + 1 \/ votes < Quorum
       THEN None ELSE winner

-----------------------------------------------------------------------------
(* Availability checks. *)

sentinelCheckSubjectivelyDown(x, down) ==
    [x EXCEPT !.flags = IF down THEN @ \cup {"S_DOWN"} ELSE @ \ {"S_DOWN"}]

sentinelCheckObjectivelyDown(x, me) ==
    LET agree == {t \in Sentinels \ {me} : x.peers[t].down}
    IN [x EXCEPT !.flags =
           IF "S_DOWN" \in @ /\ 1 + Cardinality(agree) >= Quorum
           THEN @ \cup {"O_DOWN"} ELSE @ \ {"O_DOWN"}]

\* Peers whose last answer is too old (stale) are forgotten.
ForgetStale(x, stale) ==
    [x EXCEPT !.peers = [t \in Sentinels |->
        IF t \in stale THEN [@[t] EXCEPT !.down = FALSE, !.leader = None]
        ELSE @[t]]]

\* The requests sent: one outstanding request per link (a bound).
sentinelAskMasterStateToOtherSentinels(x, me) ==
    [t \in Sentinels |->
        IF t # me /\ "S_DOWN" \in x.flags /\ link[me][t] = None
        THEN [kind |-> "ask", addr |-> x.addr, epoch |-> x.current_epoch,
              runid |-> IF x.failover_state > NONE THEN me ELSE None]
        ELSE link[me][t]]

-----------------------------------------------------------------------------
(* The failover state machine.  timeout says whether the timeout the state   *)
(* tests has elapsed; conn are the slaves whose link is connected.           *)

sentinelStartFailover(x, me, P) ==
    [x EXCEPT !.failover_state = WAIT_START, !.flags = @ \cup {"FAILOVER"},
              !.current_epoch = @ + 1, !.failover_epoch = x.current_epoch + 1,
              !.recent = P]

\* A vote or a start delays the next start by 2*failover_timeout, which
\* outlasts every election that was waiting then.
sentinelStartFailoverIfNeeded(x, P) ==
    /\ "O_DOWN" \in x.flags
    /\ "FAILOVER" \notin x.flags
    /\ x.recent \cap P = {}
    /\ x.current_epoch < MaxEpoch

AbortKeepsFlag(x) ==
    [x EXCEPT !.failover_state = NONE, !.promoted = None]

sentinelAbortFailover(x) ==
    [x EXCEPT !.flags = @ \ {"FAILOVER", "FORCE"}, !.failover_state = NONE,
              !.sflags = [r \in Redis |-> IF r = x.promoted
                                          THEN @[r] \ {"PROMOTED"} ELSE @[r]],
              !.promoted = None]

sentinelFailoverWaitStart(x, me, w, P, timeout) ==
    LET y == CountMyVote(x, me, w, P)
        isleader == sentinelGetLeader(x, y, me, w) = me
    IN IF ~isleader /\ "FORCE" \notin x.flags
       THEN IF timeout THEN sentinelAbortFailover(y) ELSE y
       ELSE [y EXCEPT !.failover_state = SELECT_SLAVE, !.leads = isleader]

\* The slaves that can be promoted; the age of their answers and their
\* priority are in the choice of good.
sentinelSelectSlave(x, good) == {r \in x.slaves \cap good : "S_DOWN" \notin x.sflags[r]}

sentinelFailoverSelectSlave(x, r) ==
    IF r = None THEN sentinelAbortFailover(x)
    ELSE [x EXCEPT !.sflags[r] = @ \cup {"PROMOTED"}, !.promoted = r,
                   !.failover_state = SEND_SLAVEOF_NOONE]

sentinelSendSlaveOf(x, r, host) == [x EXCEPT !.out = @ \cup {<<r, host>>}]

sentinelFailoverSendSlaveOfNoOne(x, conn, timeout) ==
    IF x.promoted \notin conn
    THEN IF timeout THEN sentinelAbortFailover(x) ELSE x
    ELSE [sentinelSendSlaveOf(x, x.promoted, None)
          EXCEPT !.failover_state = WAIT_PROMOTION]

sentinelFailoverWaitPromotion(x, timeout) ==
    IF timeout THEN sentinelAbortFailover(x) ELSE x

\* On a timeout every slave not yet told gets a last SLAVEOF.
sentinelFailoverDetectEnd(x, conn, timeout) ==
    LET left == {r \in x.slaves :
                   x.sflags[r] \cap {"PROMOTED", "RECONF_DONE", "S_DOWN"} = {}}
        last == {r \in x.slaves \cap conn :
                   x.sflags[r] \cap {"RECONF_DONE", "RECONF_SENT"} = {}}
    IN IF x.promoted = None \/ "S_DOWN" \in x.sflags[x.promoted] THEN x
       ELSE IF timeout
       THEN [x EXCEPT !.failover_state = UPDATE_CONFIG,
                      !.out = @ \cup {<<r, x.promoted>> : r \in last},
                      !.sflags = [r \in Redis |->
                          IF r \in last THEN @[r] \cup {"RECONF_SENT"} ELSE @[r]]]
       ELSE IF left = {} THEN [x EXCEPT !.failover_state = UPDATE_CONFIG] ELSE x

\* The slaves told to replicate the promoted one in this call (told): at most
\* ParallelSyncs at a time, in the dictionary's order.  slow are the slaves
\* that took longer than SENTINEL_SLAVE_RECONF_TIMEOUT after RECONF_SENT.
CanReconf(x, told, slow, conn) ==
    LET todo == {r \in x.slaves : x.sflags[r] \cap {"PROMOTED", "RECONF_DONE"} = {}}
        busy == {r \in x.slaves : x.sflags[r] \cap {"RECONF_SENT", "RECONF_INPROG"} # {}}
        free == {r \in todo \cap conn : r \notin busy \/ r \in slow}
        room == ParallelSyncs - Cardinality(busy)
    IN /\ slow \subseteq {r \in todo : "RECONF_SENT" \in x.sflags[r]}
       /\ room <= 0 => slow = {}
       /\ slow \cap conn \subseteq told
       /\ told \subseteq free
       /\ Cardinality(told) = IF room <= 0 THEN 0
                              ELSE IF room < Cardinality(free) THEN room
                              ELSE Cardinality(free)

sentinelFailoverReconfNextSlave(x, told, slow, conn, timeout) ==
    LET y == [x EXCEPT !.out = @ \cup {<<r, x.promoted>> : r \in told},
                       !.sflags = [r \in Redis |->
                 (IF r \in slow THEN (@[r] \ {"RECONF_SENT"}) \cup {"RECONF_DONE"}
                  ELSE @[r]) \cup (IF r \in told THEN {"RECONF_SENT"} ELSE {})]]
    IN sentinelFailoverDetectEnd(y, conn, timeout)

-----------------------------------------------------------------------------
(* Every handler ends by handing its new memory over: commands leave through *)
(* the links, and the histories record the votes and the elections.          *)

Commit(s, x) ==
    /\ st' = [st EXCEPT ![s] = [x EXCEPT !.out = {}]]
    /\ slaveof' = slaveof \cup x.out
    /\ cast' = IF x.leader_epoch # st[s].leader_epoch
               THEN cast \cup {<<s, x.leader_epoch, x.leader>>} ELSE cast
    /\ elected' = IF /\ st[s].failover_state <= WAIT_START
                     /\ x.failover_state = SELECT_SLAVE /\ x.leads
                  THEN elected \cup {[leader |-> s, epoch |-> x.failover_epoch,
                                      current |-> x.current_epoch]}
                  ELSE elected

\* What sentinelFailoverStateMachine makes of x, by its state.
sentinelFailoverStateMachine(x, me, P, timeout, conn) ==
    IF "FAILOVER" \notin x.flags THEN {x}
    ELSE CASE x.failover_state = WAIT_START ->
                {sentinelFailoverWaitStart(x, me, w, P, timeout) :
                    w \in IF MostVoted(x, me) = {} THEN {None} ELSE MostVoted(x, me)}
           [] x.failover_state = SELECT_SLAVE ->
                {sentinelFailoverSelectSlave(x, r) :
                    r \in sentinelSelectSlave(x, Redis) \cup {None}}
           [] x.failover_state = SEND_SLAVEOF_NOONE ->
                {sentinelFailoverSendSlaveOfNoOne(x, conn, timeout)}
           [] x.failover_state = WAIT_PROMOTION ->
                {sentinelFailoverWaitPromotion(x, timeout)}
           [] x.failover_state = RECONF_SLAVES ->
                UNION {{sentinelFailoverReconfNextSlave(x, told, slow, conn, timeout) :
                          slow \in {z \in SUBSET x.slaves :
                                      CanReconf(x, told, z, conn)}} :
                       told \in SUBSET x.slaves}
           [] OTHER -> {x}

\* In TILT mode a timer call only monitors (no step here) until the call that
\* finds SENTINEL_TILT_PERIOD over, leaves the mode and acts.
TiltOver(x) == [x EXCEPT !.tilt = FALSE]

\* sentinelHandleRedisInstance on the master, from the timer, with the switch
\* that ends sentinelHandleDictOfRedisInstances.
sentinelHandleMaster(s) ==
    \E down, timeout \in BOOLEAN, stale \in {{}, Sentinels \ {s}},
       conn \in {st[s].slaves} \cup {st[s].slaves \ {r} : r \in Redis} :
      LET x == sentinelCheckObjectivelyDown(
                  sentinelCheckSubjectivelyDown(TiltOver(st[s]), down), s)
          started == sentinelStartFailoverIfNeeded(x, Waiting)
          y == IF started THEN sentinelStartFailover(x, s, Waiting) ELSE x
          bad == (IF stale # {} THEN 1 ELSE 0)
                 + (IF timeout THEN 1 ELSE 0)
                 + (IF conn # st[s].slaves THEN 1 ELSE 0)
                 + (IF "S_DOWN" \in st[s].flags /\ ~down THEN 1 ELSE 0)
      IN /\ faults + bad <= MaxFaults /\ faults' = faults + bad
         /\ \E z \in sentinelFailoverStateMachine(y, s, Waiting, timeout, conn) :
               LET f == ForgetStale(z, stale)
               IN /\ link' = [link EXCEPT ![s] =
                                 sentinelAskMasterStateToOtherSentinels(f, s)]
                  /\ Commit(s, IF f.failover_state = UPDATE_CONFIG
                               THEN sentinelFailoverSwitchToPromotedSlave(f) ELSE f)
         /\ UNCHANGED <<redis, hellos>>

\* The same timer on a slave: only its own S_DOWN flag.  A slave going down
\* counts as a fault.
sentinelHandleSlave(s, r) ==
    /\ r \in st[s].slaves
    /\ \/ /\ "S_DOWN" \in st[s].sflags[r]
          /\ Commit(s, [TiltOver(st[s]) EXCEPT !.sflags[r] = @ \ {"S_DOWN"}])
          /\ UNCHANGED faults
       \/ /\ "S_DOWN" \notin st[s].sflags[r] /\ faults < MaxFaults
          /\ Commit(s, [TiltOver(st[s]) EXCEPT !.sflags[r] = @ \cup {"S_DOWN"}])
          /\ faults' = faults + 1
    /\ UNCHANGED <<redis, link, hellos>>

\* SENTINEL IS-MASTER-DOWN-BY-ADDR at t, asked by s; the reply goes back.
isMasterDownByAddr(s, t) ==
    LET m == link[s][t]
        known == m.addr = st[t].addr
        down == ~st[t].tilt /\ known /\ "S_DOWN" \in st[t].flags
        y == IF known /\ m.runid # None
             THEN sentinelVoteLeader(st[t], t, m.epoch, m.runid, Waiting) ELSE st[t]
        vote == IF known /\ m.runid # None THEN y.leader ELSE None
    IN /\ m # None /\ m.kind = "ask"
       /\ link' = [link EXCEPT ![s][t] =
             [kind |-> "reply", down |-> down, leader |-> vote,
              epoch |-> IF vote # None THEN y.leader_epoch ELSE 0]]
       /\ Commit(t, y)
       /\ UNCHANGED <<redis, hellos, faults>>

sentinelReceiveIsMasterDownReply(s, t) ==
    LET m == link[s][t]
        p == [st[s].peers[t] EXCEPT !.down = m.down]
    IN /\ m # None /\ m.kind = "reply"
       /\ Commit(s, [st[s] EXCEPT !.peers[t] =
             IF m.leader # None
             THEN [p EXCEPT !.leader = m.leader, !.leader_epoch = m.epoch] ELSE p])
       /\ link' = [link EXCEPT ![s][t] = None]
       /\ UNCHANGED <<redis, hellos, faults>>

-----------------------------------------------------------------------------
(* INFO, Hello messages and commands. *)

sentinelMasterLooksSane(x) ==
    x.reported = "master" /\ x.flags \cap {"S_DOWN", "O_DOWN"} = {}

\* Slaves the master lists and this Sentinel did not know.
AddSlaves(x, replicas) ==
    IF replicas \subseteq x.slaves THEN x
    ELSE sentinelFlushConfig([x EXCEPT !.slaves = @ \cup replicas])

\* A slave that says it is a master: the promotion is acknowledged, or (waited
\* for long enough) the instance is turned back into a slave.
SlaveTurnedMaster(x, r, long) ==
    IF "PROMOTED" \in x.sflags[r] /\ "FAILOVER" \in x.flags
       /\ x.failover_state = WAIT_PROMOTION
    THEN sentinelFlushConfig([x EXCEPT !.config_epoch = x.failover_epoch,
                                       !.failover_state = RECONF_SLAVES])
    ELSE IF "PROMOTED" \notin x.sflags[r] /\ sentinelMasterLooksSane(x) /\ long
    THEN sentinelSendSlaveOf(x, r, x.addr) ELSE x

\* A slave that says it replicates host: put right if host is not our master,
\* and followed through RECONF_SENT, RECONF_INPROG, RECONF_DONE.
SlaveReplicates(x, r, host, up, long) ==
    LET y == IF host # x.addr /\ sentinelMasterLooksSane(x) /\ long
             THEN sentinelSendSlaveOf(x, r, x.addr) ELSE x
        begun == "RECONF_SENT" \in x.sflags[r] /\ host = x.promoted
        f == IF begun THEN (x.sflags[r] \ {"RECONF_SENT"}) \cup {"RECONF_INPROG"}
             ELSE x.sflags[r]
        g == IF "RECONF_INPROG" \in f /\ up
             THEN (f \ {"RECONF_INPROG"}) \cup {"RECONF_DONE"} ELSE f
    IN [y EXCEPT !.sflags[r] = g]

sentinelRefreshInstanceInfo(s, r) ==
    /\ r \in st[s].slaves \cup {st[s].addr}
    /\ \E up, long \in BOOLEAN :
         LET x == IF r = st[s].addr
                  THEN AddSlaves([st[s] EXCEPT !.reported =
                                    IF redis[r] = None THEN "master" ELSE "slave"],
                                 {q \in Redis \ {r} : redis[q] = r})
                  ELSE st[s]
         IN /\ faults + (IF long THEN 1 ELSE 0) <= MaxFaults
            /\ faults' = faults + (IF long THEN 1 ELSE 0)
            /\ Commit(s, IF r = st[s].addr \/ x.tilt THEN x
                         ELSE IF redis[r] = None THEN SlaveTurnedMaster(x, r, long)
                         ELSE SlaveReplicates(x, r, redis[r], up, long))
    /\ UNCHANGED <<redis, link, hellos>>

\* SLAVEOF reaches the instance.
slaveofCommand(c) ==
    /\ c \in slaveof
    /\ redis' = [redis EXCEPT ![c[1]] = c[2]]
    /\ slaveof' = slaveof \ {c}
    /\ UNCHANGED <<st, link, hellos, faults, cast, elected>>

\* Only messages that are news to some Sentinel: the others change nothing.
sentinelSendHello(s) ==
    /\ \E t \in Sentinels : \/ st[t].current_epoch < st[s].current_epoch
                            \/ st[t].config_epoch < st[s].config_epoch
    /\ hellos' = hellos \cup {[current_epoch |-> st[s].current_epoch,
                               addr |-> sentinelGetCurrentMasterAddress(st[s]),
                               config_epoch |-> st[s].config_epoch]}
    /\ UNCHANGED <<st, redis, link, slaveof, faults, cast, elected>>

HelloAnyConfig(s, h) ==
    LET y == [st[s] EXCEPT !.config_epoch = h.config_epoch]
    IN /\ Commit(s, IF h.addr # y.addr
                    THEN sentinelResetMasterAndChangeAddress(y, h.addr) ELSE y)
       /\ UNCHANGED <<redis, link, hellos, faults>>

sentinelProcessHelloMessage(s, h) ==
    LET x == IF h.current_epoch > st[s].current_epoch
             THEN sentinelFlushConfig([st[s] EXCEPT !.current_epoch = h.current_epoch])
             ELSE st[s]
        y == [x EXCEPT !.config_epoch = h.config_epoch]
    IN /\ Commit(s, IF x.config_epoch >= h.config_epoch THEN x
                    ELSE IF h.addr # x.addr
                    THEN sentinelResetMasterAndChangeAddress(y, h.addr) ELSE y)
       /\ UNCHANGED <<redis, link, hellos, faults>>

\* SENTINEL FAILOVER: a failover the user forces, without an election.
failoverCommand(s) ==
    /\ "FAILOVER" \notin st[s].flags
    /\ sentinelSelectSlave(st[s], Redis) # {}
    /\ st[s].current_epoch < MaxEpoch
    /\ Commit(s, [sentinelStartFailover(st[s], s, Waiting)
                  EXCEPT !.flags = @ \cup {"FORCE"}])
    /\ UNCHANGED <<redis, link, hellos>>

\* The current epoch is shared by every monitored master: a failover of
\* another one, which s starts and votes in, raises it.
OtherMasterFailover(s) ==
    /\ st[s].current_epoch < MaxEpoch
    /\ Commit(s, sentinelFlushConfig([st[s] EXCEPT !.current_epoch = @ + 1]))
    /\ UNCHANGED <<redis, link, hellos>>

-----------------------------------------------------------------------------
(* Faults: the process dies and restarts from its file, the clock jumps, a   *)
(* link breaks and what was on it is lost.                                   *)

Crash(s) ==
    /\ st' = [st EXCEPT ![s] = sentinelHandleConfiguration(st[s].disk)]
    /\ link' = [t \in Sentinels |-> [u \in Sentinels |->
                   IF s \in {t, u} THEN None ELSE link[t][u]]]
    /\ UNCHANGED <<redis, slaveof, hellos, cast, elected>>

sentinelCheckTiltCondition(s) ==
    /\ Commit(s, [st[s] EXCEPT !.tilt = TRUE])
    /\ UNCHANGED <<redis, link, hellos>>

instanceLinkConnectionError(s, t) ==
    /\ link[s][t] # None
    /\ link' = [link EXCEPT ![s][t] = None]
    /\ UNCHANGED <<st, redis, slaveof, hellos, cast, elected>>

Fault ==
    /\ faults < MaxFaults
    /\ faults' = faults + 1
    /\ \E s \in Sentinels :
         \/ failoverCommand(s)
         \/ OtherMasterFailover(s)
         \/ Crash(s)
         \/ sentinelCheckTiltCondition(s)
         \/ \E t \in Sentinels : instanceLinkConnectionError(s, t)

Next ==
    \/ \E s \in Sentinels :
         \/ sentinelHandleMaster(s)
         \/ \E r \in Redis : sentinelHandleSlave(s, r)
         \/ \E r \in Redis : sentinelRefreshInstanceInfo(s, r)
         \/ \E t \in Sentinels : isMasterDownByAddr(s, t)
         \/ \E t \in Sentinels : sentinelReceiveIsMasterDownReply(s, t)
         \/ sentinelSendHello(s)
         \/ \E h \in hellos : sentinelProcessHelloMessage(s, h)
    \/ \E c \in slaveof : slaveofCommand(c)
    \/ Fault

Spec == Init /\ [][Next]_vars

-----------------------------------------------------------------------------
(* Properties. *)

\* Every field holds what its code type and comments allow.
TypeOK ==
    /\ \A s \in Sentinels :
         /\ {st[s].current_epoch, st[s].config_epoch, st[s].leader_epoch} \subseteq Nat
         /\ st[s].leader \in Sentinels \cup {None}
         /\ st[s].addr \in Redis /\ st[s].slaves \subseteq Redis
         /\ st[s].promoted \in Redis \cup {None}
         /\ st[s].failover_state \in NONE..RECONF_SLAVES
    /\ redis \in [Redis -> Redis \cup {None}]

\* The elections decided while the current epoch still was the failover's own.
won == {<<e.leader, e.epoch>> : e \in {f \in elected : f.epoch = f.current}}

Election == INSTANCE SentinelElection WITH Epochs <- 0..MaxEpoch

\* Those elections are the ones SentinelElection specifies: the messages, the
\* dictionary of peers, restarts and lost replies implement single votes and
\* majorities, so an epoch has one such leader.
ImplementsElection == Election!Spec

\* What the comment over sentinelGetLeader says of every election: the leader
\* has the votes of a majority for the epoch of its failover.
LeaderHasItsEpoch ==
    \A e \in elected : Election!Majority(cast, e.leader, e.epoch)

\* What the comment over the last SLAVEOF of a failover says: it goes to the
\* slaves that are still to replicate the new master, not to that master.
NoneReplicatesItself == \A c \in slaveof : c[1] # c[2]

\* The promoted slave is there whenever the code dereferences it without a
\* test: while a slave is being reconfigured (sentinelRefreshInstanceInfo) and
\* in the states that talk to it; and a failover has a state exactly while it
\* is in progress.
PromotedIsThere ==
    TypeOK /\ \A s \in Sentinels :
        /\ \/ \E r \in st[s].slaves :
                  st[s].sflags[r] \cap {"RECONF_SENT", "RECONF_INPROG"} # {}
           \/ st[s].failover_state >= SEND_SLAVEOF_NOONE
           => st[s].promoted \in st[s].slaves
        /\ "FAILOVER" \in st[s].flags <=> st[s].failover_state # NONE

\* No handler, hello or restart gives a Sentinel an older vote or an older
\* current epoch in its file, nor an address of an older configuration.  The
\* one exception: a Hello with a newer epoch and no other address is not saved,
\* so a restart while slaves are reconfigured goes on with the promoted slave.
EpochsNeverFall ==
    [][\A s \in Sentinels :
        /\ \/ st'[s].config_epoch >= st[s].config_epoch
           \/ st'[s].addr = st[s].addr
           \/ st[s].failover_state = RECONF_SLAVES /\ st'[s].addr = st[s].promoted
        /\ st'[s].leader_epoch >= st[s].leader_epoch
        /\ st'[s].disk.current_epoch >= st[s].disk.current_epoch]_vars
=============================================================================
