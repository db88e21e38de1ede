--------------------------- MODULE SentinelProofs ---------------------------
(***************************************************************************)
(* For every group of Sentinels, every set of Redis instances and all       *)
(* bounds: the promoted slave is there when it is needed, votes and          *)
(* configurations never get older, and the elections decided in their own    *)
(* epoch are those of SentinelElection.                                      *)
(***************************************************************************)
EXTENDS SentinelSteps

\* sentinelHandleRedisInstance, for a slave.
LEMMA HandleSlaveStep ==
    ASSUME IInv, NEW s \in Sentinels, NEW r \in Redis, sentinelHandleSlave(s, r)
    PROVE  IInv' /\ Steps
<1> DEFINE x == st[s]
           down == [TiltOver(x) EXCEPT !.sflags[r] = x.sflags[r] \cup {"S_DOWN"}]
           back == [TiltOver(x) EXCEPT !.sflags[r] = x.sflags[r] \ {"S_DOWN"}]
<1>1. Sane(x) /\ x.failover_state <= RECONF_SLAVES /\ x \in Memory
    BY MemoryFacts
<1>2. TiltOver(x) \in Memory /\ TiltOver(x).sflags = x.sflags
    BY Zenon, <1>1 DEF TiltOver, Memory
<1>3. /\ [TiltOver(x) EXCEPT !.sflags[r] = @ \cup {"S_DOWN"}] = down
      /\ [TiltOver(x) EXCEPT !.sflags[r] = @ \ {"S_DOWN"}] = back
    BY <1>2
<1>4. /\ Follows(x, down) /\ down.failover_state = x.failover_state
      /\ Follows(x, back) /\ back.failover_state = x.failover_state
    BY <1>1, SlaveDownFollows
<1>5. Commit(s, down) \/ Commit(s, back)
    BY <1>3 DEF sentinelHandleSlave
<1>6. UNCHANGED <<redis, hellos, link>>
    BY DEF sentinelHandleSlave
<1> HIDE DEF down, back
<1> QED
    BY Zenon, <1>1, <1>4, <1>5, <1>6, FollowStep

\* sentinelRefreshInstanceInfo, with the slave that turned into a master.
LEMMA RefreshStep ==
    ASSUME IInv, NEW s \in Sentinels, NEW r \in Redis, sentinelRefreshInstanceInfo(s, r)
    PROVE  IInv' /\ Steps
<1>1. /\ Sane(st[s]) /\ Backed(s, st[s]) /\ st[s].failover_state <= RECONF_SLAVES
      /\ st[s] \in Memory /\ redis[r] \in Instance /\ r \in st[s].slaves \cup {st[s].addr}
    BY MemoryFacts DEF IInv, World, sentinelRefreshInstanceInfo
<1>2. UNCHANGED <<redis, hellos, link>>
    BY DEF sentinelRefreshInstanceInfo
<1> DEFINE role == IF redis[r] = None THEN "master" ELSE "slave"
           replicas == {q \in Redis \ {r} : redis[q] = r}
           y == [st[s] EXCEPT !.reported = role]
           x == IF r = st[s].addr THEN AddSlaves(y, replicas) ELSE st[s]
<1>3. PICK up \in BOOLEAN, long \in BOOLEAN :
         Commit(s, IF r = st[s].addr \/ x.tilt THEN x
                   ELSE IF redis[r] = None THEN SlaveTurnedMaster(x, r, long)
                   ELSE SlaveReplicates(x, r, redis[r], up, long))
    BY Zenon DEF sentinelRefreshInstanceInfo
<1>4. CASE r = st[s].addr
    <2>1. role \in {"master", "slave"} /\ replicas \in SUBSET Redis
        OBVIOUS
    <2> HIDE DEF role, replicas
    <2>2. Follows(st[s], y) /\ y.failover_state = st[s].failover_state
        BY Zenon, <1>1, <2>1, ReportedFollows
    <2> HIDE DEF y
    <2>3. /\ Follows(y, AddSlaves(y, replicas))
          /\ AddSlaves(y, replicas).failover_state = y.failover_state
        BY Zenon, <2>1, <2>2, AddSlavesFollows DEF Follows
    <2>4. Commit(s, AddSlaves(y, replicas))
        BY SMTT(20), <1>3, <1>4
    <2>5. Follows(st[s], AddSlaves(y, replicas))
        BY Zenon, <1>1, <2>2, <2>3, FollowsTransitive
    <2> QED
        BY Zenon, <1>1, <1>2, <2>2, <2>3, <2>4, <2>5, FollowStep
<1>5. CASE r # st[s].addr /\ st[s].tilt
    <2>1. Commit(s, st[s])
        BY Zenon, <1>3, <1>5
    <2> QED
        BY Zenon, <1>1, <1>2, <2>1, FollowsItself, FollowStep
<1>6. CASE r # st[s].addr /\ ~st[s].tilt /\ redis[r] = None
    <2>1. Commit(s, SlaveTurnedMaster(st[s], r, long)) /\ r \in st[s].slaves
        BY SMTT(20), <1>1, <1>3, <1>6
    <2>2. /\ Outcome(s, st[s], SlaveTurnedMaster(st[s], r, long))
          /\ SlaveTurnedMaster(st[s], r, long).failover_state <= RECONF_SLAVES
        BY SMTT(20), <1>1, <2>1, TurnedMasterOutcome
    <2> QED
        BY <1>2, <2>1, <2>2, LocalStep
<1>7. CASE r # st[s].addr /\ ~st[s].tilt /\ redis[r] # None
    <2>1. Commit(s, SlaveReplicates(st[s], r, redis[r], up, long)) /\ r \in st[s].slaves
        BY SMTT(20), <1>1, <1>3, <1>7
    <2>2. /\ Follows(st[s], SlaveReplicates(st[s], r, redis[r], up, long))
          /\ SlaveReplicates(st[s], r, redis[r], up, long).failover_state = st[s].failover_state
        BY <1>1, <2>1, ReplicatesFollows
    <2> QED
        BY Zenon, <1>1, <1>2, <2>1, <2>2, FollowStep
<1> QED
    BY Zenon, <1>4, <1>5, <1>6, <1>7
\* A vote asked for by s is given by t, or the one given before is told again.
LEMMA IsMasterDownStep ==
    ASSUME IInv, NEW s \in Sentinels, NEW t \in Sentinels, isMasterDownByAddr(s, t)
    PROVE  IInv' /\ Steps
<1> DEFINE m == link[s][t]
           known == m.addr = st[t].addr
           down == ~st[t].tilt /\ known /\ "S_DOWN" \in st[t].flags
           v == sentinelVoteLeader(st[t], t, m.epoch, m.runid, Waiting)
           y == IF known /\ m.runid # None THEN v ELSE st[t]
           vote == IF known /\ m.runid # None THEN y.leader ELSE None
           e == IF vote # None THEN y.leader_epoch ELSE 0
           reply == [kind |-> "reply", down |-> down, leader |-> vote, epoch |-> e]
<1>1. /\ link' = [link EXCEPT ![s][t] = reply] /\ Commit(t, y) /\ UNCHANGED <<redis, hellos>>
      /\ m # None /\ m.kind = "ask"
    BY Zenon DEF isMasterDownByAddr
<1>2. /\ Sane(st[t]) /\ Backed(t, st[t]) /\ st[t].failover_state <= RECONF_SLAVES
      /\ st[t] \in Memory /\ MaxEpoch \in Nat
    BY SMTT(20), MemoryFacts, SentinelAssumption
<1>3. m \in Ask
    BY Zenon, <1>1 DEF IInv, Links, Reply
<1>4. m.epoch \in Epoch /\ m.runid \in Candidate
    BY <1>3 DEF Ask
<1>5. Waiting \in SUBSET (Sentinels \X Epoch)
    BY SMTT(20), WaitingTyped DEF IInv
<1> HIDE DEF m
<1>6. ASSUME m.runid # None
      PROVE  Outcome(t, st[t], v) /\ v.failover_state <= RECONF_SLAVES
    <2>1. m.runid \in Sentinels
        BY SMTT(20), <1>4, <1>6 DEF Candidate
    <2>2. /\ Sane(v) /\ Kin(st[t], v) /\ Ballot(st[t], v, m.runid)
          /\ v.disk.current_epoch >= st[t].disk.current_epoch
        BY SMTT(20), <1>2, <1>4, <1>5, <2>1, VoteSane
    <2> HIDE DEF v
    <2>3. v.config_epoch >= st[t].config_epoch
        BY SMTT(20), <1>2, <2>2 DEF Kin, Memory, Epoch
    <2>4. Outcome(t, st[t], v)
        BY Zenon, <1>2, <2>1, <2>2, <2>3 DEF Outcome, Kin, Ballot, Backed
    <2> QED
        BY <1>2, <2>2, <2>4 DEF Kin
<1>7. Outcome(t, st[t], y) /\ y.failover_state <= RECONF_SLAVES
    BY Zenon, <1>2, <1>6, FollowsItself, FollowsOutcome
<1> HIDE DEF y
<1>8. /\ Memories' /\ cast \subseteq cast' /\ cast' = Ballots(t, st[t], y)
    BY SMTT(20), <1>1, <1>7, CommitMemories DEF IInv
<1>9. /\ y \in Memory /\ y.leader \in Candidate /\ y.leader_epoch \in Epoch /\ st[t].leader_epoch \in Epoch
    BY Zenon, <1>2, <1>7 DEF Outcome, Sane, Live, Memory
<1>10. y.leader # None => <<t, y.leader_epoch, y.leader>> \in cast'
    <2>1. CASE y.leader_epoch # st[t].leader_epoch
        BY Zenon, <1>8, <2>1 DEF Ballots
    <2>2. CASE y.leader_epoch = st[t].leader_epoch
        <3>1. y.leader \in {st[t].leader, None}
            BY SMTT(20), <1>2, <1>7, <1>9, <2>2 DEF Outcome, Epoch
        <3> QED
            BY SMTT(20), <1>2, <1>8, <2>2, <3>1 DEF Backed
    <2> QED
        BY <2>1, <2>2
<1>11. down \in BOOLEAN /\ vote \in Candidate /\ e \in Epoch
       /\ (vote # None => <<t, e, vote>> \in cast')
    BY <1>2, <1>9, <1>10 DEF Candidate, Epoch
<1> HIDE DEF down, vote, e
<1>12. reply \in Reply /\ reply.leader = vote /\ reply.epoch = e
    BY Zenon, <1>11 DEF Reply
<1> HIDE DEF reply
<1>13. /\ link' \in [Sentinels -> [Sentinels -> {None} \cup Ask \cup Reply]]
       /\ link'[s][t] = reply
       /\ \A p, q \in Sentinels : link'[p][q] = link[p][q] \/ (p = s /\ q = t)
    <2> DEFINE U == {None} \cup Ask \cup Reply
    <2>1. link \in [Sentinels -> [Sentinels -> U]] /\ reply \in U
        BY <1>12 DEF IInv, Links
    <2> HIDE DEF U
    <2>2. link' \in [Sentinels -> [Sentinels -> U]]
        BY Zenon, <1>1, <2>1
    <2>3. /\ link'[s][t] = reply
          /\ \A p, q \in Sentinels : link'[p][q] = link[p][q] \/ (p = s /\ q = t)
        BY <1>1, <2>1
    <2> QED
        BY <2>2, <2>3 DEF U
<1>131. ASSUME NEW p \in Sentinels, NEW q \in Sentinels
       PROVE  \/ link'[p][q] = link[p][q]
              \/ /\ link'[p][q] \in Reply
                 /\ link'[p][q].leader # None =>
                      <<q, link'[p][q].epoch, link'[p][q].leader>> \in cast'
    BY Zenon, <1>11, <1>12, <1>13
<1>14. Links'
    BY Zenon, <1>8, <1>13, <1>131, LinksStep DEF IInv
<1> QED
    BY SMTT(20), <1>1, <1>7, <1>14, HandlerStep

\* A reply is noted down; the vote it reports was given.
LEMMA ReplyStep ==
    ASSUME IInv, NEW s \in Sentinels, NEW t \in Sentinels, sentinelReceiveIsMasterDownReply(s, t)
    PROVE  IInv' /\ Steps
<1> DEFINE m == link[s][t]
           p == [st[s].peers[t] EXCEPT !.down = m.down]
           q == IF m.leader # None THEN [p EXCEPT !.leader = m.leader, !.leader_epoch = m.epoch] ELSE p
           Q == [st[s].peers EXCEPT ![t] = q]
           y == [st[s] EXCEPT !.peers = Q]
<1>1. /\ Sane(st[s]) /\ Backed(s, st[s]) /\ st[s].failover_state <= RECONF_SLAVES
      /\ st[s] \in Memory /\ MaxEpoch \in Nat
    BY MemoryFacts, SentinelAssumption
<1>2. st[s].peers \in [Sentinels -> Peer] /\ [st[s] EXCEPT !.peers[t] = q] = y
    BY <1>1 DEF Memory
<1>3. /\ link' = [link EXCEPT ![s][t] = None] /\ Commit(s, y) /\ UNCHANGED <<redis, hellos>>
      /\ m # None /\ m.kind = "reply"
    BY <1>2 DEF sentinelReceiveIsMasterDownReply
<1>4. m \in Reply /\ (m.leader # None => <<t, m.epoch, m.leader>> \in cast)
    BY Zenon, <1>3 DEF IInv, Links, Ask
<1>5. m.down \in BOOLEAN /\ m.epoch \in Epoch /\ m.leader \in Candidate
    BY Zenon, <1>4 DEF Reply
<1> HIDE DEF m
<1>6. q.leader # None => \/ <<t, q.leader_epoch, q.leader>> \in cast
                         \/ /\ q.leader = st[s].peers[t].leader
                            /\ q.leader_epoch = st[s].peers[t].leader_epoch
    BY <1>2, <1>4, <1>5 DEF Peer
<1>61. q \in Peer
    BY Zenon, <1>2, <1>5 DEF Peer
<1> HIDE DEF q
<1>7. /\ Q \in [Sentinels -> Peer] /\ Q[t] = q /\ \A u \in Sentinels \ {t} : Q[u] = st[s].peers[u]
    BY <1>2, <1>61
<1> HIDE DEF Q
<1>8. /\ y \in Memory /\ y.peers = Q /\ y.current_epoch = st[s].current_epoch
      /\ y.leader_epoch = st[s].leader_epoch /\ y.failover_state = st[s].failover_state
      /\ y.promoted = st[s].promoted /\ y.addr = st[s].addr
      /\ y.failover_epoch = st[s].failover_epoch
      /\ y.flags = st[s].flags /\ y.slaves = st[s].slaves /\ y.sflags = st[s].sflags
      /\ y.leader = st[s].leader /\ y.disk = st[s].disk /\ y.config_epoch = st[s].config_epoch
    BY Zenon, <1>1, <1>7 DEF Memory
<1> HIDE DEF y
<1>9. Sane(y)
    BY Zenon, <1>1, <1>8 DEF Sane, Live, Stored
<1>10. \A u \in Sentinels :
          y.peers[u].leader # None => <<u, y.peers[u].leader_epoch, y.peers[u].leader>> \in cast
    BY SMTT(20), <1>1, <1>6, <1>61, <1>7, <1>8 DEF Backed
<1>11. /\ st[s].disk.current_epoch \in Epoch
    BY SMTT(20), <1>1 DEF Memory, File
<1>12. Outcome(s, st[s], y)
    BY <1>1, <1>8, <1>9, <1>10, <1>11 DEF Outcome, Epoch
<1>13. cast \subseteq cast'
    BY Zenon, <1>1, <1>3, <1>8, <1>12, CommitMemories DEF IInv
<1>14. /\ link' \in [Sentinels -> [Sentinels -> {None} \cup Ask \cup Reply]]
       /\ \A u, v \in Sentinels : link'[u][v] = link[u][v] \/ link'[u][v] = None
    BY <1>3 DEF IInv, Links
<1>15. Links'
    BY <1>13, <1>14, LinksStep DEF IInv
<1> QED
    BY Zenon, <1>1, <1>3, <1>8, <1>12, <1>15, HandlerStep
\* A Hello: a newer epoch, a newer configuration, a new address.
LEMMA NewConfigFollows ==
    ASSUME NEW x, Sane(x), NEW e \in Epoch, e > x.config_epoch
    PROVE  LET y == [x EXCEPT !.config_epoch = e]
           IN Follows(x, y) /\ y.failover_state = x.failover_state
<1> DEFINE y == [x EXCEPT !.config_epoch = e]
<1>1. x \in Memory /\ Live(x) /\ Stored(x)
    BY DEF Sane, Live
<1>2. /\ x.disk.current_epoch \in Epoch /\ x.config_epoch \in Epoch /\ MaxEpoch \in Nat
    BY <1>1, SentinelAssumption DEF Memory, File
<1>3. /\ y \in Memory /\ y.current_epoch = x.current_epoch /\ y.leader_epoch = x.leader_epoch
      /\ y.failover_state = x.failover_state /\ y.promoted = x.promoted /\ y.addr = x.addr
      /\ y.failover_epoch = x.failover_epoch /\ y.flags = x.flags /\ y.slaves = x.slaves
      /\ y.sflags = x.sflags /\ y.leader = x.leader /\ y.disk = x.disk /\ y.peers = x.peers
      /\ y.config_epoch = e
    BY Zenon, <1>1 DEF Memory
<1> HIDE DEF y
<1>4. Live(y) /\ Stored(y)
    BY Zenon, <1>1, <1>3 DEF Live, Stored
<1>5. Follows(x, y)
    BY SMTT(20), <1>2, <1>3, <1>4 DEF Follows, Sane, Epoch
<1> QED
    BY Zenon, <1>3, <1>5 DEF y

\* sentinelProcessHelloMessage takes over newer epochs and configurations only.
LEMMA HelloStep ==
    ASSUME IInv, NEW s \in Sentinels, NEW h \in hellos, sentinelProcessHelloMessage(s, h)
    PROVE  IInv' /\ Steps
<1> DEFINE x == IF h.current_epoch > st[s].current_epoch
                THEN sentinelFlushConfig([st[s] EXCEPT !.current_epoch = h.current_epoch])
                ELSE st[s]
           y == [x EXCEPT !.config_epoch = h.config_epoch]
           a == sentinelResetMasterAndChangeAddress(y, h.addr)
<1>1. /\ Sane(st[s]) /\ st[s].failover_state <= RECONF_SLAVES /\ st[s].current_epoch \in Epoch
      /\ MaxEpoch \in Nat
    BY MemoryFacts, SentinelAssumption DEF Memory
<1>2. h.current_epoch \in Epoch /\ h.config_epoch \in Epoch /\ h.addr \in Redis
    BY DEF IInv, World, Hello
<1>3. /\ Commit(s, IF x.config_epoch >= h.config_epoch THEN x ELSE IF h.addr # x.addr THEN a ELSE y)
      /\ UNCHANGED <<redis, hellos, link>>
    BY DEF sentinelProcessHelloMessage
<1>4. Follows(st[s], x) /\ x.failover_state <= RECONF_SLAVES
    <2>1. CASE h.current_epoch > st[s].current_epoch
        BY <1>1, <1>2, <2>1, RaiseFollows DEF Epoch, Kin
    <2>2. CASE ~(h.current_epoch > st[s].current_epoch)
        BY SMTT(20), <1>1, <2>2, FollowsItself
    <2> QED
        BY <2>1, <2>2
<1> HIDE DEF x
<1>5. Sane(x) /\ x.config_epoch \in Epoch
    BY Zenon, <1>4 DEF Follows, Sane, Live, Memory
<1>6. ASSUME ~(x.config_epoch >= h.config_epoch)
      PROVE  /\ Follows(st[s], y) /\ y.failover_state <= RECONF_SLAVES
             /\ Follows(st[s], a) /\ a.failover_state <= RECONF_SLAVES
    <2>1. Follows(x, y) /\ y.failover_state = x.failover_state
        BY SMTT(20), <1>1, <1>2, <1>5, <1>6, NewConfigFollows DEF Epoch
    <2> HIDE DEF y
    <2>2. Follows(y, a) /\ a.failover_state = NONE
        <3>1. Sane(y)
            BY Zenon, <2>1 DEF Follows
        <3> QED
            BY <1>2, <3>1, ChangeAddressFollows
    <2> HIDE DEF a
    <2>3. Follows(st[s], y)
        BY Zenon, <1>1, <1>4, <2>1, FollowsTransitive
    <2>4. Follows(st[s], a)
        BY SMTT(20), <1>1, <2>2, <2>3, FollowsTransitive
    <2> QED
        BY <1>4, <2>1, <2>2, <2>3, <2>4 DEF NONE, RECONF_SLAVES
<1> HIDE DEF y, a
<1> QED
    BY Zenon, <1>3, <1>4, <1>6, FollowStep

\* Hellos announce what a Sentinel has; a Redis instance obeys.
LEMMA SendHelloStep ==
    ASSUME IInv, NEW s \in Sentinels, sentinelSendHello(s)
    PROVE  IInv' /\ Steps
<1>1. /\ Sane(st[s]) /\ st[s] \in Memory
    BY Zenon, MemoryFacts
<1> DEFINE now == sentinelGetCurrentMasterAddress(st[s])
           h == [current_epoch |-> st[s].current_epoch, addr |-> now,
                 config_epoch |-> st[s].config_epoch]
<1>2. now \in Redis
    <2>1. st[s].promoted \in Instance /\ st[s].addr \in Redis
        BY Zenon, <1>1 DEF Memory
    <2> QED
        BY Zenon, <2>1 DEF sentinelGetCurrentMasterAddress, Instance
<1> HIDE DEF now
<1>3. h \in Hello
    BY Zenon, <1>1, <1>2 DEF Hello, Memory
<1>4. hellos' = hellos \cup {h} /\ UNCHANGED <<st, redis, link, slaveof, cast, elected>>
    BY Zenon DEF sentinelSendHello, now
<1> HIDE DEF h
<1>5. World' /\ Memories' /\ Links' /\ Votes'
    BY SMTT(20), <1>3, <1>4 DEF IInv, World, Memories, Links, Votes, Backed
<1>6. \A t \in Sentinels : Later(st[t], st'[t])
    BY Zenon, <1>4, LaterItself, MemoryFacts
<1> QED
    BY Zenon, <1>4, <1>5, <1>6 DEF IInv, Steps, VoteStep, won

\* A Redis instance obeys a SLAVEOF it was sent.
LEMMA SlaveofStep ==
    ASSUME IInv, NEW c \in slaveof, slaveofCommand(c)
    PROVE  IInv' /\ Steps
<1>1. /\ redis' = [redis EXCEPT ![c[1]] = c[2]] /\ slaveof' = slaveof \ {c}
      /\ UNCHANGED <<st, link, hellos, cast, elected>>
    BY DEF slaveofCommand
<1>2. c[1] \in Redis /\ c[2] \in Instance
    BY DEF IInv, World
<1>3. World'
    BY Zenon, <1>1, <1>2 DEF IInv, World
<1>4. Memories' /\ Links' /\ Votes'
    BY SMTT(20), <1>1 DEF IInv, Memories, Links, Votes, Backed
<1>5. \A t \in Sentinels : Later(st[t], st'[t])
    BY Zenon, <1>1, LaterItself, MemoryFacts
<1> QED
    BY Zenon, <1>1, <1>3, <1>4, <1>5 DEF IInv, Steps, VoteStep, won

\* A link drops what it carries (instanceLinkConnectionError).
LEMMA LinkErrorStep ==
    ASSUME IInv, NEW s \in Sentinels, NEW t \in Sentinels, instanceLinkConnectionError(s, t)
    PROVE  IInv' /\ Steps
<1>1. /\ link' = [link EXCEPT ![s][t] = None]
      /\ UNCHANGED <<st, redis, slaveof, hellos, cast, elected>>
    BY Zenon DEF instanceLinkConnectionError
<1>2. /\ link' \in [Sentinels -> [Sentinels -> {None} \cup Ask \cup Reply]]
      /\ \A u, v \in Sentinels : link'[u][v] = link[u][v] \/ link'[u][v] = None
    BY Zenon, <1>1 DEF IInv, Links
<1>3. Links'
    BY Zenon, <1>1, <1>2, LinksStep DEF IInv
<1>4. World' /\ Memories' /\ Votes'
    BY <1>1 DEF IInv, World, Memories, Votes, Backed
<1>5. \A u \in Sentinels : Later(st[u], st'[u])
    BY <1>1, LaterItself, MemoryFacts
<1> QED
    BY Zenon, <1>1, <1>3, <1>4, <1>5 DEF IInv, Steps, VoteStep, won
\* SENTINEL FAILOVER forces one.
LEMMA FailoverCommandStep ==
    ASSUME IInv, NEW s \in Sentinels, failoverCommand(s)
    PROVE  IInv' /\ Steps
<1> DEFINE x == sentinelStartFailover(st[s], s, Waiting)
           F == x.flags \cup {"FORCE"}
           y == [x EXCEPT !.flags = F]
<1>1. /\ "FAILOVER" \notin st[s].flags /\ st[s].current_epoch < MaxEpoch
      /\ Commit(s, [x EXCEPT !.flags = @ \cup {"FORCE"}]) /\ UNCHANGED <<redis, hellos, link>>
    BY Zenon DEF failoverCommand
<1>2. Sane(st[s]) /\ Waiting \in SUBSET (Sentinels \X Epoch)
    BY MemoryFacts, WaitingTyped DEF IInv
<1>3. Follows(st[s], x) /\ x.failover_state = WAIT_START
    BY SMTT(20), <1>1, <1>2, StartFollows
<1> HIDE DEF x
<1>4. Sane(x) /\ x \in Memory /\ x.flags \in SUBSET {"S_DOWN", "O_DOWN", "FAILOVER", "FORCE"}
    BY <1>3 DEF Follows, Sane, Live, Memory
<1>5. [x EXCEPT !.flags = @ \cup {"FORCE"}] = y
    BY Zenon, <1>4 DEF Memory
<1>6. /\ F \in SUBSET {"S_DOWN", "O_DOWN", "FAILOVER", "FORCE"}
      /\ ("FAILOVER" \in F <=> "FAILOVER" \in x.flags)
    BY <1>4
<1> HIDE DEF F
<1>7. Follows(x, y) /\ y.failover_state = x.failover_state
    BY Zenon, <1>4, <1>6, FlagsFollow
<1> HIDE DEF y
<1>8. Follows(st[s], y)
    BY Zenon, <1>2, <1>3, <1>7, FollowsTransitive
<1>9. y.failover_state <= RECONF_SLAVES
    BY <1>3, <1>7 DEF WAIT_START, RECONF_SLAVES
<1> QED
    BY <1>1, <1>5, <1>8, <1>9, FollowStep

\* A failover of another master takes a new epoch.
LEMMA OtherMasterStep ==
    ASSUME IInv, NEW s \in Sentinels, OtherMasterFailover(s)
    PROVE  IInv' /\ Steps
<1> DEFINE e == st[s].current_epoch + 1
           y == sentinelFlushConfig([st[s] EXCEPT !.current_epoch = e])
<1>1. /\ Sane(st[s]) /\ st[s].failover_state <= RECONF_SLAVES /\ st[s].current_epoch \in Epoch
      /\ MaxEpoch \in Nat /\ st[s] \in Memory
    BY MemoryFacts, SentinelAssumption DEF Memory
<1>2. st[s].current_epoch < MaxEpoch /\ UNCHANGED <<redis, hellos, link>> /\ Commit(s, y)
    BY <1>1 DEF OtherMasterFailover, Memory
<1>3. e \in Epoch /\ e >= st[s].current_epoch
    BY <1>1, <1>2 DEF Epoch
<1> HIDE DEF e
<1>4. Follows(st[s], y) /\ y.failover_state = st[s].failover_state
    BY Zenon, <1>1, <1>3, RaiseFollows DEF Kin
<1> HIDE DEF y
<1> QED
    BY SMTT(20), <1>1, <1>2, <1>4, FollowStep

\* The clock jumps.
LEMMA TiltStep ==
    ASSUME IInv, NEW s \in Sentinels, sentinelCheckTiltCondition(s)
    PROVE  IInv' /\ Steps
<1> DEFINE y == [st[s] EXCEPT !.tilt = TRUE]
<1>1. Commit(s, y) /\ UNCHANGED <<redis, hellos, link>>
    BY Zenon DEF sentinelCheckTiltCondition
<1>2. Sane(st[s]) /\ st[s].failover_state <= RECONF_SLAVES
    BY MemoryFacts
<1>3. Follows(st[s], y) /\ y.failover_state = st[s].failover_state
    BY Zenon, <1>2, TiltFollows
<1> HIDE DEF y
<1> QED
    BY <1>1, <1>2, <1>3, FollowStep

\* A restart: the vote, the epoch and the address come back from the file.
LEMMA RestartSane ==
    ASSUME NEW d \in File
    PROVE  LET y == sentinelHandleConfiguration(d)
           IN /\ Sane(y) /\ y \in Memory /\ y.failover_state = NONE /\ y.leader = None
              /\ y.leader_epoch = d.leader_epoch /\ y.disk = d /\ y.addr = d.addr
              /\ y.config_epoch = d.config_epoch
              /\ \A t \in Sentinels : y.peers[t].leader = None
<1> DEFINE e == IF d.config_epoch > d.current_epoch THEN d.config_epoch ELSE d.current_epoch
           Q == [t \in Sentinels |-> NoPeer]
           y == [current_epoch |-> e,
                 config_epoch |-> d.config_epoch, leader_epoch |-> d.leader_epoch,
                 leader |-> None, addr |-> d.addr, slaves |-> d.slaves, flags |-> {},
                 sflags |-> NoFlags, failover_state |-> NONE, failover_epoch |-> 0,
                 promoted |-> None, reported |-> "master", recent |-> {}, leads |-> FALSE,
                 peers |-> Q, tilt |-> FALSE, out |-> {}, disk |-> d]
<1>1. /\ {d.current_epoch, d.config_epoch, d.leader_epoch} \subseteq Epoch
      /\ d.addr \in Redis /\ d.slaves \in SUBSET Redis /\ MaxEpoch \in Nat /\ 0 \in Epoch
    BY SentinelAssumption DEF File, Epoch
<1>2. e \in Epoch /\ d.current_epoch <= e /\ 0 <= e
    BY <1>1 DEF Epoch
<1>3. Q \in [Sentinels -> Peer] /\ \A t \in Sentinels : Q[t].leader = None
    BY <1>1 DEF NoPeer, Peer, Candidate
<1>4. NoFlags \in [Redis -> SUBSET SlaveFlags] /\ \A r \in Redis : NoFlags[r] = {}
    BY SMTT(20) DEF NoFlags
<1>5. sentinelHandleConfiguration(d) = y
    BY SMTT(20) DEF sentinelHandleConfiguration
<1> HIDE DEF e, Q
<1>6. /\ y \in Memory /\ y.failover_state = NONE /\ y.leader = None
      /\ y.leader_epoch = d.leader_epoch /\ y.disk = d /\ y.addr = d.addr
      /\ y.config_epoch = d.config_epoch /\ y.peers = Q /\ y.current_epoch = e
      /\ y.failover_epoch = 0 /\ y.flags = {} /\ y.sflags = NoFlags
    BY Zenon, <1>1, <1>2, <1>3, <1>4, StatesTyped DEF Memory, Candidate, Instance
<1> HIDE DEF y
<1>7. Live(y)
    BY <1>2, <1>4, <1>6 DEF Live, NONE, SEND_SLAVEOF_NOONE
<1>8. Stored(y)
    BY <1>2, <1>6 DEF Stored, NONE, RECONF_SLAVES
<1> QED
    BY Zenon, <1>3, <1>5, <1>6, <1>7, <1>8 DEF Sane

\* A restart reads back what was flushed (sentinelFlushConfig).
LEMMA CrashStep ==
    ASSUME IInv, NEW s \in Sentinels, Crash(s)
    PROVE  IInv' /\ Steps
<1> DEFINE d == st[s].disk
           y == sentinelHandleConfiguration(d)
<1>1. /\ st' = [st EXCEPT ![s] = y] /\ UNCHANGED <<redis, slaveof, hellos, cast, elected>>
      /\ link' = [t \in Sentinels |-> [u \in Sentinels |->
                   IF s \in {t, u} THEN None ELSE link[t][u]]]
    BY Zenon DEF Crash
<1>2. /\ Sane(st[s]) /\ st[s] \in Memory /\ st[s].failover_state <= RECONF_SLAVES /\ MaxEpoch \in Nat
    BY Zenon, MemoryFacts, SentinelAssumption
<1>3. d \in File /\ st[s].failover_state \in NONE..UPDATE_CONFIG /\ d.current_epoch \in Epoch
      /\ st[s].leader_epoch \in Epoch
    BY Zenon, <1>2 DEF Memory, File
<1>4. /\ d.leader_epoch = st[s].leader_epoch
      /\ d.addr = IF st[s].failover_state >= RECONF_SLAVES THEN st[s].promoted ELSE st[s].addr
    BY Zenon, <1>2 DEF Sane, Stored
<1> HIDE DEF d
<1>5. /\ Sane(y) /\ y \in Memory /\ y.failover_state = NONE /\ y.leader = None
      /\ y.leader_epoch = d.leader_epoch /\ y.disk = d /\ y.addr = d.addr
      /\ \A t \in Sentinels : y.peers[t].leader = None
    BY Zenon, <1>3, RestartSane
<1> HIDE DEF y
<1>6. /\ st' \in [Sentinels -> Memory] /\ st'[s] = y /\ \A t \in Sentinels \ {s} : st'[t] = st[t]
    BY Zenon, <1>1, <1>5 DEF IInv, Memories
<1>7. Memories'
    <2>1. ASSUME NEW t \in Sentinels
          PROVE  Sane(st'[t]) /\ st'[t].failover_state <= RECONF_SLAVES /\ Backed(t, st[t])'
        <3>1. CASE t = s
            BY SMTT(20), <1>5, <1>6, <3>1 DEF Backed, NONE, RECONF_SLAVES
        <3>2. CASE t # s
            BY SMTT(20), <1>1, <1>6, <3>2 DEF IInv, Memories, Backed
        <3> QED
            BY Zenon, <3>1, <3>2
    <2> QED
        BY Zenon, <1>6, <2>1 DEF Memories
<1>8. Votes'
    <2>1. \A t \in Sentinels : st'[t].leader_epoch = st[t].leader_epoch
        BY Zenon, <1>4, <1>5, <1>6
    <2> QED
        BY Zenon, <1>1, <2>1 DEF IInv, Votes
<1>9. Links'
    <2>1. /\ link' \in [Sentinels -> [Sentinels -> {None} \cup Ask \cup Reply]]
          /\ \A u, v \in Sentinels : link'[u][v] = link[u][v] \/ link'[u][v] = None
        BY Zenon, <1>1 DEF IInv, Links
    <2> QED
        BY Zenon, <1>1, <2>1, LinksStep DEF IInv
<1>10. World'
    BY Zenon, <1>1 DEF IInv, World
<1>11. Later(st[s], st'[s])
    <2>1. \/ y.addr = st[s].addr
          \/ st[s].failover_state = RECONF_SLAVES /\ y.addr = st[s].promoted
        BY SMTT(20), <1>2, <1>3, <1>4, <1>5 DEF NONE, UPDATE_CONFIG, RECONF_SLAVES
    <2>2. y.leader_epoch >= st[s].leader_epoch /\ y.disk.current_epoch >= st[s].disk.current_epoch
        BY <1>2, <1>3, <1>4, <1>5 DEF Epoch, d
    <2> QED
        BY Zenon, <1>6, <2>1, <2>2 DEF Later
<1>12. \A t \in Sentinels : Later(st[t], st'[t])
    BY Zenon, <1>6, <1>11, LaterItself, MemoryFacts
<1> QED
    BY Zenon, <1>1, <1>7, <1>8, <1>9, <1>10, <1>12 DEF IInv, Steps, VoteStep, won
\* The timer's call on the master, without the requests it sends.
LEMMA MasterOutcome ==
    ASSUME Counted, IInv, NEW s \in Sentinels, NEW down \in BOOLEAN, NEW timeout \in BOOLEAN, NEW stale, NEW conn,
           NEW x, x = sentinelCheckObjectivelyDown(
                        sentinelCheckSubjectivelyDown(TiltOver(st[s]), down), s),
           NEW y, y = IF sentinelStartFailoverIfNeeded(x, Waiting)
                      THEN sentinelStartFailover(x, s, Waiting) ELSE x,
           NEW z \in sentinelFailoverStateMachine(y, s, Waiting, timeout, conn),
           NEW f, f = ForgetStale(z, stale)
    PROVE  LET v == IF f.failover_state = UPDATE_CONFIG
                    THEN sentinelFailoverSwitchToPromotedSlave(f) ELSE f
           IN Outcome(s, st[s], v) /\ v.failover_state <= RECONF_SLAVES /\ f \in Memory
<1>1. /\ Sane(st[s]) /\ Backed(s, st[s]) /\ st[s].failover_state <= RECONF_SLAVES
      /\ Waiting \in SUBSET (Sentinels \X Epoch)
    BY Zenon, MemoryFacts, WaitingTyped DEF IInv
<1> DEFINE a == TiltOver(st[s])
           b == sentinelCheckSubjectivelyDown(a, down)
<1>2. Follows(st[s], a) /\ a.failover_state = st[s].failover_state
    BY Zenon, <1>1, TiltFollows DEF TiltOver
<1> HIDE DEF a
<1>3. Follows(a, b) /\ b.failover_state = a.failover_state
    BY Zenon, <1>2, SubjectivelyFollows DEF Follows
<1>4. x = sentinelCheckObjectivelyDown(b, s)
    BY SMTT(20) DEF a, b
<1> HIDE DEF b
<1>5. Follows(b, x) /\ x.failover_state = b.failover_state
    <2>1. Sane(b)
        BY Zenon, <1>3 DEF Follows
    <2> QED
        BY Zenon, <1>1, <1>4, <2>1, ObjectivelyFollows
<1>6. Follows(st[s], x)
    <2>1. Follows(st[s], b)
        BY Zenon, <1>1, <1>2, <1>3, FollowsTransitive
    <2> QED
        BY Zenon, <1>1, <1>5, <2>1, FollowsTransitive
<1>7. Follows(x, y) /\ y.failover_state <= RECONF_SLAVES
    <2>1. Sane(x)
        BY Zenon, <1>6 DEF Follows
    <2>2. CASE sentinelStartFailoverIfNeeded(x, Waiting)
        <3>1. "FAILOVER" \notin x.flags /\ x.current_epoch < MaxEpoch
            BY SMTT(20), <2>2 DEF sentinelStartFailoverIfNeeded
        <3>2. Follows(x, y) /\ y.failover_state = WAIT_START
            BY SMTT(20), <1>1, <2>1, <2>2, <3>1, StartFollows
        <3> QED
            BY SMTT(20), <3>2 DEF WAIT_START, RECONF_SLAVES
    <2>3. CASE ~sentinelStartFailoverIfNeeded(x, Waiting)
        <3>1. y = x
            BY SMTT(20), <2>3
        <3> QED
            BY Zenon, <1>1, <1>2, <1>3, <1>5, <2>1, <3>1, FollowsItself
    <2> QED
        BY SMTT(20), <2>2, <2>3
<1>8. Follows(st[s], y)
    BY Zenon, <1>1, <1>6, <1>7, FollowsTransitive
<1>9. Sane(y) /\ Backed(s, y)
    BY Zenon, <1>1, <1>8, FollowsBacked DEF Follows
<1>10. /\ Outcome(s, y, z) /\ z.config_epoch >= y.config_epoch
       /\ z.failover_state \in NONE..UPDATE_CONFIG
       /\ z.failover_state = UPDATE_CONFIG => Follows(y, z)
    BY Zenon, <1>1, <1>7, <1>9, StateMachineOutcome
<1>11. Outcome(s, st[s], z)
    BY Zenon, <1>1, <1>8, <1>10, OutcomeLater
<1>12. /\ Outcome(s, st[s], f) /\ f.failover_state = z.failover_state /\ Follows(z, f)
    BY SMTT(20), <1>11, ForgetOutcome
<1>13. f \in Memory
    BY Zenon, <1>12 DEF Outcome, Sane, Live
<1>14. CASE f.failover_state = UPDATE_CONFIG
    <2> DEFINE new == IF f.promoted # None THEN f.promoted ELSE f.addr
               v == sentinelResetMasterAndChangeAddress(f, new)
    <2>1. Follows(st[s], f) /\ Sane(f)
        <3>1. Follows(st[s], z)
            BY Zenon, <1>1, <1>8, <1>10, <1>12, <1>14, FollowsTransitive
        <3>2. Sane(f)
            BY Zenon, <1>12 DEF Follows
        <3> QED
            BY Zenon, <1>1, <1>12, <3>1, <3>2, FollowsTransitive
    <2>2. new \in Redis
        BY <1>13 DEF Memory, Instance
    <2>3. sentinelFailoverSwitchToPromotedSlave(f) = v
        BY Zenon DEF sentinelFailoverSwitchToPromotedSlave
    <2> HIDE DEF new
    <2>4. Follows(f, v) /\ v.failover_state = NONE
        BY SMTT(20), <2>1, <2>2, ChangeAddressFollows
    <2> HIDE DEF v
    <2>5. Follows(st[s], v)
        BY SMTT(20), <1>1, <2>1, <2>4, FollowsTransitive
    <2>6. Outcome(s, st[s], v)
        BY Zenon, <1>1, <2>5, FollowsOutcome
    <2> QED
        BY SMTT(20), <1>13, <1>14, <2>3, <2>4, <2>6 DEF NONE, RECONF_SLAVES
<1>15. CASE f.failover_state # UPDATE_CONFIG
    <2>1. f.failover_state <= RECONF_SLAVES
        BY SMTT(20), <1>10, <1>12, <1>15 DEF NONE, UPDATE_CONFIG, RECONF_SLAVES
    <2> QED
        BY SMTT(20), <1>12, <1>13, <1>15, <2>1
<1> QED
    BY SMTT(20), <1>14, <1>15

\* sentinelHandleRedisInstance, for the master: all that it calls, in order.
LEMMA HandleMasterStep ==
    ASSUME Counted, IInv, NEW s \in Sentinels, sentinelHandleMaster(s)
    PROVE  IInv' /\ Steps
<1>1. PICK down \in BOOLEAN, timeout \in BOOLEAN, stale \in {{}, Sentinels \ {s}},
           conn \in {st[s].slaves} \cup {st[s].slaves \ {r} : r \in Redis} :
        LET x == sentinelCheckObjectivelyDown(
                    sentinelCheckSubjectivelyDown(TiltOver(st[s]), down), s)
            started == sentinelStartFailoverIfNeeded(x, Waiting)
            y == IF started THEN sentinelStartFailover(x, s, Waiting) ELSE x
            bad == (IF stale # {} THEN 1 ELSE 0)
                   + (IF timeout THEN 1 ELSE 0)
                   + (IF conn # st[s].slaves THEN 1 ELSE 0)
                   + (IF "S_DOWN" \in st[s].flags /\ ~down THEN 1 ELSE 0)
        IN /\ faults + bad <= MaxFaults /\ faults' = faults + bad
           /\ \E z \in sentinelFailoverStateMachine(y, s, Waiting, timeout, conn) :
               LET f == ForgetStale(z, stale)
               IN /\ link' = [link EXCEPT ![s] =
                                 sentinelAskMasterStateToOtherSentinels(f, s)]
                  /\ Commit(s, IF f.failover_state = UPDATE_CONFIG
                               THEN sentinelFailoverSwitchToPromotedSlave(f) ELSE f)
           /\ UNCHANGED <<redis, hellos>>
    BY Zenon DEF sentinelHandleMaster
<1> DEFINE x == sentinelCheckObjectivelyDown(
                    sentinelCheckSubjectivelyDown(TiltOver(st[s]), down), s)
           y == IF sentinelStartFailoverIfNeeded(x, Waiting)
                THEN sentinelStartFailover(x, s, Waiting) ELSE x
<1>2. PICK z \in sentinelFailoverStateMachine(y, s, Waiting, timeout, conn) :
         /\ link' = [link EXCEPT ![s] =
                        sentinelAskMasterStateToOtherSentinels(ForgetStale(z, stale), s)]
         /\ Commit(s, IF ForgetStale(z, stale).failover_state = UPDATE_CONFIG
                      THEN sentinelFailoverSwitchToPromotedSlave(ForgetStale(z, stale))
                      ELSE ForgetStale(z, stale))
    BY Zenon, <1>1
<1>3. UNCHANGED <<redis, hellos>>
    BY Zenon, <1>1
<1> DEFINE f == ForgetStale(z, stale)
           v == IF f.failover_state = UPDATE_CONFIG
                THEN sentinelFailoverSwitchToPromotedSlave(f) ELSE f
           q == sentinelAskMasterStateToOtherSentinels(f, s)
<1>4. Outcome(s, st[s], v) /\ v.failover_state <= RECONF_SLAVES /\ f \in Memory
    <2>1. x = sentinelCheckObjectivelyDown(
                    sentinelCheckSubjectivelyDown(TiltOver(st[s]), down), s)
        BY Zenon
    <2>2. y = IF sentinelStartFailoverIfNeeded(x, Waiting)
              THEN sentinelStartFailover(x, s, Waiting) ELSE x
        BY Zenon
    <2>3. z \in sentinelFailoverStateMachine(y, s, Waiting, timeout, conn) /\ f = ForgetStale(z, stale)
        BY Zenon
    <2> HIDE DEF x, y, f
    <2> QED
        BY ZenonT(40), <2>1, <2>2, <2>3, MasterOutcome
<1>5. Commit(s, v) /\ link' = [link EXCEPT ![s] = q]
    BY Zenon, <1>2
<1> HIDE DEF f, v, x, y
<1>6. ASSUME NEW t \in Sentinels
      PROVE  q[t] = link[s][t] \/ q[t] \in Ask
    <2> DEFINE a == [kind |-> "ask", addr |-> f.addr, epoch |-> f.current_epoch,
                     runid |-> IF f.failover_state > NONE THEN s ELSE None]
    <2>1. a \in Ask
        <3>1. f.addr \in Redis /\ f.current_epoch \in Epoch
            BY Zenon, <1>4 DEF Memory
        <3> QED
            BY Zenon, <3>1 DEF Ask, Candidate
    <2>2. q[t] \in {a, link[s][t]}
        BY Zenon DEF sentinelAskMasterStateToOtherSentinels
    <2> QED
        BY SMTT(20), <2>1, <2>2
<1>7. q = [t \in Sentinels |-> q[t]]
    BY SMTT(20) DEF sentinelAskMasterStateToOtherSentinels
<1> HIDE DEF q
<1>8. /\ link' \in [Sentinels -> [Sentinels -> {None} \cup Ask \cup Reply]]
      /\ \A u, t \in Sentinels : link'[u][t] = link[u][t] \/ link'[u][t] \in Ask
    <2> DEFINE U == {None} \cup Ask \cup Reply
    <2>1. link \in [Sentinels -> [Sentinels -> U]]
        BY Zenon DEF IInv, Links
    <2>2. \A t \in Sentinels : q[t] \in U
        BY Zenon, <1>6, <2>1
    <2>3. q \in [Sentinels -> U]
        BY Zenon, <1>7, <2>2
    <2>4. link' \in [Sentinels -> [Sentinels -> U]]
        <3> HIDE DEF U
        <3> QED
            BY SMTT(20), <1>5, <2>1, <2>3
    <2>5. \A u, t \in Sentinels : link'[u][t] = IF u = s THEN q[t] ELSE link[u][t]
        <3> HIDE DEF U
        <3> QED
            BY SMTT(20), <1>5, <2>1, <2>3
    <2> QED
        BY Zenon, <1>6, <2>4, <2>5
<1>9. cast \subseteq cast'
    BY Zenon, <1>4, <1>5, CommitMemories DEF IInv
<1>10. Links'
    BY Zenon, <1>8, <1>9, LinksStep DEF IInv
<1> QED
    BY Zenon, <1>3, <1>4, <1>5, <1>10, HandlerStep
-----------------------------------------------------------------------------
\* The group at its start.
LEMMA InitInv == Init => IInv
<1> SUFFICES ASSUME Init PROVE IInv
    BY Zenon
<1> DEFINE d == [current_epoch |-> 0, config_epoch |-> 0, leader_epoch |-> 0,
                 addr |-> FirstMaster, slaves |-> Redis \ {FirstMaster}]
           y == sentinelHandleConfiguration(d)
<1>1. /\ st = [s \in Sentinels |-> y] /\ link = [s \in Sentinels |-> [t \in Sentinels |-> None]]
      /\ redis = [r \in Redis |-> IF r = FirstMaster THEN None ELSE FirstMaster]
      /\ slaveof = {} /\ hellos = {} /\ cast = {}
    BY Zenon DEF Init
<1>2. d \in File
    BY SentinelAssumption DEF File, Epoch
<1> HIDE DEF d
<1>3. /\ Sane(y) /\ y \in Memory /\ y.failover_state = NONE /\ y.leader = None
      /\ \A t \in Sentinels : y.peers[t].leader = None
    BY Zenon, <1>2, RestartSane
<1> HIDE DEF y
<1>4. Memories
    BY <1>1, <1>3 DEF Memories, Backed, NONE, RECONF_SLAVES
<1>5. Links
    BY <1>1 DEF Links
<1>6. World
    BY Zenon, <1>1, SentinelAssumption DEF World, Instance
<1>7. Votes
    BY <1>1 DEF Votes
<1> QED
    BY <1>4, <1>5, <1>6, <1>7 DEF IInv

\* Every action keeps the invariant and makes neither epochs nor votes older.
LEMMA NextInv ==
    ASSUME Counted, IInv, [Next]_vars
    PROVE  IInv' /\ Steps
<1>1. CASE UNCHANGED vars
    <2>1. UNCHANGED <<st, redis, link, slaveof, hellos, cast, elected>>
        BY SMTT(20), <1>1 DEF vars
    <2>2. IInv'
        BY SMTT(20), <2>1 DEF IInv, World, Memories, Links, Votes, Backed
    <2>3. \A t \in Sentinels : Later(st[t], st'[t])
        BY Zenon, <2>1, LaterItself, MemoryFacts
    <2> QED
        BY <2>1, <2>2, <2>3 DEF Steps, VoteStep, won
<1>2. ASSUME NEW s \in Sentinels, sentinelHandleMaster(s) PROVE IInv' /\ Steps
    BY <1>2, HandleMasterStep
<1>3. ASSUME NEW s \in Sentinels, NEW r \in Redis, sentinelHandleSlave(s, r) PROVE IInv' /\ Steps
    BY <1>3, HandleSlaveStep
<1>4. ASSUME NEW s \in Sentinels, NEW r \in Redis, sentinelRefreshInstanceInfo(s, r)
      PROVE  IInv' /\ Steps
    BY <1>4, RefreshStep
<1>5. ASSUME NEW s \in Sentinels, NEW t \in Sentinels, isMasterDownByAddr(s, t)
      PROVE  IInv' /\ Steps
    BY <1>5, IsMasterDownStep
<1>6. ASSUME NEW s \in Sentinels, NEW t \in Sentinels, sentinelReceiveIsMasterDownReply(s, t)
      PROVE  IInv' /\ Steps
    BY <1>6, ReplyStep
<1>7. ASSUME NEW s \in Sentinels, sentinelSendHello(s) PROVE IInv' /\ Steps
    BY <1>7, SendHelloStep
<1>8. ASSUME NEW s \in Sentinels, NEW h \in hellos, sentinelProcessHelloMessage(s, h)
      PROVE  IInv' /\ Steps
    BY Zenon, <1>8, HelloStep
<1>9. ASSUME NEW c \in slaveof, slaveofCommand(c) PROVE IInv' /\ Steps
    BY <1>9, SlaveofStep
<1>10. CASE Fault
    <2>1. ASSUME NEW s \in Sentinels, failoverCommand(s) PROVE IInv' /\ Steps
        BY <2>1, FailoverCommandStep
    <2>2. ASSUME NEW s \in Sentinels, OtherMasterFailover(s) PROVE IInv' /\ Steps
        BY <2>2, OtherMasterStep
    <2>3. ASSUME NEW s \in Sentinels, Crash(s) PROVE IInv' /\ Steps
        BY <2>3, CrashStep
    <2>4. ASSUME NEW s \in Sentinels, sentinelCheckTiltCondition(s) PROVE IInv' /\ Steps
        BY <2>4, TiltStep
    <2>5. ASSUME NEW s \in Sentinels, NEW t \in Sentinels, instanceLinkConnectionError(s, t)
          PROVE  IInv' /\ Steps
        BY <2>5, LinkErrorStep
    <2> QED
        BY Zenon, <1>10, <2>1, <2>2, <2>3, <2>4, <2>5 DEF Fault
<1> QED
    BY Zenon, <1>1, <1>2, <1>3, <1>4, <1>5, <1>6, <1>7, <1>8, <1>9, <1>10 DEF Next

-----------------------------------------------------------------------------
\* The sizes of groups of Sentinels.
FS == INSTANCE FiniteSetTheorems

\* What the proofs on elections use of them.
LEMMA Sizes ==
    /\ \A S \in SUBSET Sentinels : Election!Cardinality(S) = Cardinality(S) /\ Cardinality(S) \in Nat
    /\ \A S, T \in SUBSET Sentinels :
          /\ S \subseteq T => Cardinality(S) <= Cardinality(T)
          /\ Cardinality(S) + Cardinality(T) > Cardinality(Sentinels) => S \cap T # {}
    /\ \A S \in SUBSET Sentinels : \A s \in Sentinels \ S : Cardinality(S \cup {s}) = Cardinality(S) + 1
<1>1. \A S : FS!IsFiniteSet(S) <=> IsFiniteSet(S)
    BY Zenon DEF FS!IsFiniteSet, IsFiniteSet
<1>2. \A S : FS!Cardinality(S) = Cardinality(S)
    BY Zenon DEF FS!Cardinality, Cardinality
<1>3. \A S : Election!Cardinality(S) = Cardinality(S)
    BY Zenon DEF Election!Cardinality, Cardinality
<1>4. FS!IsFiniteSet(Sentinels)
    BY Zenon, <1>1, SentinelAssumption
<1>5. \A S \in SUBSET Sentinels : FS!IsFiniteSet(S)
    BY Zenon, <1>4, FS!FS_Subset
<1>6. \A S \in SUBSET Sentinels : Cardinality(S) \in Nat
    BY Zenon, <1>2, <1>5, FS!FS_CardinalityType
<1>7. ASSUME NEW S \in SUBSET Sentinels, NEW T \in SUBSET Sentinels, S \subseteq T
      PROVE  Cardinality(S) <= Cardinality(T)
    BY Zenon, <1>2, <1>5, <1>7, FS!FS_Subset
<1>8. ASSUME NEW S \in SUBSET Sentinels, NEW T \in SUBSET Sentinels,
             Cardinality(S) + Cardinality(T) > Cardinality(Sentinels)
      PROVE  S \cap T # {}
    BY Zenon, <1>2, <1>4, <1>8, FS!FS_MajoritiesIntersect
<1>9. ASSUME NEW S \in SUBSET Sentinels, NEW s \in Sentinels \ S
      PROVE  Cardinality(S \cup {s}) = Cardinality(S) + 1
    BY Zenon, <1>2, <1>5, FS!FS_AddElement
<1> QED
    BY <1>3, <1>6, <1>7, <1>8, <1>9

\* The Sentinels of a group can be counted.
LEMMA SizesCounted == Counted
    BY Zenon, Sizes DEF Counted

\* A majority by sizes, and by its supporters.
LEMMA MajoritySize ==
    ASSUME NEW votes, NEW s, NEW e
    PROVE  /\ Election!Supporters(votes, s, e) \in SUBSET Sentinels
           /\ Election!Majority(votes, s, e)
                <=> 2 * Cardinality(Election!Supporters(votes, s, e)) > Cardinality(Sentinels)
<1>1. Election!Supporters(votes, s, e) \in SUBSET Sentinels
    BY Zenon DEF Election!Supporters
<1> QED
    BY Zenon, <1>1, Sizes DEF Election!Majority

\* Enough supporters are a majority.
LEMMA EnoughVotes ==
    ASSUME NEW V \in SUBSET Sentinels, NEW votes, NEW c, NEW e,
           \A v \in V : <<v, e, c>> \in votes, Cardinality(V) >= Cardinality(Sentinels) \div 2 + 1
    PROVE  Election!Majority(votes, c, e)
<1> DEFINE W == Election!Supporters(votes, c, e)
           N == Cardinality(Sentinels)
<1>1. V \subseteq W /\ W \in SUBSET Sentinels
    BY Zenon DEF Election!Supporters
<1>2. Cardinality(V) <= Cardinality(W) /\ Cardinality(V) \in Nat /\ Cardinality(W) \in Nat /\ N \in Nat
    BY Zenon, <1>1, Sizes
<1>3. 2 * Cardinality(W) > N
    <2> HIDE DEF W
    <2>1. Cardinality(W) >= N \div 2 + 1
        BY <1>2
    <2> HIDE DEF N
    <2> QED
        BY <1>2, <2>1
<1> QED
    BY Zenon, <1>3, MajoritySize

\* The votes that sentinelGetLeader asks for, the Sentinel's own counted apart,
\* are those of a majority.
LEMMA ChosenByMajority ==
    ASSUME NEW votes, NEW s \in Sentinels, NEW e, Chosen(votes, s, e)
    PROVE  Election!Majority(votes, s, e)
<1>1. PICK V \in SUBSET (Sentinels \ {s}) :
        /\ \A v \in V : <<v, e, s>> \in votes
        /\ \/ Cardinality(V) >= Cardinality(Sentinels) \div 2 + 1
           \/ <<s, e, s>> \in votes /\ Cardinality(V) + 1 >= Cardinality(Sentinels) \div 2 + 1
    BY Zenon DEF Chosen
<1>2. CASE Cardinality(V) >= Cardinality(Sentinels) \div 2 + 1
    BY Zenon, <1>1, <1>2, EnoughVotes
<1>3. CASE <<s, e, s>> \in votes /\ Cardinality(V) + 1 >= Cardinality(Sentinels) \div 2 + 1
    <2>1. Cardinality(V \cup {s}) = Cardinality(V) + 1 /\ V \cup {s} \in SUBSET Sentinels
        BY Zenon, Sizes
    <2>2. \A v \in V \cup {s} : <<v, e, s>> \in votes
        BY Zenon, <1>1, <1>3
    <2> QED
        BY <1>3, <2>1, <2>2, EnoughVotes
<1> QED
    BY Zenon, <1>1, <1>2, <1>3

\* More votes never take a majority away.
LEMMA MajorityGrows ==
    ASSUME NEW A, NEW B, A \subseteq B, NEW s, NEW e, Election!Majority(A, s, e)
    PROVE  Election!Majority(B, s, e)
<1>1. Election!Supporters(A, s, e) \subseteq Election!Supporters(B, s, e)
    BY Zenon DEF Election!Supporters
<1>2. /\ Cardinality(Election!Supporters(A, s, e)) <= Cardinality(Election!Supporters(B, s, e))
      /\ Cardinality(Election!Supporters(A, s, e)) \in Nat
      /\ Cardinality(Election!Supporters(B, s, e)) \in Nat /\ Cardinality(Sentinels) \in Nat
    BY Zenon, <1>1, MajoritySize, Sizes
<1>3. 2 * Cardinality(Election!Supporters(A, s, e)) > Cardinality(Sentinels)
    BY Zenon, MajoritySize
<1> QED
    BY <1>2, <1>3, MajoritySize

\* Two majorities of one epoch share a voter.
LEMMA MajoritiesMeet ==
    ASSUME NEW votes, NEW s, NEW t, NEW e, Election!Majority(votes, s, e), Election!Majority(votes, t, e)
    PROVE  Election!Supporters(votes, s, e) \cap Election!Supporters(votes, t, e) # {}
<1> DEFINE S == Election!Supporters(votes, s, e)
           T == Election!Supporters(votes, t, e)
<1>1. /\ 2 * Cardinality(S) > Cardinality(Sentinels) /\ 2 * Cardinality(T) > Cardinality(Sentinels)
      /\ S \in SUBSET Sentinels /\ T \in SUBSET Sentinels
    BY Zenon, MajoritySize
<1> HIDE DEF S, T
<1>2. Cardinality(S) \in Nat /\ Cardinality(T) \in Nat /\ Cardinality(Sentinels) \in Nat
    BY Zenon, <1>1, Sizes
<1>3. Cardinality(S) + Cardinality(T) > Cardinality(Sentinels)
    BY <1>1, <1>2
<1>4. S \cap T # {}
    BY Zenon, <1>1, <1>3, Sizes
<1> QED
    BY Zenon, <1>4 DEF S, T

\* What the abstract election keeps: votes typed and single, every winner with
\* its majority.
Elected ==
    /\ cast \subseteq Sentinels \X Epoch \X Sentinels
    /\ Election!VotesOnce /\ Election!WonByMajority

LEMMA ElectionStep ==
    ASSUME Elected, [Election!Next]_(Election!electionVars)
    PROVE  Elected'
<1>1. /\ cast' \subseteq Sentinels \X Epoch \X Sentinels
      /\ cast \subseteq cast'
      /\ Election!VotesOnce'
    <2>1. CASE UNCHANGED cast
        BY Zenon, <2>1 DEF Elected, Election!VotesOnce
    <2>2. ASSUME NEW v \in Sentinels, NEW c \in Sentinels, NEW e \in Epoch, Election!Vote(v, e, c)
          PROVE  /\ cast' \subseteq Sentinels \X Epoch \X Sentinels
                 /\ cast \subseteq cast' /\ Election!VotesOnce'
        <3>1. cast' = cast \cup {<<v, e, c>>} /\ Epoch \subseteq Nat
            BY <2>2, SentinelAssumption DEF Election!Vote, Epoch
        <3>2. \A w \in cast : w[1] = v => w[2] # e
            BY <2>2, <3>1 DEF Election!Vote, Elected
        <3>3. Election!VotesOnce'
            BY <3>1, <3>2 DEF Elected, Election!VotesOnce
        <3> QED
            BY <3>1, <3>3 DEF Elected
    <2> QED
        BY Zenon, <2>1, <2>2 DEF Election!Next, Election!electionVars, Epoch
<1>2. \/ UNCHANGED won
      \/ \E s \in Sentinels, e \in Epoch :
            Election!Majority(cast', s, e) /\ won' = won \cup {<<s, e>>}
    BY Zenon DEF Election!Next, Election!electionVars, Epoch
<1>3. Election!WonByMajority'
    <2>1. \A w \in won : Election!Majority(cast', w[1], w[2])
        BY Zenon, <1>1, MajorityGrows DEF Elected, Election!WonByMajority
    <2>2. \A w \in won' : Election!Majority(cast', w[1], w[2])
        BY <1>2, <2>1
    <2> QED
        BY Zenon, <2>2 DEF Election!WonByMajority, Election!Majority, Election!Supporters
<1> QED
    BY Zenon, <1>1, <1>3 DEF Elected

\* Two leaders of an epoch share a voter, that gave one vote in it.
LEMMA ElectedOnce ==
    ASSUME Elected
    PROVE  Election!OneLeader
<1> SUFFICES ASSUME NEW v \in won, NEW w \in won, v[2] = w[2]
             PROVE  v[1] = w[1]
    BY Zenon DEF Election!OneLeader
<1>1. Election!Majority(cast, v[1], v[2]) /\ Election!Majority(cast, w[1], v[2])
    BY Zenon DEF Elected, Election!WonByMajority
<1>2. PICK q : /\ q \in Election!Supporters(cast, v[1], v[2])
               /\ q \in Election!Supporters(cast, w[1], v[2])
    BY Zenon, <1>1, MajoritiesMeet
<1>3. <<q, v[2], v[1]>> \in cast /\ <<q, v[2], w[1]>> \in cast
    BY Zenon, <1>2 DEF Election!Supporters
<1> QED
    BY Zenon, <1>3 DEF Elected, Election!VotesOnce

\* What a step does to the votes is a step of the abstract election.
LEMMA VoteStepElects == VoteStep => [Election!Next]_(Election!electionVars)
    BY Zenon, ChosenByMajority DEF VoteStep, Election!Next, Election!electionVars

\* The invariant that the theorems below rest on: every memory is sane, every
\* vote a Sentinel or a message knows of was given, and none is newer than the
\* last one its voter has in its file.
THEOREM Inductive == Spec => []IInv
<1>1. Init => IInv
    BY Zenon, InitInv
<1>2. IInv /\ [Next]_vars => IInv'
    BY Zenon, SizesCounted, NextInv
<1> QED
    BY <1>1, <1>2, PTL DEF Spec

\* A failover never loses the slave it promotes (sentinelFailoverReconfNextSlave,
\* sentinelRefreshInstanceInfo and the address that Hellos announce use it
\* without a test), and its flag goes with its state.
THEOREM PromotedSlaveStays == Spec => []PromotedIsThere
<1>1. IInv => PromotedIsThere
    <2> SUFFICES ASSUME IInv PROVE PromotedIsThere
        BY Zenon
    <2>1. MaxEpoch \in Nat /\ redis \in [Redis -> Redis \cup {None}]
        BY Zenon, SentinelAssumption DEF IInv, World, Instance
    <2>2. ASSUME NEW s \in Sentinels
          PROVE  /\ {st[s].current_epoch, st[s].config_epoch, st[s].leader_epoch} \subseteq Nat
                 /\ st[s].leader \in Sentinels \cup {None}
                 /\ st[s].addr \in Redis /\ st[s].slaves \subseteq Redis
                 /\ st[s].promoted \in Redis \cup {None}
                 /\ st[s].failover_state \in NONE..RECONF_SLAVES
        <3>1. st[s] \in Memory /\ st[s].failover_state <= RECONF_SLAVES
            BY Zenon, MemoryFacts
        <3>2. /\ st[s].current_epoch \in Epoch /\ st[s].config_epoch \in Epoch
              /\ st[s].leader_epoch \in Epoch /\ st[s].leader \in Candidate /\ st[s].addr \in Redis
              /\ st[s].slaves \in SUBSET Redis /\ st[s].promoted \in Instance
              /\ st[s].failover_state \in NONE..UPDATE_CONFIG
            BY Zenon, <3>1 DEF Memory
        <3> QED
            BY <2>1, <3>1, <3>2 DEF Epoch, Candidate, Instance, NONE, UPDATE_CONFIG, RECONF_SLAVES
    <2>3. ASSUME NEW s \in Sentinels
          PROVE  /\ \/ \E r \in st[s].slaves :
                          st[s].sflags[r] \cap {"RECONF_SENT", "RECONF_INPROG"} # {}
                    \/ st[s].failover_state >= SEND_SLAVEOF_NOONE
                    => st[s].promoted \in st[s].slaves
                 /\ "FAILOVER" \in st[s].flags <=> st[s].failover_state # NONE
        <3>1. Live(st[s]) /\ st[s].slaves \subseteq Redis /\ st[s].failover_state \in NONE..RECONF_SLAVES
            BY Zenon, <2>2, MemoryFacts DEF Sane
        <3> QED
            BY <3>1 DEF Live, NONE, SEND_SLAVEOF_NOONE, RECONF_SLAVES
    <2> QED
        BY Zenon, <2>1, <2>2, <2>3 DEF PromotedIsThere, TypeOK
<1> QED
    BY <1>1, Inductive, PTL

\* No handler, Hello or restart makes a Sentinel's last vote, the epoch in its
\* file or the configuration it follows older (sentinelVoteLeader,
\* sentinelProcessHelloMessage, sentinelFlushConfig).
THEOREM EpochsGrow == Spec => EpochsNeverFall
<1>1. IInv /\ [Next]_vars =>
        [\A s \in Sentinels :
            /\ \/ st'[s].config_epoch >= st[s].config_epoch
               \/ st'[s].addr = st[s].addr
               \/ st[s].failover_state = RECONF_SLAVES /\ st'[s].addr = st[s].promoted
            /\ st'[s].leader_epoch >= st[s].leader_epoch
            /\ st'[s].disk.current_epoch >= st[s].disk.current_epoch]_vars
    BY Zenon, SizesCounted, NextInv DEF Steps, Later
<1> QED
    BY <1>1, Inductive, PTL DEF Spec, EpochsNeverFall

\* Requests, replies, timeouts, restarts and lost links implement the abstract
\* election: votes for growing epochs and, for an election decided in the
\* failover's own epoch, the votes of a majority (sentinelGetLeader).
THEOREM VotingIsElection == Spec => ImplementsElection
<1>1. Init => Election!Init
    BY Zenon DEF Init, Election!Init, won
<1>2. IInv /\ [Next]_vars => [Election!Next]_(Election!electionVars)
    BY Zenon, SizesCounted, NextInv, VoteStepElects DEF Steps
<1> QED
    BY <1>1, <1>2, Inductive, PTL DEF Spec, ImplementsElection, Election!Spec

\* So a Sentinel votes for one candidate in an epoch, before and after a crash
\* (sentinelVoteLeader), and no epoch has two leaders that were elected in it,
\* whatever replies are lost: the epoch a failover gives the new configuration
\* (sentinelFailoverWaitStart) is its leader's alone.
THEOREM OneLeaderPerEpoch == Spec => [](Election!VotesOnce /\ Election!OneLeader)
<1>1. Election!Init => Elected
    BY DEF Election!Init, Elected, Election!VotesOnce, Election!WonByMajority
<1>2. Elected /\ [Election!Next]_(Election!electionVars) => Elected'
    BY Zenon, ElectionStep
<1>3. Elected => Election!VotesOnce /\ Election!OneLeader
    BY ElectedOnce DEF Elected
<1> QED
    BY <1>1, <1>2, <1>3, VotingIsElection, PTL DEF ImplementsElection, Election!Spec
=============================================================================
