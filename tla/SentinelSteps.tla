--------------------------- MODULE SentinelSteps ----------------------------
(***************************************************************************)
(* What the functions of sentinel.c make of the memory of their Sentinel:  *)
(* each keeps it sane, gives at most one vote, for a later epoch, and      *)
(* declares a leader of its own epoch only with enough votes.              *)
(***************************************************************************)
EXTENDS Sentinel, TLAPS

Epoch == 0..MaxEpoch
Instance == Redis \cup {None}
Candidate == Sentinels \cup {None}
SlaveFlags == {"S_DOWN", "PROMOTED", "RECONF_SENT", "RECONF_INPROG", "RECONF_DONE"}

Peer == [down : BOOLEAN, leader : Candidate, leader_epoch : Epoch]
File == [current_epoch : Epoch, config_epoch : Epoch, leader_epoch : Epoch, addr : Redis,
         slaves : SUBSET Redis]
Memory ==
    [current_epoch : Epoch, config_epoch : Epoch, leader_epoch : Epoch, leader : Candidate,
     addr : Redis, slaves : SUBSET Redis, flags : SUBSET {"S_DOWN", "O_DOWN", "FAILOVER", "FORCE"},
     sflags : [Redis -> SUBSET SlaveFlags], failover_state : NONE..UPDATE_CONFIG,
     failover_epoch : Epoch, promoted : Instance, reported : {"master", "slave"},
     recent : SUBSET (Sentinels \X Epoch), leads : BOOLEAN, peers : [Sentinels -> Peer],
     tilt : BOOLEAN, out : SUBSET (Redis \X Instance), disk : File]

\* A failover in progress has its flag and, from SEND_SLAVEOF_NOONE on, its
\* promoted slave; slaves are reconfigured in RECONF_SLAVES only.
Live(x) ==
    /\ x \in Memory
    /\ x.failover_epoch <= x.current_epoch
    /\ "FAILOVER" \in x.flags <=> x.failover_state # NONE
    /\ x.failover_state >= SEND_SLAVEOF_NOONE => x.promoted \in x.slaves
    /\ x.failover_state < RECONF_SLAVES =>
         \A r \in Redis : x.sflags[r] \cap {"RECONF_SENT", "RECONF_INPROG"} = {}

\* The file has the vote and the address that Hellos announce.
Stored(x) ==
    /\ x.disk.current_epoch <= x.current_epoch
    /\ x.disk.leader_epoch = x.leader_epoch
    /\ x.disk.addr = IF x.failover_state >= RECONF_SLAVES THEN x.promoted ELSE x.addr
Sane(x) == Live(x) /\ Stored(x)

\* Every vote s knows of, its own or one that a peer reported, was given.
Backed(s, x) ==
    /\ x.leader # None => <<s, x.leader_epoch, x.leader>> \in cast
    /\ \A t \in Sentinels :
         x.peers[t].leader # None => <<t, x.peers[t].leader_epoch, x.peers[t].leader>> \in cast

-----------------------------------------------------------------------------
\* y is what a handler that gives no vote makes of x.
Follows(x, y) ==
    /\ Sane(y)
    /\ y.leader_epoch = x.leader_epoch /\ y.leader \in {x.leader, None}
    /\ \A t \in Sentinels : y.peers[t].leader # None =>
         y.peers[t].leader = x.peers[t].leader /\ y.peers[t].leader_epoch = x.peers[t].leader_epoch
    /\ y.disk.current_epoch >= x.disk.current_epoch
    /\ y.config_epoch >= x.config_epoch
    /\ y.failover_state = SELECT_SLAVE => x.failover_state = SELECT_SLAVE

\* The epochs, the votes, the address and the file stay.
Steady(x, y) ==
    /\ y.leader_epoch = x.leader_epoch /\ y.leader = x.leader /\ y.peers = x.peers
    /\ y.disk = x.disk /\ y.config_epoch = x.config_epoch /\ y.addr = x.addr
    /\ y.current_epoch = x.current_epoch /\ y.failover_epoch = x.failover_epoch

\* The states of a failover, in the order of sentinel.h.
LEMMA StatesTyped ==
    {NONE, WAIT_START, SELECT_SLAVE, SEND_SLAVEOF_NOONE, WAIT_PROMOTION, RECONF_SLAVES, UPDATE_CONFIG}
        \subseteq NONE..UPDATE_CONFIG
    BY DEF NONE, WAIT_START, SELECT_SLAVE, SEND_SLAVEOF_NOONE, WAIT_PROMOTION, RECONF_SLAVES,
           UPDATE_CONFIG

\* A memory that keeps its epochs, votes and file follows the old one.
LEMMA SteadyFollows ==
    ASSUME NEW x, NEW y, Sane(x), Live(y), Steady(x, y),
           y.failover_state >= RECONF_SLAVES => x.failover_state >= RECONF_SLAVES /\ y.promoted = x.promoted,
           y.failover_state < RECONF_SLAVES => x.failover_state < RECONF_SLAVES,
           y.failover_state = SELECT_SLAVE => x.failover_state = SELECT_SLAVE
    PROVE  Follows(x, y)
<1>1. /\ x.disk.current_epoch \in Epoch /\ x.config_epoch \in Epoch
      /\ x.failover_state \in NONE..UPDATE_CONFIG /\ y.failover_state \in NONE..UPDATE_CONFIG
      /\ MaxEpoch \in Nat
    BY SentinelAssumption DEF Sane, Live, Memory, File
<1>2. Stored(y)
    BY <1>1 DEF Sane, Stored, Steady, NONE, UPDATE_CONFIG, RECONF_SLAVES
<1> QED
    BY <1>1, <1>2 DEF Follows, Sane, Steady, Epoch

\* Functions that give no vote compose (sentinelHandleRedisInstance calls
\* several in a row).
LEMMA FollowsTransitive ==
    ASSUME NEW x, NEW y, NEW z, Sane(x), Follows(x, y), Follows(y, z)
    PROVE  Follows(x, z)
<1>1. /\ x \in Memory /\ y \in Memory /\ z \in Memory /\ MaxEpoch \in Nat
    BY SentinelAssumption DEF Follows, Sane, Live
<1>2. /\ {x.disk.current_epoch, y.disk.current_epoch, z.disk.current_epoch} \subseteq Epoch
      /\ {x.config_epoch, y.config_epoch, z.config_epoch} \subseteq Epoch
    BY <1>1 DEF Memory, File
<1> QED
    BY <1>1, <1>2 DEF Follows, Epoch

\* Doing nothing gives no vote.
LEMMA FollowsItself ==
    ASSUME NEW x, Sane(x)
    PROVE  Follows(x, x)
    BY SentinelAssumption DEF Follows, Sane, Live, Memory, File, Epoch

\* The file is brought up to date.
LEMMA FlushSane ==
    ASSUME NEW x, Live(x)
    PROVE  LET y == sentinelFlushConfig(x)
           IN /\ Sane(y) /\ y.disk.current_epoch = x.current_epoch
              /\ y = [x EXCEPT !.disk = y.disk]
<1> DEFINE d == rewriteConfigSentinelOption(x)
           now == sentinelGetCurrentMasterAddress(x)
           y == [x EXCEPT !.disk = d]
<1>1. x \in Memory
    BY DEF Live
<1>2. /\ x.addr \in Redis /\ x.slaves \in SUBSET Redis /\ x.promoted \in Redis \cup {None}
      /\ x.current_epoch \in Epoch /\ x.config_epoch \in Epoch /\ x.leader_epoch \in Epoch
      /\ x.failover_state \in 0..6
    BY <1>1 DEF Memory, Instance, NONE, UPDATE_CONFIG
<1>3. now \in Redis /\ now = IF x.failover_state >= RECONF_SLAVES THEN x.promoted ELSE x.addr
    <2>1. x.failover_state >= RECONF_SLAVES =>
             "FAILOVER" \in x.flags /\ x.promoted \in Redis /\ x.promoted # None
        BY <1>2, SentinelAssumption DEF Live, RECONF_SLAVES, SEND_SLAVEOF_NOONE, NONE
    <2> QED
        BY <1>2, <2>1 DEF sentinelGetCurrentMasterAddress
<1> HIDE DEF now
<1>4. /\ d \in File /\ d.current_epoch = x.current_epoch /\ d.leader_epoch = x.leader_epoch
      /\ d.addr = now
    BY <1>2, <1>3 DEF rewriteConfigSentinelOption, File, now
<1> HIDE DEF d
<1>5. /\ y \in Memory /\ y.disk = d /\ y.current_epoch = x.current_epoch
      /\ y.leader_epoch = x.leader_epoch /\ y.failover_state = x.failover_state
      /\ y.promoted = x.promoted /\ y.addr = x.addr /\ y.failover_epoch = x.failover_epoch
      /\ y.flags = x.flags /\ y.slaves = x.slaves /\ y.sflags = x.sflags
    BY <1>1, <1>4 DEF Memory
<1>6. sentinelFlushConfig(x) = y
    BY DEF sentinelFlushConfig, d
<1> HIDE DEF y
<1>7. Live(y)
    BY <1>5 DEF Live
<1>8. Stored(y)
    BY <1>2, <1>3, <1>4, <1>5, SentinelAssumption DEF Stored, Epoch
<1>9. y = [x EXCEPT !.disk = y.disk]
    BY <1>5 DEF y
<1> QED
    BY <1>4, <1>5, <1>6, <1>7, <1>8, <1>9 DEF Sane

\* S_DOWN and O_DOWN come and go; FAILOVER and FORCE stay.
LEMMA FlagsFollow ==
    ASSUME NEW x, Sane(x), NEW F \in SUBSET {"S_DOWN", "O_DOWN", "FAILOVER", "FORCE"},
           "FAILOVER" \in F <=> "FAILOVER" \in x.flags
    PROVE  LET y == [x EXCEPT !.flags = F]
           IN Follows(x, y) /\ y.failover_state = x.failover_state /\ y.current_epoch = x.current_epoch
<1> DEFINE y == [x EXCEPT !.flags = F]
<1>1. x \in Memory /\ Live(x)
    BY DEF Sane, Live
<1>2. /\ y \in Memory /\ Steady(x, y) /\ y.flags = F /\ y.failover_state = x.failover_state
      /\ y.promoted = x.promoted /\ y.slaves = x.slaves /\ y.sflags = x.sflags
      /\ y.current_epoch = x.current_epoch
    BY <1>1 DEF Memory, Steady
<1> HIDE DEF y
<1>3. Live(y)
    BY <1>1, <1>2 DEF Live, Steady
<1>4. Follows(x, y)
    BY <1>2, <1>3, SteadyFollows
<1> QED
    BY <1>2, <1>4 DEF y

\* Entering or leaving TILT mode (sentinelCheckTiltCondition).
LEMMA TiltFollows ==
    ASSUME NEW x, Sane(x), NEW b \in BOOLEAN
    PROVE  LET y == [x EXCEPT !.tilt = b]
           IN Follows(x, y) /\ y.failover_state = x.failover_state /\ y.current_epoch = x.current_epoch
<1> DEFINE y == [x EXCEPT !.tilt = b]
<1>1. x \in Memory /\ Live(x)
    BY DEF Sane, Live
<1>2. /\ y \in Memory /\ Steady(x, y) /\ y.flags = x.flags /\ y.failover_state = x.failover_state
      /\ y.promoted = x.promoted /\ y.slaves = x.slaves /\ y.sflags = x.sflags
      /\ y.current_epoch = x.current_epoch
    BY <1>1 DEF Memory, Steady
<1> HIDE DEF y
<1>3. Live(y)
    BY <1>1, <1>2 DEF Live, Steady
<1>4. Follows(x, y)
    BY <1>2, <1>3, SteadyFollows
<1> QED
    BY <1>2, <1>4 DEF y

\* sentinelCheckSubjectivelyDown, for the master.
LEMMA SubjectivelyFollows ==
    ASSUME NEW x, Sane(x), NEW down \in BOOLEAN
    PROVE  LET y == sentinelCheckSubjectivelyDown(x, down)
           IN Follows(x, y) /\ y.failover_state = x.failover_state
<1> DEFINE F == IF down THEN x.flags \cup {"S_DOWN"} ELSE x.flags \ {"S_DOWN"}
<1>1. x.flags \in SUBSET {"S_DOWN", "O_DOWN", "FAILOVER", "FORCE"} /\ x \in Memory
    BY DEF Sane, Live, Memory
<1>2. F \in SUBSET {"S_DOWN", "O_DOWN", "FAILOVER", "FORCE"} /\ ("FAILOVER" \in F <=> "FAILOVER" \in x.flags)
    BY <1>1
<1>3. sentinelCheckSubjectivelyDown(x, down) = [x EXCEPT !.flags = F]
    BY <1>1 DEF sentinelCheckSubjectivelyDown, Memory
<1> HIDE DEF F
<1> QED
    BY <1>2, <1>3, FlagsFollow

\* sentinelCheckObjectivelyDown, from what the peers have said.
LEMMA ObjectivelyFollows ==
    ASSUME NEW x, Sane(x), NEW me \in Sentinels
    PROVE  LET y == sentinelCheckObjectivelyDown(x, me)
           IN Follows(x, y) /\ y.failover_state = x.failover_state
<1> DEFINE agree == {t \in Sentinels \ {me} : x.peers[t].down}
           F == IF "S_DOWN" \in x.flags /\ 1 + Cardinality(agree) >= Quorum
                THEN x.flags \cup {"O_DOWN"} ELSE x.flags \ {"O_DOWN"}
<1>1. x.flags \in SUBSET {"S_DOWN", "O_DOWN", "FAILOVER", "FORCE"} /\ x \in Memory
    BY DEF Sane, Live, Memory
<1> HIDE DEF agree
<1>2. F \in SUBSET {"S_DOWN", "O_DOWN", "FAILOVER", "FORCE"} /\ ("FAILOVER" \in F <=> "FAILOVER" \in x.flags)
    BY <1>1
<1>3. sentinelCheckObjectivelyDown(x, me) = [x EXCEPT !.flags = F]
    BY <1>1 DEF sentinelCheckObjectivelyDown, Memory, agree
<1> HIDE DEF F
<1> QED
    BY <1>2, <1>3, FlagsFollow

\* sentinelStartFailover takes a new epoch and forgets older votes.
LEMMA StartFollows ==
    ASSUME NEW x, Sane(x), "FAILOVER" \notin x.flags, x.current_epoch < MaxEpoch,
           NEW me, NEW P \in SUBSET (Sentinels \X Epoch)
    PROVE  LET y == sentinelStartFailover(x, me, P)
           IN /\ Follows(x, y) /\ y.failover_state = WAIT_START
              /\ y.flags = x.flags \cup {"FAILOVER"}
<1> DEFINE e == x.current_epoch + 1
           F == x.flags \cup {"FAILOVER"}
           y == [x EXCEPT !.failover_state = WAIT_START, !.flags = F,
                          !.current_epoch = e, !.failover_epoch = e, !.recent = P]
<1>1. x \in Memory /\ Live(x) /\ Stored(x)
    BY DEF Sane, Live
<1>2. /\ x.current_epoch \in Epoch /\ x.flags \in SUBSET {"S_DOWN", "O_DOWN", "FAILOVER", "FORCE"}
      /\ x.disk.current_epoch \in Epoch /\ MaxEpoch \in Nat
      /\ x.config_epoch \in Epoch
    BY <1>1, SentinelAssumption DEF Memory, File
<1>3. e \in Epoch /\ e >= x.current_epoch /\ F \in SUBSET {"S_DOWN", "O_DOWN", "FAILOVER", "FORCE"}
    BY <1>2 DEF Epoch
<1>4. sentinelStartFailover(x, me, P) = y
    BY <1>1 DEF sentinelStartFailover, Memory
<1>5. x.failover_state = NONE
    BY <1>1 DEF Live
<1>6. WAIT_START \in NONE..UPDATE_CONFIG
    BY StatesTyped
<1>7. "FAILOVER" \in F
    OBVIOUS
<1> HIDE DEF e, F
<1>8. /\ y \in Memory /\ y.failover_state = WAIT_START /\ y.flags = F
      /\ y.current_epoch = e /\ y.failover_epoch = e /\ y.leader_epoch = x.leader_epoch
      /\ y.leader = x.leader /\ y.peers = x.peers /\ y.disk = x.disk /\ y.addr = x.addr
      /\ y.config_epoch = x.config_epoch /\ y.sflags = x.sflags
    BY Zenon, <1>1, <1>3, <1>6 DEF Memory
<1> HIDE DEF y
<1>9. Live(y)
    BY <1>1, <1>2, <1>3, <1>5, <1>7, <1>8
       DEF Live, Epoch, WAIT_START, NONE, SEND_SLAVEOF_NOONE, RECONF_SLAVES
<1>10. Stored(y)
    BY <1>1, <1>2, <1>3, <1>5, <1>8 DEF Stored, Epoch, WAIT_START, NONE, RECONF_SLAVES
<1>11. Follows(x, y)
    BY <1>2, <1>8, <1>9, <1>10 DEF Follows, Sane, WAIT_START, SELECT_SLAVE, Epoch
<1> QED
    BY <1>4, <1>8, <1>11 DEF F

\* An abandoned failover leaves no flag, and no slave was reconfigured yet.
LEMMA AbortFollows ==
    ASSUME NEW x, Sane(x), x.failover_state < RECONF_SLAVES
    PROVE  LET y == sentinelAbortFailover(x)
           IN /\ Follows(x, y) /\ y.failover_state = NONE
              /\ Steady(x, y)
<1> DEFINE F == x.flags \ {"FAILOVER", "FORCE"}
           G == [r \in Redis |-> IF r = x.promoted THEN x.sflags[r] \ {"PROMOTED"} ELSE x.sflags[r]]
           y == [x EXCEPT !.flags = F, !.failover_state = NONE, !.sflags = G, !.promoted = None]
<1>1. x \in Memory /\ Live(x)
    BY DEF Sane, Live
<1>2. /\ x.sflags \in [Redis -> SUBSET SlaveFlags]
      /\ x.flags \in SUBSET {"S_DOWN", "O_DOWN", "FAILOVER", "FORCE"}
      /\ x.failover_state \in 0..6
    BY <1>1 DEF Memory, NONE, UPDATE_CONFIG
<1>3. /\ F \in SUBSET {"S_DOWN", "O_DOWN", "FAILOVER", "FORCE"} /\ "FAILOVER" \notin F
      /\ G \in [Redis -> SUBSET SlaveFlags]
    BY <1>2
<1>4. \A r \in Redis : G[r] \cap {"RECONF_SENT", "RECONF_INPROG"} = {}
    BY <1>1 DEF Live
<1>5. sentinelAbortFailover(x) = y
    BY <1>1 DEF sentinelAbortFailover, Memory
<1> HIDE DEF F, G
<1>6. /\ y \in Memory /\ Steady(x, y) /\ y.flags = F /\ y.failover_state = NONE /\ y.sflags = G
    BY Zenon, <1>1, <1>3, StatesTyped DEF Memory, Steady, Instance
<1> HIDE DEF y
<1>7. Live(y)
    BY <1>1, <1>3, <1>4, <1>6 DEF Live, Steady, NONE, SEND_SLAVEOF_NOONE
<1>8. Follows(x, y)
    BY <1>6, <1>7, SteadyFollows DEF NONE, RECONF_SLAVES, SELECT_SLAVE
<1> QED
    BY <1>5, <1>6, <1>8

\* sentinelFailoverSelectSlave names the promoted slave, or aborts.
LEMMA SelectFollows ==
    ASSUME NEW x, Sane(x), x.failover_state = SELECT_SLAVE, NEW r \in x.slaves \cup {None}
    PROVE  LET y == sentinelFailoverSelectSlave(x, r)
           IN Follows(x, y) /\ y.failover_state < RECONF_SLAVES
<1>1. x \in Memory /\ Live(x)
    BY DEF Sane, Live
<1>2. x.sflags \in [Redis -> SUBSET SlaveFlags] /\ x.slaves \in SUBSET Redis
    BY <1>1 DEF Memory
<1>3. CASE r = None
    BY <1>3, AbortFollows DEF sentinelFailoverSelectSlave, SELECT_SLAVE, RECONF_SLAVES, NONE
<1>4. CASE r # None
    <2> DEFINE G == [x.sflags EXCEPT ![r] = @ \cup {"PROMOTED"}]
               y == [x EXCEPT !.sflags = G, !.promoted = r, !.failover_state = SEND_SLAVEOF_NOONE]
    <2>1. r \in x.slaves /\ r \in Redis
        BY <1>2, <1>4
    <2>2. /\ G \in [Redis -> SUBSET SlaveFlags]
          /\ \A q \in Redis : G[q] \cap {"RECONF_SENT", "RECONF_INPROG"} = {}
        BY <1>1, <1>2, <2>1 DEF Live, SELECT_SLAVE, RECONF_SLAVES, SlaveFlags
    <2>3. sentinelFailoverSelectSlave(x, r) = y
        BY <1>1, <1>4 DEF sentinelFailoverSelectSlave, Memory
    <2> HIDE DEF G
    <2>4. /\ y \in Memory /\ Steady(x, y) /\ y.flags = x.flags /\ y.sflags = G /\ y.promoted = r
          /\ y.failover_state = SEND_SLAVEOF_NOONE /\ y.slaves = x.slaves
        BY Zenon, <1>1, <2>1, <2>2, StatesTyped DEF Memory, Steady, Instance
    <2> HIDE DEF y
    <2>5. Live(y)
        BY <1>1, <2>1, <2>2, <2>4 DEF Live, Steady, NONE, SEND_SLAVEOF_NOONE, SELECT_SLAVE
    <2>6. Follows(x, y)
        BY <2>4, <2>5, SteadyFollows DEF SEND_SLAVEOF_NOONE, RECONF_SLAVES, SELECT_SLAVE
    <2> QED
        BY <2>3, <2>4, <2>6 DEF SEND_SLAVEOF_NOONE, RECONF_SLAVES
<1> QED
    BY <1>3, <1>4

\* sentinelFailoverSendSlaveOfNoOne.
LEMMA SendNoOneFollows ==
    ASSUME NEW x, Sane(x), x.failover_state = SEND_SLAVEOF_NOONE, NEW conn, NEW timeout \in BOOLEAN
    PROVE  LET y == sentinelFailoverSendSlaveOfNoOne(x, conn, timeout)
           IN Follows(x, y) /\ y.failover_state < RECONF_SLAVES
<1> DEFINE O == x.out \cup {<<x.promoted, None>>}
           y == [x EXCEPT !.out = O, !.failover_state = WAIT_PROMOTION]
<1>1. x \in Memory /\ Live(x)
    BY DEF Sane, Live
<1>2. x.out \in SUBSET (Redis \X Instance) /\ x.slaves \in SUBSET Redis /\ x.promoted \in x.slaves
    BY <1>1 DEF Memory, Live
<1>3. O \in SUBSET (Redis \X Instance)
    BY <1>2 DEF Instance
<1>4. [sentinelSendSlaveOf(x, x.promoted, None) EXCEPT !.failover_state = WAIT_PROMOTION] = y
    BY <1>1 DEF sentinelSendSlaveOf, Memory
<1> HIDE DEF O
<1>5. /\ y \in Memory /\ Steady(x, y) /\ y.flags = x.flags /\ y.sflags = x.sflags
      /\ y.promoted = x.promoted /\ y.failover_state = WAIT_PROMOTION /\ y.slaves = x.slaves
    BY Zenon, <1>1, <1>3, StatesTyped DEF Memory, Steady
<1> HIDE DEF y
<1>6. Live(y)
    BY <1>1, <1>2, <1>5
       DEF Live, Steady, NONE, SEND_SLAVEOF_NOONE, WAIT_PROMOTION, RECONF_SLAVES
<1>7. Follows(x, y)
    BY <1>5, <1>6, SteadyFollows DEF SEND_SLAVEOF_NOONE, WAIT_PROMOTION, RECONF_SLAVES, SELECT_SLAVE
<1>8. /\ Follows(x, sentinelAbortFailover(x)) /\ sentinelAbortFailover(x).failover_state < RECONF_SLAVES
      /\ Follows(x, x) /\ x.failover_state < RECONF_SLAVES
    BY AbortFollows, FollowsItself DEF SEND_SLAVEOF_NOONE, RECONF_SLAVES, NONE
<1> QED
    BY <1>4, <1>5, <1>7, <1>8
       DEF sentinelFailoverSendSlaveOfNoOne, WAIT_PROMOTION, RECONF_SLAVES

\* sentinelFailoverWaitPromotion.
LEMMA WaitPromotionFollows ==
    ASSUME NEW x, Sane(x), x.failover_state = WAIT_PROMOTION, NEW timeout \in BOOLEAN
    PROVE  LET y == sentinelFailoverWaitPromotion(x, timeout)
           IN Follows(x, y) /\ y.failover_state < RECONF_SLAVES
<1>1. /\ Follows(x, sentinelAbortFailover(x)) /\ sentinelAbortFailover(x).failover_state < RECONF_SLAVES
      /\ Follows(x, x) /\ x.failover_state < RECONF_SLAVES
    BY AbortFollows, FollowsItself DEF WAIT_PROMOTION, RECONF_SLAVES, NONE
<1> QED
    BY <1>1 DEF sentinelFailoverWaitPromotion

\* Commands and flags of the slaves that are being reconfigured.
LEMMA ReconfFollows ==
    ASSUME NEW x, Sane(x), x.failover_state = RECONF_SLAVES, NEW y \in Memory, Steady(x, y),
           y.flags = x.flags, y.promoted = x.promoted, y.slaves = x.slaves,
           y.failover_state \in {RECONF_SLAVES, UPDATE_CONFIG}
    PROVE  Follows(x, y)
<1>1. Live(x)
    BY DEF Sane
<1>2. Live(y)
    BY <1>1 DEF Live, Steady, NONE, SEND_SLAVEOF_NOONE, RECONF_SLAVES, UPDATE_CONFIG
<1> QED
    BY <1>2, SteadyFollows DEF RECONF_SLAVES, UPDATE_CONFIG, SELECT_SLAVE

\* sentinelFailoverDetectEnd.
LEMMA DetectEndFollows ==
    ASSUME NEW x, Sane(x), x.failover_state = RECONF_SLAVES, NEW conn, NEW timeout \in BOOLEAN
    PROVE  LET y == sentinelFailoverDetectEnd(x, conn, timeout)
           IN Follows(x, y) /\ y.failover_state \in {RECONF_SLAVES, UPDATE_CONFIG}
<1> DEFINE left == {r \in x.slaves :
                      x.sflags[r] \cap {"PROMOTED", "RECONF_DONE", "S_DOWN"} = {}}
           last == {r \in x.slaves \cap conn :
                      x.sflags[r] \cap {"RECONF_DONE", "RECONF_SENT"} = {}}
           O == x.out \cup {<<r, x.promoted>> : r \in last}
           G == [r \in Redis |-> IF r \in last THEN x.sflags[r] \cup {"RECONF_SENT"} ELSE x.sflags[r]]
           y == [x EXCEPT !.out = O, !.sflags = G, !.failover_state = UPDATE_CONFIG]
           z == [x EXCEPT !.out = x.out, !.sflags = x.sflags, !.failover_state = UPDATE_CONFIG]
<1>1. x \in Memory /\ Live(x)
    BY DEF Sane, Live
<1>2. /\ x.out \in SUBSET (Redis \X Instance) /\ x.slaves \in SUBSET Redis
      /\ x.promoted \in Instance /\ x.sflags \in [Redis -> SUBSET SlaveFlags]
    BY <1>1 DEF Memory
<1>3. last \subseteq Redis
    BY <1>2
<1>4. /\ y = [x EXCEPT !.failover_state = UPDATE_CONFIG,
                       !.out = @ \cup {<<r, x.promoted>> : r \in last},
                       !.sflags = [r \in Redis |->
                           IF r \in last THEN @[r] \cup {"RECONF_SENT"} ELSE @[r]]]
      /\ z = [x EXCEPT !.failover_state = UPDATE_CONFIG]
    <2> HIDE DEF last
    <2> QED
        BY Zenon, <1>1 DEF Memory
<1>5. sentinelFailoverDetectEnd(x, conn, timeout) \in {x, y, z}
    BY <1>4 DEF sentinelFailoverDetectEnd
<1> HIDE DEF last
<1>6. O \in SUBSET (Redis \X Instance) /\ G \in [Redis -> SUBSET SlaveFlags]
    BY <1>2, <1>3 DEF SlaveFlags
<1> HIDE DEF O, G
<1>7. /\ y \in Memory /\ Steady(x, y) /\ y.flags = x.flags /\ y.promoted = x.promoted
      /\ y.slaves = x.slaves /\ y.failover_state = UPDATE_CONFIG
    BY Zenon, <1>1, <1>6, StatesTyped DEF Memory, Steady
<1>8. /\ z \in Memory /\ Steady(x, z) /\ z.flags = x.flags /\ z.promoted = x.promoted
      /\ z.slaves = x.slaves /\ z.failover_state = UPDATE_CONFIG
    BY Zenon, <1>1, StatesTyped DEF Memory, Steady
<1> HIDE DEF y, z
<1>9. Follows(x, y) /\ Follows(x, z)
    BY <1>7, <1>8, ReconfFollows
<1> QED
    BY <1>5, <1>7, <1>8, <1>9, FollowsItself

\* sentinelFailoverReconfNextSlave.
LEMMA ReconfNextFollows ==
    ASSUME NEW x, Sane(x), x.failover_state = RECONF_SLAVES, NEW told \in SUBSET x.slaves,
           NEW slow \in SUBSET x.slaves, NEW conn, NEW timeout \in BOOLEAN
    PROVE  LET y == sentinelFailoverReconfNextSlave(x, told, slow, conn, timeout)
           IN Follows(x, y) /\ y.failover_state \in {RECONF_SLAVES, UPDATE_CONFIG}
<1> DEFINE O == x.out \cup {<<r, x.promoted>> : r \in told}
           G == [r \in Redis |->
                   (IF r \in slow THEN (x.sflags[r] \ {"RECONF_SENT"}) \cup {"RECONF_DONE"}
                    ELSE x.sflags[r]) \cup (IF r \in told THEN {"RECONF_SENT"} ELSE {})]
           y == [x EXCEPT !.out = O, !.sflags = G, !.failover_state = RECONF_SLAVES]
<1>1. x \in Memory /\ Live(x)
    BY DEF Sane, Live
<1>2. /\ x.out \in SUBSET (Redis \X Instance) /\ x.slaves \in SUBSET Redis
      /\ x.promoted \in Instance /\ x.sflags \in [Redis -> SUBSET SlaveFlags]
    BY <1>1 DEF Memory
<1>3. O \in SUBSET (Redis \X Instance)
    BY <1>2
<1>4. G \in [Redis -> SUBSET SlaveFlags]
    BY <1>2 DEF SlaveFlags
<1>5. y = [x EXCEPT !.out = @ \cup {<<r, x.promoted>> : r \in told},
                    !.sflags = [r \in Redis |->
              (IF r \in slow THEN (@[r] \ {"RECONF_SENT"}) \cup {"RECONF_DONE"}
               ELSE @[r]) \cup (IF r \in told THEN {"RECONF_SENT"} ELSE {})]]
    BY Zenon, <1>1 DEF Memory
<1>6. sentinelFailoverReconfNextSlave(x, told, slow, conn, timeout)
        = sentinelFailoverDetectEnd(y, conn, timeout)
    BY <1>5 DEF sentinelFailoverReconfNextSlave
<1> HIDE DEF O, G
<1>61. /\ y \in Memory /\ Steady(x, y) /\ y.flags = x.flags /\ y.promoted = x.promoted
       /\ y.slaves = x.slaves /\ y.failover_state = RECONF_SLAVES
    BY ZenonT(40), <1>1, <1>3, <1>4, StatesTyped DEF Memory, Steady
<1> HIDE DEF y
<1>7. Follows(x, y) /\ y.failover_state = RECONF_SLAVES
    BY <1>61, ReconfFollows
<1>8. /\ Follows(y, sentinelFailoverDetectEnd(y, conn, timeout))
      /\ sentinelFailoverDetectEnd(y, conn, timeout).failover_state \in {RECONF_SLAVES, UPDATE_CONFIG}
    BY <1>7, DetectEndFollows DEF Follows
<1> QED
    BY <1>6, <1>7, <1>8, FollowsTransitive

\* sentinelAskMasterStateToOtherSentinels forgets old replies.
LEMMA ForgetFollows ==
    ASSUME NEW x, Sane(x), NEW stale
    PROVE  LET y == ForgetStale(x, stale)
           IN Follows(x, y) /\ y = [x EXCEPT !.peers = y.peers]
<1> DEFINE Q == [t \in Sentinels |->
                   IF t \in stale THEN [x.peers[t] EXCEPT !.down = FALSE, !.leader = None]
                   ELSE x.peers[t]]
           y == [x EXCEPT !.peers = Q]
<1>1. x \in Memory /\ Live(x) /\ Stored(x)
    BY DEF Sane, Live
<1>2. x.peers \in [Sentinels -> Peer] /\ x.disk.current_epoch \in Epoch /\ x.config_epoch \in Epoch
      /\ MaxEpoch \in Nat
    BY <1>1, SentinelAssumption DEF Memory, File
<1>3. /\ Q \in [Sentinels -> Peer]
      /\ \A t \in Sentinels : Q[t].leader # None =>
           Q[t].leader = x.peers[t].leader /\ Q[t].leader_epoch = x.peers[t].leader_epoch
    BY Zenon, <1>2 DEF Peer, Candidate
<1>4. ForgetStale(x, stale) = y
    BY <1>1 DEF ForgetStale, Memory
<1> HIDE DEF Q
<1>5. /\ y \in Memory /\ y.peers = Q /\ y.current_epoch = x.current_epoch
      /\ y.leader_epoch = x.leader_epoch /\ y.failover_state = x.failover_state
      /\ y.promoted = x.promoted /\ y.addr = x.addr /\ y.failover_epoch = x.failover_epoch
      /\ y.flags = x.flags /\ y.slaves = x.slaves /\ y.sflags = x.sflags /\ y.leader = x.leader
      /\ y.disk = x.disk /\ y.config_epoch = x.config_epoch
    BY <1>1, <1>3 DEF Memory
<1>6. y = [x EXCEPT !.peers = y.peers]
    BY <1>5
<1> HIDE DEF y
<1>7. Live(y) /\ Stored(y)
    BY <1>1, <1>5 DEF Live, Stored
<1>8. Follows(x, y)
    BY <1>2, <1>3, <1>5, <1>7 DEF Follows, Sane, Epoch
<1> QED
    BY <1>4, <1>6, <1>8

\* The failover and its promoted slave are gone, and the file says so.
LEMMA ChangeAddressFollows ==
    ASSUME NEW x, Sane(x), NEW new \in Redis
    PROVE  LET y == sentinelResetMasterAndChangeAddress(x, new)
           IN Follows(x, y) /\ y.failover_state = NONE
<1> DEFINE back == (x.slaves \ {new}) \cup (IF new # x.addr THEN {x.addr} ELSE {})
           z == [x EXCEPT !.slaves = back, !.sflags = NoFlags, !.flags = {}, !.leader = None,
                          !.failover_state = NONE, !.recent = {}, !.promoted = None,
                          !.reported = "master", !.addr = new]
           y == sentinelFlushConfig(z)
<1>1. x \in Memory /\ Live(x) /\ Stored(x)
    BY DEF Sane, Live
<1>2. /\ x.slaves \in SUBSET Redis /\ x.addr \in Redis /\ x.disk.current_epoch \in Epoch
      /\ x.config_epoch \in Epoch /\ x.current_epoch \in Epoch /\ MaxEpoch \in Nat
    BY <1>1, SentinelAssumption DEF Memory, File
<1>3. back \in SUBSET Redis /\ NoFlags \in [Redis -> SUBSET SlaveFlags]
    BY <1>2 DEF NoFlags
<1>4. [sentinelResetMaster(x) EXCEPT !.addr = new, !.slaves = back] = z
    BY ZenonT(40), <1>1 DEF sentinelResetMaster, Memory
<1>5. sentinelResetMasterAndChangeAddress(x, new) = y
    BY <1>4 DEF sentinelResetMasterAndChangeAddress
<1> HIDE DEF back
<1>6. /\ z \in Memory /\ z.current_epoch = x.current_epoch /\ z.leader_epoch = x.leader_epoch
      /\ z.failover_state = NONE /\ z.failover_epoch = x.failover_epoch /\ z.flags = {}
      /\ z.sflags = NoFlags /\ z.leader = None /\ z.config_epoch = x.config_epoch
      /\ z.peers = x.peers
    BY Zenon, <1>1, <1>3, StatesTyped DEF Memory, Instance, Candidate
<1> HIDE DEF z
<1>7. Live(z)
    BY <1>1, <1>6 DEF Live, NONE, SEND_SLAVEOF_NOONE, NoFlags
<1>8. Sane(y) /\ y.disk.current_epoch = x.current_epoch /\ y = [z EXCEPT !.disk = y.disk]
    BY <1>6, <1>7, FlushSane
<1> HIDE DEF y
<1>9. /\ y.leader_epoch = x.leader_epoch /\ y.leader = None /\ y.peers = x.peers
      /\ y.config_epoch = x.config_epoch /\ y.failover_state = NONE
    BY <1>6, <1>8 DEF Memory
<1>10. y.disk.current_epoch >= x.disk.current_epoch
    BY <1>1, <1>2, <1>8 DEF Stored, Epoch
<1>11. Follows(x, y)
    BY <1>2, <1>8, <1>9, <1>10 DEF Follows, NONE, SELECT_SLAVE, Epoch
<1> QED
    BY <1>5, <1>9, <1>11

\* All but the current epoch, the vote, the time of it and the file stay.
Kin(x, y) ==
    /\ y.flags = x.flags /\ y.slaves = x.slaves /\ y.sflags = x.sflags /\ y.peers = x.peers
    /\ y.failover_state = x.failover_state /\ y.failover_epoch = x.failover_epoch
    /\ y.promoted = x.promoted /\ y.addr = x.addr /\ y.config_epoch = x.config_epoch

\* A newer epoch is adopted and saved.
LEMMA RaiseFollows ==
    ASSUME NEW x, Sane(x), NEW e \in Epoch, e >= x.current_epoch
    PROVE  LET y == sentinelFlushConfig([x EXCEPT !.current_epoch = e])
           IN Follows(x, y) /\ Kin(x, y) /\ y.leader = x.leader /\ y.current_epoch = e
<1> DEFINE z == [x EXCEPT !.current_epoch = e]
           y == sentinelFlushConfig(z)
<1>1. x \in Memory /\ Live(x) /\ Stored(x)
    BY DEF Sane, Live
<1>2. /\ x.disk.current_epoch \in Epoch /\ x.config_epoch \in Epoch /\ x.current_epoch \in Epoch
      /\ x.failover_epoch \in Epoch /\ MaxEpoch \in Nat
    BY <1>1, SentinelAssumption DEF Memory, File
<1>3. /\ z \in Memory /\ Kin(x, z) /\ z.current_epoch = e /\ z.leader = x.leader
      /\ z.leader_epoch = x.leader_epoch
    BY <1>1 DEF Memory, Kin
<1> HIDE DEF z
<1>4. Live(z)
    BY <1>1, <1>2, <1>3 DEF Live, Kin, Epoch
<1>5. Sane(y) /\ y.disk.current_epoch = e /\ y = [z EXCEPT !.disk = y.disk]
    BY <1>3, <1>4, FlushSane
<1> HIDE DEF y
<1>6. /\ Kin(x, y) /\ y.current_epoch = e /\ y.leader = x.leader /\ y.leader_epoch = x.leader_epoch
    BY <1>3, <1>5 DEF Memory, Kin
<1>7. y.disk.current_epoch >= x.disk.current_epoch
    BY <1>1, <1>2, <1>5 DEF Stored, Epoch
<1>8. Follows(x, y)
    BY <1>2, <1>5, <1>6, <1>7 DEF Follows, Kin, Epoch
<1> QED
    BY <1>6, <1>8 DEF y, z

Ballot(x, y, c) ==
    \/ y.leader = x.leader /\ y.leader_epoch = x.leader_epoch
    \/ y.leader = c /\ y.leader_epoch > x.leader_epoch

\* A vote is for a later epoch than the one before it, and saved.
LEMMA VoteSane ==
    ASSUME NEW x, Sane(x), NEW me, NEW req \in Epoch, NEW c \in Sentinels,
           NEW P \in SUBSET (Sentinels \X Epoch)
    PROVE  LET y == sentinelVoteLeader(x, me, req, c, P)
           IN /\ Sane(y) /\ Kin(x, y) /\ Ballot(x, y, c)
              /\ y.disk.current_epoch >= x.disk.current_epoch
              /\ y.current_epoch = IF req > x.current_epoch THEN req ELSE x.current_epoch
<1> DEFINE y == IF req > x.current_epoch
                THEN sentinelFlushConfig([x EXCEPT !.current_epoch = req]) ELSE x
           z == [y EXCEPT !.leader = c, !.leader_epoch = y.current_epoch]
           f == sentinelFlushConfig(z)
           R == IF c # me THEN P ELSE y.recent
           v == [f EXCEPT !.recent = R]
<1>1. x.current_epoch \in Epoch /\ x.leader_epoch \in Epoch /\ MaxEpoch \in Nat
      /\ x.disk.current_epoch \in Epoch
    BY SentinelAssumption DEF Sane, Live, Memory, File
<1>2. /\ Follows(x, y) /\ Kin(x, y) /\ y.leader = x.leader
      /\ y.current_epoch = IF req > x.current_epoch THEN req ELSE x.current_epoch
    <2>1. CASE req > x.current_epoch
        BY <1>1, <2>1, RaiseFollows DEF Epoch
    <2>2. CASE ~(req > x.current_epoch)
        BY <2>2, FollowsItself DEF Kin
    <2> QED
        BY <2>1, <2>2
<1>3. sentinelVoteLeader(x, me, req, c, P) =
        IF y.leader_epoch < req /\ y.current_epoch <= req THEN v ELSE y
    BY DEF sentinelVoteLeader
<1> HIDE DEF y
<1>4. /\ y \in Memory /\ Live(y) /\ Sane(y) /\ Stored(y) /\ y.leader_epoch = x.leader_epoch
      /\ y.disk.current_epoch >= x.disk.current_epoch
    BY <1>2 DEF Follows, Sane, Live
<1>5. ASSUME y.leader_epoch < req /\ y.current_epoch <= req
      PROVE  /\ Sane(v) /\ Kin(x, v) /\ v.leader = c /\ v.leader_epoch > x.leader_epoch
             /\ v.disk.current_epoch >= x.disk.current_epoch
             /\ v.current_epoch = y.current_epoch
    <2>1. /\ y.current_epoch \in Epoch /\ y.recent \in SUBSET (Sentinels \X Epoch)
          /\ y.disk.current_epoch \in Epoch
        BY <1>4 DEF Memory, File
    <2>2. /\ z \in Memory /\ Kin(y, z) /\ z.leader = c /\ z.leader_epoch = y.current_epoch
          /\ z.current_epoch = y.current_epoch
        BY Zenon, <1>4, <2>1 DEF Memory, Kin, Candidate
    <2> HIDE DEF z
    <2>3. Live(z)
        BY <1>4, <2>2 DEF Live, Kin
    <2>4. Sane(f) /\ f.disk.current_epoch = y.current_epoch /\ f = [z EXCEPT !.disk = f.disk]
        BY <2>2, <2>3, FlushSane
    <2> HIDE DEF f
    <2>5. /\ f \in Memory /\ Kin(y, f) /\ f.leader = c /\ f.leader_epoch = y.current_epoch
          /\ f.current_epoch = y.current_epoch
        BY <2>2, <2>4 DEF Memory, Kin, Sane, Live
    <2>6. R \in SUBSET (Sentinels \X Epoch)
        BY <2>1
    <2> HIDE DEF R
    <2>7. /\ v \in Memory /\ Kin(f, v) /\ v.leader = c /\ v.leader_epoch = y.current_epoch
          /\ v.current_epoch = y.current_epoch /\ v.disk = f.disk
        BY <2>5, <2>6 DEF Memory, Kin
    <2> HIDE DEF v
    <2>8. Sane(v)
        BY <2>4, <2>5, <2>7 DEF Sane, Live, Stored, Kin
    <2>9. Kin(x, v)
        BY <1>2, <2>5, <2>7 DEF Kin
    <2>10. y.current_epoch = req
        BY <1>1, <1>2, <1>5 DEF Epoch
    <2>11. v.leader_epoch > x.leader_epoch
        BY <1>1, <1>4, <1>5, <2>7, <2>10 DEF Epoch
    <2>12. v.disk.current_epoch >= x.disk.current_epoch
        BY <1>1, <1>4, <2>1, <2>4, <2>7 DEF Stored, Epoch
    <2> QED
        BY <2>7, <2>8, <2>9, <2>11, <2>12
<1> HIDE DEF v
<1> QED
    BY <1>2, <1>3, <1>4, <1>5 DEF Ballot

\* A change of the slaves, of their flags or of what was asked of them that
\* starts no reconfiguration.
LEMMA SlavesFollow ==
    ASSUME NEW x, Sane(x), NEW y \in Memory, Steady(x, y), y.flags = x.flags,
           y.promoted = x.promoted, x.slaves \subseteq y.slaves,
           y.failover_state = x.failover_state,
           \A r \in Redis : x.sflags[r] \cap {"RECONF_SENT", "RECONF_INPROG"} = {} =>
                            y.sflags[r] \cap {"RECONF_SENT", "RECONF_INPROG"} = {}
    PROVE  Follows(x, y)
<1>1. Live(x)
    BY DEF Sane
<1>2. Live(y)
    BY <1>1 DEF Live, Steady
<1> QED
    BY <1>2, SteadyFollows

\* sentinelCheckSubjectivelyDown, for a slave.
LEMMA SlaveDownFollows ==
    ASSUME NEW x, Sane(x), NEW r \in Redis, NEW G,
           G = x.sflags[r] \ {"S_DOWN"} \/ G = x.sflags[r] \cup {"S_DOWN"}
    PROVE  LET y == [TiltOver(x) EXCEPT !.sflags[r] = G]
           IN Follows(x, y) /\ y.failover_state = x.failover_state
<1> DEFINE H == [x.sflags EXCEPT ![r] = G]
           y == [x EXCEPT !.tilt = FALSE, !.sflags = H]
<1>1. x \in Memory /\ x.sflags \in [Redis -> SUBSET SlaveFlags]
    BY DEF Sane, Live, Memory
<1>2. [TiltOver(x) EXCEPT !.sflags[r] = G] = y
    BY <1>1 DEF TiltOver, Memory
<1>3. H \in [Redis -> SUBSET SlaveFlags]
    BY <1>1 DEF SlaveFlags
<1>4. \A q \in Redis : x.sflags[q] \cap {"RECONF_SENT", "RECONF_INPROG"} = {} =>
                        H[q] \cap {"RECONF_SENT", "RECONF_INPROG"} = {}
    BY <1>1
<1> HIDE DEF H
<1>5. /\ y \in Memory /\ Steady(x, y) /\ y.flags = x.flags /\ y.promoted = x.promoted
      /\ y.slaves = x.slaves /\ y.failover_state = x.failover_state /\ y.sflags = H
    BY Zenon, <1>1, <1>3 DEF Memory, Steady
<1> HIDE DEF y
<1>6. Follows(x, y)
    BY <1>4, <1>5, SlavesFollow
<1> QED
    BY Zenon, <1>2, <1>5, <1>6

\* Slaves that the master lists are added (sentinelRefreshInstanceInfo).
LEMMA AddSlavesFollows ==
    ASSUME NEW x, Sane(x), NEW replicas \in SUBSET Redis
    PROVE  LET y == AddSlaves(x, replicas)
           IN Follows(x, y) /\ y.failover_state = x.failover_state
<1> DEFINE S == x.slaves \cup replicas
           z == [x EXCEPT !.slaves = S]
           y == sentinelFlushConfig(z)
<1>1. x \in Memory /\ x.slaves \in SUBSET Redis /\ Live(x) /\ Stored(x)
    BY DEF Sane, Live, Memory
<1>2. [x EXCEPT !.slaves = @ \cup replicas] = z
    BY <1>1 DEF Memory
<1>3. S \in SUBSET Redis /\ x.slaves \subseteq S
    BY <1>1
<1> HIDE DEF S
<1>4. /\ z \in Memory /\ Steady(x, z) /\ z.flags = x.flags /\ z.promoted = x.promoted
      /\ z.slaves = S /\ z.failover_state = x.failover_state /\ z.sflags = x.sflags
    BY <1>1, <1>3 DEF Memory, Steady
<1> HIDE DEF z
<1>5. Live(z)
    BY <1>1, <1>3, <1>4 DEF Live, Steady
<1>6. Sane(y) /\ y.disk.current_epoch = z.current_epoch /\ y = [z EXCEPT !.disk = y.disk]
    BY <1>5, FlushSane
<1> HIDE DEF y
<1>7. /\ y.leader_epoch = x.leader_epoch /\ y.leader = x.leader /\ y.peers = x.peers
      /\ y.config_epoch = x.config_epoch /\ y.failover_state = x.failover_state
      /\ y.disk.current_epoch = x.current_epoch
    BY <1>4, <1>6 DEF Memory, Steady
<1>8. /\ x.disk.current_epoch \in Epoch /\ x.config_epoch \in Epoch /\ x.current_epoch \in Epoch
      /\ MaxEpoch \in Nat
    BY <1>1, SentinelAssumption DEF Memory, File
<1>9. Follows(x, y)
    BY <1>1, <1>6, <1>7, <1>8 DEF Follows, Stored, Epoch
<1> QED
    BY <1>2, <1>7, <1>9, FollowsItself DEF AddSlaves, y

\* The role that the master reports (sentinelRefreshInstanceInfo).
LEMMA ReportedFollows ==
    ASSUME NEW x, Sane(x), NEW role \in {"master", "slave"}
    PROVE  LET y == [x EXCEPT !.reported = role]
           IN Follows(x, y) /\ y.failover_state = x.failover_state
<1> DEFINE y == [x EXCEPT !.reported = role]
<1>1. x \in Memory
    BY DEF Sane, Live
<1>2. /\ y \in Memory /\ Steady(x, y) /\ y.flags = x.flags /\ y.promoted = x.promoted
      /\ y.slaves = x.slaves /\ y.failover_state = x.failover_state /\ y.sflags = x.sflags
    BY <1>1 DEF Memory, Steady
<1> HIDE DEF y
<1>3. Follows(x, y)
    BY <1>2, SlavesFollow
<1> QED
    BY <1>2, <1>3 DEF y

\* sentinelSendSlaveOf queues the command and nothing else.
LEMMA SendSlaveOfFollows ==
    ASSUME NEW x, Sane(x), NEW r \in Redis, NEW host \in Instance
    PROVE  LET y == sentinelSendSlaveOf(x, r, host)
           IN /\ Follows(x, y) /\ y.failover_state = x.failover_state /\ y.sflags = x.sflags
              /\ y.addr = x.addr
<1> DEFINE O == x.out \cup {<<r, host>>}
           y == [x EXCEPT !.out = O]
<1>1. x \in Memory /\ x.out \in SUBSET (Redis \X Instance)
    BY DEF Sane, Live, Memory
<1>2. sentinelSendSlaveOf(x, r, host) = y
    BY <1>1 DEF sentinelSendSlaveOf, Memory
<1>3. O \in SUBSET (Redis \X Instance)
    BY <1>1
<1> HIDE DEF O
<1>4. /\ y \in Memory /\ Steady(x, y) /\ y.flags = x.flags /\ y.promoted = x.promoted
      /\ y.slaves = x.slaves /\ y.failover_state = x.failover_state /\ y.sflags = x.sflags
      /\ y.addr = x.addr
    BY <1>1, <1>3 DEF Memory, Steady
<1> HIDE DEF y
<1>5. Follows(x, y)
    BY Zenon, <1>4, SlavesFollow
<1> QED
    BY <1>2, <1>4, <1>5
-----------------------------------------------------------------------------
\* The votes given once s has gone from x to y.
Ballots(s, x, y) ==
    IF y.leader_epoch # x.leader_epoch THEN cast \cup {<<s, y.leader_epoch, y.leader>>} ELSE cast

\* s has the votes of more than half of the Sentinels in epoch e, its own
\* being counted apart.  The sizes are those of finite sets.
Counted == \A S \in SUBSET Sentinels : Cardinality(S) \in Nat

Chosen(votes, s, e) ==
    \E V \in SUBSET (Sentinels \ {s}) :
      /\ \A v \in V : <<v, e, s>> \in votes
      /\ \/ Cardinality(V) >= Cardinality(Sentinels) \div 2 + 1
         \/ <<s, e, s>> \in votes /\ Cardinality(V) + 1 >= Cardinality(Sentinels) \div 2 + 1

\* What any handler of s may make of its memory x.
Outcome(s, x, y) ==
    /\ Sane(y)
    /\ \/ y.leader_epoch = x.leader_epoch /\ y.leader \in {x.leader, None}
       \/ y.leader_epoch > x.leader_epoch /\ y.leader \in Sentinels
    /\ \A t \in Sentinels :
         y.peers[t].leader # None => <<t, y.peers[t].leader_epoch, y.peers[t].leader>> \in cast
    /\ y.disk.current_epoch >= x.disk.current_epoch
    /\ y.config_epoch >= x.config_epoch \/ y.addr = x.addr
    /\ y.failover_state = SELECT_SLAVE =>
         \/ x.failover_state = SELECT_SLAVE
         \/ y.leads /\ y.failover_epoch = y.current_epoch =>
               Chosen(Ballots(s, x, y), s, y.failover_epoch)

\* A function that gives no vote has an outcome that any handler may have.
LEMMA FollowsOutcome ==
    ASSUME NEW s \in Sentinels, NEW x, NEW y, Backed(s, x), Follows(x, y)
    PROVE  Outcome(s, x, y)
    BY DEF Outcome, Follows, Backed

\* What gives no vote learns of none that was not given.
LEMMA FollowsBacked ==
    ASSUME NEW s \in Sentinels, NEW x, NEW y, Backed(s, x), Follows(x, y)
    PROVE  Backed(s, y)
    BY Zenon DEF Follows, Backed

\* An outcome may come after functions that give no vote.
LEMMA OutcomeLater ==
    ASSUME NEW s \in Sentinels, NEW x, NEW y, NEW z, Sane(x), Follows(x, y), Outcome(s, y, z),
           z.config_epoch >= y.config_epoch
    PROVE  Outcome(s, x, z)
<1>1. /\ x \in Memory /\ y \in Memory /\ z \in Memory /\ MaxEpoch \in Nat
    BY SentinelAssumption DEF Follows, Outcome, Sane, Live
<1>2. /\ {x.disk.current_epoch, y.disk.current_epoch, z.disk.current_epoch} \subseteq Epoch
      /\ {x.config_epoch, y.config_epoch, z.config_epoch} \subseteq Epoch
    BY <1>1 DEF Memory, File
<1>3. Ballots(s, y, z) = Ballots(s, x, z)
    BY DEF Follows, Ballots
<1>4. z.disk.current_epoch >= x.disk.current_epoch /\ z.config_epoch >= x.config_epoch
    BY <1>1, <1>2 DEF Follows, Outcome, Epoch
<1>5. \/ z.leader_epoch = x.leader_epoch /\ z.leader \in {x.leader, None}
      \/ z.leader_epoch > x.leader_epoch /\ z.leader \in Sentinels
    BY DEF Follows, Outcome
<1> QED
    BY Zenon, <1>3, <1>4, <1>5 DEF Follows, Outcome

\* The promotion is acknowledged: the configuration of the failover's epoch.
LEMMA TurnedMasterOutcome ==
    ASSUME NEW s \in Sentinels, NEW x, Sane(x), Backed(s, x), NEW r \in x.slaves,
           NEW long \in BOOLEAN, x.failover_state <= RECONF_SLAVES
    PROVE  LET y == SlaveTurnedMaster(x, r, long)
           IN Outcome(s, x, y) /\ y.failover_state <= RECONF_SLAVES
<1>1. /\ x \in Memory /\ Live(x) /\ Stored(x) /\ x.slaves \in SUBSET Redis /\ x.addr \in Redis
      /\ x.failover_epoch \in Epoch /\ x.current_epoch \in Epoch /\ x.disk.current_epoch \in Epoch
      /\ MaxEpoch \in Nat
    BY SentinelAssumption DEF Sane, Live, Memory, File
<1> DEFINE z == [x EXCEPT !.config_epoch = x.failover_epoch, !.failover_state = RECONF_SLAVES]
           y == sentinelFlushConfig(z)
           o == sentinelSendSlaveOf(x, r, x.addr)
<1>2. ASSUME x.failover_state = WAIT_PROMOTION
      PROVE  Outcome(s, x, y) /\ y.failover_state <= RECONF_SLAVES
    <2>1. /\ z \in Memory /\ z.flags = x.flags /\ z.slaves = x.slaves /\ z.promoted = x.promoted
          /\ z.failover_state = RECONF_SLAVES /\ z.failover_epoch = x.failover_epoch
          /\ z.current_epoch = x.current_epoch /\ z.leader = x.leader /\ z.peers = x.peers
          /\ z.leader_epoch = x.leader_epoch /\ z.addr = x.addr
        BY Zenon, <1>1, StatesTyped DEF Memory
    <2> HIDE DEF z
    <2>2. Live(z)
        BY <1>1, <1>2, <2>1
           DEF Live, NONE, SEND_SLAVEOF_NOONE, WAIT_PROMOTION, RECONF_SLAVES
    <2>3. Sane(y) /\ y.disk.current_epoch = x.current_epoch /\ y = [z EXCEPT !.disk = y.disk]
        BY <2>1, <2>2, FlushSane
    <2> HIDE DEF y
    <2>4. /\ y.leader_epoch = x.leader_epoch /\ y.leader = x.leader /\ y.peers = x.peers
          /\ y.addr = x.addr /\ y.failover_state = RECONF_SLAVES
        BY <2>1, <2>3 DEF Memory
    <2>5. y.disk.current_epoch >= x.disk.current_epoch
        BY <1>1, <2>3 DEF Stored, Epoch
    <2>6. Outcome(s, x, y)
        BY <2>3, <2>4, <2>5 DEF Outcome, Backed, SELECT_SLAVE, RECONF_SLAVES
    <2> QED
        BY <2>4, <2>6 DEF RECONF_SLAVES
<1>3. Outcome(s, x, o) /\ o.failover_state <= RECONF_SLAVES
    BY Zenon, <1>1, SendSlaveOfFollows, FollowsOutcome DEF Instance
<1>4. Outcome(s, x, x)
    BY FollowsItself, FollowsOutcome
<1> HIDE DEF y, o
<1> QED
    BY Zenon, <1>2, <1>3, <1>4 DEF SlaveTurnedMaster, y, o

\* What a slave reports of its replication (sentinelRefreshInstanceInfo).
LEMMA ReplicatesFollows ==
    ASSUME NEW x, Sane(x), NEW r \in x.slaves, NEW host \in Instance,
           NEW up \in BOOLEAN, NEW long \in BOOLEAN
    PROVE  LET z == SlaveReplicates(x, r, host, up, long)
           IN Follows(x, z) /\ z.failover_state = x.failover_state
<1> DEFINE y == IF host # x.addr /\ sentinelMasterLooksSane(x) /\ long
                THEN sentinelSendSlaveOf(x, r, x.addr) ELSE x
           f == IF "RECONF_SENT" \in x.sflags[r] /\ host = x.promoted
                THEN (x.sflags[r] \ {"RECONF_SENT"}) \cup {"RECONF_INPROG"} ELSE x.sflags[r]
           g == IF "RECONF_INPROG" \in f /\ up
                THEN (f \ {"RECONF_INPROG"}) \cup {"RECONF_DONE"} ELSE f
           H == [y.sflags EXCEPT ![r] = g]
           z == [y EXCEPT !.sflags = H]
<1>1. /\ x \in Memory /\ x.sflags \in [Redis -> SUBSET SlaveFlags] /\ r \in Redis
      /\ x.addr \in Redis
    BY Zenon DEF Sane, Live, Memory
<1>2. /\ Follows(x, y) /\ y.failover_state = x.failover_state /\ y.sflags = x.sflags
    BY <1>1, SendSlaveOfFollows, FollowsItself DEF Instance
<1>3. SlaveReplicates(x, r, host, up, long) = [y EXCEPT !.sflags[r] = g]
    BY DEF SlaveReplicates
<1> HIDE DEF y
<1>4. y \in Memory /\ Sane(y)
    BY <1>2 DEF Follows, Sane, Live
<1>5. [y EXCEPT !.sflags[r] = g] = z
    BY <1>4 DEF Memory
<1>6. H \in [Redis -> SUBSET SlaveFlags]
    BY Zenon, <1>1, <1>2 DEF SlaveFlags
<1>7. \A q \in Redis : y.sflags[q] \cap {"RECONF_SENT", "RECONF_INPROG"} = {} =>
                        H[q] \cap {"RECONF_SENT", "RECONF_INPROG"} = {}
    BY <1>1, <1>2
<1> HIDE DEF H
<1>8. /\ z \in Memory /\ Steady(y, z) /\ z.flags = y.flags /\ z.promoted = y.promoted
      /\ z.slaves = y.slaves /\ z.failover_state = y.failover_state /\ z.sflags = H
    BY Zenon, <1>4, <1>6 DEF Memory, Steady
<1> HIDE DEF z
<1>9. Follows(y, z)
    BY Zenon, <1>4, <1>7, <1>8, SlavesFollow
<1>10. Follows(x, z)
    BY Zenon, <1>2, <1>9, FollowsTransitive
<1> QED
    BY <1>2, <1>3, <1>5, <1>8, <1>10
\* The peers that reported a vote for c in the current epoch.
Voters(x, me, c) ==
    {t \in Sentinels \ {me} : x.peers[t].leader = c /\ x.peers[t].leader_epoch = x.current_epoch}

\* A leader of its own epoch has the votes of a majority: the peers that said
\* so and, if it counted itself, its own.
LEMMA LeaderIsChosen ==
    ASSUME Counted, NEW me \in Sentinels, NEW x, NEW y, NEW w \in Candidate, Backed(me, x),
           \/ y.leader = x.leader /\ y.leader_epoch = x.leader_epoch
           \/ y.leader_epoch # x.leader_epoch,
           x.failover_epoch = x.current_epoch, sentinelGetLeader(x, y, me, w) = me
    PROVE  Chosen(Ballots(me, x, y), me, x.failover_epoch)
<1> DEFINE max == IF w # None THEN VotesFor(x, me, w) ELSE 0
           mine == IF y.leader # None /\ y.leader_epoch = x.failover_epoch
                   THEN VotesFor(x, me, y.leader) + 1 ELSE 0
           winner == IF mine > max THEN y.leader ELSE w
           votes == IF mine > max THEN mine ELSE max
           N == Cardinality(Sentinels)
           V == Voters(x, me, me)
           B == Ballots(me, x, y)
<1>1. winner = me /\ ~(votes < N \div 2 + 1)
    BY SentinelAssumption DEF sentinelGetLeader
<1>2. \A c : VotesFor(x, me, c) = Cardinality(Voters(x, me, c)) /\ VotesFor(x, me, c) \in Nat
    BY DEF Voters, VotesFor, Counted
<1>3. V \in SUBSET (Sentinels \ {me}) /\ N \in Nat /\ me # None
    BY SentinelAssumption DEF Voters, Counted
<1>4. N \div 2 + 1 \in Nat
    BY <1>3
<1>5. votes >= N \div 2 + 1
    BY <1>1, <1>2, <1>4
<1>6. cast \subseteq B
    BY DEF Ballots
<1>7. \A v \in V : <<v, x.failover_epoch, me>> \in B
    BY Zenon, <1>3, <1>6 DEF Voters, Backed
<1>8. CASE mine > max
    <2>1. y.leader = me /\ votes = mine
        BY Zenon, <1>1, <1>8
    <2>2. y.leader_epoch = x.failover_epoch /\ mine = Cardinality(V) + 1
        BY <1>2, <1>3, <1>8, <2>1
    <2>3. <<me, x.failover_epoch, me>> \in B
        BY Zenon, <1>3, <2>1, <2>2 DEF Ballots, Backed
    <2> QED
        BY Zenon, <1>3, <1>5, <1>7, <2>1, <2>2, <2>3 DEF Chosen
<1>9. CASE ~(mine > max)
    <2>1. w = me /\ votes = Cardinality(V)
        BY Zenon, <1>1, <1>2, <1>3, <1>9
    <2> QED
        BY Zenon, <1>3, <1>5, <1>7, <2>1 DEF Chosen
<1> QED
    BY Zenon, <1>8, <1>9

\* The failover goes on: with the votes of its own epoch, or forced.
LEMMA WonOutcome ==
    ASSUME Counted, NEW me \in Sentinels, NEW x, Sane(x), x.failover_state = WAIT_START, Backed(me, x),
           NEW y, Sane(y), Kin(x, y), NEW c \in Sentinels, Ballot(x, y, c),
           y.disk.current_epoch >= x.disk.current_epoch, y.current_epoch = x.current_epoch,
           NEW w \in Candidate, NEW z \in Memory, Steady(y, z), z.flags = y.flags,
           z.slaves = y.slaves, z.promoted = y.promoted, z.sflags = y.sflags,
           z.failover_state = SELECT_SLAVE, z.leads => sentinelGetLeader(x, y, me, w) = me
    PROVE  Outcome(me, x, z) /\ z.config_epoch = x.config_epoch
<1>1. y \in Memory /\ Live(y) /\ Stored(y)
    BY Zenon DEF Sane, Live
<1>3. Live(z)
    BY <1>1 DEF Live, Steady, Kin, NONE, WAIT_START, SELECT_SLAVE, SEND_SLAVEOF_NOONE,
                      RECONF_SLAVES
<1>4. Stored(z)
    BY SMTT(20), <1>1 DEF Stored, Steady, Kin, WAIT_START, SELECT_SLAVE, RECONF_SLAVES
<1>5. x.config_epoch \in Epoch /\ MaxEpoch \in Nat /\ x.leader_epoch \in Epoch /\ y.leader_epoch \in Epoch
    BY Zenon, <1>1, SentinelAssumption DEF Sane, Live, Memory
<1>6. \/ y.leader = x.leader /\ y.leader_epoch = x.leader_epoch
      \/ y.leader_epoch # x.leader_epoch
    BY <1>5 DEF Ballot, Epoch
<1>7. Ballots(me, x, z) = Ballots(me, x, y) /\ z.failover_epoch = x.failover_epoch
      /\ z.current_epoch = x.current_epoch
    BY Zenon DEF Ballots, Steady, Kin
<1>8. z.leads /\ z.failover_epoch = z.current_epoch =>
         Chosen(Ballots(me, x, z), me, z.failover_epoch)
    <2> SUFFICES ASSUME z.leads, z.failover_epoch = z.current_epoch
                 PROVE  Chosen(Ballots(me, x, z), me, z.failover_epoch)
        OBVIOUS
    <2>1. x.failover_epoch = x.current_epoch /\ sentinelGetLeader(x, y, me, w) = me
        BY Zenon, <1>7
    <2>2. Chosen(Ballots(me, x, y), me, x.failover_epoch)
        BY Zenon, <1>6, <2>1, LeaderIsChosen
    <2> QED
        BY Zenon, <1>7, <2>2
<1>9. \/ z.leader_epoch = x.leader_epoch /\ z.leader \in {x.leader, None}
      \/ z.leader_epoch > x.leader_epoch /\ z.leader \in Sentinels
    BY Zenon DEF Steady, Ballot
<1>10. z.disk.current_epoch >= x.disk.current_epoch /\ z.config_epoch = x.config_epoch
       /\ z.config_epoch >= x.config_epoch /\ z.peers = x.peers
    BY SMTT(20), <1>5 DEF Steady, Kin, Epoch
<1>11. Outcome(me, x, z)
    BY Zenon, <1>3, <1>4, <1>8, <1>9, <1>10 DEF Outcome, Sane, Backed
<1> QED
    BY Zenon, <1>10, <1>11

\* The election: this Sentinel votes, waits, gives up or is the leader.
LEMMA WaitStartOutcome ==
    ASSUME Counted, NEW me \in Sentinels, NEW x, Sane(x), x.failover_state = WAIT_START, Backed(me, x),
           NEW w \in Candidate, NEW P \in SUBSET (Sentinels \X Epoch), NEW timeout \in BOOLEAN
    PROVE  LET z == sentinelFailoverWaitStart(x, me, w, P, timeout)
           IN /\ Outcome(me, x, z) /\ z.config_epoch >= x.config_epoch
              /\ z.failover_state <= RECONF_SLAVES
<1> DEFINE c == IF w # None THEN w ELSE me
           y == sentinelVoteLeader(x, me, x.failover_epoch, c, P)
           b == sentinelGetLeader(x, y, me, w) = me
           z == [y EXCEPT !.failover_state = SELECT_SLAVE, !.leads = b]
           a == sentinelAbortFailover(y)
<1>1. /\ x.failover_epoch \in Epoch /\ x.current_epoch \in Epoch /\ MaxEpoch \in Nat
      /\ x.config_epoch \in Epoch /\ x.failover_epoch <= x.current_epoch /\ c \in Sentinels
    BY SentinelAssumption DEF Sane, Live, Memory, Candidate
<1>2. CountMyVote(x, me, w, P) = y
    BY Zenon DEF CountMyVote
<1> HIDE DEF c
<1>3. /\ Sane(y) /\ Kin(x, y) /\ Ballot(x, y, c)
      /\ y.disk.current_epoch >= x.disk.current_epoch
      /\ y.current_epoch = IF x.failover_epoch > x.current_epoch THEN x.failover_epoch ELSE x.current_epoch
    BY <1>1, VoteSane
<1>4. y.current_epoch = x.current_epoch
    BY <1>1, <1>3 DEF Epoch
<1>5. sentinelFailoverWaitStart(x, me, w, P, timeout) \in {y, z, a}
    BY <1>2 DEF sentinelFailoverWaitStart
<1> HIDE DEF y
<1>6. b \in BOOLEAN /\ (b => sentinelGetLeader(x, y, me, w) = me)
    BY Zenon
<1> HIDE DEF b
<1>61. y \in Memory
    BY <1>3 DEF Sane, Live
<1>62. /\ z \in Memory /\ Steady(y, z) /\ z.flags = y.flags /\ z.slaves = y.slaves
       /\ z.promoted = y.promoted /\ z.sflags = y.sflags /\ z.failover_state = SELECT_SLAVE
       /\ z.leads = b
    BY ZenonT(40), <1>6, <1>61, StatesTyped DEF Memory, Steady
<1> HIDE DEF z
<1>7. Outcome(me, x, z) /\ z.config_epoch = x.config_epoch /\ z.failover_state = SELECT_SLAVE
    BY <1>1, <1>3, <1>4, <1>6, <1>62, WonOutcome
<1>8. Follows(y, a) /\ a.failover_state = NONE /\ Steady(y, a)
    BY <1>3, AbortFollows DEF Kin, WAIT_START, RECONF_SLAVES
<1> HIDE DEF a
<1>9. ASSUME NEW u, Sane(u), u.leader_epoch = y.leader_epoch, u.leader = y.leader,
             u.peers = y.peers, u.disk = y.disk, u.config_epoch = y.config_epoch,
             u.failover_state \in {NONE, WAIT_START}
      PROVE  /\ Outcome(me, x, u) /\ u.config_epoch >= x.config_epoch
             /\ u.failover_state <= RECONF_SLAVES
    <2>1. \/ u.leader_epoch = x.leader_epoch /\ u.leader \in {x.leader, None}
          \/ u.leader_epoch > x.leader_epoch /\ u.leader \in Sentinels
        BY Zenon, <1>1, <1>3, <1>9 DEF Ballot
    <2>2. /\ u.disk.current_epoch >= x.disk.current_epoch
          /\ u.config_epoch >= x.config_epoch /\ u.peers = x.peers
        BY <1>1, <1>3, <1>9 DEF Kin, Epoch
    <2> QED
        BY <1>9, <2>1, <2>2 DEF Outcome, Backed, NONE, WAIT_START, SELECT_SLAVE, RECONF_SLAVES
<1>10. Outcome(me, x, y) /\ y.config_epoch >= x.config_epoch /\ y.failover_state <= RECONF_SLAVES
    BY Zenon, <1>3, <1>9 DEF Kin
<1>11. Outcome(me, x, a) /\ a.config_epoch >= x.config_epoch /\ a.failover_state <= RECONF_SLAVES
    BY <1>8, <1>9 DEF Follows, Steady
<1>12. z.config_epoch >= x.config_epoch /\ z.failover_state <= RECONF_SLAVES
    BY <1>1, <1>7 DEF Epoch, SELECT_SLAVE, RECONF_SLAVES
<1> QED
    BY Zenon, <1>5, <1>7, <1>10, <1>11, <1>12
\* sentinelFailoverStateMachine, in each state of the failover.
LEMMA StateMachineOutcome ==
    ASSUME Counted, NEW me \in Sentinels, NEW x, Sane(x), x.failover_state <= RECONF_SLAVES, Backed(me, x),
           NEW P \in SUBSET (Sentinels \X Epoch), NEW timeout \in BOOLEAN, NEW conn,
           NEW z \in sentinelFailoverStateMachine(x, me, P, timeout, conn)
    PROVE  /\ Outcome(me, x, z) /\ z.config_epoch >= x.config_epoch
           /\ z.failover_state \in NONE..UPDATE_CONFIG
           /\ z.failover_state = UPDATE_CONFIG => Follows(x, z)
<1> DEFINE Goal(y) == /\ Outcome(me, x, y) /\ y.config_epoch >= x.config_epoch
                      /\ y.failover_state = UPDATE_CONFIG => Follows(x, y)
<1>1. ASSUME NEW y, Follows(x, y) PROVE Goal(y)
    BY <1>1, FollowsOutcome DEF Follows
<1>2. Goal(x)
    BY <1>1, FollowsItself
<1>3. x.slaves \in SUBSET Redis /\ x.failover_state \in NONE..UPDATE_CONFIG
    BY DEF Sane, Live, Memory
<1>4. ASSUME "FAILOVER" \in x.flags, x.failover_state = WAIT_START PROVE Goal(z)
    <2> DEFINE M == IF MostVoted(x, me) = {} THEN {None} ELSE MostVoted(x, me)
    <2>1. M \subseteq Candidate
        BY DEF MostVoted, Candidate
    <2>2. sentinelFailoverStateMachine(x, me, P, timeout, conn)
            = {sentinelFailoverWaitStart(x, me, w, P, timeout) : w \in M}
        BY <1>4 DEF sentinelFailoverStateMachine, WAIT_START, SELECT_SLAVE,
                    SEND_SLAVEOF_NOONE, WAIT_PROMOTION, RECONF_SLAVES
    <2> HIDE DEF M
    <2>3. PICK w \in M : z = sentinelFailoverWaitStart(x, me, w, P, timeout)
        BY Zenon, <2>2
    <2>4. /\ Outcome(me, x, z) /\ z.config_epoch >= x.config_epoch /\ z.failover_state <= RECONF_SLAVES
        BY Zenon, <1>4, <2>1, <2>3, WaitStartOutcome
    <2> QED
        BY <2>4 DEF RECONF_SLAVES, UPDATE_CONFIG
<1>5. ASSUME "FAILOVER" \in x.flags, x.failover_state = SELECT_SLAVE PROVE Goal(z)
    <2>1. PICK r \in sentinelSelectSlave(x, Redis) \cup {None} : z = sentinelFailoverSelectSlave(x, r)
        BY <1>5 DEF sentinelFailoverStateMachine, WAIT_START, SELECT_SLAVE,
                    SEND_SLAVEOF_NOONE, WAIT_PROMOTION, RECONF_SLAVES
    <2>2. r \in x.slaves \cup {None}
        BY Zenon DEF sentinelSelectSlave
    <2> QED
        BY <1>1, <1>5, <2>1, <2>2, SelectFollows
<1>6. ASSUME "FAILOVER" \in x.flags, x.failover_state = SEND_SLAVEOF_NOONE PROVE Goal(z)
    <2>1. z = sentinelFailoverSendSlaveOfNoOne(x, conn, timeout)
        BY <1>6 DEF sentinelFailoverStateMachine, WAIT_START, SELECT_SLAVE,
                    SEND_SLAVEOF_NOONE, WAIT_PROMOTION, RECONF_SLAVES
    <2> QED
        BY <1>1, <1>6, <2>1, SendNoOneFollows
<1>7. ASSUME "FAILOVER" \in x.flags, x.failover_state = WAIT_PROMOTION PROVE Goal(z)
    <2>1. z = sentinelFailoverWaitPromotion(x, timeout)
        BY <1>7 DEF sentinelFailoverStateMachine, WAIT_START, SELECT_SLAVE,
                    SEND_SLAVEOF_NOONE, WAIT_PROMOTION, RECONF_SLAVES
    <2> QED
        BY <1>1, <1>7, <2>1, WaitPromotionFollows
<1>8. ASSUME "FAILOVER" \in x.flags, x.failover_state = RECONF_SLAVES PROVE Goal(z)
    <2>1. \E told \in SUBSET x.slaves, slow \in SUBSET x.slaves :
             z = sentinelFailoverReconfNextSlave(x, told, slow, conn, timeout)
        BY <1>8 DEF sentinelFailoverStateMachine, WAIT_START, SELECT_SLAVE,
                    SEND_SLAVEOF_NOONE, WAIT_PROMOTION, RECONF_SLAVES
    <2>2. PICK told \in SUBSET x.slaves, slow \in SUBSET x.slaves :
             z = sentinelFailoverReconfNextSlave(x, told, slow, conn, timeout)
        BY <2>1
    <2> QED
        BY <1>1, <1>8, <2>2, ReconfNextFollows
<1>9. ASSUME \/ "FAILOVER" \notin x.flags
             \/ x.failover_state \notin {WAIT_START, SELECT_SLAVE, SEND_SLAVEOF_NOONE,
                                         WAIT_PROMOTION, RECONF_SLAVES}
      PROVE  Goal(z)
    <2>1. z = x
        BY Zenon, <1>9 DEF sentinelFailoverStateMachine, WAIT_START, SELECT_SLAVE,
                    SEND_SLAVEOF_NOONE, WAIT_PROMOTION, RECONF_SLAVES
    <2> QED
        BY <1>2, <2>1
<1>10. Goal(z)
    BY SMTT(20), <1>4, <1>5, <1>6, <1>7, <1>8, <1>9
<1>11. z.failover_state \in NONE..UPDATE_CONFIG
    BY <1>10 DEF Outcome, Sane, Live, Memory
<1> QED
    BY SMTT(20), <1>10, <1>11

\* Forgetting old answers changes nothing else.
LEMMA ForgetOutcome ==
    ASSUME NEW s \in Sentinels, NEW x, NEW z, Outcome(s, x, z), NEW stale
    PROVE  LET f == ForgetStale(z, stale)
           IN /\ Outcome(s, x, f) /\ f.failover_state = z.failover_state
              /\ f.config_epoch = z.config_epoch /\ Follows(z, f)
<1> DEFINE f == ForgetStale(z, stale)
<1>1. z \in Memory /\ Sane(z)
    BY DEF Outcome, Sane, Live
<1>2. Follows(z, f) /\ f = [z EXCEPT !.peers = f.peers]
    BY <1>1, ForgetFollows
<1> HIDE DEF f
<1>3. /\ f.leader_epoch = z.leader_epoch /\ f.leader = z.leader /\ f.disk = z.disk
      /\ f.config_epoch = z.config_epoch /\ f.addr = z.addr /\ f.leads = z.leads
      /\ f.failover_epoch = z.failover_epoch /\ f.current_epoch = z.current_epoch
      /\ f.failover_state = z.failover_state
    BY <1>1, <1>2 DEF Memory
<1>4. Ballots(s, x, f) = Ballots(s, x, z)
    BY <1>3 DEF Ballots
<1>5. /\ Sane(f)
      /\ \A t \in Sentinels :
           f.peers[t].leader # None => <<t, f.peers[t].leader_epoch, f.peers[t].leader>> \in cast
    BY SMTT(20), <1>2 DEF Follows, Outcome
<1>6. Outcome(s, x, f)
    BY Zenon, <1>3, <1>4, <1>5 DEF Outcome
<1> QED
    BY SMTT(20), <1>2, <1>3, <1>6 DEF f

-----------------------------------------------------------------------------
Ask == [kind : {"ask"}, addr : Redis, epoch : Epoch, runid : Candidate]
Reply == [kind : {"reply"}, down : BOOLEAN, leader : Candidate, epoch : Epoch]
Hello == [current_epoch : Epoch, addr : Redis, config_epoch : Epoch]

Memories ==
    /\ st \in [Sentinels -> Memory]
    /\ \A s \in Sentinels : Sane(st[s]) /\ st[s].failover_state <= RECONF_SLAVES /\ Backed(s, st[s])
Links ==
    /\ link \in [Sentinels -> [Sentinels -> {None} \cup Ask \cup Reply]]
    /\ \A s, t \in Sentinels :
         link[s][t] # None /\ link[s][t] \in Reply /\ link[s][t].leader # None =>
             <<t, link[s][t].epoch, link[s][t].leader>> \in cast
World ==
    /\ redis \in [Redis -> Instance] /\ slaveof \subseteq Redis \X Instance
    /\ hellos \subseteq Hello
Votes ==
    /\ cast \subseteq Sentinels \X Epoch \X Sentinels
    /\ \A v \in cast : v[2] <= st[v[1]].leader_epoch
IInv == Memories /\ Links /\ World /\ Votes

-----------------------------------------------------------------------------
\* What every step shows of the epochs and of the votes.
Later(x, y) ==
    /\ \/ y.config_epoch >= x.config_epoch
       \/ y.addr = x.addr
       \/ x.failover_state = RECONF_SLAVES /\ y.addr = x.promoted
    /\ y.leader_epoch >= x.leader_epoch
    /\ y.disk.current_epoch >= x.disk.current_epoch

VoteStep ==
    /\ \/ \E v, c \in Sentinels, e \in 0..MaxEpoch : Election!Vote(v, e, c)
       \/ cast' = cast
    /\ \/ \E s \in Sentinels, e \in 0..MaxEpoch : /\ Chosen(cast', s, e)
                                                 /\ won' = won \cup {<<s, e>>}
       \/ won' = won

Steps == (\A s \in Sentinels : Later(st[s], st'[s])) /\ VoteStep

\* An unchanged memory is not older.
LEMMA LaterItself ==
    ASSUME NEW x, Sane(x)
    PROVE  Later(x, x)
    BY SentinelAssumption DEF Later, Sane, Live, Memory, File, Epoch

\* The Sentinels whose start delay runs, with their epochs.
LEMMA WaitingTyped ==
    ASSUME Memories
    PROVE  Waiting \in SUBSET (Sentinels \X Epoch)
<1>1. \A s \in Sentinels : st[s].failover_epoch \in Epoch
    BY DEF Memories, Memory
<1> QED
    BY <1>1 DEF Waiting

\* Sending the commands that a handler queued leaves the memory sane.
LEMMA SentSane ==
    ASSUME NEW x, Sane(x)
    PROVE  LET y == [x EXCEPT !.out = {}]
           IN /\ Sane(y) /\ y \in Memory /\ y.leader = x.leader /\ y.leader_epoch = x.leader_epoch
              /\ y.peers = x.peers /\ y.failover_state = x.failover_state /\ y.addr = x.addr
              /\ y.config_epoch = x.config_epoch /\ y.disk = x.disk
<1> DEFINE y == [x EXCEPT !.out = {}]
<1>1. x \in Memory /\ Live(x) /\ Stored(x)
    BY DEF Sane, Live
<1>2. /\ y \in Memory /\ Steady(x, y) /\ y.flags = x.flags /\ y.slaves = x.slaves
      /\ y.promoted = x.promoted /\ y.sflags = x.sflags /\ y.failover_state = x.failover_state
    BY Zenon, <1>1 DEF Memory, Steady
<1> HIDE DEF y
<1>3. Live(y) /\ Stored(y)
    BY SMTT(20), <1>1, <1>2 DEF Live, Stored, Steady
<1> QED
    BY <1>2, <1>3 DEF Sane, Steady, y

\* A handler of s hands its memory over.
LEMMA CommitMemories ==
    ASSUME Memories, Votes, NEW s \in Sentinels, NEW x, Commit(s, x), Outcome(s, st[s], x),
           x.failover_state <= RECONF_SLAVES
    PROVE  /\ Memories' /\ cast \subseteq cast' /\ cast' = Ballots(s, st[s], x)
           /\ slaveof' \subseteq slaveof \cup (Redis \X Instance)
           /\ \A t \in Sentinels : Later(st[t], st'[t])
<1> DEFINE y == [x EXCEPT !.out = {}]
<1>1. /\ st' = [st EXCEPT ![s] = y] /\ slaveof' = slaveof \cup x.out
      /\ cast' = Ballots(s, st[s], x)
    BY SMTT(20) DEF Commit, Ballots
<1>2. Sane(x) /\ x.out \in SUBSET (Redis \X Instance) /\ Sane(st[s]) /\ MaxEpoch \in Nat
    BY Zenon, SentinelAssumption DEF Outcome, Sane, Live, Memory, Memories
<1>3. /\ Sane(y) /\ y \in Memory /\ y.leader = x.leader /\ y.leader_epoch = x.leader_epoch
      /\ y.peers = x.peers /\ y.failover_state = x.failover_state /\ y.addr = x.addr
      /\ y.config_epoch = x.config_epoch /\ y.disk = x.disk
    BY <1>2, SentSane
<1> HIDE DEF y
<1>4. cast \subseteq cast'
    BY Zenon, <1>1 DEF Ballots
<1>5. /\ st' \in [Sentinels -> Memory] /\ st'[s] = y
      /\ \A t \in Sentinels \ {s} : st'[t] = st[t]
    BY SMTT(20), <1>1, <1>3 DEF Memories
<1>6. x.leader_epoch \in Epoch /\ st[s].leader_epoch \in Epoch
    BY Zenon, <1>2 DEF Sane, Live, Memory
<1>7. x.leader # None => <<s, x.leader_epoch, x.leader>> \in cast'
    <2>1. CASE x.leader_epoch = st[s].leader_epoch
        <3>1. x.leader \in {st[s].leader, None}
            BY <1>6, <2>1 DEF Outcome, Epoch
        <3> QED
            BY Zenon, <1>4, <2>1, <3>1 DEF Memories, Backed
    <2>2. CASE x.leader_epoch # st[s].leader_epoch
        BY Zenon, <1>1, <2>2 DEF Ballots
    <2> QED
        BY Zenon, <2>1, <2>2
<1>8. \A t \in Sentinels :
         x.peers[t].leader # None => <<t, x.peers[t].leader_epoch, x.peers[t].leader>> \in cast'
    BY Zenon, <1>4 DEF Outcome
<1>9. Backed(s, y)'
    BY SMTT(20), <1>3, <1>5, <1>7, <1>8 DEF Backed
<1>10. ASSUME NEW t \in Sentinels \ {s} PROVE Backed(t, st[t])'
    BY Zenon, <1>4, <1>5, <1>10 DEF Memories, Backed
<1>11. Memories'
    <2>1. ASSUME NEW t \in Sentinels
          PROVE  Sane(st'[t]) /\ st'[t].failover_state <= RECONF_SLAVES /\ Backed(t, st[t])'
        <3>1. CASE t = s
            <4>1. Backed(s, st[s])'
                BY Zenon, <1>5, <1>9 DEF Backed
            <4> QED
                BY Zenon, <1>3, <1>5, <3>1, <4>1
        <3>2. CASE t # s
            BY SMTT(20), <1>5, <1>10, <3>2 DEF Memories
        <3> QED
            BY Zenon, <3>1, <3>2
    <2> QED
        BY Zenon, <1>5, <2>1 DEF Memories
<1>12. Later(st[s], st'[s])
    BY <1>3, <1>5, <1>6, <1>2 DEF Outcome, Later, Epoch
<1>13. \A t \in Sentinels : Later(st[t], st'[t])
    BY Zenon, <1>5, <1>12, LaterItself DEF Memories
<1> QED
    BY Zenon, <1>1, <1>2, <1>4, <1>11, <1>13

\* A handler's vote and the election it decides are those of VoteStep, and no
\* vote given is newer than its voter's last.
LEMMA CommitVotes ==
    ASSUME Memories, Votes, NEW s \in Sentinels, NEW x, Commit(s, x), Outcome(s, st[s], x),
           x.failover_state <= RECONF_SLAVES
    PROVE  Votes' /\ VoteStep
<1>1. /\ cast' = Ballots(s, st[s], x) /\ Memories' /\ \A t \in Sentinels : Later(st[t], st'[t])
    BY SMTT(20), CommitMemories
<1>2. /\ x \in Memory /\ st[s] \in Memory /\ x.leader_epoch \in Epoch
      /\ x.failover_epoch \in Epoch /\ MaxEpoch \in Nat
      /\ \A t \in Sentinels : st[t].leader_epoch \in Epoch /\ st'[t].leader_epoch \in Epoch
    BY Zenon, <1>1, SentinelAssumption DEF Outcome, Sane, Live, Memory, Memories
<1>3. st'[s].leader_epoch = x.leader_epoch
    <2>1. st' = [st EXCEPT ![s] = [x EXCEPT !.out = {}]]
        BY DEF Commit
    <2> QED
        BY <1>2, <2>1 DEF Memories, Memory
<1>4. x.leader_epoch # st[s].leader_epoch => x.leader_epoch > st[s].leader_epoch /\ x.leader \in Sentinels
    BY Zenon DEF Outcome
<1>5. Votes'
    <2>1. cast' \subseteq Sentinels \X Epoch \X Sentinels
        BY <1>1, <1>2, <1>4 DEF Votes, Ballots
    <2>2. ASSUME NEW v \in cast PROVE v[2] <= st'[v[1]].leader_epoch
        <3>1. v[1] \in Sentinels /\ v[2] \in Epoch /\ v[2] <= st[v[1]].leader_epoch
            BY Zenon DEF Votes
        <3>2. st'[v[1]].leader_epoch >= st[v[1]].leader_epoch
            BY Zenon, <1>1, <3>1 DEF Later
        <3> QED
            BY <1>2, <3>1, <3>2 DEF Epoch
    <2>3. <<s, x.leader_epoch, x.leader>>[2] <= st'[<<s, x.leader_epoch, x.leader>>[1]].leader_epoch
        BY <1>2, <1>3 DEF Epoch
    <2>4. \A v \in cast' : v[2] <= st'[v[1]].leader_epoch
        BY Zenon, <1>1, <2>2, <2>3 DEF Ballots
    <2> QED
        BY Zenon, <2>1, <2>4 DEF Votes
<1>6. \/ \E v, c \in Sentinels, e \in 0..MaxEpoch : Election!Vote(v, e, c)
      \/ cast' = cast
    <2>1. CASE x.leader_epoch # st[s].leader_epoch
        <3>1. \A w \in cast : w[1] = s => w[2] < x.leader_epoch
            <4> SUFFICES ASSUME NEW w \in cast, w[1] = s PROVE w[2] < x.leader_epoch
                BY Zenon
            <4>1. w[2] \in Epoch /\ w[2] <= st[s].leader_epoch
                BY Zenon DEF Votes
            <4> QED
                BY <1>2, <1>4, <2>1, <4>1 DEF Epoch
        <3>2. Election!Vote(s, x.leader_epoch, x.leader)
            BY Zenon, <1>1, <2>1, <3>1 DEF Election!Vote, Ballots
        <3> QED
            BY Zenon, <1>2, <1>4, <2>1, <3>2 DEF Epoch
    <2>2. CASE x.leader_epoch = st[s].leader_epoch
        BY Zenon, <1>1, <2>2 DEF Ballots
    <2> QED
        BY Zenon, <2>1, <2>2
<1>7. \/ \E t \in Sentinels, e \in 0..MaxEpoch :
            Chosen(cast', t, e) /\ won' = won \cup {<<t, e>>}
      \/ won' = won
    <2> DEFINE wins == /\ st[s].failover_state <= WAIT_START
                       /\ x.failover_state = SELECT_SLAVE /\ x.leads
               new == [leader |-> s, epoch |-> x.failover_epoch, current |-> x.current_epoch]
    <2>1. elected' = IF wins THEN elected \cup {new} ELSE elected
        BY SMTT(20) DEF Commit
    <2>2. CASE ~wins
        BY Zenon, <2>1, <2>2 DEF won
    <2>3. CASE wins /\ x.failover_epoch # x.current_epoch
        BY SMTT(20), <2>1, <2>3 DEF won
    <2>4. CASE wins /\ x.failover_epoch = x.current_epoch
        <3>1. won' = won \cup {<<s, x.failover_epoch>>}
            <4>1. /\ new.leader = s /\ new.epoch = x.failover_epoch /\ new.current = new.epoch
                  /\ elected' = elected \cup {new}
                BY Zenon, <2>1, <2>4
            <4> HIDE DEF new, wins
            <4>2. {f \in elected' : f.epoch = f.current} = {f \in elected : f.epoch = f.current} \cup {new}
                BY Zenon, <4>1
            <4>3. ASSUME NEW w \in won' PROVE w \in won \cup {<<s, x.failover_epoch>>}
                BY Zenon, <4>1, <4>2, <4>3 DEF won
            <4>4. ASSUME NEW w \in won PROVE w \in won'
                BY <4>2, <4>4 DEF won
            <4>5. <<s, x.failover_epoch>> \in won'
                BY Zenon, <4>1, <4>2 DEF won
            <4> QED
                BY Zenon, <4>3, <4>4, <4>5
        <3>2. st[s].failover_state # SELECT_SLAVE
            BY SMTT(20), <2>4 DEF WAIT_START, SELECT_SLAVE
        <3>3. Chosen(Ballots(s, st[s], x), s, x.failover_epoch)
            BY Zenon, <2>4, <3>2 DEF Outcome
        <3>4. Chosen(cast', s, x.failover_epoch)
            BY Zenon, <1>1, <3>3
        <3> QED
            BY Zenon, <1>2, <3>1, <3>4 DEF Epoch
    <2> QED
        BY <2>2, <2>3, <2>4
<1> QED
    BY Zenon, <1>5, <1>6, <1>7 DEF VoteStep
-----------------------------------------------------------------------------
\* What is on a link was put there or asked, or reports a vote that was given.
LEMMA LinksStep ==
    ASSUME Links, cast \subseteq cast',
           link' \in [Sentinels -> [Sentinels -> {None} \cup Ask \cup Reply]],
           \A s, t \in Sentinels :
             \/ link'[s][t] = link[s][t]
             \/ link'[s][t] \in {None} \cup Ask
             \/ /\ link'[s][t] \in Reply
                /\ link'[s][t].leader # None => <<t, link'[s][t].epoch, link'[s][t].leader>> \in cast'
    PROVE  Links'
<1> SUFFICES ASSUME NEW s \in Sentinels, NEW t \in Sentinels, link'[s][t] # None,
                    link'[s][t] \in Reply, link'[s][t].leader # None
             PROVE  <<t, link'[s][t].epoch, link'[s][t].leader>> \in cast'
    BY DEF Links
<1>1. link'[s][t] \notin Ask
    BY Zenon DEF Ask, Reply
<1> QED
    BY Zenon, <1>1 DEF Links

\* A handler of s that reaches no other Sentinel than through its links.
LEMMA HandlerStep ==
    ASSUME IInv, NEW s \in Sentinels, NEW x, Commit(s, x), Outcome(s, st[s], x),
           x.failover_state <= RECONF_SLAVES, UNCHANGED <<redis, hellos>>, Links'
    PROVE  IInv' /\ Steps
<1>1. /\ Memories' /\ cast \subseteq cast' /\ slaveof' \subseteq slaveof \cup (Redis \X Instance)
      /\ \A t \in Sentinels : Later(st[t], st'[t])
    BY CommitMemories DEF IInv
<1>2. Votes' /\ VoteStep
    BY Zenon, CommitVotes DEF IInv
<1>3. World'
    BY <1>1 DEF IInv, World
<1> QED
    BY Zenon, <1>1, <1>2, <1>3 DEF IInv, Steps

\* A handler that sends nothing to other Sentinels.
LEMMA LocalStep ==
    ASSUME IInv, NEW s \in Sentinels, NEW x, Commit(s, x), Outcome(s, st[s], x),
           x.failover_state <= RECONF_SLAVES, UNCHANGED <<redis, hellos, link>>
    PROVE  IInv' /\ Steps
<1>1. cast \subseteq cast'
    BY Zenon, CommitMemories DEF IInv
<1>2. Links'
    BY <1>1 DEF IInv, Links
<1> QED
    BY Zenon, <1>2, HandlerStep

\* What the invariant says of one Sentinel.
LEMMA MemoryFacts ==
    ASSUME IInv, NEW s \in Sentinels
    PROVE  /\ Sane(st[s]) /\ Backed(s, st[s]) /\ st[s].failover_state <= RECONF_SLAVES
           /\ st[s] \in Memory
    BY Zenon DEF IInv, Memories

\* A handler that gives no vote and sends nothing to other Sentinels.
LEMMA FollowStep ==
    ASSUME IInv, NEW s \in Sentinels, NEW x, Commit(s, x), Follows(st[s], x),
           x.failover_state <= RECONF_SLAVES, UNCHANGED <<redis, hellos, link>>
    PROVE  IInv' /\ Steps
    BY Zenon, MemoryFacts, FollowsOutcome, LocalStep
=============================================================================
