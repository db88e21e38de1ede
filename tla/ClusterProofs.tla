--------------------------- MODULE ClusterProofs ---------------------------
(***************************************************************************)
(* For every set of nodes and slots and all bounds: the slots of a node's    *)
(* table are served by masters, a master votes once in an epoch, and no node *)
(* forgets a newer configuration of another or of its own epochs.  One lemma *)
(* per function of cluster.c that changes a node's state, then one per       *)
(* action, all from the invariant IInv.                                      *)
(***************************************************************************)
EXTENDS Cluster, WellFoundedInduction, TLAPS

NodeState ==
    [cur : Nat, vote : Nat, slots : [Slots -> Nodes \cup {None}], cfg : [Nodes -> Nat],
     slaveof : [Nodes -> Nodes \cup {None}], failed : SUBSET Nodes,
     voted : SUBSET Nodes, auth : {"none", "scheduled", "sent"}, authEpoch : Nat,
     authCount : Nat, force : BOOLEAN]

\* No epoch a node knows is above its currentEpoch, and it serves by masters only.
Good(s) ==
    /\ s \in NodeState
    /\ \A m \in Nodes : s.cfg[m] <= s.cur
    /\ s.vote <= s.cur /\ s.authEpoch <= s.cur
    /\ \A j \in Slots : s.slots[j] # None => s.slaveof[s.slots[j]] = None

\* t is a state that a packet or a command makes of s.
Follows(s, t) ==
    /\ Good(t)
    /\ \A m \in Nodes : t.cfg[m] >= s.cfg[m]
    /\ t.cur >= s.cur /\ t.vote >= s.vote

\* A header names no epoch above the currentEpoch it carries.
NodeConfig == [name : Nodes, cfg : Nat, slots : SUBSET Slots]
Header ==
    {h \in [type : {"PING", "UPDATE", "AUTH_REQUEST", "AUTH_ACK"}, sender : Nodes, cur : Nat,
            cfg : Nat, slots : SUBSET Slots, slaveof : Nodes \cup {None}, force : BOOLEAN,
            nodecfg : {None} \cup NodeConfig] :
       h.cfg <= h.cur}
Update == {h \in Header : h.nodecfg \in NodeConfig /\ h.nodecfg.cfg <= h.cur}

\* d, the nodes.conf of a node in state s, has all but the newest currentEpoch
\* and vote.
Config ==
    [cur : Nat, vote : Nat, slots : [Slots -> Nodes \cup {None}], cfg : [Nodes -> Nat],
     slaveof : [Nodes -> Nodes \cup {None}], failed : SUBSET Nodes]
Writes(d, s) ==
    /\ d \in Config
    /\ ToSave(d) = ToSave(s)
    /\ \A m \in Nodes : d.cfg[m] <= d.cur
    /\ d.vote <= d.cur /\ d.cur <= s.cur

Memory ==
    /\ st \in [Nodes -> NodeState]
    /\ \A n \in Nodes : Good(st[n]) /\ st[n].cur <= MaxEpoch
Files ==
    /\ disk \in [Nodes -> Config]
    /\ \A n \in Nodes : Writes(disk[n], st[n])
Links == net \in [Nodes \X Nodes -> Seq(Header)] /\ cut \in SUBSET Nodes
\* A living process remembers the greatest epoch it voted in.
Ballots ==
    /\ votes \in [given : SUBSET (Nodes \X Nat \X Nodes), restarted : SUBSET Nodes]
    /\ \A v \in votes.given : v[1] \notin votes.restarted => v[2] <= st[v[1]].vote
    /\ VotesOnce
IInv == Memory /\ Files /\ Links /\ Ballots /\ faults \in 0..MaxFaults

-----------------------------------------------------------------------------
\* Epochs are natural numbers, so the greater of two is one of them.
LEMMA MaxOfTwo ==
    ASSUME NEW a \in Nat, NEW b \in Nat
    PROVE  Max({a, b}) = IF a >= b THEN a ELSE b
<1> DEFINE m == IF a >= b THEN a ELSE b
<1>1. m \in {a, b} /\ \A y \in {a, b} : m >= y
    OBVIOUS
<1>2. \A x \in {a, b} : (\A y \in {a, b} : x >= y) => x = m
    OBVIOUS
<1> HIDE DEF m
<1>3. (CHOOSE x \in {a, b} : \A y \in {a, b} : x >= y) = m
    BY <1>1, <1>2
<1>4. Max({a, b}) = m
    BY <1>3 DEF Max
<1> QED
    BY <1>4 DEF m

\* A set of epochs has a least one.
LEMMA LeastNatural ==
    ASSUME NEW T, T \subseteq Nat, T # {}
    PROVE  \E x \in T : \A y \in T : x <= y
<1> DEFINE R == {ss \in Nat \X Nat : ss[1] < ss[2]}
<1>1. OpToRel(<, Nat) = R
    BY DEF OpToRel
<1>2. IsWellFoundedOn(R, Nat)
    BY Zenon, <1>1, NatLessThanWellFounded
<1>3. PICK x \in T : \A y \in T : ~ (<<y, x>> \in R)
    <2> HIDE DEF R
    <2> QED
        BY Zenon, <1>2, WFMin
<1>4. ASSUME NEW y \in T
      PROVE  x <= y
    <2>1. x \in Nat /\ y \in Nat /\ <<y, x>> \in Nat \X Nat
        OBVIOUS
    <2>2. ~(<<y, x>>[1] < <<y, x>>[2])
        BY <1>3, <2>1
    <2> QED
        BY <2>1, <2>2
<1> QED
    BY <1>4

\* A header's epochs are taken over when newer (clusterProcessPacket).
LEMMA SeeEpochsFollows ==
    ASSUME NEW s, Good(s), NEW h \in Header
    PROVE  Follows(s, SeeEpochs(s, h))
<1> DEFINE t == SeeEpochs(s, h)
<1>1. s \in NodeState /\ h.sender \in Nodes /\ h.cur \in Nat /\ h.cfg \in Nat /\ h.cfg <= h.cur
    BY DEF Good, Header
<1>2. s.cur \in Nat /\ s.cfg \in [Nodes -> Nat] /\ s.cfg[h.sender] \in Nat
    BY <1>1 DEF NodeState
<1>3. /\ Max({s.cur, h.cur}) = IF s.cur >= h.cur THEN s.cur ELSE h.cur
      /\ Max({s.cfg[h.sender], h.cfg}) = IF s.cfg[h.sender] >= h.cfg THEN s.cfg[h.sender] ELSE h.cfg
    BY <1>1, <1>2, MaxOfTwo
<1> DEFINE c == Max({s.cur, h.cur})
           g == Max({s.cfg[h.sender], h.cfg})
<1>4. t = [s EXCEPT !.cur = c, !.cfg = [s.cfg EXCEPT ![h.sender] = g]]
    BY <1>1 DEF SeeEpochs, NodeState
<1>5. c \in Nat /\ g \in Nat /\ c >= s.cur /\ g >= s.cfg[h.sender] /\ g <= c /\ (c >= h.cur)
    BY <1>1, <1>2, <1>3 DEF Good
<1> HIDE DEF c, g, t
<1>6. t \in NodeState
    BY Zenon, <1>1, <1>2, <1>4, <1>5 DEF NodeState
<1>7. /\ t.cur = c /\ t.cfg = [s.cfg EXCEPT ![h.sender] = g] /\ t.vote = s.vote /\ t.authEpoch = s.authEpoch
      /\ t.slots = s.slots /\ t.slaveof = s.slaveof
    BY <1>1, <1>4 DEF NodeState
<1>8. \A m \in Nodes : t.cfg[m] >= s.cfg[m] /\ t.cfg[m] <= t.cur
    BY <1>1, <1>2, <1>5, <1>7 DEF Good
<1> QED
    BY <1>1, <1>2, <1>5, <1>6, <1>7, <1>8 DEF Good, Follows, NodeState, t

\* What leaves the epochs and the last vote alone.
LEMMA SameEpochsFollows ==
    ASSUME NEW s, Good(s), NEW t \in NodeState,
           t.cur = s.cur, t.cfg = s.cfg, t.vote = s.vote /\ t.authEpoch = s.authEpoch,
           \A j \in Slots : t.slots[j] # None => t.slaveof[t.slots[j]] = None
    PROVE  Follows(s, t)
<1>1. s.cur \in Nat /\ s.cfg \in [Nodes -> Nat] /\ s.vote \in Nat /\ s.authEpoch \in Nat
    BY DEF Good, NodeState
<1> QED
    BY <1>1 DEF Good, Follows

\* The functions that handle a packet compose.
LEMMA FollowsTransitive ==
    ASSUME NEW r, NEW s, NEW t, Good(r), Follows(r, s), Follows(s, t)
    PROVE  Follows(r, t)
<1>1. /\ r \in NodeState /\ s \in NodeState /\ t \in NodeState
    BY DEF Follows, Good
<1>2. /\ r.cur \in Nat /\ s.cur \in Nat /\ t.cur \in Nat
      /\ r.vote \in Nat /\ s.vote \in Nat /\ t.vote \in Nat
      /\ \A m \in Nodes : r.cfg[m] \in Nat /\ s.cfg[m] \in Nat /\ t.cfg[m] \in Nat
    BY <1>1 DEF NodeState
<1> QED
    BY <1>2 DEF Follows

\* Doing nothing forgets no epoch.
LEMMA FollowsItself ==
    ASSUME NEW s, Good(s)
    PROVE  Follows(s, s)
    BY DEF Follows, Good, NodeState

\* A node that is reachable again is cleared (clearNodeFailureIfNeeded).
LEMMA ClearFollows ==
    ASSUME NEW s, Good(s), NEW m \in Nodes, NEW old \in BOOLEAN
    PROVE  Follows(s, clearNodeFailureIfNeeded(s, m, old))
<1> DEFINE t == [s EXCEPT !.failed = @ \ {m}]
<1>1. s \in NodeState
    BY DEF Good
<1>2. /\ t \in NodeState /\ t.cur = s.cur /\ t.cfg = s.cfg /\ t.vote = s.vote /\ t.authEpoch = s.authEpoch
      /\ t.slots = s.slots /\ t.slaveof = s.slaveof
    BY <1>1 DEF NodeState
<1> HIDE DEF t
<1>3. Follows(s, t)
    BY <1>2, SameEpochsFollows DEF Good
<1> QED
    BY <1>3, FollowsItself DEF clearNodeFailureIfNeeded, t

\* A sender changes its role: its slots are given up (clusterProcessPacket).
LEMMA SwitchRoleFollows ==
    ASSUME NEW s, Good(s), NEW h \in Header
    PROVE  Follows(s, SwitchRole(s, h))
<1> DEFINE x == h.sender
           role == [s.slaveof EXCEPT ![x] = h.slaveof]
           left == [j \in Slots |-> IF s.slots[j] = x THEN None ELSE s.slots[j]]
           lost == [s EXCEPT !.slots = left]
           table == IF h.slaveof # None /\ nodeIsMaster(s, x) THEN left ELSE s.slots
           t == [s EXCEPT !.slots = table, !.slaveof = role]
<1>1. s \in NodeState /\ x \in Nodes /\ h.slaveof \in Nodes \cup {None}
    BY DEF Good, Header
<1>2. /\ s.slots \in [Slots -> Nodes \cup {None}]
      /\ s.slaveof \in [Nodes -> Nodes \cup {None}]
    BY <1>1 DEF NodeState
<1>3. SwitchRole(s, h) = t
    <2>1. CASE h.slaveof = None
        <3>1. SwitchRole(s, h) = [s EXCEPT !.slaveof[x] = None]
            BY <2>1 DEF SwitchRole, clusterSetNodeAsMaster
        <3>2. [s EXCEPT !.slaveof[x] = None] = [s EXCEPT !.slots = s.slots, !.slaveof = role]
            BY Zenon, <1>1, <2>1 DEF NodeState
        <3> QED
            BY <2>1, <3>1, <3>2
    <2>2. CASE h.slaveof # None /\ nodeIsMaster(s, x)
        <3>1. [s EXCEPT !.slots = [j \in Slots |-> IF @[j] = x THEN None ELSE @[j]]] = lost
            BY <1>1 DEF NodeState
        <3>2. SwitchRole(s, h) = [lost EXCEPT !.slaveof[x] = h.slaveof]
            BY <2>2, <3>1 DEF SwitchRole
        <3>3. [lost EXCEPT !.slaveof[x] = h.slaveof] = [s EXCEPT !.slots = left, !.slaveof = role]
            BY <1>1 DEF NodeState
        <3> QED
            BY <2>2, <3>2, <3>3
    <2>3. CASE h.slaveof # None /\ ~nodeIsMaster(s, x)
        <3>1. SwitchRole(s, h) = [s EXCEPT !.slaveof[x] = h.slaveof]
            BY <2>3 DEF SwitchRole
        <3>2. [s EXCEPT !.slaveof[x] = h.slaveof] = [s EXCEPT !.slots = s.slots, !.slaveof = role]
            BY Zenon, <1>1 DEF NodeState
        <3> QED
            BY <2>3, <3>1, <3>2
    <2> QED
        BY <2>1, <2>2, <2>3
<1>4. table \in [Slots -> Nodes \cup {None}] /\ role \in [Nodes -> Nodes \cup {None}]
    BY <1>1, <1>2
<1>5. \A j \in Slots : table[j] # None => role[table[j]] = None
    BY <1>1, <1>2 DEF Good, nodeIsMaster
<1> HIDE DEF table, role
<1>6. /\ t \in NodeState /\ t.cur = s.cur /\ t.cfg = s.cfg /\ t.vote = s.vote /\ t.authEpoch = s.authEpoch
      /\ t.slots = table /\ t.slaveof = role
    BY Zenon, <1>1, <1>4 DEF NodeState
<1> HIDE DEF t
<1>7. Follows(s, t)
    BY <1>5, <1>6, SameEpochsFollows
<1> QED
    BY <1>3, <1>7

\* Slots go to a master, and a node that loses the last one becomes its slave.
LEMMA UpdateSlotsFollows ==
    ASSUME NEW s, Good(s), NEW n \in Nodes, NEW x \in Nodes, nodeIsMaster(s, x),
           NEW epoch \in Nat, NEW claimed \in SUBSET Slots
    PROVE  Follows(s, clusterUpdateSlotsConfigWith(n, s, x, epoch, claimed))
<1> DEFINE curmaster == IF nodeIsMaster(s, n) THEN n ELSE s.slaveof[n]
           moved == {j \in claimed : /\ s.slots[j] # x
                                     /\ s.slots[j] = None \/ s.cfg[s.slots[j]] < epoch}
           lost == \E j \in moved : s.slots[j] = curmaster
           table == [j \in Slots |-> IF j \in moved THEN x ELSE s.slots[j]]
           t == [s EXCEPT !.slots = table]
           role == [s.slaveof EXCEPT ![n] = x]
           u == [s EXCEPT !.slots = table, !.slaveof = role, !.force = FALSE]
<1>1. s \in NodeState
    BY DEF Good
<1>2. /\ s.slots \in [Slots -> Nodes \cup {None}]
      /\ s.slaveof \in [Nodes -> Nodes \cup {None}]
    BY <1>1 DEF NodeState
<1>3. t = [s EXCEPT !.slots = [j \in Slots |-> IF j \in moved THEN x ELSE @[j]]]
    BY <1>1 DEF NodeState
<1>4. clusterSetMaster(n, t, x) = u
    BY <1>1 DEF NodeState, clusterSetMaster
<1> HIDE DEF moved
<1>5. table \in [Slots -> Nodes \cup {None}] /\ role \in [Nodes -> Nodes \cup {None}]
    BY <1>2
<1>6. \A j \in Slots : table[j] # None => s.slaveof[table[j]] = None
    BY <1>2 DEF Good, nodeIsMaster
<1>7. /\ t \in NodeState /\ t.cur = s.cur /\ t.cfg = s.cfg /\ t.vote = s.vote /\ t.authEpoch = s.authEpoch
      /\ t.slots = table /\ t.slaveof = s.slaveof
    <2> HIDE DEF table
    <2> QED
        BY <1>1, <1>5 DEF NodeState
<1>8. Follows(s, t)
    <2> HIDE DEF t
    <2> QED
        BY <1>6, <1>7, SameEpochsFollows
<1>9. ASSUME x # n, SlotsOf(t, curmaster) = {}
      PROVE  Follows(s, u)
    <2>1. \A j \in Slots : table[j] # n
        <3>1. CASE nodeIsMaster(s, n)
            <4>1. \A j \in Slots : t.slots[j] # n
                BY Zenon, <1>9, <3>1 DEF SlotsOf
            <4> QED
                BY <1>7, <4>1
        <3>2. CASE ~nodeIsMaster(s, n)
            BY <1>6, <3>2, <1>2, ClusterAssumption DEF nodeIsMaster
        <3> QED
            BY <3>1, <3>2
    <2>2. \A j \in Slots : table[j] # None => role[table[j]] = None
        BY <1>2, <1>5, <1>6, <2>1
    <2> HIDE DEF table, role
    <2>3. /\ u \in NodeState /\ u.cur = s.cur /\ u.cfg = s.cfg /\ u.vote = s.vote /\ u.authEpoch = s.authEpoch
          /\ u.slots = table /\ u.slaveof = role
        BY Zenon, <1>1, <1>5 DEF NodeState
    <2> HIDE DEF u
    <2> QED
        BY <2>2, <2>3, SameEpochsFollows
<1>10. \/ clusterUpdateSlotsConfigWith(n, s, x, epoch, claimed) = s
       \/ /\ x # n /\ SlotsOf(t, curmaster) = {}
          /\ clusterUpdateSlotsConfigWith(n, s, x, epoch, claimed) = u
       \/ clusterUpdateSlotsConfigWith(n, s, x, epoch, claimed) = t
    BY <1>3, <1>4 DEF clusterUpdateSlotsConfigWith, moved
<1> HIDE DEF t, u
<1> QED
    BY <1>8, <1>9, <1>10, FollowsItself

\* clusterHandleConfigEpochCollision takes a new epoch.
LEMMA CollisionFollows ==
    ASSUME NEW s, Good(s), NEW n \in Nodes, NEW h \in Header
    PROVE  Follows(s, clusterHandleConfigEpochCollision(n, s, h))
<1> DEFINE e == s.cur + 1
           epochs == [s.cfg EXCEPT ![n] = e]
           t == [s EXCEPT !.cur = e, !.cfg = epochs]
<1>1. s \in NodeState
    BY DEF Good
<1>2. s.cur \in Nat /\ s.cfg \in [Nodes -> Nat] /\ s.vote \in Nat /\ s.authEpoch \in Nat
    BY <1>1 DEF NodeState
<1>3. /\ t \in NodeState /\ t.cur = e /\ t.cfg = epochs
      /\ t.vote = s.vote /\ t.authEpoch = s.authEpoch /\ t.slots = s.slots /\ t.slaveof = s.slaveof
    <2>1. e \in Nat /\ epochs \in [Nodes -> Nat]
        BY <1>2
    <2> HIDE DEF e, epochs
    <2> QED
        BY Zenon, <1>1, <2>1 DEF NodeState
<1>4. [s EXCEPT !.cur = @ + 1, !.cfg[n] = s.cur + 1] = t
    BY <1>1 DEF NodeState
<1> HIDE DEF t
<1>5. \A m \in Nodes : t.cfg[m] >= s.cfg[m] /\ t.cfg[m] <= t.cur
    BY <1>2, <1>3 DEF Good
<1>6. Follows(s, t)
    BY <1>2, <1>3, <1>5 DEF Follows, Good
<1> QED
    BY <1>4, <1>6, FollowsItself DEF clusterHandleConfigEpochCollision

\* A PING: epochs, role, slots and collision, in that order.
LEMMA ProcessPingFollows ==
    ASSUME NEW s, Good(s), NEW n \in Nodes, NEW h \in Header,
           NEW pong \in BOOLEAN, NEW old \in BOOLEAN
    PROVE  LET r == ProcessPing(n, s, h, pong, old)
           IN Follows(s, r.s) /\ r.about \in Nodes \cup {None}
<1> DEFINE s1 == SeeEpochs(s, h)
           s2 == IF pong /\ h.sender \in s1.failed
                 THEN clearNodeFailureIfNeeded(s1, h.sender, old) ELSE s1
           s3 == SwitchRole(s2, h)
           dirty == SlotsOf(s3, SenderMaster(s3, h)) # h.slots
           s4 == IF nodeIsMaster(s3, h.sender) /\ dirty
                 THEN clusterUpdateSlotsConfigWith(n, s3, h.sender, h.cfg, h.slots) ELSE s3
           stale == {j \in h.slots : /\ s4.slots[j] \notin {h.sender, None}
                                     /\ s4.cfg[s4.slots[j]] > h.cfg}
           s5 == clusterHandleConfigEpochCollision(n, s4, h)
           about == IF dirty /\ stale # {} THEN s4.slots[Min(stale)] ELSE None
<1>1. ProcessPing(n, s, h, pong, old) = [s |-> s5, about |-> about]
    BY Zenon DEF ProcessPing
<1>2. h.sender \in Nodes /\ h.cfg \in Nat /\ h.slots \in SUBSET Slots
    BY DEF Header
<1>3. Follows(s, s1)
    BY SeeEpochsFollows
<1>4. Follows(s1, s2)
    <2> HIDE DEF s1
    <2> QED
        BY Zenon, <1>2, <1>3, ClearFollows, FollowsItself DEF Follows
<1>5. Follows(s2, s3)
    <2> HIDE DEF s2
    <2> QED
        BY <1>4, SwitchRoleFollows DEF Follows
<1>6. Follows(s3, s4)
    <2> HIDE DEF s3, dirty
    <2> QED
        BY <1>2, <1>5, UpdateSlotsFollows, FollowsItself DEF Follows
<1>7. Follows(s4, s5)
    <2> HIDE DEF s4
    <2> QED
        BY <1>6, CollisionFollows DEF Follows
<1>8. about \in Nodes \cup {None}
    <2> HIDE DEF s4, dirty
    <2>1. CASE stale # {}
        <3>1. stale \subseteq Nat /\ stale \subseteq Slots
            BY <1>2, ClusterAssumption
        <3>2. \E j \in stale : \A k \in stale : j <= k
            <4> HIDE DEF stale
            <4> QED
                BY Zenon, <2>1, <3>1, LeastNatural
        <3>3. Min(stale) \in stale
            <4> HIDE DEF stale
            <4> QED
                BY <3>2 DEF Min
        <3>4. s4.slots \in [Slots -> Nodes \cup {None}]
            BY <1>6 DEF Follows, Good, NodeState
        <3> HIDE DEF stale
        <3> QED
            BY Zenon, <3>1, <3>3, <3>4
    <2>2. CASE stale = {}
        BY <2>2
    <2> QED
        BY <2>1, <2>2
<1> HIDE DEF s1, s2, s3, s4, s5, about
<1>9. Follows(s, s5)
    BY <1>3, <1>4, <1>5, <1>6, <1>7, FollowsTransitive DEF Follows
<1> QED
    BY <1>1, <1>8, <1>9

\* An UPDATE: the newer configuration of a third node.
LEMMA ProcessUpdateFollows ==
    ASSUME NEW s, Good(s), NEW n \in Nodes, NEW h \in Update
    PROVE  Follows(s, ProcessUpdate(n, s, h))
<1> DEFINE r == SeeEpochs(s, h)
           u == h.nodecfg
           role == [r.slaveof EXCEPT ![u.name] = None]
           epochs == [r.cfg EXCEPT ![u.name] = u.cfg]
           t == [r EXCEPT !.slaveof = role, !.cfg = epochs]
<1>1. h \in Header /\ u.name \in Nodes /\ u.cfg \in Nat /\ u.slots \in SUBSET Slots
      /\ u.cfg <= h.cur /\ h.cur \in Nat /\ h.sender \in Nodes
    BY DEF Update, NodeConfig, Header
<1>2. Follows(s, r)
    BY <1>1, SeeEpochsFollows
<1>3. r.cur >= h.cur
    <2>1. s \in NodeState /\ s.cur \in Nat
        BY DEF Good, NodeState
    <2>2. r.cur = Max({s.cur, h.cur})
        BY <2>1 DEF SeeEpochs, NodeState
    <2> QED
        BY <1>1, <2>1, <2>2, MaxOfTwo
<1> HIDE DEF r
<1>4. r \in NodeState /\ Good(r)
    BY <1>2 DEF Follows, Good
<1>5. [clusterSetNodeAsMaster(r, u.name) EXCEPT !.cfg[u.name] = u.cfg] = t
    BY <1>1, <1>4 DEF clusterSetNodeAsMaster, NodeState
<1>6. CASE r.cfg[u.name] >= u.cfg
    BY <1>2, <1>6 DEF ProcessUpdate, r
<1>7. CASE ~(r.cfg[u.name] >= u.cfg)
    <2>1. /\ r.cfg \in [Nodes -> Nat] /\ r.slaveof \in [Nodes -> Nodes \cup {None}]
          /\ r.cur \in Nat /\ r.vote \in Nat /\ r.authEpoch \in Nat
          /\ r.slots \in [Slots -> Nodes \cup {None}]
        BY <1>4 DEF NodeState
    <2>2. /\ role \in [Nodes -> Nodes \cup {None}] /\ role[u.name] = None
          /\ \A m \in Nodes : r.slaveof[m] = None => role[m] = None
        BY <1>1, <2>1
    <2>3. /\ epochs \in [Nodes -> Nat]
          /\ \A m \in Nodes : epochs[m] >= r.cfg[m] /\ epochs[m] <= r.cur
        BY <1>1, <1>3, <1>4, <1>7, <2>1 DEF Good
    <2> HIDE DEF role, epochs
    <2>4. /\ t \in NodeState /\ t.cur = r.cur /\ t.cfg = epochs /\ t.vote = r.vote
          /\ t.authEpoch = r.authEpoch /\ t.slots = r.slots /\ t.slaveof = role
        BY Zenon, <1>4, <2>2, <2>3 DEF NodeState
    <2> HIDE DEF t
    <2>5. Follows(r, t)
        BY <1>4, <2>1, <2>2, <2>3, <2>4 DEF Follows, Good
    <2>6. nodeIsMaster(t, u.name)
        BY <2>2, <2>4 DEF nodeIsMaster
    <2>7. Follows(t, clusterUpdateSlotsConfigWith(n, t, u.name, u.cfg, u.slots))
        <3> HIDE DEF u
        <3> QED
            BY <1>1, <2>5, <2>6, UpdateSlotsFollows DEF Follows
    <2>8. ProcessUpdate(n, s, h) = clusterUpdateSlotsConfigWith(n, t, u.name, u.cfg, u.slots)
        BY <1>5, <1>7 DEF ProcessUpdate, r
    <2> HIDE DEF u
    <2> QED
        BY <1>2, <2>5, <2>7, <2>8, FollowsTransitive DEF Follows
<1> QED
    BY <1>6, <1>7

\* clusterSendFailoverAuthIfNeeded records its vote.
LEMMA VoteFollows ==
    ASSUME NEW s, Good(s), NEW n \in Nodes, NEW h \in Header, NEW expired \in BOOLEAN
    PROVE  LET t == clusterSendFailoverAuthIfNeeded(n, s, h, expired)
           IN Follows(s, t) /\ (MayVote(n, s, h, expired) => t.vote = s.cur)
<1> DEFINE masters == s.voted \cup {s.slaveof[h.sender]}
           t == [s EXCEPT !.vote = s.cur, !.voted = masters]
<1>1. s \in NodeState /\ h.sender \in Nodes
    BY DEF Good, Header
<1>2. CASE MayVote(n, s, h, expired)
    <2>1. masters \in SUBSET Nodes
        BY <1>1, <1>2 DEF NodeState, MayVote
    <2> HIDE DEF masters
    <2>2. /\ t \in NodeState /\ t.cur = s.cur /\ t.cfg = s.cfg /\ t.vote = s.cur
          /\ t.authEpoch = s.authEpoch /\ t.slots = s.slots /\ t.slaveof = s.slaveof
        BY Zenon, <1>1, <2>1 DEF NodeState
    <2>3. s.cur \in Nat /\ s.cfg \in [Nodes -> Nat] /\ s.vote \in Nat /\ s.authEpoch \in Nat
        BY <1>1 DEF NodeState
    <2>4. clusterSendFailoverAuthIfNeeded(n, s, h, expired) = t
        BY <1>2 DEF clusterSendFailoverAuthIfNeeded, masters
    <2> HIDE DEF t
    <2>5. Follows(s, t)
        BY <2>2, <2>3 DEF Follows, Good
    <2> QED
        BY <2>2, <2>4, <2>5
<1>3. CASE ~MayVote(n, s, h, expired)
    BY <1>3, FollowsItself DEF clusterSendFailoverAuthIfNeeded
<1> QED
    BY <1>2, <1>3

\* A FAILOVER_AUTH_ACK is counted for the election of its epoch only.
LEMMA CountFollows ==
    ASSUME NEW s, Good(s), NEW h \in Header
    PROVE  Follows(s, CountVote(s, h))
<1> DEFINE k == s.authCount + 1
           t == [s EXCEPT !.authCount = k]
<1>1. s \in NodeState
    BY DEF Good
<1>2. k \in Nat
    BY <1>1 DEF NodeState
<1> HIDE DEF k
<1>3. /\ t \in NodeState /\ t.cur = s.cur /\ t.cfg = s.cfg /\ t.vote = s.vote
      /\ t.authEpoch = s.authEpoch /\ t.slots = s.slots /\ t.slaveof = s.slaveof
    BY <1>1, <1>2 DEF NodeState
<1> HIDE DEF t
<1>4. Follows(s, t)
    BY <1>3, SameEpochsFollows DEF Good
<1> QED
    BY <1>4, FollowsItself DEF CountVote, t, k

\* clusterGetMaxEpoch is the currentEpoch of a node that knows no greater one.
LEMMA GreatestIsCurrent ==
    ASSUME NEW s, s.cur \in Nat, \A m \in Nodes : s.cfg[m] \in Nat /\ s.cfg[m] <= s.cur
    PROVE  clusterGetMaxEpoch(s) = s.cur
<1> DEFINE E == {s.cfg[m] : m \in Nodes} \cup {s.cur}
<1>1. s.cur \in E /\ \A y \in E : y \in Nat /\ s.cur >= y
    OBVIOUS
<1> HIDE DEF E
<1>2. \A x \in E : (\A y \in E : x >= y) => x = s.cur
    BY <1>1
<1>3. (CHOOSE x \in E : \A y \in E : x >= y) = s.cur
    BY <1>1, <1>2
<1> QED
    BY <1>3 DEF clusterGetMaxEpoch, Max, E

\* clusterBuildMessageHdr names no epoch above the currentEpoch it carries.
LEMMA HeaderTyped ==
    ASSUME NEW s, Good(s), NEW n \in Nodes,
           NEW type \in {"PING", "UPDATE", "AUTH_REQUEST", "AUTH_ACK"}
    PROVE  clusterBuildMessageHdr(n, s, type) \in Header
<1> DEFINE master == IF s.slaveof[n] # None THEN s.slaveof[n] ELSE n
<1>1. /\ s.slaveof[n] \in Nodes \cup {None} /\ s.cur \in Nat /\ s.force \in BOOLEAN
      /\ s.cfg \in [Nodes -> Nat]
    BY DEF Good, NodeState
<1>2. master \in Nodes
    BY <1>1
<1> HIDE DEF master
<1>3. /\ s.cfg[master] \in Nat /\ s.cfg[master] <= s.cur
      /\ SlotsOf(s, master) \in SUBSET Slots
    BY <1>1, <1>2 DEF Good, SlotsOf
<1> QED
    BY <1>1, <1>3 DEF clusterBuildMessageHdr, Header, master

\* clusterSendUpdate tells what its node knows of the owner of a slot.
LEMMA UpdateTyped ==
    ASSUME NEW s, Good(s), NEW n \in Nodes, NEW about \in Nodes
    PROVE  clusterSendUpdate(n, s, about) \in Update
<1> DEFINE h == clusterBuildMessageHdr(n, s, "UPDATE")
           c == [name |-> about, cfg |-> s.cfg[about], slots |-> SlotsOf(s, about)]
<1>1. h \in Header /\ h.cur = s.cur
    BY Zenon, HeaderTyped DEF clusterBuildMessageHdr
<1>2. c \in NodeConfig /\ c.cfg <= s.cur
    BY DEF NodeConfig, Good, NodeState, SlotsOf
<1> HIDE DEF h, c
<1>3. [h EXCEPT !.nodecfg = c] \in Update
    BY <1>1, <1>2 DEF Header, Update
<1> QED
    BY SMTT(20), <1>3 DEF clusterSendUpdate, h, c

\* What a step leaves in nodes.conf is what the node has in memory.
LEMMA SavedWrites ==
    ASSUME NEW n \in Nodes, Good(st[n]), Writes(disk[n], st[n]),
           NEW s, Follows(st[n], s), NEW save \in BOOLEAN
    PROVE  Writes(Saved(n, s, save), s)
<1>1. s \in NodeState /\ Good(s) /\ s.cur >= st[n].cur
    BY DEF Follows, Good
<1>2. CASE save \/ ToSave(s) # ToSave(st[n])
    <2> DEFINE d == clusterSaveConfig(s)
    <2>1. /\ d \in Config /\ d.cur = s.cur /\ d.vote = s.vote /\ d.cfg = s.cfg
          /\ d.slots = s.slots /\ d.slaveof = s.slaveof /\ d.failed = s.failed
        BY <1>1 DEF clusterSaveConfig, Config, NodeState
    <2> HIDE DEF d
    <2>2. s.cur \in Nat
        BY <1>1 DEF NodeState
    <2>3. Writes(d, s)
        BY <1>1, <2>1, <2>2 DEF Writes, Good, ToSave
    <2> QED
        BY <1>2, <2>3 DEF Saved, d
<1>3. CASE ~save /\ ToSave(s) = ToSave(st[n])
    <2>1. Saved(n, s, save) = disk[n]
        BY <1>3 DEF Saved
    <2>2. disk[n].cur \in Nat /\ st[n].cur \in Nat /\ s.cur \in Nat
        BY <1>1 DEF Writes, Config, Good, NodeState
    <2> QED
        BY <1>1, <1>3, <2>1, <2>2 DEF Writes
<1> QED
    BY <1>2, <1>3

\* Every step but a restart makes each memory follow the one before it.
Progress == \A n \in Nodes : Follows(st[n], st'[n])

\* New states that follow the old ones, all saved.
LEMMA MemoryStep ==
    ASSUME IInv, st' \in [Nodes -> NodeState], Progress, \A n \in Nodes : st'[n].cur <= MaxEpoch,
           disk' = [n \in Nodes |-> Saved(n, st'[n], FALSE)]
    PROVE  Memory' /\ Files'
<1>1. \A n \in Nodes : Good(st'[n])
    BY DEF Progress, Follows
<1>2. \A n \in Nodes : Writes(disk'[n], st'[n])
    BY Zenon, SavedWrites DEF Progress, IInv, Memory, Files
<1>3. disk' \in [Nodes -> Config]
    BY Zenon, <1>2 DEF Writes
<1> QED
    BY Zenon, <1>1, <1>2, <1>3 DEF Memory, Files

\* clusterBeforeSleep, after a function that follows the old state.
LEMMA SleepStep ==
    ASSUME IInv, NEW n \in Nodes, NEW s, Follows(st[n], s), NEW save \in BOOLEAN,
           clusterBeforeSleep(n, s, save)
    PROVE  Memory' /\ Files' /\ Progress
<1>1. s \in NodeState /\ s.cur <= MaxEpoch
    BY DEF Follows, Good, clusterBeforeSleep
<1>2. st' = [st EXCEPT ![n] = s] /\ disk' = [disk EXCEPT ![n] = Saved(n, s, save)]
    BY DEF clusterBeforeSleep
<1>3. st \in [Nodes -> NodeState] /\ disk \in [Nodes -> Config]
    BY DEF IInv, Memory, Files
<1>4. st' \in [Nodes -> NodeState] /\ \A m \in Nodes : st'[m] = IF m = n THEN s ELSE st[m]
    BY <1>1, <1>2, <1>3
<1>5. Writes(Saved(n, s, save), s)
    BY SavedWrites DEF IInv, Memory, Files
<1>6. /\ disk' \in [Nodes -> Config]
      /\ \A m \in Nodes : disk'[m] = IF m = n THEN Saved(n, s, save) ELSE disk[m]
    BY <1>2, <1>3, <1>5 DEF Writes
<1>7. Progress
    BY <1>4, FollowsItself DEF Progress, IInv, Memory
<1>8. \A m \in Nodes : Good(st'[m]) /\ st'[m].cur <= MaxEpoch
    BY <1>1, <1>4, <1>7 DEF Progress, Follows, IInv, Memory
<1>9. \A m \in Nodes : Writes(disk'[m], st'[m])
    BY <1>4, <1>5, <1>6 DEF IInv, Files
<1> QED
    BY <1>4, <1>6, <1>7, <1>8, <1>9 DEF Memory, Files

\* Who has voted still remembers it after any step but a restart.
LEMMA BallotsStep ==
    ASSUME IInv, Memory', Progress, UNCHANGED votes
    PROVE  Ballots'
<1>1. \A v \in votes.given : v[1] \in Nodes /\ v[2] \in Nat
    BY DEF IInv, Ballots
<1>2. \A n \in Nodes : st[n].vote \in Nat /\ st'[n].vote \in Nat /\ st'[n].vote >= st[n].vote
    BY DEF IInv, Memory, NodeState, Progress, Follows
<1>3. \A v \in votes.given : v[1] \notin votes.restarted => v[2] <= st'[v[1]].vote
    BY <1>1, <1>2 DEF IInv, Ballots
<1> QED
    BY <1>3 DEF IInv, Ballots, VotesOnce

-----------------------------------------------------------------------------
\* The first configuration.
LEMMA GreatestEpoch ==
    ASSUME Nodes # {}
    PROVE  /\ Max(Range(EpochOf)) \in 0..MaxEpoch
           /\ \A n \in Nodes : EpochOf[n] <= Max(Range(EpochOf))
<1> DEFINE E == {EpochOf[n] : n \in Nodes}
           D == {k \in Nat : MaxEpoch - k \in E}
<1>1. MaxEpoch \in Nat /\ EpochOf \in [Nodes -> 0..MaxEpoch]
    BY ClusterAssumption
<1>2. Range(EpochOf) = E
    BY <1>1 DEF Range
<1>3. \A e \in E : e \in 0..MaxEpoch /\ MaxEpoch - e \in D
    BY <1>1
<1>4. D # {}
    BY <1>1, <1>3
<1>5. PICK k \in D : \A y \in D : k <= y
    <2> HIDE DEF D
    <2>1. D \subseteq Nat
        BY DEF D
    <2> QED
        BY Zenon, <1>4, <2>1, LeastNatural
<1>6. MaxEpoch - k \in E /\ \A e \in E : MaxEpoch - k >= e
    BY <1>1, <1>3, <1>5
<1> HIDE DEF E, D
<1>7. \E x \in E : \A y \in E : x >= y
    BY <1>6
<1>8. Max(E) \in E /\ \A e \in E : Max(E) >= e
    BY <1>7 DEF Max
<1>9. Max(E) \in 0..MaxEpoch /\ \A e \in E : e <= Max(E)
    BY <1>1, <1>3, <1>8
<1>10. \A n \in Nodes : EpochOf[n] \in E
    BY DEF E
<1> QED
    BY <1>2, <1>9, <1>10

\* What a node reads back from nodes.conf is as good as what it saved.
LEMMA RestartGood ==
    ASSUME NEW d \in Config, \A m \in Nodes : d.cfg[m] <= d.cur, d.vote <= d.cur,
           \A j \in Slots : d.slots[j] # None => d.slaveof[d.slots[j]] = None
    PROVE  LET s == clusterInit(d)
           IN Good(s) /\ s.cur = d.cur /\ s.cfg = d.cfg /\ ToSave(s) = ToSave(d)
<1> DEFINE s == clusterInit(d)
<1>1. d.cur \in Nat /\ d.vote \in Nat /\ d.cfg \in [Nodes -> Nat]
    BY DEF Config
<1>2. clusterGetMaxEpoch(d) = d.cur
    BY SMTT(20), <1>1, GreatestIsCurrent
<1>3. /\ s \in NodeState /\ s.cur = d.cur /\ s.cfg = d.cfg /\ s.vote = d.vote /\ s.authEpoch = 0
      /\ s.slots = d.slots /\ s.slaveof = d.slaveof /\ s.failed = d.failed
    BY Zenon, <1>2 DEF clusterInit, Config, NodeState
<1> HIDE DEF s
<1>4. Good(s) /\ ToSave(s) = ToSave(d)
    BY <1>1, <1>3 DEF Good, ToSave
<1> QED
    BY <1>3, <1>4 DEF s

\* The cluster at its start.
LEMMA InitInv == Init => IInv
<1> SUFFICES ASSUME Init
             PROVE  IInv
    OBVIOUS
<1>1. ASSUME NEW n \in Nodes
      PROVE  LET d == FirstConfig(n)
                 s == clusterInit(d)
             IN Good(s) /\ s.cur <= MaxEpoch /\ Writes(d, s)
    <2> DEFINE d == FirstConfig(n)
               s == clusterInit(d)
    <2>1. Max(Range(EpochOf)) \in 0..MaxEpoch /\ \A m \in Nodes : EpochOf[m] <= Max(Range(EpochOf))
        BY GreatestEpoch
    <2> DEFINE e == Max(Range(EpochOf))
               cfg == [m \in Nodes |-> IF MasterOf[m] = None THEN EpochOf[m]
                                       ELSE IF m = n THEN 0 ELSE EpochOf[MasterOf[m]]]
    <2>2. /\ MasterOf \in [Nodes -> Nodes \cup {None}] /\ EpochOf \in [Nodes -> 0..MaxEpoch]
          /\ OwnerOf \in [Slots -> Nodes] /\ MaxEpoch \in Nat
          /\ \A j \in Slots : MasterOf[OwnerOf[j]] = None
        BY ClusterAssumption
    <2>3. e \in Nat /\ e <= MaxEpoch
        BY <2>1, <2>2
    <2>4. cfg \in [Nodes -> Nat] /\ \A m \in Nodes : cfg[m] <= e
        BY <2>1, <2>2
    <2>5. d = [cur |-> e, vote |-> 0, slots |-> OwnerOf, cfg |-> cfg, slaveof |-> MasterOf, failed |-> {}]
        BY DEF FirstConfig
    <2> HIDE DEF e, cfg, d
    <2>6. /\ d \in Config /\ d.cur = e /\ d.cfg = cfg /\ d.vote = 0
          /\ d.slots = OwnerOf /\ d.slaveof = MasterOf
        BY <2>2, <2>3, <2>4, <2>5 DEF Config
    <2>7. Good(s) /\ s.cur = d.cur /\ ToSave(s) = ToSave(d)
        BY <2>2, <2>3, <2>4, <2>6, RestartGood
    <2> HIDE DEF s
    <2>8. s.cur <= MaxEpoch /\ Writes(d, s)
        BY <2>3, <2>4, <2>6, <2>7 DEF Writes
    <2> QED
        BY <2>7, <2>8 DEF s, d
<1>2. \A n \in Nodes : st[n] = clusterInit(FirstConfig(n)) /\ disk[n] = FirstConfig(n)
    BY DEF Init
<1>3. Memory
    <2>1. \A n \in Nodes : st[n] \in NodeState
        BY <1>1, <1>2 DEF Good
    <2>2. st \in [Nodes -> NodeState]
        BY <2>1 DEF Init
    <2> QED
        BY <1>1, <1>2, <2>2 DEF Memory
<1>4. Files
    <2>1. \A n \in Nodes : disk[n] \in Config
        BY <1>1, <1>2 DEF Writes
    <2>2. disk \in [Nodes -> Config]
        BY <2>1 DEF Init
    <2> QED
        BY <1>1, <1>2, <2>2 DEF Files
<1>5. Links /\ Ballots /\ faults \in 0..MaxFaults
    BY ClusterAssumption DEF Init, Links, Ballots, VotesOnce
<1> QED
    BY <1>3, <1>4, <1>5 DEF IInv
-----------------------------------------------------------------------------
\* The faults stay within their bound.
LEMMA FaultStep ==
    ASSUME faults \in 0..MaxFaults, Fault \/ UNCHANGED faults
    PROVE  faults' \in 0..MaxFaults
    BY ClusterAssumption DEF Fault

\* Each step keeps IInv; Kept is what it shows besides.
Kept == IInv' /\ \A n, m \in Nodes : st'[n].cfg[m] >= st[n].cfg[m]

\* A step that gives no vote.
LEMMA QuietStep ==
    ASSUME IInv, Memory', Files', Progress, UNCHANGED votes, Links', faults' \in 0..MaxFaults
    PROVE  Kept
<1>1. Ballots'
    BY SMTT(20), BallotsStep
<1> QED
    BY <1>1 DEF Kept, IInv, Progress, Follows

\* clusterSendPing.
LEMMA PingStep ==
    ASSUME IInv, NEW x \in Nodes, Ping(x)
    PROVE  Kept
<1> DEFINE h == clusterBuildMessageHdr(x, st[x], "PING")
           R == {n \in Side(x) \ {x} : net[<<x, n>>] = <<>>}
           All(pong, old) == [n \in R |-> ProcessPing(n, st[n], h, pong, old)]
           Up(r) == UNION {Answers(n, r[n]) : n \in {m \in R : net[<<m, x>>] = <<>>}}
           Moves(r, u) == st' = [n \in Nodes |->
                                    IF n \in R THEN r[n].s
                                    ELSE IF n = x /\ Up(r) # {} THEN ProcessUpdate(x, st[x], u)
                                    ELSE st[n]]
<1>1. PICK pong, old \in BOOLEAN :
        /\ pong => \E n \in R : x \in st[n].failed
        /\ IF old THEN pong /\ Fault ELSE UNCHANGED faults
        /\ \E r \in {All(pong, old)} :
             /\ Up(r) # {} \/ \E n \in R : r[n].s # st[n]
             /\ \E u \in IF Up(r) = {} THEN {None} ELSE Up(r) : Moves(r, u)
        /\ st' # st
        /\ \A n \in Nodes : st'[n].cur <= MaxEpoch
        /\ disk' = [n \in Nodes |-> Saved(n, st'[n], FALSE)]
        /\ UNCHANGED <<net, cut, votes>>
    BY Zenon DEF Ping
<1> DEFINE r == All(pong, old)
<1>2. PICK u \in IF Up(r) = {} THEN {None} ELSE Up(r) : Moves(r, u)
    <2> HIDE DEF All, Up, Moves
    <2> QED
        BY <1>1
<1>3. R \subseteq Nodes /\ \A n \in Nodes : Good(st[n])
    BY SMTT(20) DEF Side, IInv, Links, Memory
<1>4. h \in Header
    BY SMTT(20), <1>3, HeaderTyped
<1> HIDE DEF h, R
<1>5. \A n \in R : Follows(st[n], r[n].s) /\ r[n].about \in Nodes \cup {None}
    BY <1>3, <1>4, ProcessPingFollows
<1> HIDE DEF r
<1>6. ASSUME NEW n \in R, NEW v \in Answers(n, r[n])
      PROVE  v \in Update
    <2>1. r[n].about \in Nodes /\ v = clusterSendUpdate(n, r[n].s, r[n].about)
        BY <1>5, <1>6 DEF Answers
    <2> QED
        BY SMTT(20), <1>3, <1>5, <2>1, UpdateTyped DEF Follows
<1>7. Up(r) # {} => u \in Update
    <2>1. \A v \in Up(r) : \E n \in R : v \in Answers(n, r[n])
        BY Zenon
    <2> HIDE DEF Up
    <2> QED
        BY <1>2, <1>6, <2>1
<1> HIDE DEF Up
<1>8. Up(r) # {} => Follows(st[x], ProcessUpdate(x, st[x], u))
    BY <1>3, <1>7, ProcessUpdateFollows
<1>9. \A n \in Nodes : st'[n] = IF n \in R THEN r[n].s
                               ELSE IF n = x /\ Up(r) # {} THEN ProcessUpdate(x, st[x], u)
                               ELSE st[n]
    BY <1>2
<1>10. Progress
    BY <1>3, <1>5, <1>8, <1>9, FollowsItself DEF Progress
<1>11. st' \in [Nodes -> NodeState]
    <2>1. \A n \in Nodes : st'[n] \in NodeState
        BY <1>10 DEF Progress, Follows, Good
    <2>2. st' = [n \in Nodes |-> st'[n]]
        BY SMTT(20), <1>2
    <2> QED
        BY <2>1, <2>2
<1>12. Memory' /\ Files'
    BY SMTT(20), <1>1, <1>10, <1>11, MemoryStep
<1>13. faults' \in 0..MaxFaults
    BY <1>1, FaultStep DEF IInv
<1> QED
    BY <1>1, <1>10, <1>12, <1>13, QuietStep DEF IInv, Links

\* A vote is the first of its node in its epoch: s.vote was smaller.
LEMMA VoteCast ==
    ASSUME IInv, NEW n \in Nodes, NEW x \in Nodes, NEW s, Follows(st[n], s), s.vote = st[n].vote,
           s.vote # s.cur, Memory', st'[n].vote = s.cur, Progress,
           votes' = [votes EXCEPT !.given = @ \cup {<<n, s.cur, x>>}]
    PROVE  Ballots'
<1>1. s.vote \in Nat /\ s.cur \in Nat /\ s.vote < s.cur
    BY DEF Follows, Good, NodeState
<1>2. votes \in [given : SUBSET (Nodes \X Nat \X Nodes), restarted : SUBSET Nodes]
    BY DEF IInv, Ballots
<1>3. votes'.given = votes.given \cup {<<n, s.cur, x>>} /\ votes'.restarted = votes.restarted
    BY <1>2
<1>4. votes' \in [given : SUBSET (Nodes \X Nat \X Nodes), restarted : SUBSET Nodes]
    BY <1>1, <1>2
<1>5. \A m \in Nodes : st[m].vote \in Nat /\ st'[m].vote \in Nat /\ st'[m].vote >= st[m].vote
    BY DEF IInv, Memory, NodeState, Progress, Follows
<1>6. \A v \in votes.given : v[1] \in Nodes /\ v[2] \in Nat
    BY <1>2
<1>7. \A v \in votes.given : v[1] \notin votes.restarted => v[2] <= st[v[1]].vote
    BY DEF IInv, Ballots
<1>8. \A v \in votes'.given : v[1] \notin votes'.restarted => v[2] <= st'[v[1]].vote
    <2> SUFFICES ASSUME NEW v \in votes'.given, v[1] \notin votes'.restarted
                 PROVE  v[2] <= st'[v[1]].vote
        OBVIOUS
    <2>1. CASE v \in votes.given
        BY <1>3, <1>5, <1>6, <1>7, <2>1
    <2>2. CASE v = <<n, s.cur, x>>
        BY <1>1, <2>2
    <2> QED
        BY <1>3, <2>1, <2>2
<1>9. \A v \in votes.given : v[1] = n /\ v[1] \notin votes.restarted => v[2] # s.cur
    BY <1>1, <1>6, <1>7
<1>10. VotesOnce'
    <2> SUFFICES ASSUME NEW v \in votes'.given, NEW w \in votes'.given,
                        v[1] = w[1], v[2] = w[2], v[1] \notin votes'.restarted
                 PROVE  v[3] = w[3]
        BY DEF VotesOnce
    <2> DEFINE c == <<n, s.cur, x>>
    <2>1. c[1] = n /\ c[2] = s.cur
        OBVIOUS
    <2> HIDE DEF c
    <2>2. votes'.given = votes.given \cup {c}
        BY <1>3 DEF c
    <2>3. CASE v \in votes.given /\ w \in votes.given
        BY <1>3, <2>3 DEF IInv, Ballots, VotesOnce
    <2>4. CASE v = c /\ w = c
        BY <2>4
    <2>5. CASE v = c /\ w \in votes.given
        BY <1>3, <1>9, <2>1, <2>5
    <2>6. CASE v \in votes.given /\ w = c
        BY SMTT(20), <1>3, <1>9, <2>1, <2>6
    <2> QED
        BY <2>2, <2>3, <2>4, <2>5, <2>6
<1> QED
    BY <1>4, <1>8, <1>10 DEF Ballots

\* clusterProcessPacket, one case per type of packet.
LEMMA DeliverStep ==
    ASSUME IInv, NEW x \in Nodes, NEW n \in Nodes, Deliver(x, n)
    PROVE  Kept
<1> DEFINE h == Head(net[<<x, n>>])
           rest == [net EXCEPT ![<<x, n>>] = Tail(@)]
           s == SeeEpochs(st[n], h)
           ack == clusterBuildMessageHdr(n, s, "AUTH_ACK")
<1>1. /\ net \in [Nodes \X Nodes -> Seq(Header)] /\ net[<<x, n>>] # <<>> /\ Good(st[n])
      /\ UNCHANGED <<cut, faults>>
    BY DEF Deliver, IInv, Links, Memory
<1>2. h \in Header /\ rest \in [Nodes \X Nodes -> Seq(Header)]
    <2>1. net[<<x, n>>] \in Seq(Header)
        BY <1>1
    <2>2. Head(net[<<x, n>>]) \in Header /\ Tail(net[<<x, n>>]) \in Seq(Header)
        BY <1>1, <2>1
    <2> QED
        BY <1>1, <2>2
<1> HIDE DEF h, rest
<1>3. Follows(st[n], s) /\ s.vote = st[n].vote
    BY Zenon, <1>1, <1>2, SeeEpochsFollows DEF SeeEpochs, Good, NodeState
<1> HIDE DEF s
<1>4. ack \in Header
    BY <1>3, HeaderTyped DEF Follows
<1> HIDE DEF ack
<1>5. ASSUME NEW expired \in BOOLEAN,
             clusterBeforeSleep(n, clusterSendFailoverAuthIfNeeded(n, s, h, expired), FALSE),
             net' = IF MayVote(n, s, h, expired) THEN [rest EXCEPT ![<<n, x>>] = Append(@, ack)]
                    ELSE rest,
             votes' = IF MayVote(n, s, h, expired)
                      THEN [votes EXCEPT !.given = @ \cup {<<n, s.cur, x>>}] ELSE votes
      PROVE  Kept
    <2> DEFINE t == clusterSendFailoverAuthIfNeeded(n, s, h, expired)
    <2>1. Follows(s, t) /\ (MayVote(n, s, h, expired) => t.vote = s.cur)
        BY <1>2, <1>3, VoteFollows DEF Follows
    <2> HIDE DEF t
    <2>2. Follows(st[n], t)
        BY <1>1, <1>3, <2>1, FollowsTransitive
    <2>3. Memory' /\ Files' /\ Progress
        BY Zenon, <1>5, <2>2, SleepStep DEF t
    <2>4. Links'
        <3>1. net' \in [Nodes \X Nodes -> Seq(Header)]
            BY <1>2, <1>4, <1>5
        <3> QED
            BY <1>1, <3>1 DEF Links, IInv
    <2>5. Ballots'
        <3>1. CASE MayVote(n, s, h, expired)
            <4>1. s.vote # s.cur
                BY <3>1 DEF MayVote
            <4>2. st'[n].vote = s.cur
                BY <1>5, <2>1, <3>1 DEF clusterBeforeSleep, IInv, Memory, t
            <4>3. votes' = [votes EXCEPT !.given = @ \cup {<<n, s.cur, x>>}]
                BY <1>5, <3>1
            <4> QED
                BY <1>3, <2>3, <4>1, <4>2, <4>3, VoteCast
        <3>2. CASE ~MayVote(n, s, h, expired)
            BY <1>5, <2>3, <3>2, BallotsStep
        <3> QED
            BY <3>1, <3>2
    <2> QED
        BY SMTT(20), <1>1, <2>3, <2>4, <2>5 DEF Kept, IInv, Progress, Follows
<1>6. ASSUME clusterBeforeSleep(n, CountVote(s, h), FALSE), net' = rest, UNCHANGED votes
      PROVE  Kept
    <2>1. Follows(s, CountVote(s, h))
        BY <1>2, <1>3, CountFollows DEF Follows
    <2>2. Follows(st[n], CountVote(s, h))
        BY <1>1, <1>3, <2>1, FollowsTransitive
    <2>3. Memory' /\ Files' /\ Progress
        BY Zenon, <1>6, <2>2, SleepStep
    <2>4. Links' /\ faults' \in 0..MaxFaults
        BY <1>1, <1>2, <1>6 DEF Links, IInv
    <2> QED
        BY SMTT(20), <1>6, <2>3, <2>4, QuietStep
<1> QED
    BY Zenon, <1>5, <1>6 DEF Deliver, h, rest, s, ack

\* markNodeAsFailingIfNeeded.
LEMMA MarkFailedStep ==
    ASSUME IInv, NEW m \in Nodes, MarkFailed(m)
    PROVE  Kept
<1> DEFINE R == (IF cut = {} THEN Nodes ELSE Nodes \ Side(m)) \ {m}
           T(n) == [st[n] EXCEPT !.failed = @ \cup {m}]
<1>1. /\ st' = [n \in Nodes |-> IF n \in R THEN T(n) ELSE st[n]]
      /\ disk' = [n \in Nodes |-> Saved(n, st'[n], FALSE)]
      /\ UNCHANGED <<net, cut, faults, votes>>
    BY DEF MarkFailed
<1> HIDE DEF R
<1>2. ASSUME NEW n \in Nodes
      PROVE  Follows(st[n], T(n)) /\ T(n).cur = st[n].cur
    <2> DEFINE t == T(n)
    <2>1. st[n] \in NodeState /\ Good(st[n])
        BY DEF IInv, Memory
    <2>2. /\ t \in NodeState /\ t.cur = st[n].cur /\ t.cfg = st[n].cfg /\ t.vote = st[n].vote
          /\ t.authEpoch = st[n].authEpoch /\ t.slots = st[n].slots /\ t.slaveof = st[n].slaveof
        BY <2>1 DEF NodeState
    <2> HIDE DEF t
    <2>3. Follows(st[n], t) /\ t.cur = st[n].cur
        BY <2>1, <2>2, SameEpochsFollows DEF Good
    <2> QED
        BY <2>3 DEF t
<1> HIDE DEF T
<1>3. \A n \in Nodes : Follows(st[n], st'[n]) /\ st'[n].cur = st[n].cur
    BY <1>1, <1>2, FollowsItself DEF IInv, Memory
<1>4. st' \in [Nodes -> NodeState] /\ \A n \in Nodes : st'[n].cur <= MaxEpoch
    <2>1. \A n \in Nodes : st'[n] \in NodeState
        BY <1>3 DEF Follows, Good
    <2> QED
        BY <1>1, <1>3, <2>1 DEF IInv, Memory
<1>5. Memory' /\ Files' /\ Progress
    BY SMTT(20), <1>1, <1>3, <1>4, MemoryStep DEF Progress
<1> QED
    BY <1>1, <1>5, QuietStep DEF IInv, Links

\* A step that touches neither epochs, roles nor slots.
LEMMA MinorStep ==
    ASSUME IInv, NEW n \in Nodes, NEW t \in NodeState,
           t.cur = st[n].cur, t.cfg = st[n].cfg, t.vote = st[n].vote,
           t.authEpoch = st[n].authEpoch, t.slots = st[n].slots, t.slaveof = st[n].slaveof,
           clusterBeforeSleep(n, t, FALSE), Fault \/ UNCHANGED faults, UNCHANGED <<net, cut, votes>>
    PROVE  Kept
<1>1. Good(st[n])
    BY DEF IInv, Memory
<1>2. Follows(st[n], t)
    BY <1>1, SameEpochsFollows DEF Good
<1>3. Memory' /\ Files' /\ Progress
    BY Zenon, <1>2, SleepStep
<1>4. faults' \in 0..MaxFaults
    BY FaultStep DEF IInv
<1> QED
    BY <1>3, <1>4, QuietStep DEF IInv, Links

\* clusterHandleSlaveFailover schedules an election.
LEMMA ScheduleStep ==
    ASSUME IInv, NEW n \in Nodes, ScheduleElection(n)
    PROVE  Kept
<1> DEFINE t == [st[n] EXCEPT !.auth = "scheduled", !.authCount = 0]
<1>1. st[n] \in NodeState
    BY DEF IInv, Memory
<1>2. /\ t \in NodeState /\ t.cur = st[n].cur /\ t.cfg = st[n].cfg /\ t.vote = st[n].vote
      /\ t.authEpoch = st[n].authEpoch /\ t.slots = st[n].slots /\ t.slaveof = st[n].slaveof
    BY Zenon, <1>1 DEF NodeState
<1>3. /\ clusterBeforeSleep(n, t, FALSE) /\ UNCHANGED <<net, cut, votes>>
      /\ Fault \/ UNCHANGED faults
    BY Zenon DEF ScheduleElection
<1> HIDE DEF t
<1> QED
    BY Zenon, <1>2, <1>3, MinorStep

\* CLUSTER FAILOVER FORCE and the end of its time (manualFailoverCheckTimeout).
LEMMA ForceStep ==
    ASSUME IInv, NEW n \in Nodes, ClusterFailoverForce(n) \/ manualFailoverCheckTimeout(n)
    PROVE  Kept
<1>1. PICK b \in BOOLEAN : clusterBeforeSleep(n, [st[n] EXCEPT !.force = b], FALSE)
    BY Zenon DEF ClusterFailoverForce, manualFailoverCheckTimeout
<1> DEFINE t == [st[n] EXCEPT !.force = b]
<1>2. st[n] \in NodeState
    BY DEF IInv, Memory
<1>3. /\ t \in NodeState /\ t.cur = st[n].cur /\ t.cfg = st[n].cfg /\ t.vote = st[n].vote
      /\ t.authEpoch = st[n].authEpoch /\ t.slots = st[n].slots /\ t.slaveof = st[n].slaveof
    BY <1>2 DEF NodeState
<1>4. UNCHANGED <<net, cut, votes>> /\ (Fault \/ UNCHANGED faults)
    BY Zenon DEF ClusterFailoverForce, manualFailoverCheckTimeout
<1> HIDE DEF t
<1> QED
    BY Zenon, <1>1, <1>3, <1>4, MinorStep DEF t

\* clusterHandleSlaveFailover asks for the votes of a new epoch.
LEMMA RequestStep ==
    ASSUME IInv, NEW n \in Nodes, RequestVotes(n)
    PROVE  Kept
<1> DEFINE e == st[n].cur + 1
           s == [st[n] EXCEPT !.cur = e, !.authEpoch = e, !.auth = "sent"]
<1>1. st[n] \in NodeState /\ Good(st[n])
    BY DEF IInv, Memory
<1>2. /\ st[n].cur \in Nat /\ e \in Nat /\ e >= st[n].cur /\ st[n].cfg \in [Nodes -> Nat]
      /\ st[n].vote \in Nat
    BY <1>1 DEF NodeState
<1>3. s = [st[n] EXCEPT !.cur = @ + 1, !.authEpoch = st[n].cur + 1, !.auth = "sent"]
    BY <1>1 DEF NodeState
<1> HIDE DEF e
<1>4. /\ s \in NodeState /\ s.cur = e /\ s.cfg = st[n].cfg /\ s.vote = st[n].vote
      /\ s.authEpoch = e /\ s.slots = st[n].slots /\ s.slaveof = st[n].slaveof
    BY Zenon, <1>1, <1>2 DEF NodeState
<1>5. /\ clusterBeforeSleep(n, s, TRUE) /\ net' = clusterRequestFailoverAuth(n, s)
      /\ UNCHANGED <<cut, faults, votes>>
    BY Zenon, <1>3 DEF RequestVotes
<1> HIDE DEF s
<1>6. Follows(st[n], s)
    BY <1>1, <1>2, <1>4 DEF Follows, Good
<1>7. Memory' /\ Files' /\ Progress
    BY Zenon, <1>5, <1>6, SleepStep
<1>8. clusterBuildMessageHdr(n, s, "AUTH_REQUEST") \in Header
    BY <1>6, HeaderTyped DEF Follows
<1>9. net' \in [Nodes \X Nodes -> Seq(Header)]
    BY <1>5, <1>8 DEF clusterRequestFailoverAuth, IInv, Links
<1> QED
    BY <1>5, <1>7, <1>9, QuietStep DEF IInv, Links

\* s, the slave that wins or is told to take over, becomes the master of its
\* old master's slots.
LEMMA ReplaceStep ==
    ASSUME IInv, NEW n \in Nodes, NEW s, Follows(st[n], s), s.slaveof[n] # None,
           clusterFailoverReplaceYourMaster(n, s), Fault \/ UNCHANGED faults, UNCHANGED <<cut, votes>>
    PROVE  Kept
<1> DEFINE role == [s.slaveof EXCEPT ![n] = None]
           table == [j \in Slots |-> IF s.slots[j] = s.slaveof[n] THEN n ELSE s.slots[j]]
           t == [s EXCEPT !.slaveof = role, !.slots = table, !.force = FALSE]
<1>1. s \in NodeState /\ Good(s)
    BY DEF Follows, Good
<1>2. /\ s.slots \in [Slots -> Nodes \cup {None}]
      /\ s.slaveof \in [Nodes -> Nodes \cup {None}]
    BY <1>1 DEF NodeState
<1>3. t = [clusterSetNodeAsMaster(s, n) EXCEPT
             !.slots = [j \in Slots |-> IF @[j] = s.slaveof[n] THEN n ELSE @[j]], !.force = FALSE]
    BY <1>1 DEF clusterSetNodeAsMaster, NodeState
<1>4. clusterBeforeSleep(n, t, TRUE) /\ UNCHANGED net
    BY Zenon, <1>3 DEF clusterFailoverReplaceYourMaster
<1>5. /\ role \in [Nodes -> Nodes \cup {None}] /\ table \in [Slots -> Nodes \cup {None}]
      /\ \A j \in Slots : table[j] # None => role[table[j]] = None
    BY <1>1, <1>2 DEF Good
<1> HIDE DEF role, table
<1>6. /\ t \in NodeState /\ t.cur = s.cur /\ t.cfg = s.cfg /\ t.vote = s.vote
      /\ t.authEpoch = s.authEpoch /\ t.slots = table /\ t.slaveof = role
    BY Zenon, <1>1, <1>5 DEF NodeState
<1> HIDE DEF t
<1>7. Follows(s, t)
    BY <1>1, <1>5, <1>6, SameEpochsFollows
<1>8. Follows(st[n], t)
    BY <1>7, FollowsTransitive DEF IInv, Memory
<1>9. Memory' /\ Files' /\ Progress
    BY Zenon, <1>4, <1>8, SleepStep
<1>10. faults' \in 0..MaxFaults
    BY FaultStep DEF IInv
<1> QED
    BY <1>4, <1>9, <1>10, QuietStep DEF IInv, Links

\* clusterFailoverReplaceYourMaster, with the votes of a majority.
LEMMA WinStep ==
    ASSUME IInv, NEW n \in Nodes, WinElection(n)
    PROVE  Kept
<1> DEFINE e == Max({st[n].cfg[n], st[n].authEpoch})
           epochs == [st[n].cfg EXCEPT ![n] = e]
           s == [st[n] EXCEPT !.cfg = epochs]
<1>1. st[n] \in NodeState /\ Good(st[n])
    BY DEF IInv, Memory
<1>2. /\ st[n].cfg \in [Nodes -> Nat] /\ st[n].authEpoch \in Nat /\ st[n].cur \in Nat
      /\ st[n].vote \in Nat
    BY <1>1 DEF NodeState
<1>3. s = [st[n] EXCEPT !.cfg[n] = Max({@, st[n].authEpoch})]
    BY <1>1 DEF NodeState
<1>4. /\ clusterFailoverReplaceYourMaster(n, s) /\ UNCHANGED <<cut, faults, votes>>
      /\ st[n].slaveof[n] # None
    BY <1>3 DEF WinElection, CanFailover
<1>5. e = IF st[n].cfg[n] >= st[n].authEpoch THEN st[n].cfg[n] ELSE st[n].authEpoch
    BY SMTT(20), <1>2, MaxOfTwo
<1>6. e \in Nat /\ e >= st[n].cfg[n] /\ e <= st[n].cur
    BY <1>1, <1>2, <1>5 DEF Good
<1> HIDE DEF e
<1>7. epochs \in [Nodes -> Nat] /\ \A m \in Nodes : epochs[m] >= st[n].cfg[m] /\ epochs[m] <= st[n].cur
    BY <1>1, <1>2, <1>6 DEF Good
<1> HIDE DEF epochs
<1>8. /\ s \in NodeState /\ s.cur = st[n].cur /\ s.cfg = epochs /\ s.vote = st[n].vote
      /\ s.authEpoch = st[n].authEpoch /\ s.slots = st[n].slots /\ s.slaveof = st[n].slaveof
    BY SMTT(20), <1>1, <1>7 DEF NodeState
<1> HIDE DEF s
<1>9. Follows(st[n], s)
    BY <1>1, <1>2, <1>7, <1>8 DEF Follows, Good
<1> QED
    BY <1>4, <1>8, <1>9, ReplaceStep

\* CLUSTER FAILOVER TAKEOVER, without votes.
LEMMA TakeoverStep ==
    ASSUME IInv, NEW n \in Nodes, ClusterFailoverTakeover(n)
    PROVE  Kept
<1> DEFINE e == st[n].cur + 1
           epochs == [st[n].cfg EXCEPT ![n] = e]
           t == [st[n] EXCEPT !.cur = e, !.cfg = epochs]
           s == clusterBumpConfigEpochWithoutConsensus(n, st[n])
<1>1. st[n] \in NodeState /\ Good(st[n])
    BY DEF IInv, Memory
<1>2. /\ st[n].cfg \in [Nodes -> Nat] /\ st[n].authEpoch \in Nat /\ st[n].cur \in Nat
      /\ st[n].vote \in Nat
    BY <1>1 DEF NodeState
<1>3. t = [st[n] EXCEPT !.cur = @ + 1, !.cfg[n] = st[n].cur + 1]
    BY <1>1 DEF NodeState
<1>4. s = st[n] \/ s = t
    BY <1>3 DEF clusterBumpConfigEpochWithoutConsensus
<1>5. /\ clusterFailoverReplaceYourMaster(n, s) /\ Fault /\ UNCHANGED <<cut, votes>>
      /\ st[n].slaveof[n] # None
    BY DEF ClusterFailoverTakeover
<1>6. /\ e \in Nat /\ e >= st[n].cur /\ epochs \in [Nodes -> Nat]
      /\ \A m \in Nodes : epochs[m] >= st[n].cfg[m] /\ epochs[m] <= e
    BY <1>1, <1>2 DEF Good
<1>7. st[n].vote <= e /\ st[n].authEpoch <= e
    BY <1>1, <1>2 DEF Good
<1> HIDE DEF e, epochs
<1>8. /\ t \in NodeState /\ t.cur = e /\ t.cfg = epochs /\ t.vote = st[n].vote
      /\ t.authEpoch = st[n].authEpoch /\ t.slots = st[n].slots /\ t.slaveof = st[n].slaveof
    BY Zenon, <1>1, <1>6 DEF NodeState
<1> HIDE DEF t, s
<1>9. Follows(st[n], t)
    BY <1>1, <1>2, <1>6, <1>7, <1>8 DEF Follows, Good
<1>10. Follows(st[n], s) /\ s.slaveof[n] # None
    BY <1>1, <1>4, <1>5, <1>8, <1>9, FollowsItself
<1> QED
    BY <1>5, <1>10, ReplaceStep

\* A restart forgets the newest votes, and marks the node, but no config epoch.
LEMMA RestartStep ==
    ASSUME IInv, NEW n \in Nodes, Restart(n)
    PROVE  Kept
<1> DEFINE s == clusterInit(disk[n])
<1>1. /\ st' = [st EXCEPT ![n] = s]
      /\ net' = [l \in Nodes \X Nodes |-> IF n \in {l[1], l[2]} THEN <<>> ELSE net[l]]
      /\ votes' = [votes EXCEPT !.restarted = @ \cup {n}]
      /\ UNCHANGED <<disk, cut>> /\ Fault
    BY DEF Restart
<1>2. /\ Writes(disk[n], st[n]) /\ disk[n] \in Config /\ Good(st[n]) /\ st[n].cur <= MaxEpoch
      /\ st \in [Nodes -> NodeState]
    BY DEF IInv, Files, Memory
<1>3. disk[n].cfg = st[n].cfg /\ disk[n].slots = st[n].slots /\ disk[n].slaveof = st[n].slaveof
    BY SMTT(20), <1>2 DEF Writes, ToSave
<1>4. Good(s) /\ s.cur = disk[n].cur /\ s.cfg = disk[n].cfg /\ ToSave(s) = ToSave(disk[n])
    BY Zenon, <1>2, <1>3, RestartGood DEF Writes, Good
<1> HIDE DEF s
<1>5. \A m \in Nodes : st'[m] = IF m = n THEN s ELSE st[m]
    BY SMTT(20), <1>1, <1>2
<1>6. disk[n].cur \in Nat /\ st[n].cur \in Nat /\ disk[n].cur <= st[n].cur /\ MaxEpoch \in Nat
    BY <1>2, ClusterAssumption DEF Config, Good, NodeState, Writes
<1>7. Memory'
    <2>1. st' \in [Nodes -> NodeState]
        BY SMTT(20), <1>1, <1>2, <1>4 DEF Good
    <2>2. s.cur <= MaxEpoch
        BY <1>2, <1>4, <1>6
    <2>3. \A m \in Nodes : Good(st'[m]) /\ st'[m].cur <= MaxEpoch
        BY <1>4, <1>5, <2>2 DEF IInv, Memory
    <2> QED
        BY <2>1, <2>3 DEF Memory
<1>8. Files'
    <2>1. Writes(disk[n], s)
        BY <1>2, <1>4, <1>6 DEF Writes
    <2>2. \A m \in Nodes : Writes(disk'[m], st'[m])
        BY <1>1, <1>5, <2>1 DEF IInv, Files
    <2> QED
        BY SMTT(20), <1>1, <2>2 DEF IInv, Files
<1>9. Links' /\ faults' \in 0..MaxFaults
    BY SMTT(20), <1>1, FaultStep DEF IInv, Links
<1>10. Ballots'
    <2>1. votes \in [given : SUBSET (Nodes \X Nat \X Nodes), restarted : SUBSET Nodes]
        BY DEF IInv, Ballots
    <2>2. /\ votes' \in [given : SUBSET (Nodes \X Nat \X Nodes), restarted : SUBSET Nodes]
          /\ votes'.given = votes.given /\ votes'.restarted = votes.restarted \cup {n}
        BY <1>1, <2>1
    <2>3. \A v \in votes.given : v[1] \in Nodes
        BY <2>1
    <2>4. \A v \in votes'.given : v[1] \notin votes'.restarted => v[2] <= st'[v[1]].vote
        BY <1>5, <2>2, <2>3 DEF IInv, Ballots
    <2> QED
        BY <2>2, <2>4 DEF IInv, Ballots, VotesOnce
<1>11. \A k, m \in Nodes : st'[k].cfg[m] >= st[k].cfg[m]
    <2>1. \A k, m \in Nodes : st[k].cfg[m] \in Nat
        BY SMTT(20) DEF IInv, Memory, NodeState
    <2> QED
        BY <1>3, <1>4, <1>5, <2>1
<1> QED
    BY <1>7, <1>8, <1>9, <1>10, <1>11 DEF Kept, IInv

\* Nothing changes.
LEMMA SameStep ==
    ASSUME IInv, UNCHANGED <<st, disk, net, votes>>, cut' \in SUBSET Nodes, faults' \in 0..MaxFaults
    PROVE  Kept
<1>1. \A k, m \in Nodes : st[k].cfg[m] \in Nat
    BY DEF IInv, Memory, NodeState
<1>2. Memory' /\ Files' /\ Links' /\ Ballots'
    BY DEF IInv, Memory, Files, Links, Ballots, VotesOnce
<1> QED
    BY <1>1, <1>2 DEF Kept, IInv

\* Every action keeps the invariant and forgets no epoch and no vote.
LEMMA NextInv == IInv /\ [Next]_vars => Kept
<1> SUFFICES ASSUME IInv, [Next]_vars
             PROVE  Kept
    OBVIOUS
<1>1. CASE Partition
    <2>1. faults' \in 0..MaxFaults
        BY <1>1, FaultStep DEF Partition, IInv
    <2>2. cut' \in SUBSET Nodes /\ UNCHANGED <<st, disk, net, votes>>
        BY <1>1, ClusterAssumption DEF Partition
    <2> QED
        BY <2>1, <2>2, SameStep
<1>2. CASE \E x, n \in Nodes : Deliver(x, n)
    BY <1>2, DeliverStep
<1>3. ASSUME NEW n \in Nodes,
             \/ Ping(n) \/ MarkFailed(n)
             \/ ScheduleElection(n) \/ RequestVotes(n) \/ WinElection(n)
             \/ ClusterFailoverForce(n) \/ ClusterFailoverTakeover(n)
             \/ manualFailoverCheckTimeout(n)
             \/ Restart(n)
      PROVE  Kept
    BY <1>3, PingStep, MarkFailedStep, ScheduleStep, RequestStep, WinStep, ForceStep,
       TakeoverStep, RestartStep
<1>4. CASE UNCHANGED vars
    BY <1>4, SameStep DEF vars, IInv, Links
<1> QED
    BY <1>1, <1>2, <1>3, <1>4 DEF Next

\* Every reachable state satisfies the inductive invariant.
THEOREM Inductive == Spec => []IInv
<1>1. IInv /\ [Next]_vars => IInv'
    BY NextInv DEF Kept
<1> QED
    BY <1>1, InitInv, PTL DEF Spec

\* In every table of slots the owners are masters, whatever mix of elections,
\* takeovers, headers, UPDATEs, partitions and restarts built it
\* (clusterUpdateSlotsConfigWith, clusterSetMaster), and no configEpoch is
\* above the currentEpoch of the node that knows it.
THEOREM MastersServe == Spec => []OnlyMastersServe
<1>1. IInv => OnlyMastersServe
    <2> SUFFICES ASSUME IInv
                 PROVE  OnlyMastersServe
        OBVIOUS
    <2>1. ASSUME NEW n \in Nodes
          PROVE  /\ st[n].slots \in [Slots -> Nodes \cup {None}]
                 /\ st[n].slaveof \in [Nodes -> Nodes \cup {None}]
                 /\ st[n].cur \in 0..MaxEpoch /\ st[n].cfg \in [Nodes -> 0..st[n].cur]
                 /\ \A j \in Slots : st[n].slots[j] # None => st[n].slaveof[st[n].slots[j]] = None
        <3>1. st[n] \in NodeState /\ Good(st[n]) /\ st[n].cur <= MaxEpoch /\ MaxEpoch \in Nat
            BY ClusterAssumption DEF IInv, Memory
        <3>2. /\ st[n].slots \in [Slots -> Nodes \cup {None}]
              /\ st[n].slaveof \in [Nodes -> Nodes \cup {None}]
              /\ st[n].cur \in Nat /\ st[n].cfg \in [Nodes -> Nat]
            BY <3>1 DEF NodeState
        <3> QED
            BY <3>1, <3>2 DEF Good
    <2>2. TypeOK
        BY <2>1 DEF TypeOK, IInv
    <2> QED
        BY <2>1, <2>2 DEF OnlyMastersServe, nodeIsMaster
<1> QED
    BY <1>1, Inductive, PTL

\* A master whose process lives votes for one slave per epoch
\* (clusterSendFailoverAuthIfNeeded).
THEOREM OneVotePerEpoch == Spec => []VotesOnce
<1>1. IInv => VotesOnce
    BY DEF IInv, Ballots
<1> QED
    BY <1>1, Inductive, PTL

\* No step of any node, a restart included, lowers a configEpoch that a node
\* knows (clusterSaveConfig before clusterBeforeSleep returns).
THEOREM ConfigEpochsGrow == Spec => ConfigEpochsNeverFall
<1>1. IInv /\ [Next]_vars => [\A n, m \in Nodes : st'[n].cfg[m] >= st[n].cfg[m]]_vars
    BY NextInv DEF Kept
<1> QED
    BY <1>1, Inductive, PTL DEF Spec, ConfigEpochsNeverFall
=============================================================================
