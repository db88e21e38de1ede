------------------------------ MODULE Cluster ------------------------------
(***************************************************************************)
(* The election of a new master in Redis Cluster (cluster.c): the epochs,  *)
(* the votes of the masters, the slots a winner takes over, and how the    *)
(* configuration spreads through the headers of the bus.                   *)
(*                                                                         *)
(* st[n] is what node n has in memory, its view of every other node        *)
(* included; disk[n] is its nodes.conf.  Vote requests and votes wait in    *)
(* net in the order their link carries them.  A node's PINGs are processed *)
(* in one step by every node it can reach, some may be cut off, and so are *)
(* the UPDATEs they answer with.  A FAIL message likewise; how a node    *)
(* comes to be failing is left open.  Membership is fixed and no slot is   *)
(* being imported.                                                         *)
(***************************************************************************)
EXTENDS Integers, FiniteSets, Sequences, FiniteSetsExt

CONSTANTS Nodes,      \* node IDs, compared as memcmp compares them
          None,       \* no node: the NULL of slaveof and of slots[]
          MasterOf,   \* the first configuration: whom each node replicates,
          OwnerOf,    \* the node that owns each slot,
          EpochOf,    \* and the configEpoch each master was created with
          Unsteady,   \* bound: the nodes that may restart or be cut off
          MaxEpoch,   \* bound: no epoch above it
          MaxFaults   \* bound: restarts, partitions, long waits and commands

Slots == DOMAIN OwnerOf

ASSUME ClusterAssumption ==
    /\ Nodes \subseteq Nat /\ None \notin Nodes /\ IsFiniteSet(Nodes)
    /\ MasterOf \in [Nodes -> Nodes \cup {None}]
    /\ EpochOf \in [Nodes -> 0..MaxEpoch]
    /\ OwnerOf \in [Slots -> Nodes]
    /\ \A n \in Nodes : MasterOf[n] # None => MasterOf[MasterOf[n]] = None
    /\ \A j \in Slots : j \in Nat /\ MasterOf[OwnerOf[j]] = None
    /\ Unsteady \subseteq Nodes /\ MaxEpoch \in Nat /\ MaxFaults \in Nat

VARIABLES st,      \* the memory of each node
          disk,    \* its nodes.conf
          net,     \* packets on their way, by sender and receiver
          cut,     \* the nodes that a partition separates from the others
          faults,  \* how much of MaxFaults is used
          votes    \* history: the votes given, and who restarted
vars == <<st, disk, net, cut, faults, votes>>

(***************************************************************************)
(* What is saved and how a node starts.                                    *)
(***************************************************************************)

\* The lines of nodes.conf and its "vars currentEpoch lastVoteEpoch" line.
clusterSaveConfig(s) ==
    [cur |-> s.cur, vote |-> s.vote, slots |-> s.slots, cfg |-> s.cfg,
     slaveof |-> s.slaveof, failed |-> s.failed]

clusterGetMaxEpoch(s) == Max({s.cfg[m] : m \in Nodes} \cup {s.cur})

\* Everything that is not saved is zeroed: voted_time, election, failover.
clusterInit(d) ==
    [cur |-> clusterGetMaxEpoch(d), vote |-> d.vote, slots |-> d.slots,
     cfg |-> d.cfg, slaveof |-> d.slaveof, failed |-> d.failed, voted |-> {},
     auth |-> "none", authEpoch |-> 0, authCount |-> 0, force |-> FALSE]

\* A slave is known by its master's epoch, which its headers carry.
FirstConfig(n) ==
    [cur |-> Max(Range(EpochOf)), vote |-> 0, slots |-> OwnerOf,
     cfg |-> [m \in Nodes |-> IF MasterOf[m] = None THEN EpochOf[m]
                              ELSE IF m = n THEN 0 ELSE EpochOf[MasterOf[m]]],
     slaveof |-> MasterOf, failed |-> {}]

Init ==
    /\ disk = [n \in Nodes |-> FirstConfig(n)]
    /\ st = [n \in Nodes |-> clusterInit(FirstConfig(n))]
    /\ net = [l \in Nodes \X Nodes |-> <<>>]
    /\ cut = {}
    /\ faults = 0
    /\ votes = [given |-> {}, restarted |-> {}]

(***************************************************************************)
(* Roles, slots and headers.                                               *)
(***************************************************************************)
nodeIsMaster(s, m) == s.slaveof[m] = None
SlotsOf(s, m) == {j \in Slots : s.slots[j] = m}

\* server.cluster->size and the majority of it.
ClusterSize(s) == Cardinality({m \in Nodes : nodeIsMaster(s, m) /\ SlotsOf(s, m) # {}})
NeededQuorum(s) == ClusterSize(s) \div 2 + 1

\* A slave announces its master's slots and epoch.
clusterBuildMessageHdr(n, s, type) ==
    LET master == IF s.slaveof[n] # None THEN s.slaveof[n] ELSE n
    IN [type |-> type, sender |-> n, cur |-> s.cur, cfg |-> s.cfg[master],
        slots |-> SlotsOf(s, master), slaveof |-> s.slaveof[n], force |-> s.force,
        nodecfg |-> None]

clusterSendUpdate(n, s, about) ==
    [clusterBuildMessageHdr(n, s, "UPDATE") EXCEPT
        !.nodecfg = [name |-> about, cfg |-> s.cfg[about], slots |-> SlotsOf(s, about)]]

clusterSetNodeAsMaster(s, m) == [s EXCEPT !.slaveof[m] = None]

\* The old state is given up; resetManualFailover ends a forced failover.
clusterSetMaster(n, s, m) == [s EXCEPT !.slaveof[n] = m, !.force = FALSE]

\* A bug: a slot that has an owner keeps it, whatever the epoch of the claim.
ClaimFreeSlots(n, s, sender, epoch, claimed) ==
    LET moved == {j \in claimed : s.slots[j] = None}
    IN IF sender = n THEN s
       ELSE [s EXCEPT !.slots = [j \in Slots |-> IF j \in moved THEN sender ELSE @[j]]]

\* Slots move to the sender when it claims them with a greater epoch.
clusterUpdateSlotsConfigWith(n, s, sender, epoch, claimed) ==
    LET curmaster == IF nodeIsMaster(s, n) THEN n ELSE s.slaveof[n]
        moved == {j \in claimed : /\ s.slots[j] # sender
                                  /\ s.slots[j] = None \/ s.cfg[s.slots[j]] < epoch}
        lost == \E j \in moved : s.slots[j] = curmaster
        t == [s EXCEPT !.slots = [j \in Slots |-> IF j \in moved THEN sender ELSE @[j]]]
    IN IF sender = n THEN s
       ELSE IF lost /\ SlotsOf(t, curmaster) = {} THEN clusterSetMaster(n, t, sender)
       ELSE t

(***************************************************************************)
(* clusterProcessPacket, part by part.                                     *)
(***************************************************************************)

\* What every packet of a known sender does.
SeeEpochs(s, h) ==
    [s EXCEPT !.cur = Max({@, h.cur}), !.cfg[h.sender] = Max({@, h.cfg})]

clearNodeFailureIfNeeded(s, m, old) ==
    IF nodeIsMaster(s, m) /\ SlotsOf(s, m) # {} /\ ~old THEN s
    ELSE [s EXCEPT !.failed = @ \ {m}]

\* A bug: a master that turned slave keeps its slots in the table.
SwitchKeepsSlots(s, h) == [s EXCEPT !.slaveof[h.sender] = h.slaveof]

SwitchRole(s, h) ==
    IF h.slaveof = None THEN clusterSetNodeAsMaster(s, h.sender)
    ELSE LET t == IF nodeIsMaster(s, h.sender)
                  THEN [s EXCEPT !.slots = [j \in Slots |-> IF @[j] = h.sender THEN None ELSE @[j]]]
                  ELSE s
         IN [t EXCEPT !.slaveof[h.sender] = h.slaveof]

\* The node with the smaller ID takes a new epoch.
clusterHandleConfigEpochCollision(n, s, h) ==
    IF /\ nodeIsMaster(s, n) /\ nodeIsMaster(s, h.sender)
       /\ h.cfg = s.cfg[n] /\ s.cfg[h.sender] = s.cfg[n]
       /\ h.sender > n
    THEN [s EXCEPT !.cur = @ + 1, !.cfg[n] = s.cur + 1]
    ELSE s

SenderMaster(s, h) == IF nodeIsMaster(s, h.sender) THEN h.sender ELSE s.slaveof[h.sender]

\* A PING or PONG: [s |-> the new state, about |-> whom to send an UPDATE of].
ProcessPing(n, s0, h, pong, old) ==
    LET s1 == SeeEpochs(s0, h)
        s2 == IF pong /\ h.sender \in s1.failed
              THEN clearNodeFailureIfNeeded(s1, h.sender, old) ELSE s1
        s3 == SwitchRole(s2, h)
        dirty == SlotsOf(s3, SenderMaster(s3, h)) # h.slots
        s4 == IF nodeIsMaster(s3, h.sender) /\ dirty
              THEN clusterUpdateSlotsConfigWith(n, s3, h.sender, h.cfg, h.slots) ELSE s3
        stale == {j \in h.slots : /\ s4.slots[j] \notin {h.sender, None}
                                  /\ s4.cfg[s4.slots[j]] > h.cfg}
    IN [s |-> clusterHandleConfigEpochCollision(n, s4, h),
        about |-> IF dirty /\ stale # {} THEN s4.slots[Min(stale)] ELSE None]

\* The master votes at most once per epoch, for a slave of a failed master
\* whose claim is not older than what the voter knows.
MayVote(n, s, h, expired) ==
    LET master == s.slaveof[h.sender]
    IN /\ nodeIsMaster(s, n) /\ SlotsOf(s, n) # {}
       /\ h.cur >= s.cur
       /\ s.vote # s.cur
       /\ master # None
       /\ master \in s.failed \/ h.force
       /\ master \in s.voted => expired
       /\ \A j \in h.slots : s.slots[j] = None \/ s.cfg[s.slots[j]] <= h.cfg

\* A bug: lastVoteEpoch is not set.
VoteUnrecorded(n, s, h, expired) ==
    IF MayVote(n, s, h, expired) THEN [s EXCEPT !.voted = @ \cup {s.slaveof[h.sender]}] ELSE s

clusterSendFailoverAuthIfNeeded(n, s, h, expired) ==
    IF MayVote(n, s, h, expired)
    THEN [s EXCEPT !.vote = s.cur, !.voted = @ \cup {s.slaveof[h.sender]}]
    ELSE s

CountVote(s, h) ==
    IF nodeIsMaster(s, h.sender) /\ SlotsOf(s, h.sender) # {} /\ h.cur >= s.authEpoch
    THEN [s EXCEPT !.authCount = @ + 1]
    ELSE s

ProcessUpdate(n, s0, h) ==
    LET s == SeeEpochs(s0, h)
        u == h.nodecfg
        t == [clusterSetNodeAsMaster(s, u.name) EXCEPT !.cfg[u.name] = u.cfg]
    IN IF s.cfg[u.name] >= u.cfg THEN s
       ELSE clusterUpdateSlotsConfigWith(n, t, u.name, u.cfg, u.slots)

(***************************************************************************)
(* Steps.                                                                  *)
(***************************************************************************)

\* The request goes to everybody; to a slave it only tells the epoch, as a
\* PING does, so the copies for slaves are left out.
clusterRequestFailoverAuth(n, s) ==
    [l \in Nodes \X Nodes |->
        IF l[1] = n /\ l[2] # n /\ nodeIsMaster(s, l[2])
        THEN Append(net[l], clusterBuildMessageHdr(n, s, "AUTH_REQUEST")) ELSE net[l]]

\* clusterBeforeSleep: the file is written when the step asked for it.  A
\* greater currentEpoch seen in a header, or a vote, does not ask.
ToSave(s) == <<s.slots, s.cfg, s.slaveof, s.failed>>

\* A bug: what a packet changed is not written.
SavedOnDemand(n, s, save) == IF save THEN clusterSaveConfig(s) ELSE disk[n]

Saved(n, s, save) ==
    IF save \/ ToSave(s) # ToSave(st[n]) THEN clusterSaveConfig(s) ELSE disk[n]
clusterBeforeSleep(n, s, save) ==
    /\ s.cur <= MaxEpoch
    /\ st' = [st EXCEPT ![n] = s]
    /\ disk' = [disk EXCEPT ![n] = Saved(n, s, save)]

Fault == faults < MaxFaults /\ faults' = faults + 1
Side(n) == IF n \in cut THEN cut ELSE Nodes \ cut

\* All the nodes x reaches process the header x builds now, as a PING or, where
\* the reply comes on their own link, as a PONG; x processes the UPDATE that one
\* of them sends, the next ones when it pings again.  Only what changes something
\* is a step.
Answers(n, a) == IF a.about = None THEN {} ELSE {clusterSendUpdate(n, a.s, a.about)}

Ping(x) == \E pong, old \in BOOLEAN :
    LET h == clusterBuildMessageHdr(x, st[x], "PING")
        R == {n \in Side(x) \ {x} : net[<<x, n>>] = <<>>}
    IN /\ pong => \E n \in R : x \in st[n].failed
       /\ IF old THEN pong /\ Fault ELSE UNCHANGED faults
       /\ \E r \in {[n \in R |-> ProcessPing(n, st[n], h, pong, old)]} :
            LET U == UNION {Answers(n, r[n]) : n \in {m \in R : net[<<m, x>>] = <<>>}}
            IN /\ U # {} \/ \E n \in R : r[n].s # st[n]
               /\ \E u \in IF U = {} THEN {None} ELSE U :
                    st' = [n \in Nodes |-> IF n \in R THEN r[n].s
                                           ELSE IF n = x /\ U # {} THEN ProcessUpdate(x, st[x], u)
                                           ELSE st[n]]
       /\ st' # st
       /\ \A n \in Nodes : st'[n].cur <= MaxEpoch
       /\ disk' = [n \in Nodes |-> Saved(n, st'[n], FALSE)]
       /\ UNCHANGED <<net, cut, votes>>

\* n processes the next packet on its link from x.
Deliver(x, n) ==
    LET h == Head(net[<<x, n>>])
        rest == [net EXCEPT ![<<x, n>>] = Tail(@)]
        s == SeeEpochs(st[n], h)
    IN /\ net[<<x, n>>] # <<>> /\ n \in Side(x)
       /\ UNCHANGED <<cut, faults>>
       /\ \/ /\ h.type = "AUTH_REQUEST"
             /\ \E expired \in BOOLEAN :
                  /\ expired => s.slaveof[x] \in s.voted
                  /\ clusterBeforeSleep(n, clusterSendFailoverAuthIfNeeded(n, s, h, expired), FALSE)
                  /\ net' = IF MayVote(n, s, h, expired)
                            THEN [rest EXCEPT ![<<n, x>>] =
                                    Append(@, clusterBuildMessageHdr(n, s, "AUTH_ACK"))]
                            ELSE rest
                  /\ votes' = IF MayVote(n, s, h, expired)
                              THEN [votes EXCEPT !.given = @ \cup {<<n, s.cur, x>>}] ELSE votes
          \/ /\ h.type = "AUTH_ACK"
             /\ clusterBeforeSleep(n, CountVote(s, h), FALSE)
             /\ net' = rest
             /\ UNCHANGED votes

\* m fails: the nodes of the other side, or all the others, are told.
MarkFailed(m) ==
    LET R == (IF cut = {} THEN Nodes ELSE Nodes \ Side(m)) \ {m}
    IN /\ \E n \in R : m \notin st[n].failed /\ \E x \in Nodes : st[n].slaveof[x] = m
       /\ st' = [n \in Nodes |-> IF n \in R THEN [st[n] EXCEPT !.failed = @ \cup {m}] ELSE st[n]]
       /\ disk' = [n \in Nodes |-> Saved(n, st'[n], FALSE)]
       /\ UNCHANGED <<net, cut, faults, votes>>

(***************************************************************************)
(* clusterHandleSlaveFailover: schedule, ask, win.  Delay, rank and data   *)
(* age only postpone the steps.                                            *)
(***************************************************************************)
CanFailover(n, s) ==
    LET master == s.slaveof[n]
    IN /\ master # None
       /\ master \in s.failed \/ s.force
       /\ SlotsOf(s, master) # {}

\* A new attempt waits until the retry time of the last one is over.
ScheduleElection(n) ==
    /\ CanFailover(n, st[n])
    /\ IF st[n].auth = "none" THEN UNCHANGED faults ELSE Fault
    /\ clusterBeforeSleep(n, [st[n] EXCEPT !.auth = "scheduled", !.authCount = 0], FALSE)
    /\ UNCHANGED <<net, cut, votes>>

RequestVotes(n) ==
    LET s == [st[n] EXCEPT !.cur = @ + 1, !.authEpoch = st[n].cur + 1, !.auth = "sent"]
    IN /\ CanFailover(n, st[n]) /\ st[n].auth = "scheduled"
       /\ clusterBeforeSleep(n, s, TRUE)
       /\ net' = clusterRequestFailoverAuth(n, s)
       /\ UNCHANGED <<cut, faults, votes>>

\* The slave becomes a master, takes every slot of its old one and saves; the
\* PONGs it sends to everybody are Ping steps.
clusterFailoverReplaceYourMaster(n, s) ==
    LET t == [clusterSetNodeAsMaster(s, n) EXCEPT
                !.slots = [j \in Slots |-> IF @[j] = s.slaveof[n] THEN n ELSE @[j]],
                !.force = FALSE]
    IN clusterBeforeSleep(n, t, TRUE) /\ UNCHANGED net

WinElection(n) ==
    LET s == st[n]
    IN /\ CanFailover(n, s) /\ s.auth = "sent"
       /\ s.authCount >= NeededQuorum(s)
       /\ clusterFailoverReplaceYourMaster(n, [s EXCEPT !.cfg[n] = Max({@, s.authEpoch})])
       /\ UNCHANGED <<cut, faults, votes>>

(***************************************************************************)
(* Commands, restarts and lost links.                                      *)
(***************************************************************************)

clusterBumpConfigEpochWithoutConsensus(n, s) ==
    IF s.cfg[n] = 0 \/ s.cfg[n] # clusterGetMaxEpoch(s)
    THEN [s EXCEPT !.cur = @ + 1, !.cfg[n] = s.cur + 1]
    ELSE s

ClusterFailoverForce(n) ==
    /\ st[n].slaveof[n] # None
    /\ Fault
    /\ clusterBeforeSleep(n, [st[n] EXCEPT !.force = TRUE], FALSE)
    /\ UNCHANGED <<net, cut, votes>>

ClusterFailoverTakeover(n) ==
    /\ st[n].slaveof[n] # None
    /\ Fault
    /\ clusterFailoverReplaceYourMaster(n, clusterBumpConfigEpochWithoutConsensus(n, st[n]))
    /\ UNCHANGED <<cut, votes>>

manualFailoverCheckTimeout(n) ==
    /\ st[n].force
    /\ clusterBeforeSleep(n, [st[n] EXCEPT !.force = FALSE], FALSE)
    /\ UNCHANGED <<net, cut, faults, votes>>

\* The process dies and starts again from nodes.conf; its links are lost.
Restart(n) ==
    /\ n \in Unsteady /\ Fault
    /\ st' = [st EXCEPT ![n] = clusterInit(disk[n])]
    /\ net' = [l \in Nodes \X Nodes |-> IF n \in {l[1], l[2]} THEN <<>> ELSE net[l]]
    /\ votes' = [votes EXCEPT !.restarted = @ \cup {n}]
    /\ UNCHANGED <<disk, cut>>

\* A partition separates one node; healing it is no fault.
Partition ==
    /\ IF cut = {} THEN Fault /\ \E n \in Unsteady : cut' = {n}
       ELSE cut' = {} /\ UNCHANGED faults
    /\ UNCHANGED <<st, disk, net, votes>>

Next ==
    \/ Partition
    \/ \E x, n \in Nodes : Deliver(x, n)
    \/ \E n \in Nodes :
          \/ Ping(n) \/ MarkFailed(n)
          \/ ScheduleElection(n) \/ RequestVotes(n) \/ WinElection(n)
          \/ ClusterFailoverForce(n) \/ ClusterFailoverTakeover(n) \/ manualFailoverCheckTimeout(n)
          \/ Restart(n)

Spec == Init /\ [][Next]_vars

(***************************************************************************)
(* Properties.                                                             *)
(***************************************************************************)
TypeOK ==
    /\ \A n \in Nodes :
         /\ st[n].slots \in [Slots -> Nodes \cup {None}]
         /\ st[n].slaveof \in [Nodes -> Nodes \cup {None}]
         /\ st[n].cur \in 0..MaxEpoch /\ st[n].cfg \in [Nodes -> 0..st[n].cur]
    /\ faults \in 0..MaxFaults

\* Only masters serve slots: in no node's table does a slot belong to a node
\* the same table calls a slave, whatever mix of role switches, claims and
\* UPDATEs built the table (clusterProcessPacket, clusterSetMaster's assert).
OnlyMastersServe ==
    /\ TypeOK
    /\ \A n \in Nodes, j \in Slots :
         LET o == st[n].slots[j] IN o # None => nodeIsMaster(st[n], o)

\* Nothing more to say: no packet waits and no PING would change anything.
Quiet ==
    /\ cut = {}
    /\ \A l \in Nodes \X Nodes : net[l] = <<>>
    /\ \A x, n \in Nodes : x # n =>
         LET h == clusterBuildMessageHdr(x, st[x], "PING")
             r == ProcessPing(n, st[n], h, FALSE, FALSE)
         IN /\ r.s = st[n]
            /\ r.about # None => ProcessUpdate(x, st[x], clusterSendUpdate(n, r.s, r.about)) = st[x]

\* Once the bus is quiet all the nodes have the same table of slots: headers
\* and UPDATEs are enough to end every disagreement
\* (clusterUpdateSlotsConfigWith, clusterSendUpdate).
QuietNodesAgree == Quiet => \A n, m \in Nodes : st[n].slots = st[m].slots

\* The epoch a node knows another one's configuration by never goes back, not
\* even over a restart: it is in nodes.conf before the step ends.
ConfigEpochsNeverFall ==
    [][\A n, m \in Nodes : st'[n].cfg[m] >= st[n].cfg[m]]_vars

\* A master gives one vote per epoch, so that two slaves cannot both have the
\* majority of it (clusterSendFailoverAuthIfNeeded), as long as its process
\* lives.
VotesOnce == \A v, w \in votes.given :
    v[1] = w[1] /\ v[2] = w[2] /\ v[1] \notin votes.restarted => v[3] = w[3]
=============================================================================
