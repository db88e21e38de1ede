-------------------------- MODULE SentinelElection --------------------------
(***************************************************************************)
(* What the votes of a group of Sentinels promise (the comments over        *)
(* sentinelVoteLeader and sentinelGetLeader in redis-stable/src/sentinel.c): *)
(* a Sentinel votes once per epoch, for epochs that only grow, and a leader  *)
(* of an epoch has the votes of a majority in that epoch.                    *)
(***************************************************************************)
EXTENDS Integers, FiniteSets

CONSTANTS Sentinels, Epochs

\* What the theorems ask of the constants.
ElectionConstants == IsFiniteSet(Sentinels) /\ Epochs \subseteq Nat

VARIABLES
    cast,    \* the votes given: <<voter, epoch, candidate>>
    won      \* the elections won: <<leader, epoch>>

electionVars == <<cast, won>>

Init == cast = {} /\ won = {}

\* A vote for an epoch later than every epoch v has voted in.
Vote(v, e, c) ==
    /\ \A w \in cast : w[1] = v => w[2] < e
    /\ cast' = cast \cup {<<v, e, c>>}

Supporters(votes, s, e) == {v \in Sentinels : <<v, e, s>> \in votes}

Majority(votes, s, e) ==
    2 * Cardinality(Supporters(votes, s, e)) > Cardinality(Sentinels)

\* A step counts the votes given before it and, when it also votes, its own.
Next ==
    /\ \/ \E v, c \in Sentinels, e \in Epochs : Vote(v, e, c)
       \/ UNCHANGED cast
    /\ \/ \E s \in Sentinels, e \in Epochs : /\ Majority(cast', s, e)
                                          /\ won' = won \cup {<<s, e>>}
       \/ UNCHANGED won

Spec == Init /\ [][Next]_electionVars

-----------------------------------------------------------------------------
\* A Sentinel votes for one candidate in an epoch (sentinelVoteLeader).
VotesOnce ==
    \A v, w \in cast : v[1] = w[1] /\ v[2] = w[2] => v[3] = w[3]

\* Whoever won an epoch has a majority of it (sentinelGetLeader).
WonByMajority == \A w \in won : Majority(cast, w[1], w[2])

\* An epoch has one leader.
OneLeader == \A v, w \in won : v[2] = w[2] => v[1] = w[1]
=============================================================================
