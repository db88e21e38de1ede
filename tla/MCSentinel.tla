----------------------------- MODULE MCSentinel -----------------------------
EXTENDS Sentinel, TLC

\* Sentinels are alike, and so are the first slaves.
Symmetric == Permutations(Sentinels) \cup Permutations(Redis \ {FirstMaster})
=============================================================================
