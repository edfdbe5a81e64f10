----------------------------- MODULE MCLruCache -----------------------------
EXTENDS LruCache, TLC

CONSTANTS k1, k2, k3, v1, v2, a1, a2, a3

Perms == Permutations({k1, k2, k3}) \cup Permutations({v1, v2})
           \cup Permutations({a1, a2, a3})

\* Programs that allocate nothing while a freed entry is linked: what its
\* memory would be used for again does not matter to what they see.
PopLastSpec ==
  Init /\ [][IF RingMatchesMap THEN Next
             ELSE \E n \in Capacities : ChangeCapacity(n)]_lruVars
=============================================================================
