--------------------------- MODULE MCRegistration ---------------------------
EXTENDS Registration, TLC

CONSTANTS t1, t2, h1, h2, f1, f2, s1, s2

Perms == Permutations({t1, t2}) \cup Permutations({h1, h2})
           \cup Permutations({f1, f2}) \cup Permutations({s1, s2})
=============================================================================
