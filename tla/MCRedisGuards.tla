----------------------------- MODULE MCRedisGuards -----------------------------
\* Constants of RedisGuards for TLC.
EXTENDS RedisGuards, TLC

\* No property names a request or a check.
MCSymmetry == Permutations(Requests) \cup Permutations(Checks)
===============================================================================
