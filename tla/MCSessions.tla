------------------------------ MODULE MCSessions ------------------------------
(* Instances of Sessions for TLC; each .cfg says which it is. *)
EXTENDS Sessions, TLC

CONSTANTS u1, u2, y1, y2

\* Everybody is a plain member of every system.
MembersEverywhere == Users \X Systems \X {"member"}

\* u1 administers y2 and has no role in the panel y1.
DelegatedAdmin == {<<u1, y2, "admin">>}

LoginSymmetry == Permutations(Logins)
===============================================================================
