----------------------------- MODULE OneTimeCode -----------------------------
(***************************************************************************)
(* What the code of a Google login promises                                *)
(* (services/google-auth.service.ts): it is exchanged once.  Whoever takes *)
(* it first spends it, whatever becomes of that exchange, and only the one *)
(* who took it can be given the token behind it.                           *)
(***************************************************************************)
CONSTANTS
    Codes,    \* one for each login
    Takers    \* exchanges

VARIABLES
    phase,    \* phase[c]: has code c been issued, and is it spent?
    holders,  \* holders[c]: the exchanges that have taken c
    given     \* given[c]: those that were given the token

vars == <<phase, holders, given>>

Init ==
    /\ phase = [c \in Codes |-> "unissued"]
    /\ holders = [c \in Codes |-> {}]
    /\ given = [c \in Codes |-> {}]

Issue(c) ==
    /\ phase[c] = "unissued"
    /\ phase' = [phase EXCEPT ![c] = "issued"]
    /\ UNCHANGED <<holders, given>>

Lapse(c) ==
    /\ phase[c] = "issued"
    /\ phase' = [phase EXCEPT ![c] = "spent"]
    /\ UNCHANGED <<holders, given>>

Take(c, x) ==
    /\ phase[c] = "issued"
    /\ phase' = [phase EXCEPT ![c] = "spent"]
    /\ holders' = [holders EXCEPT ![c] = {x}]
    /\ UNCHANGED given

Give(c, x) ==
    /\ holders[c] = {x} /\ given[c] = {}
    /\ given' = [given EXCEPT ![c] = {x}]
    /\ UNCHANGED <<phase, holders>>

Next == \E c \in Codes : Issue(c) \/ Lapse(c) \/ \E x \in Takers : Take(c, x) \/ Give(c, x)

Spec == Init /\ [][Next]_vars
===============================================================================
