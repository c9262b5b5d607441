---------------------------- MODULE TokenRotation ----------------------------
(***************************************************************************)
(* What rotation promises of one-time tokens ("it can be exchanged exactly *)
(* once", AuthService.ts:128): a token is issued once, a token that was    *)
(* presented or deleted never becomes live again, and it is replaced by at *)
(* most one other token, and only when it is no longer live itself.        *)
(***************************************************************************)
CONSTANT Tokens

VARIABLES
    issued,     \* tokens given to a client
    live,       \* tokens that can still be exchanged
    heirs       \* the tokens issued in exchange for each token

RInit == issued = {} /\ live = {} /\ heirs = [t \in Tokens |-> {}]

\* A sign-in.
Issue(t) ==
    /\ t \notin issued
    /\ issued' = issued \cup {t}
    /\ live' = live \cup {t}
    /\ heirs' = heirs

\* A token is presented, or deleted by a sign-out.
Retire(t) == t \in live /\ live' = live \ {t} /\ UNCHANGED <<issued, heirs>>

\* The presented token is answered with the next one.
Replace(old, new) ==
    /\ old \in issued \ live
    /\ heirs[old] = {}
    /\ new \notin issued
    /\ issued' = issued \cup {new}
    /\ live' = live \cup {new}
    /\ heirs' = [heirs EXCEPT ![old] = {new}]

RNext == \/ \E t \in Tokens : Issue(t) \/ Retire(t)
         \/ \E old, new \in Tokens : Replace(old, new)

RSpec == RInit /\ [][RNext]_<<issued, live, heirs>>
=============================================================================
