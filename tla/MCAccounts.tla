----------------------------- MODULE MCAccounts -----------------------------
(* Accounts, in either of two ways to get in: an administrator, and a user *)
(* who may be deleted and register again, with two sessions and two        *)
(* requests at once; or two accounts and three reset links, which are      *)
(* superseded, expire and are redeemed while another request for the same  *)
(* link runs.                                                              *)
EXTENDS AuthSession, PasswordReset, TLC

CONSTANTS u1, u2, s1, s2, w1, w2

VARIABLE part   \* which of the two

MCAccounts == {u1, u2}
MCEmailOf == u1 :> "u@x" @@ u2 :> "u@x"
MCSessions == {s1, s2}
MCWorkers == {w1, w2}
MCUsers == {s1, s2}   \* of reset links; sharing the ids of the sessions keeps the symmetry small
MCTokens == 1 .. 3

\* Session ids, users of reset links and requests are interchangeable, and no property is
\* a liveness property. Accounts are kept apart: ids u1 and u2 share an email.
MCSymmetry == Permutations(MCSessions) \cup Permutations(MCWorkers)

AccountsInit == Init /\ ResetInit /\ part \in {"session", "reset"}

AccountsNext ==
    /\ UNCHANGED part
    /\ \/ part = "session" /\ Next /\ UNCHANGED resetVars
       \/ part = "reset" /\ ResetNext /\ UNCHANGED vars

AccountsSpec == AccountsInit /\ [][AccountsNext]_<<part, vars, resetVars>>
=============================================================================
