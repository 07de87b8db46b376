----------------------------- MODULE MCMembers ------------------------------
(* Who is a member, at either end: in svc the creator and two guests, one   *)
(* invite, two requests, enough for two Joins to race and for a check of   *)
(* one to be outdated by the other; in content the cache of two keys, two  *)
(* requests, where fresh, stale and swept answers all occur before the     *)
(* clock stops.                                                            *)
EXTENDS Projects, MembershipCache, TLC

CONSTANTS gm, u1, u2, i1, e1, w1, w2

VARIABLE part   \* which of the two

MCUsers == {gm, u1, u2}
MCInvites == {i1}
MCEntries == {e1}
MCKeys == {u1, u2}    \* of the two guests, in one project
MCWorkers == {w1, w2}

\* Guests (whose keys are named for them) and requests are interchangeable; no liveness property is checked.
MCSymmetry == Permutations({u1, u2}) \cup Permutations(MCWorkers)

MembersInit ==
    /\ ProjectsInit /\ Init
    /\ part \in {"svc", "content"}
    /\ part = "svc" => members = {}

MembersNext ==
    /\ UNCHANGED part
    /\ \/ part = "svc" /\ ProjectsNext /\ UNCHANGED vars
       \/ part = "content" /\ Next /\ UNCHANGED projectsVars

MembersSpec == MembersInit /\ [][MembersNext]_<<part, vars, projectsVars>>
=============================================================================
