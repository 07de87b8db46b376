------------------------- MODULE MCContentMigration -------------------------
(* Three legacy entries of two projects or none, whose titles collide with *)
(* one another and with a suffix that another one is given; and every      *)
(* database that a process may find.                                       *)
EXTENDS ContentMigration, FiniteSets

CONSTANTS p, q, none, w

Entry(project, title, fault, blob) ==
    [project |-> project, title |-> title, fault |-> fault, blob |-> blob]

a == <<w>>
a2 == <<w, 2>>

\* A database of version 7 has three entries, of which one may be at fault, one may be
\* of another project or of none; any other database has one.
MCLegacies(d) ==
    IF d.version = 7
    THEN {<<Entry(p, a, f[1], FALSE), Entry(p, t, f[2], TRUE), Entry(x, a, f[3], TRUE)>> :
             f \in {g \in [1 .. 3 -> Fault] : Cardinality({i \in 1 .. 3 : g[i] # "none"}) < 2},
             t \in {a, a2}, x \in {p, q, none}}
    ELSE {<<Entry(p, a, "none", TRUE)>>}
=============================================================================
