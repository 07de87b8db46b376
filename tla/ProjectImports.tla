--------------------------- MODULE ProjectImports ---------------------------
(***************************************************************************)
(* One import after another into a project (handler/importer.go), in every *)
(* mode: what each decides about its batch, and the paths that the project *)
(* has then.  An import that is refused creates nothing.                   *)
(***************************************************************************)
EXTENDS ImportPlan

CONSTANTS
    Tarballs,    \* what imports upload
    MaxEntries   \* bound: entries of the project

ASSUME TarballsAssumption == MaxEntries \in Nat /\ \A tarball \in Tarballs : IsBatch(tarball)

VARIABLES
    before,      \* the paths of the project when the last import began
    batch,       \* what it uploaded
    mode,        \* its onConflict
    report       \* what it answered

importVars == <<before, batch, mode, report>>

ImportsInit == before = {} /\ batch = <<>> /\ mode = "fail" /\ report = <<>>

Created(rep) == {rep[i].path : i \in {j \in DOMAIN rep : rep[j].action = "create"}}

Import ==
    /\ before' = IF Refused(report) THEN before ELSE before \cup Created(report)
    /\ Cardinality(before') < MaxEntries
    /\ batch' \in Tarballs
    /\ mode' \in Modes
    /\ report' = Plan(batch', mode', before')

ImportsSpec == ImportsInit /\ [][Import]_importVars

\* The loop of ImportProject decides what OrderFree says, of every batch, in every mode.
PlanIsOrderFree == OrderFree(batch, mode, before, report)
=============================================================================
