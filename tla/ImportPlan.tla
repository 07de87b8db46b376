----------------------------- MODULE ImportPlan -----------------------------
(***************************************************************************)
(* What content's import decides about each item of a batch                *)
(* (handler/importer.go, ImportProject): create it, overwrite the entry at *)
(* its path, skip it, report a conflict, or create it under a suffixed     *)
(* slug.  A path is a directory and a slug; a slug is a sequence, so that  *)
(* the slug "s-2" is <<s, 2>> and the suffix 3 of it is <<s, 2, 3>>.       *)
(* readImportTarball yields one item per folder: the paths of a batch are  *)
(* distinct, and come sorted.                                              *)
(***************************************************************************)
EXTENDS Naturals, Sequences, FiniteSets

CONSTANTS
    Dirs,        \* values of directory_path
    Texts        \* bodies

Path == [dir : Dirs, slug : Seq(Nat)]

PathsOf(batch) == {batch[i].path : i \in DOMAIN batch}

IsBatch(batch) ==
    /\ batch \in Seq([path : Path, text : Texts])
    /\ \A i, j \in DOMAIN batch : batch[i].path = batch[j].path => i = j

Modes == {"fail", "skip", "overwrite", "suffix"}

Candidate(path, n) == [path EXCEPT !.slug = Append(@, n)]

\* The first suffix from 2 on that no entry has and nobody in the batch claims.
FreeCandidate(path, avoid) ==
    LET n == CHOOSE i \in 2 .. (2 + Cardinality(avoid)) :
                 /\ Candidate(path, i) \notin avoid
                 /\ \A j \in 2 .. (i - 1) : Candidate(path, j) \in avoid
    IN Candidate(path, n)

Creation(item, path) == [action |-> "create", path |-> path, text |-> item.text]

\* What mode says of an item whose path is taken.
Verdict(mode, item) ==
    [action |-> IF mode = "fail" THEN "conflict" ELSE mode,
     path |-> item.path, text |-> item.text]

\* One turn of the loop over the items.  plan.taken are the paths of the entries
\* the transaction sees, plan.claimed is claimedSlugs.
PlanItem(mode, plan, item) ==
    LET exists == item.path \in plan.taken
        suffixed == FreeCandidate(item.path, plan.claimed \cup plan.taken)
    IN CASE ~exists ->
              [plan EXCEPT !.report = Append(@, Creation(item, item.path)),
                           !.taken = @ \cup {item.path}]
         [] exists /\ mode = "suffix" ->
              [report |-> Append(plan.report, Creation(item, suffixed)),
               taken |-> plan.taken \cup {suffixed},
               claimed |-> plan.claimed \cup {suffixed}]
         [] OTHER -> [plan EXCEPT !.report = Append(@, Verdict(mode, item))]

\* The loop over the items, with the slugs claimed before it.
PlanFrom(batch, mode, taken, claimed) ==
    LET plan[n \in 0 .. Len(batch)] ==
            IF n = 0 THEN [report |-> <<>>, taken |-> taken, claimed |-> claimed]
            ELSE PlanItem(mode, plan[n - 1], batch[n])
    IN plan[Len(batch)]

\* Slip: the items' own paths are not claimed before the loop.
LatePlan(batch, mode, taken) == PlanFrom(batch, mode, taken, {}).report

\* The report: one row per item, in order.
Plan(batch, mode, taken) == PlanFrom(batch, mode, taken, PathsOf(batch)).report

\* onConflict=fail with a conflict applies nothing.
Refused(report) == \E i \in DOMAIN report : report[i].action = "conflict"

\* What should become of an item, when taken are the paths of the entries and avoid those
\* and the paths of the batch: it is created at its own path if that is free, and otherwise
\* at the first suffix that no entry has and no item of the batch is named.
Decided(item, mode, taken, avoid, row) ==
    \/ /\ item.path \notin taken
       /\ row = Creation(item, item.path)
    \/ /\ item.path \in taken /\ mode = "suffix"
       /\ \E n \in 2 .. (2 + Cardinality(avoid)) :
             /\ row = Creation(item, Candidate(item.path, n))
             /\ Candidate(item.path, n) \notin avoid
             /\ \A k \in 2 .. (n - 1) : Candidate(item.path, k) \in avoid
    \/ /\ item.path \in taken /\ mode # "suffix"
       /\ row = Verdict(mode, item)

\* The decisions depend neither on the order of the batch nor on one another.
OrderFree(batch, mode, taken, report) ==
    /\ DOMAIN report = DOMAIN batch
    /\ \A i \in DOMAIN batch :
          Decided(batch[i], mode, taken, taken \cup PathsOf(batch), report[i])
=============================================================================
