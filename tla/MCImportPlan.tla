---------------------------- MODULE MCImportPlan ----------------------------
(* Batches of up to three of the folders s, s-2, s-3 and s-2-2 in every order, *)
(* which collide with one another's suffixes.                                  *)
EXTENDS ProjectImports, FiniteSetsExt, SequencesExt

OneDir == {"d"}
FolderSlugs == {<<0>>, <<0, 2>>, <<0, 3>>, <<0, 2, 2>>}
Folders == {[path |-> [dir |-> "d", slug |-> slug], text |-> slug] : slug \in FolderSlugs}
FolderBatches == UNION {SetToSeqs(S) : S \in UNION {kSubset(k, Folders) : k \in 1 .. 3}}
=============================================================================
