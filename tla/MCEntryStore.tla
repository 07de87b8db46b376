---------------------------- MODULE MCEntryStore ----------------------------
(* Constants of the runs of EntryStore: two entries; a directory d1, its name with  *)
(* a slash after it, which is a directory of its own, and another; and a text that   *)
(* links to an entry in d1, with a slash before it and without.                      *)
EXTENDS EntryStore, TLC

CONSTANTS d1, d1Slash, d2, slashD1, plain, linking

NaturalSlugs == {<<1>>}
PathIn(d) == [dir |-> d, slug |-> <<1>>]
Trimmed == [d \in {d1, d2, slashD1} |-> IF d = slashD1 THEN d1 ELSE d]
TrimmedRight == [d \in {d1, d1Slash, d2} |-> IF d = d1Slash THEN d1 ELSE d]
Linking == plain :> {} @@ linking :> {PathIn(d1), PathIn(slashD1)}

Item(d, text) == [path |-> PathIn(d), text |-> text]
OneOrTwo == {<<Item(d1, plain)>>, <<Item(d1, linking), Item(d2, plain)>>}
Symmetry == Permutations(Ids) \cup Permutations(Workers)
=============================================================================
