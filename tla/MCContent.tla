----------------------------- MODULE MCContent ------------------------------
(* The entries of a project: either the store, as MCEntryStore bounds it,   *)
(* or the vocabulary: one facet that every database has, another, and one  *)
(* that cannot be created; one entry (what a body may name does not depend *)
(* on the others), created and then written by two requests at a time, or  *)
(* by an import while its facets are added or removed.                     *)
EXTENDS MCEntryStore, FacetVocabulary

CONSTANTS c1, c2, x

VARIABLE part   \* which of the two

MCNames == {"motivation", "f", "Not Kebab"}
MCKebab == {"motivation", "f"}
MCSeeds == {"motivation"}
MCCardSets == {{"motivation"}, {"f"}, {"motivation", "f"}, {"f", "Not Kebab"}}
MCUploads == {x :> {"motivation", "f"}, x :> {"f", "Not Kebab"}}

\* No liveness property is checked.
MCContentSymmetry == Symmetry \cup Permutations({c1, c2})

ContentInit == EntryInit /\ VocabInit /\ part \in {"store", "vocabulary"}

ContentNext ==
    /\ UNCHANGED part
    /\ \/ part = "store" /\ EntryNext /\ UNCHANGED vocabVars
       \/ part = "vocabulary" /\ VocabNext /\ UNCHANGED entryVars

ContentSpec == ContentInit /\ [][ContentNext]_<<part, entryVars, vocabVars>>
=============================================================================
