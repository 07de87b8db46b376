---------------------------- MODULE MCAlgorithms ----------------------------
(***************************************************************************)
(* The pure algorithms, against definitions that do not follow the code:   *)
(* successive imports of up to three folders that collide with one         *)
(* another's suffixes; every document of up to MaxLines lines, beside      *)
(* another entry that it links to; and legacy bodies of one node, four     *)
(* deep, with up to two annotations.                                       *)
(***************************************************************************)
EXTENDS MCImportPlan, EntryViews, LegacyBodies

CONSTANT MaxLines   \* bound: lines of the main document

A == "a"
B == "b"
TwoFacets == {"f", "g"}
ThreeFacets == TwoFacets \cup {"x"}   \* x is undeclared
TwoAndGone == {A, B, "gone"}

Alphabet == {Text(NoLink), Text(B), Text("gone"), Secret, Card("f"), Card("g"), Close}

Others ==
    { <<Card("f"), Text(A), Close>>,
      <<Secret, Text(NoLink), Card("f"), Text(NoLink), Close, Close, Card("f"), Close>>,
      <<Card("g"), Text(NoLink), Close>>,
      <<Card("f"), Text(NoLink)>> }

Documents(most) == UNION {[1 .. n -> Alphabet] : n \in 0 .. most}

UndeclaredCard == {<<Card("x")>>, <<Card("x"), Text(NoLink)>>, <<Card("x"), Text(NoLink), Close>>}

NoProject == << >>
TwoEntries(main, other) == (A :> main) @@ (B :> other)
NoOrTwoEntries ==
    {NoProject} \cup {TwoEntries(main, other) :
                        main \in Documents(MaxLines) \cup UndeclaredCard, other \in Others}

\* Legacy bodies: phrases of texts, marks and mentions, in paragraphs, headings, lists
\* and quotes. Annotation 1 has a mark or not, 2 has none, a mark of 3 has no annotation.
UpToTwo(S) == {<<x>> : x \in S} \cup {<<x, y>> : x \in S, y \in S}
Wrapped(S) ==
    {Node(t, c) : t \in {"strong", "span", "mention", "mark"}, c \in S}
    \cup {GMMark(id, c) : id \in {1, 3}, c \in S}
Phrases == {TextNode} \cup Wrapped(UpToTwo({TextNode}))
DeepPhrases == Phrases \cup Wrapped(UpToTwo(Phrases))
Paragraphs == {Node("p", c) : c \in UpToTwo(Phrases)}
Items == {Node("li", c) : c \in UpToTwo(Phrases)} \cup {Node("li", <<x>>) : x \in Paragraphs}
Lists == {Node("ul", c) : c \in {<<x>> : x \in Items \cup Phrases}
                                \cup {<<x, y>> : x \in Phrases, y \in Items}}
LegacyNodes ==
    DeepPhrases \cup Lists
    \cup {Node(t, <<x>>) : t \in {"p", "h"}, x \in DeepPhrases}
    \cup {Node(t, c) : t \in {"p", "h"}, c \in UpToTwo(Phrases)}
    \cup {Node("quote", <<x>>) : x \in Paragraphs}

\* The nodes of a tree in the order of the document, the root being number n.
RECURSIVE Numbered(_, _)
Numbered(root, n) ==
    LET subtrees[i \in 0 .. Len(root.children)] ==
          IF i = 0 THEN << >>
          ELSE LET left == subtrees[i - 1]
               IN Append(left, Numbered(root.children[i], n + 1 + Len(FlattenSeq(left))))
        below == subtrees[Len(root.children)]
    IN <<[root EXCEPT !.children =
            [i \in DOMAIN @ |-> n + 1 + Len(FlattenSeq(SubSeq(below, 1, i - 1)))]]>>
       \o FlattenSeq(below)

NoOrOneBody ==
    {{}} \cup {{[body |-> Numbered(Node("body", <<x>>), 1), rows |-> rows]} :
                 x \in LegacyNodes, rows \in {{}, {1}, {1, 2}}}

\* The first line of the main document, or one with an undeclared facet; the rest follows.
AlgoInit ==
    /\ ImportsInit
    /\ \/ legacy = {} /\ project = NoProject
       \/ /\ legacy = {}
          /\ project \in {TwoEntries(main, other) :
                            main \in {<< >>} \cup UndeclaredCard \cup {<<line>> : line \in Alphabet},
                            other \in Others}
       \/ legacy \in Legacies \ {{}} /\ project = NoProject

Write ==
    /\ project # NoProject /\ Len(project[A]) = 1 /\ project[A][1] \in Alphabet
    /\ \E rest \in Documents(MaxLines - 1) :
          project' = TwoEntries(project[A] \o rest, project[B])
    /\ UNCHANGED <<importVars, legacy>>

AlgoNext ==
    \/ project = NoProject /\ legacy = {} /\ Import /\ UNCHANGED <<project, legacy>>
    \/ Write

AlgoSpec == AlgoInit /\ [][AlgoNext]_<<before, batch, mode, report, project, legacy>>
=============================================================================
