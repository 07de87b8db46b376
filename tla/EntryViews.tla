----------------------------- MODULE EntryViews -----------------------------
(***************************************************************************)
(* What the views, the PDF and the index of links owe to a reader, for the *)
(* entries of a project: not by the blocks that the engine builds, but by  *)
(* the nesting of the fences around each line.                             *)
(***************************************************************************)
EXTENDS ContentEngine

CONSTANTS
    Names,        \* paths that links lead to, of entries or not
    CardFacets,   \* facets that cards name
    Vocabulary,   \* the facets there are
    Projects      \* what a project may be: its entries' documents, by path

AnyLine ==
    {Text(to) : to \in Names \cup {NoLink}} \cup {Card(f) : f \in CardFacets} \cup {Secret, Close}

ASSUME ViewsAssumption ==
    /\ NoLink \notin Names
    /\ NoFacet \notin CardFacets \cup Vocabulary
    /\ \A p \in Projects : DOMAIN p \subseteq Names /\ \A e \in DOMAIN p : p[e] \in Seq(AnyLine)

VARIABLE project

\* Entries are written in any way.
ViewsSpec == project \in Projects /\ [][project' \in Projects]_project

-----------------------------------------------------------------------------
(* A document by the nesting of its fences.                                *)

\* How many fences are open before line i, when none was astray.
Level(doc, i) ==
    Cardinality({k \in 1 .. i - 1 : Opens(doc[k])})
    - Cardinality({k \in 1 .. i - 1 : doc[k] = Close})

Balanced(doc) ==
    /\ \A i \in 1 .. Len(doc) + 1 : Level(doc, i) >= 0
    /\ Level(doc, Len(doc) + 1) = 0

\* The fences around line i.
Around(doc, i) ==
    {j \in 1 .. i - 1 : Opens(doc[j]) /\ \A k \in j + 1 .. i : Level(doc, k) > Level(doc, j)}

Least(S) == CHOOSE x \in S : \A y \in S : x <= y
Greatest(S) == CHOOSE x \in S : \A y \in S : x >= y

\* The text directly in the block that the fence at line j begins.
Directly(doc, j) ==
    {i \in TextLines(doc) : Around(doc, i) # {} /\ Greatest(Around(doc, i)) = j}

\* A set of lines in order: the k-th has k - 1 before it.
InOrder(S) ==
    [k \in 1 .. Cardinality(S) |-> CHOOSE i \in S : Cardinality({j \in S : j < i}) = k - 1]

CardsOf(doc, f) == {j \in DOMAIN doc : doc[j] = Card(f)}

-----------------------------------------------------------------------------
(* The views.                                                              *)

Shown(entry, i, link) == [entry |-> entry, line |-> i, link |-> link]

\* In a card view: what a link to an entry does.
HasCard(to, f) ==
    to \in DOMAIN project /\ Balanced(project[to]) /\ CardsOf(project[to], f) # {}

CardLink(to, f) ==
    IF to = NoLink THEN "none" ELSE IF HasCard(to, f) THEN "label"
    ELSE IF to \in DOMAIN project THEN "noted link" ELSE "link"

\* The text of a card, and after it that of the first such card of each entry it links to.
Expansion(to, f) ==
    LET doc == project[to]
        lines == InOrder(Directly(doc, Least(CardsOf(doc, f))))
    IN [k \in DOMAIN lines |->
          Shown(to, lines[k], IF doc[lines[k]].to = NoLink THEN "none" ELSE "link")]

ShownCard(entry, j, f) ==
    LET doc == project[entry]
        own == InOrder(Directly(doc, j))
    IN [k \in DOMAIN own |-> Shown(entry, own[k], CardLink(doc[own[k]].to, f))]
       \o FlattenSeq([k \in DOMAIN own |->
             IF HasCard(doc[own[k]].to, f) THEN Expansion(doc[own[k]].to, f) ELSE << >>])

ShownLines(entry, lines, link) ==
    LET seq == InOrder(lines)
    IN [k \in DOMAIN seq |->
          Shown(entry, seq[k], IF project[entry][seq[k]].to = NoLink THEN "none" ELSE link)]

\* The text that dm and player show: all but what is two fences deep, for player also
\* without what is in a secret.
Visible(doc, kind) ==
    {i \in TextLines(doc) :
        /\ \A j, k \in Around(doc, i) : j = k
        /\ kind = "player" => \A j \in Around(doc, i) : doc[j] # Secret}

DeclaredFacets(doc) == \A i \in DOMAIN doc : doc[i].kind = "card" => doc[i].facet \in Vocabulary

Expected(entry, kind, f) ==
    LET doc == project[entry] cards == InOrder(CardsOf(doc, f)) IN
    IF ~Balanced(doc) THEN Error("400")
    ELSE IF ~DeclaredFacets(doc) \/ (kind = "card" /\ f \notin Vocabulary) THEN Error("422")
    ELSE Answer(CASE kind = "card" -> FlattenSeq([k \in DOMAIN cards |-> ShownCard(entry, cards[k], f)])
                  [] kind = "player" -> ShownLines(entry, Visible(doc, "player"), "label")
                  [] kind = "dm" -> ShownLines(entry, Visible(doc, "dm"), "link"))

-----------------------------------------------------------------------------
(* Properties.                                                             *)

\* Every view shows exactly the text it is to show, once and in order: player nothing
\* that a secret is around, a card view the cards of its facet wherever they are, with
\* the same card of the entries they link to, one layer deep. A document with an open
\* or a stray fence shows nothing. (dm and player show no text that is two fences deep.)
ViewsAreAsNested ==
    \A entry \in DOMAIN project :
      /\ \A view \in {"dm", "player"} :
            Fragment(project, entry, ParseView(view, "", FALSE), Vocabulary)
            = Expected(entry, view, NoFacet)
      /\ \A f \in Vocabulary \cup CardFacets :
            Fragment(project, entry, ParseView("", f, FALSE), Vocabulary)
            = Expected(entry, "card", f)

Plain(shown) == [i \in DOMAIN shown |-> <<shown[i].entry, shown[i].line>>]

\* A quick view is the beginning of the view, and a PDF that bundles two entries is one
\* view after the other without links or expansions: no secret comes in by the second.
ExcerptsAreOfViews ==
    \A entry, other \in DOMAIN project, view \in {"dm", "player"} :
       LET full == Fragment(project, entry, ParseView(view, "", FALSE), Vocabulary)
           quick == Fragment(project, entry, ParseView(view, "", TRUE), Vocabulary)
           second == Fragment(project, other, ParseView(view, "", FALSE), Vocabulary)
           pdf == Bundle(project, <<entry, other>>, ParseView(view, "", FALSE), Vocabulary)
       IN /\ quick.error = full.error /\ IsPrefix(quick.shown, full.shown)
          /\ pdf.error = IF full.error # "none" THEN full.error ELSE second.error
          /\ pdf.error = "none" =>
               /\ Plain(pdf.shown) = Plain(full.shown \o second.shown)
               /\ \A i \in DOMAIN pdf.shown : pdf.shown[i].link \in {"none", "label"}

\* Both, for every document: what a reader is shown of an entry, whole, in a quick view
\* or bundled in a PDF, is what the nesting of its fences says.
ViewsAreExact == ViewsAreAsNested /\ ExcerptsAreOfViews

\* The facet of the nearest card around line i.
NearestFacet(doc, i) ==
    LET cards == {j \in Around(doc, i) : doc[j].kind = "card"}
    IN IF cards = {} THEN NoFacet ELSE doc[Greatest(cards)].facet

\* Every link of a document that parses is in the index once, under the facet of the
\* nearest card around it; one that does not parse is refused at its first stray fence,
\* or else at the last one that is left open.
LinksAreIndexed ==
    \A entry \in DOMAIN project :
      LET doc == project[entry]
          parsed == Parse(doc)
          links == Extract(doc, parsed)
          strays == {i \in DOMAIN doc : Level(doc, i + 1) < 0}
          open == {j \in DOMAIN doc : Opens(doc[j]) /\
                      \A k \in j + 1 .. Len(doc) + 1 : Level(doc, k) > Level(doc, j)}
      IN IF Balanced(doc)
         THEN /\ parsed.bad = 0
              /\ \A to \in Names, f \in CardFacets \cup {NoFacet} :
                    Cardinality({k \in DOMAIN links : links[k] = [to |-> to, facet |-> f]})
                    = Cardinality({i \in DOMAIN doc : doc[i].to = to /\ NearestFacet(doc, i) = f})
         ELSE parsed.bad = IF strays # {} THEN Least(strays) ELSE Greatest(open)
=============================================================================
