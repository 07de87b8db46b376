---------------------------- MODULE ContentEngine ----------------------------
(***************************************************************************)
(* What the content engine (pkg/contentengine) makes of an entry: its      *)
(* blocks, the views that may be shown of it, their rendering with the     *)
(* links that are expanded, the PDF, and the index of links.               *)
(* A document is a sequence of lines: an opening fence of a secret or of a *)
(* card with its facet, a closing fence, or a line of text, with at most   *)
(* one link, to the path of an entry. A project is a function from paths   *)
(* to documents. What is shown is a sequence of lines, each with the entry *)
(* it is of and the way its link appears; markup is left out.              *)
(***************************************************************************)
EXTENDS Integers, Sequences, FiniteSets, SequencesExt

NoFacet == ""
NoLink == ""

Text(to) == [kind |-> "text", facet |-> NoFacet, to |-> to]
Secret == [kind |-> "secret", facet |-> NoFacet, to |-> NoLink]
Card(f) == [kind |-> "card", facet |-> f, to |-> NoLink]
Close == [kind |-> "close", facet |-> NoFacet, to |-> NoLink]

Opens(line) == line.kind \in {"secret", "card"}

-----------------------------------------------------------------------------
(* parse. A block is named by the line it begins at: a fence, or the first *)
(* of some lines of text, which is a block of prose.                       *)

\* MalformedDirective, at a line.
Malformed(line) == [blocks |-> << >>, next |-> 0, bad |-> line]
Parsed(blocks, next) == [blocks |-> blocks, next |-> next, bad |-> 0]

\* flushProse: the end of the lines of text that begin at i.
ProseEnd(doc, i) ==
    CHOOSE j \in i .. Len(doc) :
        /\ \A k \in i .. j : doc[k].kind = "text"
        /\ j = Len(doc) \/ doc[j + 1].kind # "text"

\* parseBlocks from line i, inside the block that the fence at line open begins (0: none).
\* parse has the results of the calls from a later line.
ParseBlocks(doc, parse, i, open) ==
    LET Before(rest) == IF rest.bad # 0 THEN rest ELSE Parsed(<<i>> \o rest.blocks, rest.next)
    IN IF i > Len(doc) THEN
            IF open # 0 THEN Malformed(open) ELSE Parsed(<< >>, i)
       ELSE IF doc[i].kind = "close" THEN
            IF open = 0 THEN Malformed(i) ELSE Parsed(<< >>, i + 1)
       ELSE IF doc[i].kind = "text" THEN Before(parse[ProseEnd(doc, i) + 1][open])
       ELSE LET nested == parse[i + 1][i]
            IN IF nested.bad # 0 THEN nested ELSE Before(parse[nested.next][open])

Parses(doc) ==
    LET parse[i \in 1 .. Len(doc) + 1] ==
          [open \in 0 .. Len(doc) |-> ParseBlocks(doc, parse, i, open)]
    IN parse

Parse(doc) == Parses(doc)[1][0]

\* The elements of a sequence that are in S.
Among(s, S) == FlattenSeq([i \in DOMAIN s |-> IF s[i] \in S THEN <<s[i]>> ELSE << >>])

TextLines(doc) == {i \in DOMAIN doc : doc[i].kind = "text"}

\* What is directly in a container.
Within(doc, block) == Parses(doc)[block + 1][block].blocks

ProseLines(doc, block) == [k \in 1 .. ProseEnd(doc, block) - block + 1 |-> block + k - 1]

\* Block.Content, with splitDirect: a container's prose becomes its content.
Content(doc, block) ==
    IF Opens(doc[block])
    THEN LET prose == Among(Within(doc, block), TextLines(doc))
         IN FlattenSeq([i \in DOMAIN prose |-> ProseLines(doc, prose[i])])
    ELSE ProseLines(doc, block)

\* Block.Blocks
Blocks(doc, block) ==
    IF Opens(doc[block]) THEN Among(Within(doc, block), DOMAIN doc \ TextLines(doc)) ELSE << >>

-----------------------------------------------------------------------------
(* filter.                                                                 *)

\* A view: its kind (dm, player, card), the facet of a card view, and whether it is quick.
View(kind, facet, quick) == [kind |-> kind, facet |-> facet, quick |-> quick]

\* parseView: view and card are mutually exclusive; what is not player is dm.
BadView == View("bad", NoFacet, FALSE)
ParseView(view, card, quick) ==
    IF view # "" /\ card # "" THEN BadView
    ELSE IF card # "" THEN View("card", card, quick)
    ELSE IF view = "player" THEN View("player", NoFacet, quick)
    ELSE View("dm", NoFacet, quick)

\* All blocks, a block before those in it: the order of collectCards and findCard.
Flat(doc, blocks) ==
    LET flat[block \in DOMAIN doc] ==
          LET nested == Blocks(doc, block)
          IN <<block>> \o FlattenSeq([i \in DOMAIN nested |-> flat[nested[i]]])
    IN FlattenSeq([i \in DOMAIN blocks |-> flat[blocks[i]]])

\* Whether every card's facet is in the vocabulary.
ValidFacets(doc, blocks, vocabulary) ==
    \A b \in ToSet(Flat(doc, blocks)) : doc[b].kind = "card" => doc[b].facet \in vocabulary

StripSecrets(doc, blocks) == Among(blocks, {b \in DOMAIN doc : doc[b].kind # "secret"})

\* The cards come without the blocks in them, which are never rendered.
CollectCards(doc, blocks, facet) == Among(Flat(doc, blocks), {b \in DOMAIN doc : doc[b] = Card(facet)})

Quick(blocks, view) == IF view.quick /\ blocks # << >> THEN <<Head(blocks)>> ELSE blocks

\* UnknownFacet
Unknown(doc, blocks, view, vocabulary) ==
    \/ ~ValidFacets(doc, blocks, vocabulary)
    \/ view.kind = "card" /\ view.facet \notin vocabulary

\* Filter: the blocks a view is left with.
Filter(doc, blocks, view) ==
    Quick(CASE view.kind = "card" -> CollectCards(doc, blocks, view.facet)
            [] view.kind = "player" -> StripSecrets(doc, blocks)
            [] OTHER -> blocks, view)

-----------------------------------------------------------------------------
(* render.                                                                 *)

\* cardContent, findCard: the first card of that facet in an entry, if it parses.
CardsIn(doc, facet) == CollectCards(doc, Parse(doc).blocks, facet)
CardContent(doc, facet) == Content(doc, Head(CardsIn(doc, facet)))

\* decideLinks: what a link of a card view at depth 0 leads to. "gone": not attempted.
Decision(project, to, view, depth) ==
    IF depth # 0 \/ view.kind # "card" \/ to \notin DOMAIN project THEN "gone"
    ELSE IF CardsIn(project[to], view.facet) = << >> THEN "lacks"
    ELSE "expanded"

\* resolveInline: a label, or what the LinkRenderer makes of the link. That of the PDF
\* ("labels") gives the label alone, those of content and of the CLI a link or a command,
\* noted when the entry lacks the card.
Inline(project, to, view, depth, renderer) ==
    LET d == Decision(project, to, view, depth)
    IN IF to = NoLink THEN "none"
       ELSE IF view.kind = "player" \/ d = "expanded" \/ renderer = "labels" THEN "label"
       ELSE IF d = "lacks" THEN "noted link"
       ELSE "link"

\* A block's own lines. The blocks in it are not rendered.
Lines(project, entry, lines, view, depth, renderer) ==
    [i \in DOMAIN lines |->
        [entry |-> entry, line |-> lines[i],
         link |-> Inline(project, project[entry][lines[i]].to, view, depth, renderer)]]

\* Slip: the blocks in a block are rendered with it.
RenderDeep(project, entry, block, view, renderer) ==
    LET doc == project[entry] nested == Blocks(doc, block)
    IN Lines(project, entry, Content(doc, block), view, 0, renderer)
       \o FlattenSeq([i \in DOMAIN nested |->
                        Lines(project, entry, Content(doc, nested[i]), view, 0, renderer)])

\* renderBlock at depth 0: in a card view, followed by the cards that its links lead to,
\* one for each link, with no expansion in them.
RenderBlock(project, entry, block, view, renderer) ==
    LET doc == project[entry] lines == Content(doc, block)
    IN Lines(project, entry, lines, view, 0, renderer)
       \o FlattenSeq([i \in DOMAIN lines |->
            LET to == doc[lines[i]].to
            IN IF doc[block].kind = "card" /\ Decision(project, to, view, 0) = "expanded"
               THEN Lines(project, to, CardContent(project[to], view.facet), view, 1, renderer)
               ELSE << >>])

Render(project, entry, blocks, view, renderer) ==
    FlattenSeq([i \in DOMAIN blocks |-> RenderBlock(project, entry, blocks[i], view, renderer)])

-----------------------------------------------------------------------------
(* content's render and export endpoints.                                  *)

\* What an endpoint answers: an error, or what is shown.
Error(status) == [error |-> status, shown |-> << >>]
Answer(shown) == [error |-> "none", shown |-> shown]

\* loadAndFilterEntry: 400 for a body that does not parse, 422 for an unknown facet.
Load(project, entry, view, vocabulary) ==
    LET doc == project[entry] parsed == Parse(doc)
    IN IF parsed.bad # 0 THEN Error("400")
       ELSE IF Unknown(doc, parsed.blocks, view, vocabulary) THEN Error("422")
       ELSE Answer(Filter(doc, parsed.blocks, view))

\* Render (content), renderCmd (cli)
Fragment(project, entry, view, vocabulary) ==
    LET loaded == Load(project, entry, view, vocabulary)
    IN IF loaded.error # "none" THEN loaded
       ELSE Answer(Render(project, entry, loaded.shown, view, "links"))

\* Bundle: the entries one after the other, rendered as dm with labels only. One that
\* cannot be loaded fails the whole.
Bundle(project, entries, view, vocabulary) ==
    LET loaded(i) == Load(project, entries[i], view, vocabulary)
        bad == {i \in DOMAIN entries : loaded(i).error # "none"}
    IN IF bad # {} THEN loaded(CHOOSE i \in bad : \A j \in bad : i <= j)
       ELSE Answer(FlattenSeq([i \in DOMAIN entries |->
              Render(project, entries[i], loaded(i).shown, View("dm", NoFacet, FALSE), "labels")]))

-----------------------------------------------------------------------------
(* linkindex.                                                              *)

\* The links in a block's content, with a facet.
Links(doc, block, facet) ==
    LET linked == Among(Content(doc, block), {k \in DOMAIN doc : doc[k].to # NoLink})
    IN [k \in DOMAIN linked |-> [to |-> doc[linked[k]].to, facet |-> facet]]

\* extractBlocks: every link, with the facet of the nearest card around it.
ExtractBlocks(doc, blocks) ==
    LET extract[block \in DOMAIN doc] ==
          [facet \in {NoFacet} \cup {doc[k].facet : k \in DOMAIN doc} |->
             LET own == IF doc[block].kind = "card" THEN doc[block].facet ELSE facet
                 nested == Blocks(doc, block)
             IN Links(doc, block, own) \o FlattenSeq([i \in DOMAIN nested |-> extract[nested[i]][own]])]
    IN FlattenSeq([i \in DOMAIN blocks |-> extract[blocks[i]][NoFacet]])

\* Slip: the facet is that of the block itself.
ExtractOwn(doc, parsed) ==
    LET flat == Flat(doc, parsed.blocks)
    IN FlattenSeq([i \in DOMAIN flat |-> Links(doc, flat[i], doc[flat[i]].facet)])

Extract(doc, parsed) == ExtractBlocks(doc, parsed.blocks)
=============================================================================
