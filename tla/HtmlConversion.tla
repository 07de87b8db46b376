--------------------------- MODULE HtmlConversion ---------------------------
(***************************************************************************)
(* The conversion of a legacy body, HTML of the old editor, to markdown    *)
(* (svc/internal/migrate, html.go and convert.go).                         *)
(* A body is its nodes in the order of the document, the first is <body>   *)
(* itself. A node is a tag, the annotation of a GM mark, and the numbers   *)
(* of its children. What comes out is blocks, those of GM marks secret,    *)
(* with the texts in each. Wording and markdown syntax are left out, and   *)
(* texts with a line that begins with ":::".                               *)
(***************************************************************************)
EXTENDS Integers, Sequences, FiniteSets, SequencesExt

Node(tag, children) == [tag |-> tag, id |-> 0, children |-> children]
GMMark(id, children) == [tag |-> "gm", id |-> id, children |-> children]
TextNode == Node("text", << >>)

Flows == {"p", "span"}                     \* P, Div, and a Span that is no mention
Inlines == {"strong", "span", "mention"}   \* also Em, A
Marks == {"gm", "mark"}

\* The text of a node, and that of an annotation.
Word(n) == <<"text", n>>
Row(id) == <<"row", id>>

\* What a node gives: its texts, whether something was flagged, and the annotations used.
Gives(words, flagged, consumed) == [words |-> words, flagged |-> flagged, consumed |-> consumed]

\* What nodes give, one after the other.
Together(gives) ==
    Gives(FlattenSeq([i \in DOMAIN gives |-> gives[i].words]),
          \E i \in DOMAIN gives : gives[i].flagged,
          UNION {gives[i].consumed : i \in DOMAIN gives})

\* renderNode: a node as it is, with all its texts
RenderNode(body) ==
    LET render[n \in DOMAIN body] ==
          LET children == body[n].children
          IN IF body[n].tag = "text" THEN <<Word(n)>>
             ELSE FlattenSeq([i \in DOMAIN children |-> render[children[i]]])
    IN render

\* inlineText: a mark or a block is not expected here, and flagged.
InlineText(body) ==
    LET inline[n \in DOMAIN body] ==
          LET children == body[n].children
              given == Together([i \in DOMAIN children |-> inline[children[i]]])
          IN CASE body[n].tag = "text" -> Gives(<<Word(n)>>, FALSE, {})
               [] body[n].tag \in Inlines -> given
               [] body[n].tag \in Marks -> [given EXCEPT !.flagged = TRUE]
               [] OTHER -> Gives(RenderNode(body)[n], TRUE, {})
    IN inline

InlineChildren(body, n) ==
    LET children == body[n].children
    IN Together([i \in DOMAIN children |-> InlineText(body)[children[i]]])

\* A slip: the mark keeps its own text.
SecretTextOwn(body, n, rows) ==
    [InlineChildren(body, n) EXCEPT !.consumed = {body[n].id} \cap rows]

\* secretTextFor: the text of the annotation, if it is there, in place of that of the mark
SecretText(body, n, rows) ==
    IF body[n].id \in rows THEN Gives(<<Row(body[n].id)>>, FALSE, {body[n].id})
                           ELSE InlineChildren(body, n)

Block(secret, gives) == [secret |-> secret, gives |-> gives]

\* mixedBlocks: a GM mark is a block of its own, what is between marks is one block.
MixedBlocks(body, n, rows) ==
    LET children == body[n].children
        after[i \in 0 .. Len(children)] ==   \* the blocks, and the texts not yet in one
          IF i = 0 THEN [blocks |-> << >>, inline |-> << >>]
          ELSE IF body[children[i]].tag = "gm"
          THEN [blocks |-> after[i - 1].blocks
                           \o <<Block(FALSE, Together(after[i - 1].inline)),
                                Block(TRUE, SecretText(body, children[i], rows))>>,
                inline |-> << >>]
          ELSE [after[i - 1] EXCEPT !.inline = Append(@, InlineText(body)[children[i]])]
        last == after[Len(children)]
    IN Append(last.blocks, Block(FALSE, Together(last.inline)))

\* list: its items; what is not in an item is left out.
ListBlock(body, n) ==
    LET children == body[n].children
    IN Block(FALSE, Together([i \in DOMAIN children |->
                IF body[children[i]].tag = "li" THEN InlineChildren(body, children[i])
                                                ELSE Gives(<< >>, FALSE, {})]))

\* blocksFor
BlocksFor(body, n, rows) ==
    CASE body[n].tag = "text" -> <<Block(FALSE, Gives(<<Word(n)>>, FALSE, {}))>>
      [] body[n].tag \in {"h", "mark", "mention"} -> <<Block(FALSE, InlineChildren(body, n))>>
      [] body[n].tag \in Flows -> MixedBlocks(body, n, rows)
      [] body[n].tag = "ul" -> <<ListBlock(body, n)>>
      [] body[n].tag = "gm" -> <<Block(TRUE, SecretText(body, n, rows))>>
      [] OTHER -> <<Block(FALSE, Gives(RenderNode(body)[n], TRUE, {}))>>

\* ConvertHTMLWithAnnotations
ConvertHTML(body, rows) ==
    LET nodes == body[1].children
    IN FlattenSeq([i \in DOMAIN nodes |-> BlocksFor(body, nodes[i], rows)])

\* trailingSecrets: the annotations that no mark has used, a block each
TrailingSecrets(rows, consumed) ==
    SetToSeq({Block(TRUE, Gives(<<Row(id)>>, FALSE, {})) : id \in rows \ consumed})

\* ConvertEntry, for an entry with these annotations (the quick view's card is left out)
ConvertEntry(body, rows) ==
    LET blocks == ConvertHTML(body, rows)
    IN blocks \o TrailingSecrets(rows, UNION {blocks[i].gives.consumed : i \in DOMAIN blocks})
=============================================================================
