---------------------------- MODULE LegacyBodies ----------------------------
(***************************************************************************)
(* What the conversion of a legacy body owes to those who wrote it, by the *)
(* nodes around each of its texts.                                         *)
(***************************************************************************)
EXTENDS HtmlConversion

CONSTANT Legacies   \* the legacy entries there may be: sets of bodies with their annotations

\* Every node but the first is a child of one other, once, and comes after it.
IsTree(body) ==
    /\ \A n \in DOMAIN body : body[n].children \in Seq(n + 1 .. Len(body))
    /\ \A k \in 2 .. Len(body) :
          \E n \in DOMAIN body : \E i \in DOMAIN body[n].children : body[n].children[i] = k
    /\ \A m, n \in DOMAIN body :
          \A i \in DOMAIN body[m].children, j \in DOMAIN body[n].children :
             body[m].children[i] = body[n].children[j] => m = n /\ i = j

IsBody(body) ==
    /\ body # << >> /\ body \in Seq([tag : STRING, id : Nat, children : Seq(Nat)])
    /\ IsTree(body)
    /\ body[1].tag = "body"
    /\ \A n \in DOMAIN body :
          /\ body[n].tag = "text" => body[n].children = << >>
          /\ body[n].id # 0 => body[n].tag = "gm"

ASSUME LegacyAssumption ==
    \A legacy \in Legacies : \A e \in legacy :
        IsBody(e.body) /\ e.rows \in SUBSET (Nat \ {0}) /\ IsFiniteSet(e.rows)

VARIABLE legacy

LegacySpec == legacy \in Legacies /\ [][legacy' \in Legacies]_legacy

-----------------------------------------------------------------------------
(* Properties.                                                             *)

Parents(body, n) == {m \in DOMAIN body : \E i \in DOMAIN body[m].children : body[m].children[i] = n}

\* The nodes around each node.
Above(body) ==
    LET above[n \in DOMAIN body] == Parents(body, n) \cup UNION {above[m] : m \in Parents(body, n)}
    IN above

Marked(body, n) == \E m \in Above(body)[n] : body[m].tag = "gm"
Replaced(body, rows, n) == \E m \in Above(body)[n] : body[m].id \in rows

\* In a list, outside of its items.
Astray(body, n) ==
    \E k \in {n} \cup Above(body)[n] :
        body[k].tag # "li" /\ \E m \in Parents(body, k) : body[m].tag = "ul"

\* The texts that only the GM is shown, or those that everyone is.
TextsOf(blocks, secret) ==
    FlattenSeq([i \in DOMAIN blocks |->
                  IF blocks[i].secret = secret THEN blocks[i].gives.words ELSE << >>])

Public(blocks) == TextsOf(blocks, FALSE)
Hidden(blocks) == TextsOf(blocks, TRUE)

Times(blocks, word) ==
    Cardinality({i \in DOMAIN Public(blocks) : Public(blocks)[i] = word})
    + Cardinality({i \in DOMAIN Hidden(blocks) : Hidden(blocks)[i] = word})

\* The blocks keep what these annotations and the marks of this body hide, and all else.
Keeps(blocks, body, rows) ==
    LET leaves == {n \in DOMAIN body : body[n].tag = "text"}
    IN /\ \/ \E i \in DOMAIN blocks : blocks[i].gives.flagged
          \/ \A n \in leaves : Marked(body, n) => Word(n) \notin ToSet(Public(blocks))
       /\ \A id \in rows : Row(id) \in ToSet(Hidden(blocks)) \ ToSet(Public(blocks))
       /\ \A n \in leaves :
             ~Replaced(body, rows, n) /\ ~Astray(body, n) => Times(blocks, Word(n)) = 1

\* Converted, a legacy entry shows no text of a GM mark or annotation to players, unless
\* something in it was flagged for a human to look at; every annotation is in a secret; and
\* every other text is there once, but that of a mark whose annotation replaces it and what
\* is in a list outside of its items.
ConversionKeepsSecrets ==
    \A e \in legacy : Keeps(ConvertEntry(e.body, e.rows), e.body, e.rows)
=============================================================================
