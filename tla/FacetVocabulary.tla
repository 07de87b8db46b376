-------------------------- MODULE FacetVocabulary ---------------------------
(***************************************************************************)
(* The facets that the cards of a project may name: the global ones and    *)
(* the project's own (content, handler/facets.go), against the bodies of   *)
(* its entries, which are validated against them when they are written     *)
(* (entries.go) or imported (importer.go) and rendered with them later.    *)
(* The vocabulary is read in one statement and the body written in         *)
(* another call, to MinIO; facets come and go in between.                  *)
(*                                                                         *)
(* A body stands for the facets its cards name. What else a request does   *)
(* to an entry is in EntryStore. Of a body without a row nothing is said:  *)
(* an id whose request failed may be handed out again here.                *)
(***************************************************************************)
EXTENDS Naturals, FiniteSets

CONSTANTS
    Names,     \* facets that requests and cards name
    Kebab,     \* those of them in kebab case, which the CHECK constraints admit
    Seeds,     \* the facets that a new database has
    Docs,      \* ids of entries of the project; a bound
    CardSets,  \* what the cards of a body name
    Uploads,   \* what imports upload: the cards of one body or more
    Callers,   \* requests in flight at a time; a bound
    MaxCalls   \* bound: requests of more than one step

ASSUME VocabularyAssumption ==
    /\ Seeds \subseteq Kebab /\ Kebab \subseteq Names
    /\ CardSets \subseteq SUBSET Names
    /\ Uploads \subseteq UNION {[docs -> CardSets] : docs \in (SUBSET Docs) \ {{}}}
    /\ MaxCalls \in Nat

VARIABLES
    facets,    \* table facets
    own,       \* table project_facets, of the project
    stored,    \* entries with a row
    uses,      \* MinIO: the facets that the body of each entry names
    call,      \* the request each caller has made, with the values it has read
    open,      \* the caller whose import transaction is open, if any
    calls,     \* requests made so far
    gone,      \* facets lost since each request read the vocabulary (ghost)
    excused    \* facets lost since the body's request did (ghost)

tablesOfFacets == <<facets, own>>
ghosts == <<gone, excused>>
vocabVars == <<tablesOfFacets, stored, uses, call, open, calls, ghosts>>

\* effectiveFacetVocabulary
Effective == facets \cup own

Free == [op |-> "free"]

VocabInit ==
    /\ facets = Seeds /\ own = {}
    /\ stored = {} /\ uses = [d \in Docs |-> {}]
    /\ call = [c \in Callers |-> Free]
    /\ open = {} /\ calls = 0
    /\ gone = [c \in Callers |-> {}]
    /\ excused = [d \in Docs |-> {}]

\* SetMaxOpenConns(1): a transaction keeps every other request from the database.
NoTransaction == open = {}

\* A request that goes on after reading the vocabulary.
Ask(c, r) ==
    /\ call[c] = Free /\ NoTransaction
    /\ calls < MaxCalls /\ calls' = calls + 1
    /\ call' = [call EXCEPT ![c] = r]
    /\ UNCHANGED <<tablesOfFacets, stored, uses, open, ghosts>>

Proceed(c, r) == call' = [call EXCEPT ![c] = r] /\ UNCHANGED <<calls, gone>>

Answered(c) ==
    /\ call' = [call EXCEPT ![c] = Free]
    /\ gone' = [gone EXCEPT ![c] = {}]
    /\ UNCHANGED calls

\* Facets leave the vocabulary: bodies that name them and requests under way are excused.
Excuse(lost) ==
    /\ excused' = [d \in Docs |-> excused[d] \cup (lost \cap uses[d])]
    /\ gone' = [c \in Callers |-> IF call'[c] = Free THEN {} ELSE gone[c] \cup lost]

-----------------------------------------------------------------------------
(* FacetsHandler. Names that are not in kebab case are refused with 400.   *)

CreateGlobal(f) ==
    /\ f \in Kebab /\ NoTransaction
    /\ facets' = facets \cup {f}
    /\ UNCHANGED <<own, stored, uses, call, open, calls, ghosts>>

DeleteGlobal(f) ==
    /\ NoTransaction
    /\ facets' = facets \ {f}
    /\ UNCHANGED <<own, stored, uses, call, open, calls>>
    /\ Excuse({f} \ own)

\* A facet that is in the vocabulary is answered as it is.
CreateForProject(c) ==
    \E f \in Kebab : f \notin Effective /\ Ask(c, [op |-> "add", name |-> f])

\* INSERT OR IGNORE
InsertForProject(c) ==
    /\ call[c].op = "add" /\ NoTransaction
    /\ own' = own \cup {call[c].name}
    /\ Answered(c)
    /\ UNCHANGED <<facets, stored, uses, open, excused>>

DeleteForProject(f) ==
    /\ NoTransaction
    /\ own' = own \ {f}
    /\ UNCHANGED <<facets, stored, uses, call, open, calls>>
    /\ Excuse({f} \ facets)

-----------------------------------------------------------------------------
(* EntriesHandler.Create and Update with a body.                           *)

\* The id of a row, or one by newID, which no request is about to store.
Addressable(d) ==
    d \in stored \/ \A c \in Callers : call[c].op = "save" => call[c].doc # d

\* validateFacets looks at every card, at any depth.
Admitted(cards) == cards \subseteq Effective

\* 422 if a card names a facet outside of the vocabulary.
Validate(c) ==
    \E d \in Docs, used \in CardSets :
        /\ Addressable(d)
        /\ Admitted(used)
        /\ Ask(c, [op |-> "save", doc |-> d, uses |-> used, put |-> FALSE])

SavePut(c) ==
    LET r == call[c]
    IN /\ r.op = "save" /\ ~r.put
       /\ uses' = [uses EXCEPT ![r.doc] = r.uses]
       /\ excused' = [excused EXCEPT ![r.doc] = gone[c]]
       /\ Proceed(c, [r EXCEPT !.put = TRUE])
       /\ UNCHANGED <<tablesOfFacets, stored, open>>

SaveCommit(c) ==
    /\ call[c].op = "save" /\ call[c].put /\ NoTransaction
    /\ stored' = stored \cup {call[c].doc}
    /\ Answered(c)
    /\ UNCHANGED <<tablesOfFacets, uses, open, excused>>

-----------------------------------------------------------------------------
(* ImportHandler.ImportProject.                                            *)

\* Slip: one missing facet of an entry is noted, the first that validateFacets reports.
FirstMissing(files) ==
    {CHOOSE f \in files[d] \ Effective : TRUE :
       d \in {e \in DOMAIN files : files[e] \ Effective # {}}}

\* The facets that an import has to create.
Missing(files) == (UNION {files[d] : d \in DOMAIN files}) \ Effective

\* The vocabulary is read, outside of the transaction. Missing facets are refused unless
\* they are to be created, and those that cannot be in any case.
ImportValidate(c) ==
    \E files \in Uploads, createFacets \in BOOLEAN :
        /\ Missing(files) \subseteq IF createFacets THEN Kebab ELSE {}
        /\ Ask(c, [op |-> "import", files |-> files, missing |-> Missing(files), written |-> {}])

\* BeginTx and the plain INSERTs; which entries are there to overwrite is looked up now.
ImportCreate(c) ==
    LET r == call[c]
    IN /\ r.op = "import" /\ NoTransaction
       /\ \A d \in DOMAIN r.files : Addressable(d)
       /\ r.missing \cap own = {}
       /\ own' = own \cup r.missing
       /\ open' = {c}
       /\ UNCHANGED <<facets, stored, uses, call, calls, ghosts>>

\* A missing facet has been added to the project since: UNIQUE fails, 500.
ImportRefused(c) ==
    LET r == call[c]
    IN /\ r.op = "import" /\ NoTransaction
       /\ r.missing \cap own # {}
       /\ Answered(c)
       /\ UNCHANGED <<tablesOfFacets, stored, uses, open, excused>>

ImportWrite(c) ==
    LET r == call[c]
    IN /\ c \in open
       /\ \E d \in DOMAIN r.files \ r.written :
            /\ uses' = [uses EXCEPT ![d] = r.files[d]]
            /\ excused' = [excused EXCEPT ![d] = gone[c]]
            /\ Proceed(c, [r EXCEPT !.written = @ \cup {d}])
       /\ UNCHANGED <<tablesOfFacets, stored, open>>

ImportDone(c) ==
    LET r == call[c]
    IN /\ c \in open /\ r.written = DOMAIN r.files
       /\ stored' = stored \cup DOMAIN r.files
       /\ open' = {}
       /\ Answered(c)
       /\ UNCHANGED <<tablesOfFacets, uses, excused>>

\* A dry run, a path that is taken under onConflict=fail, or a failure at any point: the
\* facets go with the transaction, the bodies of overwritten entries stay.
ImportRollback(c) ==
    LET r == call[c]
    IN /\ c \in open
       /\ own' = own \ r.missing
       /\ open' = {}
       /\ uses' = [d \in Docs |-> IF d \in r.written \ stored THEN {} ELSE uses[d]]
       /\ call' = [call EXCEPT ![c] = Free]
       /\ Excuse(r.missing \ facets)
       /\ UNCHANGED <<facets, stored, calls>>

-----------------------------------------------------------------------------

\* A request goes no further before its transaction.
GiveUp(c) ==
    /\ call[c] # Free /\ c \notin open
    /\ Answered(c)
    /\ UNCHANGED <<tablesOfFacets, stored, uses, open, excused>>

VocabNext ==
    \/ \E f \in Names : CreateGlobal(f) \/ DeleteGlobal(f) \/ DeleteForProject(f)
    \/ \E c \in Callers :
         \/ CreateForProject(c) \/ InsertForProject(c)
         \/ Validate(c) \/ SavePut(c) \/ SaveCommit(c)
         \/ ImportValidate(c) \/ ImportCreate(c) \/ ImportRefused(c)
         \/ ImportWrite(c) \/ ImportDone(c) \/ ImportRollback(c)
         \/ GiveUp(c)

VocabSpec == VocabInit /\ [][VocabNext]_vocabVars

-----------------------------------------------------------------------------
(* Properties.                                                             *)

Call ==
    {Free}
    \cup [op : {"add"}, name : Kebab]
    \cup [op : {"save"}, doc : Docs, uses : CardSets, put : BOOLEAN]
    \cup [op : {"import"}, files : Uploads,
          missing : SUBSET Kebab, written : SUBSET Docs]

\* Only facets in kebab case are in the vocabulary, which is what keeps the statements of
\* an import from failing of the CHECK constraint; and one import at a time is in its
\* transaction.
VocabTypeOK ==
    /\ facets \subseteq Kebab /\ own \subseteq Kebab
    /\ stored \subseteq Docs
    /\ uses \in [Docs -> SUBSET Names]
    /\ call \in [Callers -> Call]
    /\ open \subseteq {c \in Callers : call[c].op = "import"}
    /\ \A c, e \in open : c = e
    /\ calls \in 0 .. MaxCalls
    /\ gone \in [Callers -> SUBSET Names]
    /\ \A c \in Callers : call[c] = Free => gone[c] = {}
    /\ excused \in [Docs -> SUBSET Names]

\* Every facet that a stored body names is one that its project knows, so that it renders,
\* except one that was removed, or rolled back with a failed import, after the request that
\* wrote the body had read the vocabulary.
UsedIsKnown == \A d \in stored : uses[d] \subseteq Effective \cup excused[d]

=============================================================================
