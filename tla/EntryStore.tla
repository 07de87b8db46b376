----------------------------- MODULE EntryStore -----------------------------
(***************************************************************************)
(* The entries of one project in content: a row of SQLite each, with rows  *)
(* of entry_links and of the search index derived from it, and a body that *)
(* lives in MinIO (handler/entries.go, assign.go, importer.go, links.go,   *)
(* links_handler.go, search.go).                                           *)
(*                                                                         *)
(* db.go opens one connection: a transaction excludes every other access   *)
(* to the database, but not to the bodies.  A handler is one step per      *)
(* transaction, statement or body operation, and two requests interleave   *)
(* between any two steps.  A text stands for a body with the title, the    *)
(* tags, the hash and the links that are computed from it.                 *)
(***************************************************************************)
EXTENDS ImportPlan, SequencesExt

CONSTANTS
    Ids,         \* ids of entries; a bound
    Slugs,       \* slugs that requests ask for
    Spelt,       \* what a link writes around a slug: a directory, with slashes or without
    SplitDir,    \* splitEntryPath: the directory in it
    JoinDir,     \* joinEntryPath: what it makes of a directory
    LinksOf,     \* the targets of a text's links, as it spells them
    Batches,     \* what imports upload
    Workers,     \* requests in flight at a time; a bound
    MaxRequests, \* bound: requests served
    None

EntryPaths == [dir : Dirs, slug : Slugs]

\* A target as entry_links keeps it, and the path that it resolves with.
Spelling == [dir : Spelt, slug : Seq(Nat)]
Split(s) == [s EXCEPT !.dir = SplitDir[s.dir]]
Join(path) == [path EXCEPT !.dir = JoinDir[path.dir]]

\* Spelled as joinEntryPath does not spell what it resolves with, for a slash too many.
Crooked(s) == Join(Split(s)) # s

ASSUME EntryAssumption ==
    /\ IsFiniteSet(Ids) /\ IsFiniteSet(Workers) /\ MaxRequests \in Nat
    /\ Slugs \subseteq Seq(Nat)
    /\ SplitDir \in [Spelt -> Dirs] /\ JoinDir \in [Dirs -> Spelt]
    /\ LinksOf \in [Texts -> SUBSET Spelling]
    /\ \A batch \in Batches : IsBatch(batch)
    /\ None \notin Ids \cup Texts \cup Workers
    /\ None \notin [path : Path, text : Texts]

VARIABLES
    row,         \* entries: the path, and the text that title, tags and hash are of
    links,       \* entry_links of each entry: a target, and the entry it resolved to
    fts,         \* entries_fts: the text that is indexed
    blob,        \* MinIO: the body
    req,         \* the request each worker serves, with the values it has read
    tx,          \* the worker whose import transaction is open
    born,        \* ids handed out by newID
    begun,       \* requests served so far
    contested,   \* requests that met another one about the same entry (ghost)
    disturbed,   \* entries whose last write was contested or cut short (ghost)
    strayed,     \* entries an Update or contested requests moved, or whose links a move of
                 \* another took (ghost)
    doomed,      \* entries a Delete was called for (ghost)
    rewritten,   \* entries whose links a move of another entry rewrote (ghost)
    imported     \* entries whose text came from an import (ghost)

tables == <<row, links, fts>>
traces == <<strayed, doomed, rewritten, imported>>
entryVars == <<tables, blob, req, tx, born, begun, contested, disturbed, traces>>

Idle == [op |-> "idle"]
Link == [to : Spelling, entry : Ids \cup {None}]
Exists(id) == row[id] # None

EntryInit ==
    /\ row = [id \in Ids |-> None]
    /\ links = [id \in Ids |-> {}]
    /\ fts = [id \in Ids |-> None]
    /\ blob = [id \in Ids |-> None]
    /\ req = [w \in Workers |-> Idle]
    /\ tx = None
    /\ begun = 0
    /\ born = {} /\ contested = {} /\ disturbed = {}
    /\ strayed = {} /\ doomed = {} /\ rewritten = {} /\ imported = {}

-----------------------------------------------------------------------------
(* Requests.                                                               *)

\* The entries that a request is about.
About(r) ==
    CASE r.op \in {"idle", "compile"} -> {}
      [] r.op = "import" -> {r.writes[i].id : i \in DOMAIN r.writes}
      [] OTHER -> {r.id}

Rivals(w, ids) == {v \in Workers \ {w} : About(req[v]) \cap ids # {}}

Begin(w, r) ==
    LET rivals == Rivals(w, About(r))
    IN /\ req[w] = Idle
       /\ begun < MaxRequests /\ begun' = begun + 1
       /\ req' = [req EXCEPT ![w] = r]
       /\ contested' = contested \cup rivals \cup (IF rivals = {} THEN {} ELSE {w})

Continue(w, r) == req' = [req EXCEPT ![w] = r] /\ UNCHANGED <<begun, contested>>

\* The request is answered.  Left to itself it settles some entries and spoils others.
End(w, settled, spoilt) ==
    /\ req' = [req EXCEPT ![w] = Idle]
    /\ contested' = contested \ {w}
    /\ UNCHANGED begun
    /\ disturbed' = IF w \in contested THEN disturbed \cup About(req[w])
                    ELSE (disturbed \ settled) \cup spoilt

\* SetMaxOpenConns(1)
DbFree == tx = None

\* UNIQUE(project_id, directory_path, slug)
PathFree(id, path) == \A i \in Ids \ {id} : Exists(i) => row[i].path # path

-----------------------------------------------------------------------------
(* Links and search rows.                                                  *)

Resolve(rows, path) ==
    LET at == {i \in Ids : rows[i] # None /\ rows[i].path = path}
    IN IF at = {} THEN None ELSE CHOOSE i \in at : TRUE

\* recompileLinks, which resolves against the rows of its own transaction.
Compiled(rows, text) == {[to |-> s, entry |-> Resolve(rows, Split(s))] : s \in LinksOf[text]}

\* entry_links.entry_id REFERENCES entries(id)
CanLink(rows, id, text) == rows[id] # None \/ LinksOf[text] = {}

Reresolved(rows, set) ==
    {IF l.entry = None THEN [l EXCEPT !.entry = Resolve(rows, Split(l.to))] ELSE l : l \in set}

\* Slip: the search row is left for later.
NotIndexed(ids, text) == fts

\* refreshSearchIndex
Indexed(ids, text) == [id \in Ids |-> IF id \in ids THEN text ELSE fts[id]]

-----------------------------------------------------------------------------
(* EntriesHandler.Create.                                                  *)

CreatePut(w) ==
    \E id \in Ids \ born, path \in EntryPaths, text \in Texts :
        /\ Begin(w, [op |-> "create", id |-> id, path |-> path, text |-> text])
        /\ blob' = [blob EXCEPT ![id] = text]
        /\ born' = born \cup {id}
        /\ UNCHANGED <<tables, tx, disturbed, traces>>

CreateCommit(w) ==
    LET r == req[w]
        rows == [row EXCEPT ![r.id] = [path |-> r.path, text |-> r.text]]
    IN /\ r.op = "create" /\ DbFree
       /\ PathFree(r.id, r.path)
       /\ row' = rows
       /\ links' = [links EXCEPT ![r.id] = Compiled(rows, r.text)]
       /\ fts' = Indexed({r.id}, r.text)
       /\ End(w, {r.id}, {})
       /\ UNCHANGED <<blob, tx, born, traces>>

\* The INSERT fails: the body is removed, if MinIO answers.
CreateFails(w) ==
    LET r == req[w]
    IN /\ r.op = "create" /\ DbFree
       /\ ~PathFree(r.id, r.path)
       /\ blob' \in {blob, [blob EXCEPT ![r.id] = None]}
       /\ End(w, {}, {})
       /\ UNCHANGED <<tables, tx, born, traces>>

-----------------------------------------------------------------------------
(* EntriesHandler.Update.                                                  *)

\* What the PATCH leaves out keeps the value that was read.
UpdateRead(w) ==
    \E id \in Ids : Exists(id) /\ DbFree /\
        \E dir \in Dirs, slug \in Slugs \cup {row[id].path.slug}, text \in Texts \cup {None} :
            /\ Begin(w, [op |-> "update", id |-> id, path |-> [dir |-> dir, slug |-> slug],
                         text |-> IF text = None THEN row[id].text ELSE text,
                         body |-> IF text = None THEN "same" ELSE "new"])
            /\ UNCHANGED <<tables, blob, tx, born, disturbed, traces>>

UpdatePut(w) ==
    LET r == req[w]
    IN /\ r.op = "update" /\ r.body = "new"
       /\ blob' = [blob EXCEPT ![r.id] = r.text]
       /\ Continue(w, [r EXCEPT !.body = "put"])
       /\ UNCHANGED <<tables, tx, born, disturbed, traces>>

\* The UPDATE succeeds when it changes no row, too; foreign keys are then the last guard.
CanUpdate(r) ==
    /\ Exists(r.id) => PathFree(r.id, r.path)
    /\ r.body = "put" => CanLink(row, r.id, r.text)

UpdateCommit(w) ==
    LET r == req[w]
        rows == IF Exists(r.id) THEN [row EXCEPT ![r.id] = [path |-> r.path, text |-> r.text]]
                ELSE row
        moved == Exists(r.id) /\ row[r.id].path # r.path
        saved == IF r.body = "put" THEN {r.id} ELSE {}
    IN /\ r.op = "update" /\ r.body # "new" /\ DbFree
       /\ CanUpdate(r)
       /\ row' = rows
       /\ links' = [id \in Ids |-> IF id \in saved THEN Compiled(rows, r.text) ELSE links[id]]
       /\ fts' = Indexed(saved, r.text)
       /\ End(w, saved, {})
       /\ strayed' = IF moved \/ w \in contested THEN strayed \cup {r.id} ELSE strayed
       /\ rewritten' = rewritten \ saved
       /\ imported' = imported \ saved
       /\ UNCHANGED <<blob, tx, born, doomed>>

\* 409 or 500, with the new body in place.
UpdateFails(w) ==
    LET r == req[w]
    IN /\ r.op = "update" /\ r.body # "new" /\ DbFree
       /\ ~CanUpdate(r)
       /\ End(w, {}, IF r.body = "put" THEN {r.id} ELSE {})
       /\ UNCHANGED <<tables, blob, tx, born, traces>>

-----------------------------------------------------------------------------
(* AssignHandler.Assign.                                                   *)

AssignRead(w) ==
    \E id \in Ids, dir \in Dirs :
        /\ Exists(id) /\ DbFree
        /\ Begin(w, [op |-> "assign", id |-> id, old |-> row[id].path, dir |-> dir])
        /\ UNCHANGED <<tables, blob, tx, born, disturbed, traces>>

\* The rows after the move: only the directory is written.
Moved(r) == IF Exists(r.id) THEN [row EXCEPT ![r.id].path.dir = r.dir] ELSE row

\* The collision check is made with the slug that was read, the UNIQUE constraint
\* with the one the row has now.
CanAssign(r) ==
    /\ PathFree(r.id, [r.old EXCEPT !.dir = r.dir])
    /\ Exists(r.id) => PathFree(r.id, [row[r.id].path EXCEPT !.dir = r.dir])

\* Slip: links are left as the texts spell them.
NotRedirected(r, set) == set

\* Links that spell the old path as joinEntryPath does are rewritten to the new one,
\* whoever they resolved to.
Redirected(r, set) ==
    {IF l.to = Join(r.old) THEN [l EXCEPT !.to.dir = JoinDir[r.dir]] ELSE l : l \in set}

\* The other entries that such links resolved to.
Bereft(r) == {l.entry : l \in {k \in UNION Range(links) : k.to = Join(r.old)}} \ {None, r.id}

\* The moved entry's own links are compiled again if its body could be fetched.
AssignCommit(w, fetched) ==
    LET r == req[w]
        own == IF fetched THEN {r.id} ELSE {}
        redirected == [id \in Ids |-> Redirected(r, links[id])]
    IN /\ r.op = "assign" /\ DbFree
       /\ CanAssign(r)
       /\ fetched => blob[r.id] # None /\ CanLink(row, r.id, blob[r.id])
       /\ row' = Moved(r)
       /\ links' = [id \in Ids |-> IF id \in own THEN Compiled(Moved(r), blob[id])
                                   ELSE redirected[id]]
       /\ End(w, {}, {})
       /\ strayed' = strayed \cup Bereft(r) \cup (IF w \in contested THEN {r.id} ELSE {})
       /\ rewritten' = (rewritten \cup {id \in Ids : redirected[id] # links[id]}) \ own
       /\ UNCHANGED <<fts, blob, tx, born, doomed, imported>>

\* 409, or the entry is gone and its links cannot be inserted: all is rolled back.
AssignFails(w) ==
    LET r == req[w]
    IN /\ r.op = "assign" /\ DbFree
       /\ \/ ~CanAssign(r)
          \/ blob[r.id] # None /\ ~CanLink(row, r.id, blob[r.id])
       /\ End(w, {}, {})
       /\ UNCHANGED <<tables, blob, tx, born, traces>>

-----------------------------------------------------------------------------
(* EntriesHandler.Delete: three calls, no transaction.                     *)

DeleteRead(w) ==
    \E id \in Ids :
        /\ Exists(id) /\ DbFree
        /\ Begin(w, [op |-> "delete", id |-> id, next |-> "body"])
        /\ doomed' = doomed \cup {id}
        /\ UNCHANGED <<tables, blob, tx, born, disturbed, strayed, rewritten, imported>>

\* A failure of MinIO is ignored.
DeleteBody(w) ==
    LET r == req[w]
    IN /\ r.op = "delete" /\ r.next = "body"
       /\ blob' \in {blob, [blob EXCEPT ![r.id] = None]}
       /\ Continue(w, [r EXCEPT !.next = "index"])
       /\ UNCHANGED <<tables, tx, born, disturbed, traces>>

\* Slip: the search row is expected to go with the entry, as its links do.
DeleteNoIndex(w) ==
    LET r == req[w]
    IN /\ r.op = "delete" /\ r.next = "index" /\ DbFree
       /\ Continue(w, [r EXCEPT !.next = "row"])
       /\ UNCHANGED <<tables, blob, tx, born, disturbed, traces>>

DeleteIndex(w) ==
    LET r == req[w]
    IN /\ r.op = "delete" /\ r.next = "index" /\ DbFree
       /\ fts' = [fts EXCEPT ![r.id] = None]
       /\ Continue(w, [r EXCEPT !.next = "row"])
       /\ UNCHANGED <<row, links, blob, tx, born, disturbed, traces>>

\* Its links cascade; links of others that resolved to it stay.
DeleteRow(w) ==
    LET r == req[w]
    IN /\ r.op = "delete" /\ r.next = "row" /\ DbFree
       /\ row' = [row EXCEPT ![r.id] = None]
       /\ links' = [links EXCEPT ![r.id] = {}]
       /\ End(w, {}, {})
       /\ UNCHANGED <<fts, blob, tx, born, traces>>

-----------------------------------------------------------------------------
(* ImportHandler.ImportProject with mode=apply.                            *)

\* blobWrites: a fresh id for each creation, the entry's own for each overwrite.
WritesOf(report, ids) ==
    LET writes[n \in 0 .. Len(report)] ==
            IF n = 0 THEN <<>>
            ELSE LET a == report[n]
                     id == IF a.action = "create" THEN ids[n] ELSE Resolve(row, a.path)
                 IN IF a.action \in {"create", "overwrite"}
                    THEN Append(writes[n - 1], [id |-> id, path |-> a.path, text |-> a.text,
                                                preexisting |-> a.action = "overwrite"])
                    ELSE writes[n - 1]
    IN writes[Len(report)]

\* BeginTx, and every statement of the first loop.
ImportBegin(w) ==
    \E batch \in Batches, mode \in Modes :
        LET report == Plan(batch, mode, {row[id].path : id \in {i \in Ids : Exists(i)}})
        IN /\ DbFree
           /\ ~Refused(report)
           /\ \E ids \in {f \in [DOMAIN batch -> Ids \ born] : IsInjective(f)} :
                 LET writes == WritesOf(report, ids)
                 IN /\ Begin(w, [op |-> "import", writes |-> writes, done |-> 0])
                    /\ born' = born \cup {writes[i].id : i \in DOMAIN writes}
           /\ tx' = w
           /\ UNCHANGED <<tables, blob, disturbed, traces>>

ImportPut(w) ==
    LET r == req[w]
        i == r.done + 1
    IN /\ r.op = "import" /\ r.done < Len(r.writes)
       /\ blob' = [blob EXCEPT ![r.writes[i].id] = r.writes[i].text]
       /\ Continue(w, [r EXCEPT !.done = i])
       /\ UNCHANGED <<tables, tx, born, disturbed, traces>>

\* The rows, then the links of all of them, then every dangling link of the project.
ImportCommit(w) ==
    LET r == req[w]
        ids == About(r)
        write == [id \in ids |-> CHOOSE x \in ToSet(r.writes) : x.id = id]
        rows == [id \in Ids |-> IF id \in ids
                                THEN [path |-> write[id].path, text |-> write[id].text]
                                ELSE row[id]]
        compiled == [id \in Ids |-> IF id \in ids THEN Compiled(rows, write[id].text)
                                    ELSE links[id]]
    IN /\ r.op = "import" /\ r.done = Len(r.writes)
       /\ row' = rows
       /\ links' = [id \in Ids |-> Reresolved(rows, compiled[id])]
       /\ tx' = None
       /\ End(w, ids, {})
       /\ rewritten' = rewritten \ ids
       /\ imported' = imported \cup ids
       /\ UNCHANGED <<fts, blob, born, strayed, doomed>>

\* The entries whose body an import has replaced so far.
Overwritten(r) == {r.writes[i].id : i \in {j \in 1 .. r.done : r.writes[j].preexisting}}

\* Slip: the undo does not spare the bodies that were there before.
AllWritten(r) == About(r)

\* undoBlobWrites removes what is not preexisting.
Fresh(r) == {r.writes[i].id : i \in {j \in DOMAIN r.writes : ~r.writes[j].preexisting}}

\* A Put or the Commit fails: bodies that were not there before are removed.
ImportFails(w) ==
    LET r == req[w]
    IN /\ r.op = "import"
       /\ blob' = [id \in Ids |-> IF id \in Fresh(r) THEN None ELSE blob[id]]
       /\ tx' = None
       /\ End(w, {}, Overwritten(r))
       /\ UNCHANGED <<tables, born, traces>>

-----------------------------------------------------------------------------
(* LinksHandler.CompileProject.                                            *)

CompileRead(w) ==
    /\ DbFree
    /\ Begin(w, [op |-> "compile", ids |-> {id \in Ids : Exists(id)}])
    /\ UNCHANGED <<tables, blob, tx, born, disturbed, traces>>

CanCompile(r) == \A id \in r.ids : blob[id] # None /\ CanLink(row, id, blob[id])

CompileCommit(w) ==
    LET r == req[w]
    IN /\ r.op = "compile" /\ DbFree
       /\ CanCompile(r)
       /\ links' = [id \in Ids |-> IF id \in r.ids THEN Compiled(row, blob[id]) ELSE links[id]]
       /\ End(w, {}, {})
       /\ rewritten' = rewritten \ r.ids
       /\ UNCHANGED <<row, fts, blob, tx, born, strayed, doomed, imported>>

CompileFails(w) ==
    LET r == req[w]
    IN /\ r.op = "compile" /\ DbFree
       /\ ~CanCompile(r)
       /\ End(w, {}, {})
       /\ UNCHANGED <<tables, blob, tx, born, traces>>

-----------------------------------------------------------------------------

\* What a request leaves half done when it goes no further.
Torn(r) ==
    CASE r.op = "update" /\ r.body = "put" -> {r.id}
      [] r.op = "delete" /\ r.next # "body" -> {r.id}
      [] r.op = "import" -> Overwritten(r)
      [] OTHER -> {}

\* The process dies, or the caller goes away and the next call fails with its context:
\* an open transaction is rolled back, and nothing is undone in MinIO.
Abort(w) ==
    /\ req[w] # Idle
    /\ tx' = IF tx = w THEN None ELSE tx
    /\ End(w, {}, Torn(req[w]))
    /\ UNCHANGED <<tables, blob, born, traces>>

Serve(w) ==
    \/ CreatePut(w) \/ CreateCommit(w) \/ CreateFails(w)
    \/ UpdateRead(w) \/ UpdatePut(w) \/ UpdateCommit(w) \/ UpdateFails(w)
    \/ AssignRead(w) \/ AssignFails(w) \/ \E fetched \in BOOLEAN : AssignCommit(w, fetched)
    \/ DeleteRead(w) \/ DeleteBody(w) \/ DeleteIndex(w) \/ DeleteRow(w)
    \/ ImportBegin(w) \/ ImportPut(w) \/ ImportCommit(w)
    \/ CompileRead(w) \/ CompileCommit(w) \/ CompileFails(w)

EntryNext == \E w \in Workers : Serve(w) \/ ImportFails(w) \/ Abort(w)

EntrySpec == EntryInit /\ [][EntryNext]_entryVars

\* Nothing crashes, MinIO takes every body, and no caller goes away.
CalmEntrySpec == EntryInit /\ [][\E w \in Workers : Serve(w)]_entryVars

-----------------------------------------------------------------------------
(* Properties.                                                             *)

Request ==
    {Idle}
    \cup [op : {"create"}, id : Ids, path : EntryPaths, text : Texts]
    \cup [op : {"update"}, id : Ids, path : Path, text : Texts,
          body : {"same", "new", "put"}]
    \cup [op : {"assign"}, id : Ids, old : Path, dir : Dirs]
    \cup [op : {"delete"}, id : Ids, next : {"body", "index", "row"}]
    \cup [op : {"import"}, done : Nat,
          writes : Seq([id : Ids, path : Path, text : Texts,
                        preexisting : BOOLEAN])]
    \cup [op : {"compile"}, ids : SUBSET Ids]

\* The tables are well-formed: no two entries have one path, and only an entry
\* has links, whatever the paths that Create, Update, Assign and Import write.
EntryTypeOK ==
    /\ \A id \in Ids : Exists(id) =>
          /\ row[id] \in [path : Path, text : Texts]
          /\ \A i \in Ids \ {id} : Exists(i) => row[i].path # row[id].path
    /\ \A id \in Ids : links[id] \subseteq Link /\ (links[id] # {} => Exists(id))
    /\ fts \in [Ids -> Texts \cup {None}]
    /\ blob \in [Ids -> Texts \cup {None}]
    /\ \A w \in Workers : req[w] \in Request
    /\ tx \in Workers \cup {None}
    /\ begun \in 0 .. MaxRequests
    /\ contested \subseteq {w \in Workers : About(req[w]) # {}}
    /\ {id \in Ids : Exists(id)} \subseteq born
    /\ disturbed \cup strayed \cup doomed \cup rewritten \cup imported \subseteq Ids

\* Nobody is at work on the entry, and what was last done to it was neither
\* contested nor cut short.
Settled(id) ==
    /\ Exists(id) /\ id \notin disturbed
    /\ \A w \in Workers : id \notin About(req[w])

\* The body, the hash, the links and the search row of a settled entry are of one
\* text, save that an import does not index it and that a move of another entry
\* rewrites its links.
SettledAgrees ==
    \A id \in Ids : Settled(id) =>
        /\ blob[id] = row[id].text
        /\ id \notin imported => fts[id] = row[id].text
        /\ id \notin rewritten => {l.to : l \in links[id]} = LinksOf[row[id].text]

\* No race, failed import or crash costs an entry its body: only a Delete removes it.
BodyNeverLost ==
    \A id \in Ids : Exists(id) /\ blob[id] = None => id \in doomed

\* A resolved link spells the path its entry has now, through every move by Assign. Only
\* an Update of the path, a Delete, contested moves or the move of an entry whose path is
\* spelled alike leave it behind; or a spelling of its own, that Assign does not find.
LinkAddressesEntry ==
    \A id \in Ids : \A l \in links[id] :
        l.entry \in Ids \ (strayed \cup doomed) =>
            Exists(l.entry) /\ (l.to = Join(row[l.entry].path) \/ Crooked(l.to))

\* The search index holds no entry that is gone, unless a Delete was contested.
SearchFindsEntries ==
    \A id \in Ids : fts[id] # None /\ ~Exists(id) => id \in disturbed

-----------------------------------------------------------------------------
(* What the comments promise and the code does not keep.                   *)

\* entries.go: body_hash is "stored alongside every body write".  The body is written
\* first, and a refused or late Update leaves it with the hash of another.
HashDescribesBody ==
    (\A w \in Workers : req[w] = Idle) =>
        \A id \in Ids : Exists(id) /\ blob[id] # None => blob[id] = row[id].text

=============================================================================
