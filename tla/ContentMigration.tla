-------------------------- MODULE ContentMigration --------------------------
(* The cutover of legacy entries from svc's database to content            *)
(* (svc/internal/migrate, cmd/migrate-cutover). A tool opens the database  *)
(* no further than version 7, converts every entry, posts the result to    *)
(* content, and, asked to, deletes the legacy bodies of what content has.  *)
(* It may fail or die anywhere and be run again; meanwhile members create  *)
(* entries in content. Once a run has ended well, the svc that migrates to *)
(* version 8, and drops the legacy entries, is deployed.                   *)
EXTENDS SchemaMigration

CONSTANTS
    Projects,    \* the projects of entries
    NoProject,   \* the project of an entry without campaigns
    Words,       \* what titles consist of, beside numbers
    Legacies(_)  \* the collections of legacy entries considered for a database

\* What is wrong with an entry: its tags or quick view are no JSON, the parser rejects its
\* conversion, or a card names a facet that is not a global one of svc's. Content has facets
\* of its own, global ones and the project's, and may know this one.
Fault == {"none", "columns", "syntax", "facet"}

LegacyEntry == [project : Projects \cup {NoProject}, title : Seq(Words \cup Nat),
                fault : Fault, blob : BOOLEAN]

ASSUME MigrationAssumption ==
    \A d \in SvcDatabases : Legacies(d) \subseteq Seq(LegacyEntry)

VARIABLES
    legacy,    \* entries, in the order of their ids: project (the first campaign), slug of the title, what is
               \* wrong with it, whether the body is a MinIO object
    blobs,     \* entries whose object entries/{id}/body.html is there
    content,   \* content: entries by project and path, and whose text they have
    tool,      \* what the tool is doing with its database open
    verified   \* what the last run that ended well had skipped, if there was one

Entries == DOMAIN legacy
NumEntries == Len(legacy)

migrationVars == <<legacy, blobs, content, tool, verified>>
vars == <<schemaVars, migrationVars>>

Others == 0  \* the text of an entry that was not migrated

IdleTool == [pc |-> "idle"]
Not == {-1}

HasLegacy == "entries" \in file.rows

-----------------------------------------------------------------------------
(* Run: paths, conversion, validation.                                     *)

\* Slugify and DirectoryPath are in the title of an entry: a sequence, the words of the
\* slug. All entries are in one directory: another one is another scope.
Least(S) == CHOOSE x \in S : \A y \in S : x <= y

\* UniqueSlug
UniqueSlug(base, taken) ==
    IF base \notin taken THEN base
    ELSE Append(base, Least({k \in 2 .. NumEntries + 1 : Append(base, k) \notin taken}))

\* assignPaths: in the order of ids, unique within a project.
Paths ==
    LET upTo[i \in 0 .. NumEntries] ==
          IF i = 0 THEN << >>
          ELSE LET before == upTo[i - 1]
                   scope == {j \in DOMAIN before : legacy[j].project = legacy[i].project}
               IN Append(before, UniqueSlug(legacy[i].title, {before[j] : j \in scope}))
    IN upTo[NumEntries]

Faulty(e) == legacy[e].fault # "none"

\* The entries that a report may call failed. MinIO may not give a body, and columns may
\* not decode. Converted bodies are kept by path, without the project: of those that share
\* one only the last to be loaded is validated, and any of them may be called failed for it.
Reports ==
    LET stored == {e \in Entries : legacy[e].blob}
        corrupt == {e \in Entries : legacy[e].fault = "columns"}
        at(p, S) == {e \in S : Paths[e] = p}
        verdicts(unread) ==
          LET read == Entries \ unread
              held == {Paths[e] : e \in read}
          IN {unread \cup {blamed[p] : p \in {q \in held : Faulty(last[q])}} :
                last \in {f \in [held -> read] : \A p \in held : f[p] \in at(p, read)},
                blamed \in {f \in [held -> Entries] : \A p \in held : f[p] \in at(p, Entries)}}
    IN UNION {verdicts(corrupt \cup (stored \cap (unread \cup (Entries \ blobs)))) :
                unread \in SUBSET stored}

-----------------------------------------------------------------------------
(* migrate-cutover, -apply.                                                *)

Place(e, from) == [project |-> legacy[e].project, path |-> Paths[e], from |-> from]
InContent(e) == Place(e, e) \in content
Taken(e) == \E x \in Entries \cup {Others} : Place(e, x) \in content

ToolIs(pc) == proc.who = "tool" /\ proc.pc = "open" /\ tool.pc = pc

Exit == proc' = NoProc /\ tool' = IdleTool

\* A dry run, a report with failures and no -force, a database without legacy entries.
ReportOnly ==
    /\ ToolIs("idle")
    /\ Exit
    /\ UNCHANGED <<app, start, file, legacy, blobs, content, verified>>

\* The conversion is run twice: to decide, and by Cutover.
BeginCutover(force, cleanup) ==
    /\ ToolIs("idle") /\ HasLegacy
    /\ force \/ {} \in Reports
    /\ \E failed \in Reports :
         tool' = [pc |-> "importing", failed |-> failed, cleanup |-> cleanup,
                  at |-> 1, imported |-> {}, errors |-> FALSE]
    /\ UNCHANGED <<schemaVars, legacy, blobs, content, verified>>

Skipped(e) == e \in tool.failed \/ legacy[e].project = NoProject

Current(e) == ToolIs("importing") /\ e = tool.at
NextEntry(imported, error) ==
    tool' = [tool EXCEPT !.at = @ + 1, !.imported = @ \cup imported, !.errors = @ \/ error]

Skip(e) ==
    /\ Current(e) /\ Skipped(e)
    /\ NextEntry({}, FALSE)
    /\ UNCHANGED <<schemaVars, legacy, blobs, content, verified>>

\* Whether content could accept the entry: its parser is the same, its vocabulary is its own.
Acceptable(e) == legacy[e].fault \in {"none", "facet"}

\* Slip: no answer is taken for a created entry.
CreateEntrySurely(e) ==
    /\ Current(e) /\ ~Skipped(e)
    /\ NextEntry({e}, FALSE)
    /\ \/ content' = content
       \/ Acceptable(e) /\ ~Taken(e) /\ content' = content \cup {Place(e, e)}
    /\ UNCHANGED <<schemaVars, legacy, blobs, verified>>

\* CreateEntry: 201; 409, which counts as imported; or anything else, when content may
\* have created the entry all the same, or refuses what svc's validation passed.
CreateEntry(e) ==
    /\ Current(e) /\ ~Skipped(e)
    /\ \/ /\ Acceptable(e) /\ ~Taken(e)
          /\ content' = content \cup {Place(e, e)}
          /\ \E lost \in BOOLEAN : NextEntry(IF lost THEN {} ELSE {e}, lost)
       \/ /\ Acceptable(e) /\ Taken(e)
          /\ NextEntry({e}, FALSE) /\ UNCHANGED content
       \/ NextEntry({}, TRUE) /\ UNCHANGED content
    /\ UNCHANGED <<schemaVars, legacy, blobs, verified>>

AllPosted == ToolIs("importing") /\ tool.at > NumEntries

\* Errors: the tool exits with 1, to be run again.
EndInError ==
    /\ AllPosted /\ tool.errors
    /\ Exit
    /\ UNCHANGED <<app, start, file, legacy, blobs, content, verified>>

\* Slip: a run ends well whatever content answered.
EndWellAnyway ==
    /\ AllPosted /\ ~tool.cleanup
    /\ Exit
    /\ verified' = {e \in Entries : Skipped(e)}
    /\ UNCHANGED <<app, start, file, legacy, blobs, content>>

\* What the result lists as skipped. The operator lets it pass.
EndWell ==
    /\ \/ AllPosted /\ ~tool.errors /\ ~tool.cleanup
       \/ ToolIs("cleaning") /\ tool.left = {} /\ ~tool.errors
    /\ Exit
    /\ verified' = {e \in Entries : Skipped(e)}
    /\ UNCHANGED <<app, start, file, legacy, blobs, content>>

\* Slip: whatever the conversion passed is cleaned up.
BeginCleanupOfAll ==
    /\ AllPosted /\ tool.cleanup
    /\ tool' = [pc |-> "cleaning", failed |-> tool.failed, errors |-> FALSE,
                left |-> Entries \ tool.failed]
    /\ UNCHANGED <<schemaVars, legacy, blobs, content, verified>>

\* cleanupTargets: what this run counted as imported.
BeginCleanup ==
    /\ AllPosted /\ ~tool.errors /\ tool.cleanup
    /\ tool' = [pc |-> "cleaning", failed |-> tool.failed, errors |-> FALSE,
                left |-> tool.imported]
    /\ UNCHANGED <<schemaVars, legacy, blobs, content, verified>>

\* One body is deleted, or MinIO fails.
Cleanup(e) ==
    /\ ToolIs("cleaning") /\ e \in tool.left
    /\ \/ blobs' = blobs \ {e} /\ tool' = [tool EXCEPT !.left = @ \ {e}]
       \/ tool' = [tool EXCEPT !.left = @ \ {e}, !.errors = TRUE] /\ UNCHANGED blobs
    /\ UNCHANGED <<schemaVars, legacy, content, verified>>

CleanupFails ==
    /\ ToolIs("cleaning") /\ tool.left = {} /\ tool.errors
    /\ Exit
    /\ UNCHANGED <<app, start, file, legacy, blobs, content, verified>>

-----------------------------------------------------------------------------
(* The tool's surroundings.                                                *)

\* A member creates an entry in content, at a path that a legacy entry is to have.
MemberCreates(e) ==
    /\ legacy[e].project # NoProject /\ ~Taken(e)
    /\ content' = content \cup {Place(e, Others)}
    /\ UNCHANGED <<schemaVars, legacy, blobs, tool, verified>>

\* The operator deploys the svc of version 8 when there is nothing to migrate or a run
\* with -apply has ended well.
MayLaunch(who) ==
    CASE who = "svc" -> HasLegacy => verified # Not
      [] OTHER -> TRUE

Opening ==
    /\ \/ Migrate
       \/ CheckForeignKeys
       \/ \E who \in {"svc", "tool", "auth"} : Launch(who) /\ MayLaunch(who)
    /\ UNCHANGED migrationVars

Dying ==
    /\ Die
    /\ tool' = IdleTool
    /\ UNCHANGED <<legacy, blobs, content, verified>>

Init ==
    /\ SchemaInit
    /\ legacy \in IF "entries" \in start.rows THEN Legacies(start) ELSE {<< >>}
    /\ blobs = {e \in Entries : legacy[e].blob}
    /\ content = {}
    /\ tool = IdleTool
    /\ verified = Not

Next ==
    \/ Opening \/ Dying
    \/ ReportOnly
    \/ \E force, cleanup \in BOOLEAN : BeginCutover(force, cleanup)
    \/ \E e \in Entries :
         Skip(e) \/ CreateEntry(e) \/ Cleanup(e) \/ MemberCreates(e)
    \/ EndInError \/ EndWell \/ BeginCleanup \/ CleanupFails

MigrationSpec == Init /\ [][Next]_vars

-----------------------------------------------------------------------------
(* Properties.                                                             *)

\* Somebody else has an entry in content at the path of e.
Usurped(e) == Place(e, Others) \in content

\* A legacy body is deleted only when its text is in content, unless somebody had taken
\* its path: a rerun, however the one before it ended, never takes one legacy entry for
\* another.
CleanedIsInContent ==
    \A e \in Entries :
       legacy[e].blob /\ e \notin blobs => InContent(e) \/ Usurped(e)

\* When version 8 has dropped the legacy entries, each one is in content, or the run the
\* operator relied on had listed it as skipped, or its path was taken.
DroppedIsAccounted ==
    "entries" \in start.rows \ Tables(file) =>
       \A e \in Entries : InContent(e) \/ e \in verified \/ Usurped(e)

\* An entry that a run which ended well has skipped has no project, or its body cannot be
\* had or converted; or an entry with the same path is at fault, which has no project, or
\* only names a facet that svc does not know, and is in content or has lost its path
\* there. Any other fault that is blamed on the wrong entry makes the run fail.
SkippedForCause ==
    \A e \in verified \cap Entries :
       \/ legacy[e].project = NoProject
       \/ legacy[e].blob \/ Faulty(e)
       \/ \E d \in Entries :
             /\ Paths[d] = Paths[e]
             /\ \/ Faulty(d) /\ legacy[d].project = NoProject
                \/ legacy[d].fault = "facet" /\ (InContent(d) \/ Usurped(d))
=============================================================================
