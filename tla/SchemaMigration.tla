-------------------------- MODULE SchemaMigration ---------------------------
(* The schemas of svc and auth (svc/internal/db, auth/internal/db). A      *)
(* process that opens its database migrates it, version after version,     *)
(* each in a transaction that also sets user_version; it may die between   *)
(* any two. A migration that rebuilds a table depends on two settings of   *)
(* the connection: whether foreign keys are enforced, and whether a rename *)
(* is the legacy one, which leaves the references of other tables alone.   *)
(* Tables are names, their rows present or lost as a whole; columns,       *)
(* indexes and checks are left out.                                        *)
EXTENDS Integers, Sequences

VARIABLES
    app,     \* whose database it is: svc's or auth's
    start,   \* the database before the first process opens it
    file,    \* the database
    proc     \* the process that has it open

schemaVars == <<app, start, file, proc>>

-----------------------------------------------------------------------------
(* A database and its statements.                                          *)

\* version: user_version; refs: the tables, and the tables each one REFERENCES;
\* rows: the tables that have the rows they were given.
Empty == [version |-> 0, refs |-> [t \in {} |-> {}], rows |-> {}]
Failed == [Empty EXCEPT !.version = -1]

Tables(d) == DOMAIN d.refs

Create(t, parents) == [op |-> "create", table |-> t, refs |-> parents]
AddColumn(t) == [op |-> "column", table |-> t]
Seed(t) == [op |-> "seed", table |-> t]
Rename(t, u) == [op |-> "rename", table |-> t, to |-> u]
Copy(t, u) == [op |-> "copy", table |-> t, to |-> u]
Drop(t) == [op |-> "drop", table |-> t]
Pragma(k) == [op |-> "pragma", key |-> k]

\* Renaming t to u: the name in other tables' REFERENCES follows unless the rename is
\* a legacy one without foreign keys.
Renamed(d, t, u, p) ==
    LET name(x) == IF x = t THEN u ELSE x
        old(x) == IF x = u THEN t ELSE x
        follow == p.fk \/ ~p.legacy
    IN [d EXCEPT
          !.refs = [x \in {name(y) : y \in Tables(d)} |->
                      IF follow THEN {name(y) : y \in d.refs[old(x)]} ELSE d.refs[old(x)]],
          !.rows = {name(x) : x \in d.rows}]

\* DROP TABLE IF EXISTS: with foreign keys on, the rows are deleted first, and the rows
\* that refer to them with them.
Dropped(d, t, p) ==
    [d EXCEPT
       !.refs = [x \in Tables(d) \ {t} |-> d.refs[x]],
       !.rows = @ \ ({t} \cup IF p.fk THEN {x \in Tables(d) : t \in d.refs[x]} ELSE {})]

\* One statement, under the settings p of the connection. foreign_keys is a no-op in a
\* transaction.
Statement(s, d, p) ==
    CASE s.op = "create" /\ s.table \notin Tables(d) ->
            [d EXCEPT !.refs = [x \in Tables(d) \cup {s.table} |->
                                  IF x = s.table THEN s.refs ELSE d.refs[x]]]
      [] s.op = "seed" /\ s.table \in Tables(d) -> [d EXCEPT !.rows = @ \cup {s.table}]
      [] s.op = "rename" /\ s.table \in Tables(d) /\ s.to \notin Tables(d) ->
            Renamed(d, s.table, s.to, p)
      [] s.op = "copy" /\ {s.table, s.to} \subseteq Tables(d) ->
            IF s.table \in d.rows THEN [d EXCEPT !.rows = @ \cup {s.to}] ELSE d
      [] s.op = "drop" -> Dropped(d, s.table, p)
      [] s.op = "pragma" \/ (s.op \in {"create", "column"} /\ s.table \in Tables(d)) -> d
      [] OTHER -> Failed

\* A transaction: all statements, or none.
Exec(stmts, d, p) ==
    LET after[i \in 0 .. Len(stmts)] ==
          IF i = 0 THEN d
          ELSE LET before == after[i - 1] IN
               IF before = Failed THEN Failed ELSE Statement(stmts[i], before, p)
    IN after[Len(stmts)]

-----------------------------------------------------------------------------
(* svc's migrations.                                                       *)

Enforced == [fk |-> TRUE, legacy |-> FALSE]
Unenforced == [fk |-> FALSE, legacy |-> FALSE]
LegacyRename == [fk |-> FALSE, legacy |-> TRUE]

V1Original ==
    << Create("sessions", {}), Create("campaigns", {}), Create("players", {"campaigns"}),
       Create("entries", {}), Create("annotations", {"entries"}),
       Create("quick_view_templates", {}), Create("player_notes", {}),
       Create("categories", {}), Create("category_default_tags", {"categories"}),
       Create("entry_relations", {"entries"}) >>

V1 == V1Original \o
    << Create("projects", {}), Create("project_members", {"projects"}),
       Create("entry_shares", {"entries"}), Create("project_invites", {"projects"}),
       Create("member_folders", {"projects"}),
       Create("member_folder_entries", {"member_folders", "entries"}),
       Create("member_entry_meta", {"entries"}),
       AddColumn("entries"), AddColumn("entries"), AddColumn("annotations") >>

V2 ==
    << Seed("projects"),
       Rename("categories", "categories_v1"), Create("categories", {"projects"}),
       Copy("categories_v1", "categories"), Drop("categories_v1"),
       Create("project_global_categories", {"projects", "categories"}),
       AddColumn("project_members") >>

V3 == << AddColumn("entries") >>

V4 ==
    << Rename("category_default_tags", "category_default_tags_v3"),
       Create("category_default_tags", {"categories"}),
       Copy("category_default_tags_v3", "category_default_tags"),
       Drop("category_default_tags_v3") >>

V5 == << Create("user_settings", {}) >>

V6 ==
    << Create("game_sessions", {"projects"}),
       Create("chat_messages", {"game_sessions", "projects", "entries"}) >>

V7 ==
    << AddColumn("entries"), AddColumn("entries"), AddColumn("entries"),
       Create("facets", {}), Create("project_facets", {}),
       Create("entry_links", {"entries"}), Seed("facets") >>

\* What toV8 drops, in its order.
LegacyTables ==
    << "annotations", "entry_relations", "member_folder_entries", "member_entry_meta",
       "member_folders", "entry_shares", "entry_links",
       "category_default_tags", "project_global_categories", "categories",
       "quick_view_templates", "players", "player_notes", "campaigns",
       "project_facets", "facets", "entries" >>

\* Slip: chat_messages is recreated without its rows.
V8CopyNone(d) ==
    << Rename("chat_messages", "chat_messages_v7"),
       Create("chat_messages", {"game_sessions", "projects"}),
       Drop("chat_messages_v7") >> \o [i \in DOMAIN LegacyTables |-> Drop(LegacyTables[i])]

\* toV8: the rebuild of chat_messages only while the legacy entries are there.
V8(d) ==
    (IF "entries" \in Tables(d)
     THEN << Rename("chat_messages", "chat_messages_v7"),
             Create("chat_messages", {"game_sessions", "projects"}),
             Copy("chat_messages_v7", "chat_messages"), Drop("chat_messages_v7") >>
     ELSE << >>)
    \o [i \in DOMAIN LegacyTables |-> Drop(LegacyTables[i])]

\* auth's migrations. The PRAGMAs of the first are inside its transaction.
AuthV1(d) ==
    IF "users" \in Tables(d)
    THEN << Pragma("foreign_keys=OFF"), Create("users_new", {}), Copy("users", "users_new"),
            Drop("users"), Rename("users_new", "users"), Pragma("foreign_keys=ON") >>
    ELSE << Create("users", {}) >>

AuthV2 == << Create("password_reset_tokens", {"users"}) >>

\* The settings of the connection during a migration; afterwards they are Enforced again.
Settings(a, v) ==
    IF a = "svc" /\ v \in {2, 8} THEN LegacyRename
    ELSE IF a = "svc" /\ v = 4 THEN Unenforced
    ELSE Enforced

Statements(a, v, d) ==
    IF a = "auth" THEN (IF v = 1 THEN AuthV1(d) ELSE AuthV2)
    ELSE CASE v = 1 -> V1 [] v = 2 -> V2 [] v = 3 -> V3 [] v = 4 -> V4
           [] v = 5 -> V5 [] v = 6 -> V6 [] v = 7 -> V7 [] v = 8 -> V8(d)

\* toV1 ... toV8. PRAGMA user_version is part of the transaction.
To(a, v, d) ==
    LET e == Exec(Statements(a, v, d), d, Settings(a, v))
    IN IF e = Failed THEN Failed ELSE [e EXCEPT !.version = v]

-----------------------------------------------------------------------------
(* Opening a database.                                                     *)

\* latestSchemaVersion and legacySchemaVersion: Open and OpenLegacy.
MaxVersion(who) == CASE who = "svc" -> 8 [] who = "tool" -> 7 [] who = "auth" -> 2

App(who) == IF who = "auth" THEN "auth" ELSE "svc"

NoProc == [who |-> "nobody", pc |-> "gone"]

Launch(who) ==
    /\ proc = NoProc /\ App(who) = app
    /\ proc' = [who |-> who, pc |-> "migrating"]
    /\ UNCHANGED <<app, start, file>>

\* One migration, committed.
Migrate ==
    /\ proc.pc = "migrating" /\ file.version < MaxVersion(proc.who)
    /\ LET d == To(App(proc.who), file.version + 1, file) IN
         IF d = Failed THEN proc' = [proc EXCEPT !.pc = "refused"] /\ UNCHANGED file
                       ELSE file' = d /\ UNCHANGED proc
    /\ UNCHANGED <<app, start>>

\* A row whose parents are nowhere.
Dangling(d) == \E t \in d.rows : ~(d.refs[t] \subseteq Tables(d))

\* checkForeignKeys, the last thing open does.
CheckForeignKeys ==
    /\ proc.pc = "migrating" /\ file.version >= MaxVersion(proc.who)
    /\ proc' = [proc EXCEPT !.pc = IF Dangling(file) THEN "refused" ELSE "open"]
    /\ UNCHANGED <<app, start, file>>

\* The process dies, or SQLite fails and it gives up: a transaction under way leaves nothing.
Die ==
    /\ proc.pc \in {"migrating", "open"}
    /\ proc' = NoProc
    /\ UNCHANGED <<app, start, file>>

-----------------------------------------------------------------------------
(* The databases there are: new ones, those from before versions were      *)
(* kept, those an earlier toV2 left with a reference to categories_v1, and *)
(* any version since. Every table has rows.                                *)

Filled(d) == [d EXCEPT !.rows = Tables(d)]

Unversioned == Filled(Exec(V1Original, Empty, Enforced))
Version(v) ==
    LET upTo[i \in 0 .. v] == IF i = 0 THEN Unversioned ELSE Filled(To("svc", i, upTo[i - 1]))
    IN upTo[v]
Defective == [Filled(Exec(V3, Exec(V2, Version(1), Unenforced), Enforced)) EXCEPT !.version = 3]

SvcDatabases == {Empty, Unversioned, Defective} \cup {Version(v) : v \in 1 .. 8}
AuthDatabases ==
    LET old == Filled(Exec(<<Create("users", {})>>, Empty, Enforced))
    IN {Empty, old, Filled(To("auth", 1, old))}

SchemaInit ==
    /\ \/ app = "svc" /\ start \in SvcDatabases
       \/ app = "auth" /\ start \in AuthDatabases
    /\ file = start
    /\ proc = NoProc

-----------------------------------------------------------------------------
(* Properties.                                                             *)

\* No migration fails, whatever a dead process left behind, and none leaves a schema
\* whose references go astray: a process that has a database open finds every table
\* its foreign keys name. Before toV4 only the defect that toV4 repairs is tolerated.
SchemaIsSound ==
    /\ proc.pc # "refused"
    /\ \A t \in Tables(file) :
          \/ file.refs[t] \subseteq Tables(file)
          \/ app = "svc" /\ file.version < 4 /\ start = Defective

\* No row is lost on the way: what had rows has them, up to version 7 everywhere, from
\* version 8 on in every table that toV8 does not retire.
RowsAreKept ==
    start.rows \ file.rows \subseteq
       IF app = "svc" /\ file.version = 8 THEN {LegacyTables[i] : i \in DOMAIN LegacyTables} ELSE {}

\* Both: whichever processes died in between, the schema a process ends with is sound
\* and has the rows that were there.
MigrationKeepsAll == SchemaIsSound /\ RowsAreKept
=============================================================================
