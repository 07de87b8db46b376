-------------------------------- MODULE Home --------------------------------
(***************************************************************************)
(* The CLI's home: config.yaml with the facets, the current project and    *)
(* the session token, and each project's quillit.yaml with its facets.     *)
(* Every command that changes one of these files reads the whole file,     *)
(* changes what it is about and writes the whole file back, in two steps:  *)
(* the file is emptied, then written. An empty file loads as a             *)
(* configuration without facets, project and token.                        *)
(***************************************************************************)
EXTENDS Integers, Sequences, FiniteSets

CONSTANTS
    Projects,      \* names of projects
    Facets,        \* names of facets
    DefaultFacets, \* those of a new home
    Sessions,      \* session tokens that a login may be given
    Terminals,     \* processes of the CLI
    MaxCommands    \* bound: commands begun

VARIABLES
    config,        \* Missing, or what config.yaml holds
    project,       \* project -> Missing, Folder, or what its quillit.yaml holds
    terminal,      \* the command of each terminal
    begun,         \* how many commands have begun
    meant,         \* auxiliary: config.yaml as the commands that ended meant it
    meantFacets,   \* auxiliary: the same of each project's facets
    harmed         \* auxiliary: the files that an overlap or a killed command has harmed

homeVars == <<config, project, terminal, begun, meant, meantFacets, harmed>>

NoProject == "none"
NoToken == "none"

Missing == [is |-> "missing"]
Folder == [is |-> "folder"]
Config(facets, current, token) ==
    [is |-> "file", facets |-> facets, current |-> current, token |-> token]
ProjectFile(facets) == [is |-> "file", facets |-> facets]

EmptyConfig == Config({}, NoProject, NoToken)

IsFile(f) == f.is = "file"

\* A command: what it does with an argument, the file it writes, what it has read.
\* disturbed: the file was written by another since.
AtRest ==
    [op |-> "none", arg |-> "none", pc |-> "done", loaded |-> EmptyConfig, facet |-> "none",
     extra |-> {}, disturbed |-> FALSE]

HomeInit ==
    /\ config = Missing
    /\ project = [p \in Projects |-> Missing]
    /\ terminal = [t \in Terminals |-> AtRest]
    /\ begun = 0
    /\ meant = EmptyConfig
    /\ meantFacets = [p \in Projects |-> {}]
    /\ harmed = {}

\* IsBootstrapped
Bootstrapped == IsFile(config)

\* IsProjectRoot
IsRoot(p) == IsFile(project[p])

HomeCommand(op, arg, pc) ==
    [op |-> op, arg |-> arg, pc |-> pc, loaded |-> IF Bootstrapped THEN config ELSE EmptyConfig,
     facet |-> "none", extra |-> {}, disturbed |-> FALSE]

Starts(t, command) ==
    /\ terminal[t].pc = "done" /\ begun < MaxCommands
    /\ begun' = begun + 1
    /\ terminal' = [terminal EXCEPT ![t] = command]
    /\ UNCHANGED <<config, project, meant, meantFacets, harmed>>

Goes(t, pc) ==
    /\ terminal' = [terminal EXCEPT ![t].pc = pc]
    /\ UNCHANGED <<config, project, begun, meant, meantFacets, harmed>>

-----------------------------------------------------------------------------
(* Commands begin by reading the home's configuration.                     *)

\* A slip: every init starts from the default facets.
InitWithDefaults(t, p) ==
    Starts(t, [HomeCommand("init", p, IF Bootstrapped THEN "create" ELSE "bootstrap")
               EXCEPT !.loaded.facets = DefaultFacets])

\* init: a home without a configuration is bootstrapped first.
InitProject(t, p) ==
    Starts(t, [HomeCommand("init", p, IF Bootstrapped THEN "create" ELSE "bootstrap")
               EXCEPT !.loaded.facets = IF Bootstrapped THEN config.facets ELSE DefaultFacets])

\* connect: to a project that is there
Connect(t, p) == Bootstrapped /\ IsRoot(p) /\ Starts(t, HomeCommand("connect", p, "empty"))

\* config add, rm: nothing to do when it is there, or not there
AddFacet(t, f) ==
    Bootstrapped /\ f \notin config.facets /\ Starts(t, HomeCommand("add", f, "empty"))
RemoveFacet(t, f) ==
    Bootstrapped /\ f \in config.facets /\ Starts(t, HomeCommand("rm", f, "empty"))

\* login: reads the configuration, then asks for the password and the server.
Login(t, session) == Bootstrapped /\ Starts(t, HomeCommand("login", session, "ask"))
Logout(t) == Bootstrapped /\ Starts(t, HomeCommand("login", NoToken, "empty"))

\* config add, rm with --scope: EffectiveFacets of the home and the project
AddProjectFacet(t, p, f) ==
    /\ Bootstrapped /\ IsRoot(p)
    /\ f \notin config.facets \cup project[p].facets
    /\ Starts(t, [HomeCommand("addExtra", p, "emptyProject") EXCEPT
                    !.facet = f, !.extra = project[p].facets \cup {f}])
RemoveProjectFacet(t, p, f) ==
    /\ Bootstrapped /\ IsRoot(p)
    /\ f \in project[p].facets
    /\ Starts(t, [HomeCommand("rmExtra", p, "emptyProject") EXCEPT
                    !.facet = f, !.extra = project[p].facets \ {f}])

-----------------------------------------------------------------------------
(* Saving.                                                                 *)

\* What a command means config.yaml to be.
Changed(c, file) ==
    CASE c.op \in {"init", "connect"} /\ c.pc # "fillHome" -> [file EXCEPT !.current = c.arg]
      [] c.op = "add" -> [file EXCEPT !.facets = @ \cup {c.arg}]
      [] c.op = "rm" -> [file EXCEPT !.facets = @ \ {c.arg}]
      [] c.op = "login" -> [file EXCEPT !.token = c.arg]
      [] OTHER -> file

\* Of a project's facets, a new project having none.
ChangedFacets(c, facets) ==
    CASE c.op = "addExtra" -> facets \cup {c.facet}
      [] c.op = "rmExtra" -> facets \ {c.facet}
      [] c.op = "init" -> {}

\* The other commands that have read the file have now read another one.
Disturb(t, Reads(_)) ==
    [u \in Terminals |->
        IF u # t /\ terminal[u].pc # "done" /\ Reads(terminal[u])
        THEN [terminal[u] EXCEPT !.disturbed = TRUE] ELSE terminal[u]]

ProjectOps == {"addExtra", "rmExtra"}
ReadsHome(c) == c.op \notin ProjectOps

Asked(t) == terminal[t].pc = "ask" /\ Goes(t, "empty")

\* WriteFile empties config.yaml,
EmptyFile(t) ==
    /\ terminal[t].pc \in {"empty", "bootstrap"}
    /\ config' = EmptyConfig
    /\ terminal' = [Disturb(t, ReadsHome) EXCEPT
                       ![t].pc = IF @ = "empty" THEN "fill" ELSE "fillHome"]
    /\ UNCHANGED <<project, begun, meant, meantFacets, harmed>>

\* then writes it.
FillFile(t) ==
    LET c == terminal[t]
    IN /\ c.pc \in {"fill", "fillHome"}
       /\ config' = Changed(c, c.loaded)
       /\ meant' = IF c.pc = "fillHome" THEN c.loaded ELSE Changed(c, meant)
       /\ harmed' = IF c.disturbed THEN harmed \cup {"home"} ELSE harmed
       /\ terminal' = [Disturb(t, ReadsHome) EXCEPT
                          ![t] = IF c.pc = "fill" THEN AtRest ELSE [c EXCEPT !.pc = "create"]]
       /\ UNCHANGED <<project, begun, meantFacets>>

\* project.Create: refused when there is a folder of that name; the folders,
CreateProject(t) ==
    LET c == terminal[t]
    IN /\ c.pc = "create"
       /\ IF project[c.arg] # Missing
          THEN /\ terminal' = [terminal EXCEPT ![t] = AtRest]
               /\ UNCHANGED project
          ELSE /\ project' = [project EXCEPT ![c.arg] = Folder]
               /\ terminal' = [terminal EXCEPT ![t].pc = "emptyProject"]
       /\ UNCHANGED <<config, begun, meant, meantFacets, harmed>>

ReadsProject(c, p) == c.op \in ProjectOps /\ c.arg = p

\* and its file, that of a new project and that of one whose facets change.
EmptyProject(t) ==
    LET c == terminal[t]
    IN /\ c.pc = "emptyProject"
       /\ project' = [project EXCEPT ![c.arg] = ProjectFile({})]
       /\ terminal' = [Disturb(t, LAMBDA d : ReadsProject(d, c.arg)) EXCEPT
                          ![t].pc = "fillProject"]
       /\ UNCHANGED <<config, begun, meant, meantFacets, harmed>>

\* Then init connects to the project, with the configuration it read when it began.
FillProject(t) ==
    LET c == terminal[t]
    IN /\ c.pc = "fillProject"
       /\ project' = [project EXCEPT ![c.arg] = ProjectFile(c.extra)]
       /\ meantFacets' = [meantFacets EXCEPT ![c.arg] = ChangedFacets(c, @)]
       /\ harmed' = IF c.op \in ProjectOps /\ c.disturbed THEN harmed \cup {c.arg} ELSE harmed
       /\ terminal' = [Disturb(t, LAMBDA d : ReadsProject(d, c.arg)) EXCEPT
                          ![t] = IF c.op \in ProjectOps THEN AtRest ELSE [c EXCEPT !.pc = "empty"]]
       /\ UNCHANGED <<config, begun, meant>>

\* A command is killed, or fails: a file that it was writing stays empty.
KillCommand(t) ==
    LET c == terminal[t]
    IN /\ c.pc # "done"
       /\ terminal' = [terminal EXCEPT ![t] = AtRest]
       /\ harmed' = CASE c.pc \in {"fill", "fillHome"} -> harmed \cup {"home"}
                      [] c.pc = "fillProject" -> harmed \cup {c.arg}
                      [] OTHER -> harmed
       /\ UNCHANGED <<config, project, begun, meant, meantFacets>>

CommandNext(t) ==
    \/ \E p \in Projects : InitProject(t, p) \/ Connect(t, p)
    \/ \E f \in Facets : AddFacet(t, f) \/ RemoveFacet(t, f)
    \/ \E session \in Sessions : Login(t, session)
    \/ Logout(t)
    \/ \E p \in Projects, f \in Facets : AddProjectFacet(t, p, f) \/ RemoveProjectFacet(t, p, f)
    \/ Asked(t) \/ EmptyFile(t) \/ FillFile(t)
    \/ CreateProject(t) \/ EmptyProject(t) \/ FillProject(t)
    \/ KillCommand(t)

HomeNext == \E t \in Terminals : CommandNext(t)

HomeSpec == HomeInit /\ [][HomeNext]_homeVars

-----------------------------------------------------------------------------
(* Properties.                                                             *)

Writing(pcs, p) ==
    \E t \in Terminals : terminal[t].pc \in pcs /\ (p = "home" \/ terminal[t].arg = p)

\* The facets, the current project, the session and each project's facets are what the
\* commands that ended made them, unless one saved a file that another had written since it
\* read it (login may wait for a password meanwhile) or was killed as it wrote it.
SettingsLostOnlyByRace ==
    /\ Bootstrapped /\ "home" \notin harmed /\ ~Writing({"fill", "fillHome"}, "home") =>
         config = meant
    /\ \A p \in Projects :
         IsRoot(p) /\ p \notin harmed /\ ~Writing({"fillProject"}, p) =>
           project[p].facets = meantFacets[p]

\* Whatever overlaps or is killed, the current project is one that has its quillit.yaml, and
\* a command that runs in it finds a home that is set up.
CurrentIsThere ==
    Bootstrapped /\ config.current # NoProject => IsRoot(config.current)

\* Both: overlapping and killed commands cost at most what one of them was saving, and
\* the home stays one that commands can run in.
HomeIsKept == SettingsLostOnlyByRace /\ CurrentIsThere
=============================================================================
