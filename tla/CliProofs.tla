----------------------------- MODULE CliProofs -----------------------------
(***************************************************************************)
(* For every number of projects, facets, terminals, entries, shells and    *)
(* commands: what Home says of the settings, and Workspace of the indexes, *)
(* the bundles and what push leaves out.                                   *)
(***************************************************************************)
EXTENDS Home, Workspace, SequenceTheorems, TLAPS

(* The home.  A command saves what it read when it began, changed.  The    *)
(* argument is that what it read is what the commands that ended meant, as *)
(* long as no other has written the file since (then it is disturbed), no  *)
(* other is half-way through writing it, and no one was killed there; and  *)
(* that a project that has a quillit.yaml keeps it.                        *)

Current(c) == c.current # NoProject => IsRoot(c.current)

Settings ==
    [is : {"file"}, facets : SUBSET (Facets \cup DefaultFacets),
     current : Projects \cup {NoProject}, token : Sessions \cup {NoToken}]

ProjectFiles == [is : {"file"}, facets : SUBSET (Facets \cup DefaultFacets)]

InitPcs == {"bootstrap", "fillHome", "create", "emptyProject", "fillProject", "empty", "fill"}

\* The commands, with the steps they may be at and what they are about.
Commands ==
    [op : {"none"}, arg : {"none"}, pc : {"done"}, loaded : Settings, facet : {"none"},
     extra : {{}}, disturbed : BOOLEAN]
    \cup
    [op : {"init"}, arg : Projects, pc : InitPcs, loaded : Settings, facet : {"none"},
     extra : {{}}, disturbed : BOOLEAN]
    \cup
    [op : {"connect"}, arg : Projects, pc : {"empty", "fill"}, loaded : Settings,
     facet : {"none"}, extra : {{}}, disturbed : BOOLEAN]
    \cup
    [op : {"add", "rm"}, arg : Facets \cup DefaultFacets, pc : {"empty", "fill"},
     loaded : Settings, facet : {"none"}, extra : {{}}, disturbed : BOOLEAN]
    \cup
    [op : {"login"}, arg : Sessions \cup {NoToken}, pc : {"ask", "empty", "fill"},
     loaded : Settings, facet : {"none"}, extra : {{}}, disturbed : BOOLEAN]
    \cup
    [op : ProjectOps, arg : Projects, pc : {"emptyProject", "fillProject"},
     loaded : Settings, facet : Facets \cup DefaultFacets, extra : SUBSET (Facets \cup DefaultFacets),
     disturbed : BOOLEAN]

HomeTypeOK ==
    /\ config \in {Missing} \cup Settings
    /\ project \in [Projects -> {Missing, Folder} \cup ProjectFiles]
    /\ terminal \in [Terminals -> Commands]
    /\ meant \in Settings
    /\ meantFacets \in [Projects -> SUBSET (Facets \cup DefaultFacets)]

\* The current project, and those that the commands are about to make current or to write,
\* have their quillit.yaml.
CurrentInv ==
    /\ Bootstrapped => Current(config)
    /\ \A t \in Terminals :
          LET c == terminal[t]
          IN /\ Current(c.loaded)
             /\ c.op \in {"connect"} \cup ProjectOps => IsRoot(c.arg)
             /\ c.op = "init" /\ c.pc \in {"fillProject", "empty", "fill"} => IsRoot(c.arg)

Filling(t) == terminal[t].pc \in {"fill", "fillHome"}
FillingProject(t, p) == terminal[t].pc = "fillProject" /\ terminal[t].arg = p

\* Nobody, or nobody but t, is half-way through a file.
Whole(but) == \A t \in Terminals \ but : ~Filling(t)
WholeProject(p, but) == \A t \in Terminals \ but : ~FillingProject(t, p)

\* What an undisturbed command has read is what is meant.
HasReadMeant(t) ==
    /\ terminal[t].pc \notin {"done", "bootstrap", "fillHome"} /\ ReadsHome(terminal[t])
    /\ ~terminal[t].disturbed /\ "home" \notin harmed /\ Whole({t})
    => terminal[t].loaded = meant

MeantInv ==
    /\ Bootstrapped /\ "home" \notin harmed /\ Whole({}) => config = meant
    /\ \A t \in Terminals : HasReadMeant(t)

\* The same of a project's file.
HasReadFacets(t) ==
    /\ terminal[t].op \in ProjectOps /\ ~terminal[t].disturbed
    /\ terminal[t].arg \notin harmed /\ WholeProject(terminal[t].arg, {t})
    => terminal[t].extra = ChangedFacets(terminal[t], meantFacets[terminal[t].arg])

HoldsMeant(p) ==
    IsRoot(p) /\ p \notin harmed /\ WholeProject(p, {}) => project[p].facets = meantFacets[p]

MeantFacetsInv ==
    /\ \A p \in Projects : HoldsMeant(p)
    /\ \A t \in Terminals : HasReadFacets(t)

HomeInv == HomeTypeOK /\ CurrentInv /\ MeantInv /\ MeantFacetsInv

LEMMA HomeInitInv == HomeInit => HomeInv
  <1> SUFFICES ASSUME HomeInit PROVE HomeInv
    OBVIOUS
  <1> USE DEF HomeInit, AtRest, EmptyConfig, Config, Missing, NoProject, NoToken, IsFile, Bootstrapped, IsRoot
  <1>1. EmptyConfig \in Settings
    BY DEF Settings
  <1>2. AtRest \in Commands
    <2>1. AtRest \in [op : {"none"}, arg : {"none"}, pc : {"done"}, loaded : Settings,
                      facet : {"none"}, extra : {{}}, disturbed : BOOLEAN]
      BY <1>1
    <2> QED  BY <2>1 DEF Commands
  <1>3. HomeTypeOK
    BY <1>1, <1>2 DEF HomeTypeOK
  <1>4. CurrentInv
    BY DEF CurrentInv, Current, ProjectOps
  <1>5. MeantInv
    BY DEF MeantInv, HasReadMeant
  <1>6. MeantFacetsInv
    BY DEF MeantFacetsInv, HasReadFacets, HoldsMeant, ProjectOps
  <1> QED  BY <1>3, <1>4, <1>5, <1>6 DEF HomeInv

\* A command begins with the configuration as it is, and with the facets of the project it
\* is about.
LEMMA StartsKeep ==
  ASSUME HomeInv, NEW t \in Terminals, NEW command \in Commands, Starts(t, command),
         command.pc \notin {"done", "fill", "fillHome", "fillProject"},
         command.op = "init" => command.pc \in {"bootstrap", "create"},
         Current(command.loaded),
         command.op \in {"connect"} \cup ProjectOps => IsRoot(command.arg),
         ReadsHome(command) /\ command.pc # "bootstrap" => Bootstrapped /\ command.loaded = config,
         command.op \in ProjectOps =>
            command.extra = ChangedFacets(command, project[command.arg].facets)
  PROVE  HomeInv'
  <1> USE DEF Starts
  <1>1. terminal \in [Terminals -> Commands] /\ HomeTypeOK'
    BY DEF HomeInv, HomeTypeOK
  <1>2. \A u \in Terminals : terminal'[u] = IF u = t THEN command ELSE terminal[u]
    BY <1>1
  <1>3. /\ config' = config /\ project' = project /\ meant' = meant
        /\ meantFacets' = meantFacets /\ harmed' = harmed /\ terminal[t].pc = "done"
    OBVIOUS
  <1>4. \A u \in Terminals : Filling(u)' = Filling(u)
    BY <1>2, <1>3 DEF Filling
  <1>5. \A u \in Terminals : \A p : FillingProject(u, p)' = FillingProject(u, p)
    BY <1>2, <1>3 DEF FillingProject
  <1>6. CurrentInv'
    BY <1>2, <1>3 DEF HomeInv, CurrentInv, Current, Bootstrapped, IsRoot
  <1>7. MeantInv'
    <2>1. \A but : Whole(but)' = Whole(but)
      BY <1>4 DEF Whole
    <2>2. Bootstrapped' = Bootstrapped
      BY <1>3 DEF Bootstrapped
    <2>3. ASSUME NEW u \in Terminals
          PROVE  HasReadMeant(u)'
      <3>1. CASE u = t
        <4>1. Whole({t}) => Whole({})
          BY <1>3 DEF Whole, Filling
        <4> QED  BY <1>2, <1>3, <2>1, <3>1, <4>1 DEF HomeInv, MeantInv, HasReadMeant
      <3>2. CASE u # t
        BY <1>2, <1>3, <2>1, <3>2 DEF HomeInv, MeantInv, HasReadMeant
      <3> QED  BY <3>1, <3>2
    <2> QED  BY <1>3, <2>1, <2>2, <2>3 DEF HomeInv, MeantInv
  <1>8. MeantFacetsInv'
    <2>1. \A p, but : WholeProject(p, but)' = WholeProject(p, but)
      BY <1>5 DEF WholeProject
    <2>2. \A p : IsRoot(p)' = IsRoot(p)
      BY <1>3 DEF IsRoot
    <2>3. ASSUME NEW u \in Terminals
          PROVE  HasReadFacets(u)'
      <3>2. CASE u = t
        <4>1. WholeProject(command.arg, {t}) => WholeProject(command.arg, {})
          BY <1>3 DEF WholeProject, FillingProject
        <4>2. command.op \in ProjectOps => command.arg \in Projects
          BY DEF Commands, ProjectOps
        <4>3. command.op \in ProjectOps => HoldsMeant(command.arg)
          BY <4>2 DEF HomeInv, MeantFacetsInv
        <4>4. terminal'[u] = command
          BY <1>2, <3>2
        <4>5. WholeProject(command.arg, {u})' => WholeProject(command.arg, {})
          BY <2>1, <3>2, <4>1
        <4> QED  BY <1>3, <3>2, <4>3, <4>4, <4>5 DEF HasReadFacets, HoldsMeant
      <3>3. CASE u # t
        <4>1. terminal'[u] = terminal[u] /\ HasReadFacets(u)
          BY <1>2, <3>3 DEF HomeInv, MeantFacetsInv
        <4>2. WholeProject(terminal[u].arg, {u})' = WholeProject(terminal[u].arg, {u})
          BY <1>3, <1>5, <4>1 DEF WholeProject, FillingProject
        <4> QED  BY <1>3, <4>1, <4>2 DEF HasReadFacets
      <3> QED  BY <3>2, <3>3
    <2>4. ASSUME NEW p \in Projects
          PROVE  HoldsMeant(p)'
      <3>1. HoldsMeant(p)
        BY DEF HomeInv, MeantFacetsInv
      <3> QED  BY <1>3, <2>1, <2>2, <3>1 DEF HoldsMeant
    <2> QED  BY <2>3, <2>4 DEF MeantFacetsInv
  <1> QED  BY <1>1, <1>6, <1>7, <1>8 DEF HomeInv

LEMMA CommandSteps ==
  ASSUME NEW c \in Commands
  PROVE  /\ [c EXCEPT !.disturbed = TRUE] \in Commands
         /\ LET d == [c EXCEPT !.disturbed = TRUE]
            IN /\ d.op = c.op /\ d.arg = c.arg /\ d.pc = c.pc /\ d.loaded = c.loaded
               /\ d.facet = c.facet /\ d.extra = c.extra /\ d.disturbed = TRUE
         /\ c.pc = "ask" => [c EXCEPT !.pc = "empty"] \in Commands
         /\ c.pc = "empty" => [c EXCEPT !.pc = "fill"] \in Commands
         /\ c.pc = "bootstrap" => [c EXCEPT !.pc = "fillHome"] \in Commands
         /\ c.pc = "fillHome" => [c EXCEPT !.pc = "create"] \in Commands
         /\ c.pc = "create" => [c EXCEPT !.pc = "emptyProject"] \in Commands
         /\ c.pc = "emptyProject" => [c EXCEPT !.pc = "fillProject"] \in Commands
         /\ c.pc = "fillProject" /\ c.op \notin ProjectOps => [c EXCEPT !.pc = "empty"] \in Commands
  <1> USE DEF Commands, InitPcs, ProjectOps
  <1>1. [c EXCEPT !.disturbed = TRUE] \in Commands
    <2>1. CASE c.op = "none"
      BY <2>1
    <2>2. CASE c.op = "init"
      BY <2>2
    <2>3. CASE c.op = "connect"
      BY <2>3
    <2>4. CASE c.op \in {"add", "rm"}
      BY <2>4
    <2>5. CASE c.op = "login"
      BY <2>5
    <2>6. CASE c.op \in ProjectOps
      BY <2>6
    <2>7. c.op \in {"none", "init", "connect", "add", "rm", "login"} \cup ProjectOps
      OBVIOUS
    <2> HIDE DEF Commands, InitPcs, ProjectOps
    <2> QED  BY <2>1, <2>2, <2>3, <2>4, <2>5, <2>6, <2>7
  <1>2. LET d == [c EXCEPT !.disturbed = TRUE]
        IN /\ d.op = c.op /\ d.arg = c.arg /\ d.pc = c.pc /\ d.loaded = c.loaded
           /\ d.facet = c.facet /\ d.extra = c.extra /\ d.disturbed = TRUE
    OBVIOUS
  <1>3. c.pc = "ask" => [c EXCEPT !.pc = "empty"] \in Commands
    OBVIOUS
  <1>4. c.pc = "empty" => [c EXCEPT !.pc = "fill"] \in Commands
    OBVIOUS
  <1>5. c.pc = "bootstrap" => [c EXCEPT !.pc = "fillHome"] \in Commands
    OBVIOUS
  <1>6. c.pc = "fillHome" => [c EXCEPT !.pc = "create"] \in Commands
    OBVIOUS
  <1>7. c.pc = "create" => [c EXCEPT !.pc = "emptyProject"] \in Commands
    OBVIOUS
  <1>8. c.pc = "emptyProject" => [c EXCEPT !.pc = "fillProject"] \in Commands
    OBVIOUS
  <1>9. c.pc = "fillProject" /\ c.op \notin ProjectOps => [c EXCEPT !.pc = "empty"] \in Commands
    OBVIOUS
  <1> HIDE DEF Commands
  <1> QED  BY <1>1, <1>2, <1>3, <1>4, <1>5, <1>6, <1>7, <1>8, <1>9

LEMMA CommandFacts ==
  ASSUME NEW c \in Commands
  PROVE  /\ c.loaded \in Settings /\ c.extra \in SUBSET (Facets \cup DefaultFacets)
         /\ c.pc \in {"create", "emptyProject", "fillProject"} => c.arg \in Projects
         /\ c.pc \in {"bootstrap", "fillHome", "create"} => c.op = "init"
         /\ c.pc \in {"emptyProject", "fillProject"} => c.op \in {"init"} \cup ProjectOps
         /\ c.pc \in {"ask", "empty", "fill"} => c.op \in {"init", "connect", "add", "rm", "login"}
         /\ c.op \in {"init", "connect"} \cup ProjectOps => c.arg \in Projects
         /\ c.op \in {"add", "rm"} => c.arg \in Facets \cup DefaultFacets
         /\ c.op = "login" => c.arg \in Sessions \cup {NoToken}
         /\ c.op \in ProjectOps => c.facet \in Facets \cup DefaultFacets
         /\ c.op = "init" => c.extra = {}
         /\ c.op \in ProjectOps => c.pc \in {"emptyProject", "fillProject"}
  BY DEF Commands, InitPcs, ProjectOps

LEMMA StepFacts ==
  ASSUME NEW c \in Commands, NEW pc
  PROVE  LET d == [c EXCEPT !.pc = pc]
         IN /\ d.op = c.op /\ d.arg = c.arg /\ d.pc = pc /\ d.loaded = c.loaded
            /\ d.facet = c.facet /\ d.extra = c.extra /\ d.disturbed = c.disturbed
  BY DEF Commands

LEMMA RestFacts ==
  EmptyConfig \in Settings /\ Current(EmptyConfig) /\ AtRest \in Commands /\ Current(AtRest.loaded)
  <1>1. EmptyConfig \in Settings /\ Current(EmptyConfig)
    BY DEF Settings, EmptyConfig, Config, NoProject, NoToken, Current
  <1>2. AtRest \in [op : {"none"}, arg : {"none"}, pc : {"done"}, loaded : Settings,
                    facet : {"none"}, extra : {{}}, disturbed : BOOLEAN]
    BY <1>1 DEF AtRest
  <1>3. AtRest.loaded = EmptyConfig
    BY DEF AtRest
  <1> QED  BY <1>1, <1>2, <1>3 DEF Commands

\* What a command reads of the home.
LEMMA HomeRead ==
  ASSUME HomeInv
  PROVE  LET loaded == IF Bootstrapped THEN config ELSE EmptyConfig
         IN loaded \in Settings /\ Current(loaded)
  <1>1. Bootstrapped => config \in Settings /\ Current(config)
    BY DEF HomeInv, HomeTypeOK, CurrentInv, Bootstrapped, IsFile, Missing
  <1> QED  BY <1>1, RestFacts

LEMMA BeginKeep ==
  ASSUME HomeInv, NEW t \in Terminals,
         \/ \E p \in Projects : InitProject(t, p) \/ Connect(t, p)
         \/ \E f \in Facets : AddFacet(t, f) \/ RemoveFacet(t, f)
         \/ \E session \in Sessions : Login(t, session)
         \/ Logout(t)
         \/ \E p \in Projects, f \in Facets : AddProjectFacet(t, p, f) \/ RemoveProjectFacet(t, p, f)
  PROVE  HomeInv'
  <1> DEFINE loaded == IF Bootstrapped THEN config ELSE EmptyConfig
  <1>1. loaded \in Settings /\ Current(loaded)
    BY HomeRead
  <1>2. ASSUME NEW p \in Projects, InitProject(t, p)
        PROVE  HomeInv'
    <2> DEFINE base == HomeCommand("init", p, IF Bootstrapped THEN "create" ELSE "bootstrap")
               facets == IF Bootstrapped THEN config.facets ELSE DefaultFacets
               command == [base EXCEPT !.loaded.facets = facets]
               InitCommands == [op : {"init"}, arg : Projects, pc : InitPcs, loaded : Settings,
                                facet : {"none"}, extra : {{}}, disturbed : BOOLEAN]
    <2>1. Starts(t, command)
      BY <1>2 DEF InitProject
    <2>2. base \in InitCommands
      BY <1>1 DEF HomeCommand, InitPcs
    <2>3. /\ base.loaded = loaded
          /\ base.pc = IF Bootstrapped THEN "create" ELSE "bootstrap"
      BY DEF HomeCommand
    <2>4. facets \in SUBSET (Facets \cup DefaultFacets) /\ (Bootstrapped => loaded.facets = facets)
      BY <1>1 DEF Settings
    <2> HIDE DEF base, facets, loaded
    <2>5. /\ [loaded EXCEPT !.facets = facets] \in Settings
          /\ Current([loaded EXCEPT !.facets = facets])
          /\ Bootstrapped => [loaded EXCEPT !.facets = facets] = loaded
      BY <1>1, <2>4 DEF Settings, Current
    <2>6. /\ command \in InitCommands
          /\ command.pc = base.pc /\ command.loaded = [loaded EXCEPT !.facets = facets]
      BY <2>2, <2>3, <2>5
    <2>7. command \in Commands /\ command.op = "init"
      BY <2>6 DEF Commands
    <2> HIDE DEF command
    <2>8. Bootstrapped => command.loaded = config
      BY <2>5, <2>6 DEF loaded
    <2> QED  BY <2>1, <2>3, <2>5, <2>6, <2>7, <2>8, StartsKeep DEF ProjectOps
  <1>3. ASSUME NEW op \in {"connect", "add", "rm", "login"}, NEW arg, NEW pc \in {"ask", "empty"},
               Bootstrapped, Starts(t, HomeCommand(op, arg, pc)),
               HomeCommand(op, arg, pc) \in Commands, op = "connect" => IsRoot(arg)
        PROVE  HomeInv'
    <2> DEFINE command == HomeCommand(op, arg, pc)
    <2>1. command.op = op /\ command.arg = arg /\ command.pc = pc /\ command.loaded = config
      BY <1>3 DEF HomeCommand
    <2>2. Current(command.loaded)
      BY <1>1, <1>3, <2>1
    <2> HIDE DEF command
    <2>3. Starts(t, command) /\ command \in Commands
      BY <1>3 DEF command
    <2> QED  BY <1>3, <2>1, <2>2, <2>3, StartsKeep DEF ProjectOps
  <1>4. ASSUME NEW p \in Projects, Connect(t, p)
        PROVE  HomeInv'
    <2>1. HomeCommand("connect", p, "empty") \in
             [op : {"connect"}, arg : Projects, pc : {"empty", "fill"}, loaded : Settings,
              facet : {"none"}, extra : {{}}, disturbed : BOOLEAN]
      BY <1>1 DEF HomeCommand
    <2>2. HomeCommand("connect", p, "empty") \in Commands
      BY <2>1 DEF Commands
    <2> QED  BY <1>3, <1>4, <2>2 DEF Connect
  <1>5. ASSUME NEW f \in Facets \cup DefaultFacets, NEW op \in {"add", "rm"},
               Bootstrapped, Starts(t, HomeCommand(op, f, "empty"))
        PROVE  HomeInv'
    <2>1. HomeCommand(op, f, "empty") \in
             [op : {"add", "rm"}, arg : Facets \cup DefaultFacets, pc : {"empty", "fill"},
              loaded : Settings, facet : {"none"}, extra : {{}}, disturbed : BOOLEAN]
      BY <1>1 DEF HomeCommand
    <2>2. HomeCommand(op, f, "empty") \in Commands
      BY <2>1 DEF Commands
    <2> QED  BY <1>3, <1>5, <2>2
  <1>6. ASSUME NEW session \in Sessions \cup {NoToken}, NEW pc \in {"ask", "empty"},
               Bootstrapped, Starts(t, HomeCommand("login", session, pc))
        PROVE  HomeInv'
    <2>1. HomeCommand("login", session, pc) \in
             [op : {"login"}, arg : Sessions \cup {NoToken}, pc : {"ask", "empty", "fill"},
              loaded : Settings, facet : {"none"}, extra : {{}}, disturbed : BOOLEAN]
      BY <1>1 DEF HomeCommand
    <2>2. HomeCommand("login", session, pc) \in Commands
      BY <2>1 DEF Commands
    <2> QED  BY <1>3, <1>6, <2>2
  <1>7. ASSUME NEW p \in Projects, NEW f \in Facets, NEW op \in ProjectOps, NEW extra,
               IsRoot(p), extra = ChangedFacets([op |-> op, facet |-> f], project[p].facets),
               Starts(t, [HomeCommand(op, p, "emptyProject") EXCEPT !.facet = f, !.extra = extra])
        PROVE  HomeInv'
    <2> DEFINE base == HomeCommand(op, p, "emptyProject")
               command == [base EXCEPT !.facet = f, !.extra = extra]
               FacetCommands == [op : ProjectOps, arg : Projects, pc : {"emptyProject", "fillProject"},
                   loaded : Settings, facet : Facets \cup DefaultFacets \cup {"none"},
                   extra : SUBSET (Facets \cup DefaultFacets), disturbed : BOOLEAN]
    <2>1. Starts(t, command)
      BY <1>7
    <2>2. project[p] \in ProjectFiles
      BY <1>7 DEF HomeInv, HomeTypeOK, IsRoot, IsFile, Missing, Folder
    <2>3. extra \in SUBSET (Facets \cup DefaultFacets)
      BY <1>7, <2>2 DEF ProjectFiles, ChangedFacets, ProjectOps
    <2>4. base \in FacetCommands
      BY <1>1 DEF HomeCommand
    <2>5. base.op = op /\ base.arg = p /\ base.loaded = loaded /\ base.pc = "emptyProject"
      BY DEF HomeCommand
    <2> HIDE DEF base, loaded
    <2>6. /\ command.op = op /\ command.arg = p /\ command.loaded = loaded
          /\ command.pc = "emptyProject" /\ command.extra = extra /\ command.facet = f
      BY <2>4, <2>5
    <2>7. command \in Commands
      <3>1. command \in [op : ProjectOps, arg : Projects, pc : {"emptyProject", "fillProject"},
                loaded : Settings, facet : Facets \cup DefaultFacets,
                extra : SUBSET (Facets \cup DefaultFacets), disturbed : BOOLEAN]
        BY <2>3, <2>4
      <3> HIDE DEF command
      <3> QED  BY <3>1 DEF Commands
    <2> HIDE DEF command
    <2>8. ChangedFacets(command, project[p].facets) = extra
      BY <1>7, <2>6 DEF ChangedFacets, ProjectOps
    <2> QED  BY <1>1, <1>7, <2>1, <2>6, <2>7, <2>8, StartsKeep DEF ProjectOps, ReadsHome
  <1>8. ASSUME NEW p \in Projects, NEW f \in Facets, AddProjectFacet(t, p, f)
        PROVE  HomeInv'
    <2>1. project[p].facets \cup {f} = ChangedFacets([op |-> "addExtra", facet |-> f], project[p].facets)
      BY DEF ChangedFacets
    <2> QED  BY <1>7, <1>8, <2>1 DEF AddProjectFacet, ProjectOps
  <1>9. ASSUME NEW p \in Projects, NEW f \in Facets, RemoveProjectFacet(t, p, f)
        PROVE  HomeInv'
    <2>1. project[p].facets \ {f} = ChangedFacets([op |-> "rmExtra", facet |-> f], project[p].facets)
      BY DEF ChangedFacets
    <2> QED  BY <1>7, <1>9, <2>1 DEF RemoveProjectFacet, ProjectOps
  <1>10. CASE \E f \in Facets : AddFacet(t, f) \/ RemoveFacet(t, f)
    BY <1>5, <1>10 DEF AddFacet, RemoveFacet
  <1>11. CASE (\E session \in Sessions : Login(t, session)) \/ Logout(t)
    BY <1>6, <1>11 DEF Login, Logout
  <1> QED  BY <1>2, <1>4, <1>8, <1>9, <1>10, <1>11

\* What the others see of a command's step: at most that they are disturbed.
Kept(u) ==
    /\ terminal'[u] \in Commands
    /\ terminal'[u].op = terminal[u].op /\ terminal'[u].arg = terminal[u].arg
    /\ terminal'[u].pc = terminal[u].pc /\ terminal'[u].loaded = terminal[u].loaded
    /\ terminal'[u].facet = terminal[u].facet /\ terminal'[u].extra = terminal[u].extra
    /\ ~terminal'[u].disturbed => ~terminal[u].disturbed

LEMMA DisturbHome ==
  ASSUME terminal \in [Terminals -> Commands], NEW t \in Terminals, NEW x \in Commands,
         terminal' = [Disturb(t, ReadsHome) EXCEPT ![t] = x]
  PROVE  /\ terminal' \in [Terminals -> Commands] /\ terminal'[t] = x
         /\ \A u \in Terminals \ {t} :
               /\ Kept(u)
               /\ terminal[u].pc # "done" /\ ReadsHome(terminal[u]) => terminal'[u].disturbed
  <1>1. \A u \in Terminals \ {t} :
           terminal'[u] = IF terminal[u].pc # "done" /\ ReadsHome(terminal[u])
                          THEN [terminal[u] EXCEPT !.disturbed = TRUE] ELSE terminal[u]
    BY DEF Disturb
  <1>2. terminal'[t] = x
    BY DEF Disturb
  <1>3. ASSUME NEW u \in Terminals \ {t}
        PROVE  Kept(u) /\ (terminal[u].pc # "done" /\ ReadsHome(terminal[u]) => terminal'[u].disturbed)
    <2> DEFINE d == [terminal[u] EXCEPT !.disturbed = TRUE]
    <2>1. terminal[u] \in Commands
      OBVIOUS
    <2>2. /\ d \in Commands /\ d.op = terminal[u].op /\ d.arg = terminal[u].arg
          /\ d.pc = terminal[u].pc /\ d.loaded = terminal[u].loaded
          /\ d.facet = terminal[u].facet /\ d.extra = terminal[u].extra /\ d.disturbed = TRUE
      BY <2>1, CommandSteps
    <2>3. terminal'[u] = d \/ terminal'[u] = terminal[u]
      BY <1>1
    <2>4. terminal[u].pc # "done" /\ ReadsHome(terminal[u]) => terminal'[u] = d
      BY <1>1
    <2> HIDE DEF d
    <2> QED  BY <2>1, <2>2, <2>3, <2>4 DEF Kept
  <1>4. terminal' \in [Terminals -> Commands]
    BY <1>2, <1>3 DEF Disturb, Kept
  <1> QED  BY <1>2, <1>3, <1>4

LEMMA DisturbProject ==
  ASSUME terminal \in [Terminals -> Commands], NEW t \in Terminals, NEW x \in Commands, NEW p,
         terminal' = [Disturb(t, LAMBDA d : ReadsProject(d, p)) EXCEPT ![t] = x]
  PROVE  /\ terminal' \in [Terminals -> Commands] /\ terminal'[t] = x
         /\ \A u \in Terminals \ {t} :
               /\ Kept(u)
               /\ terminal[u].pc # "done" /\ ReadsProject(terminal[u], p) => terminal'[u].disturbed
  <1>1. \A u \in Terminals \ {t} :
           terminal'[u] = IF terminal[u].pc # "done" /\ ReadsProject(terminal[u], p)
                          THEN [terminal[u] EXCEPT !.disturbed = TRUE] ELSE terminal[u]
    BY DEF Disturb
  <1>2. terminal'[t] = x
    BY DEF Disturb
  <1>3. ASSUME NEW u \in Terminals \ {t}
        PROVE  Kept(u) /\ (terminal[u].pc # "done" /\ ReadsProject(terminal[u], p) => terminal'[u].disturbed)
    <2> DEFINE d == [terminal[u] EXCEPT !.disturbed = TRUE]
    <2>1. terminal[u] \in Commands
      OBVIOUS
    <2>2. /\ d \in Commands /\ d.op = terminal[u].op /\ d.arg = terminal[u].arg
          /\ d.pc = terminal[u].pc /\ d.loaded = terminal[u].loaded
          /\ d.facet = terminal[u].facet /\ d.extra = terminal[u].extra /\ d.disturbed = TRUE
      BY <2>1, CommandSteps
    <2>3. terminal'[u] = d \/ terminal'[u] = terminal[u]
      BY <1>1
    <2>4. terminal[u].pc # "done" /\ ReadsProject(terminal[u], p) => terminal'[u] = d
      BY <1>1
    <2> HIDE DEF d
    <2> QED  BY <2>1, <2>2, <2>3, <2>4 DEF Kept
  <1>4. terminal' \in [Terminals -> Commands]
    BY <1>2, <1>3 DEF Disturb, Kept
  <1> QED  BY <1>2, <1>3, <1>4

LEMMA RestKept ==
  ASSUME terminal \in [Terminals -> Commands], NEW t \in Terminals, NEW x \in Commands,
         terminal' = [terminal EXCEPT ![t] = x]
  PROVE  /\ terminal' \in [Terminals -> Commands] /\ terminal'[t] = x
         /\ \A u \in Terminals \ {t} : Kept(u)
  BY DEF Kept

\* A step that leaves the projects' files alone.
LEMMA FacetsKept ==
  ASSUME HomeInv, NEW t \in Terminals, project' = project, meantFacets' = meantFacets,
         harmed \subseteq harmed', terminal' \in [Terminals -> Commands],
         \A u \in Terminals \ {t} : Kept(u),
         terminal'[t].op \notin ProjectOps,
         \A p : FillingProject(t, p) => p \in harmed', \A p : ~FillingProject(t, p)'
  PROVE  MeantFacetsInv'
  <1>1. \A u \in Terminals : \A p : p \notin harmed' => (FillingProject(u, p)' <=> FillingProject(u, p))
    BY DEF FillingProject, Kept
  <1>2. \A p, but : p \notin harmed' => (WholeProject(p, but)' <=> WholeProject(p, but))
    BY <1>1 DEF WholeProject
  <1>3. ASSUME NEW p \in Projects
        PROVE  HoldsMeant(p)'
    <2>1. HoldsMeant(p)
      BY DEF HomeInv, MeantFacetsInv
    <2>2. p \notin harmed' => p \notin harmed
      OBVIOUS
    <2> QED  BY <1>2, <2>1, <2>2 DEF HoldsMeant, IsRoot
  <1>4. ASSUME NEW u \in Terminals
        PROVE  HasReadFacets(u)'
    <2>1. HasReadFacets(u)
      BY DEF HomeInv, MeantFacetsInv
    <2>2. u # t => ChangedFacets(terminal'[u], meantFacets[terminal[u].arg])
                   = ChangedFacets(terminal[u], meantFacets[terminal[u].arg])
      BY DEF ChangedFacets, Kept
    <2>3. u # t /\ terminal[u].arg \notin harmed' =>
             (WholeProject(terminal[u].arg, {u})' <=> WholeProject(terminal[u].arg, {u}))
      <3> SUFFICES ASSUME u # t, terminal[u].arg \notin harmed'
                   PROVE  \A v \in Terminals : FillingProject(v, terminal[u].arg)'
                                               <=> FillingProject(v, terminal[u].arg)
        BY DEF WholeProject
      <3>1. terminal'[u].arg = terminal[u].arg
        BY DEF Kept
      <3> QED  BY <1>1, <3>1 DEF FillingProject
    <2> QED  BY <2>1, <2>2, <2>3 DEF HasReadFacets, Kept
  <1> QED  BY <1>3, <1>4 DEF MeantFacetsInv

\* A step that leaves config.yaml alone.
LEMMA SettingsKept ==
  ASSUME HomeInv, NEW t \in Terminals, config' = config, meant' = meant,
         harmed \subseteq harmed', terminal' \in [Terminals -> Commands],
         \A u \in Terminals \ {t} : Kept(u),
         terminal[t].pc \in {"create", "emptyProject", "fillProject", "ask"} \/ terminal'[t].pc = "done",
         ~Filling(t)', Filling(t) => "home" \in harmed',
         terminal'[t].pc = "done" \/ 
            /\ terminal'[t].op = terminal[t].op /\ terminal'[t].loaded = terminal[t].loaded
            /\ terminal'[t].disturbed = terminal[t].disturbed
  PROVE  MeantInv'
  <1>1. "home" \notin harmed' => \A u \in Terminals : Filling(u)' <=> Filling(u)
    BY DEF Filling, Kept
  <1>2. "home" \notin harmed' => \A but : Whole(but)' <=> Whole(but)
    BY <1>1 DEF Whole
  <1>3. ASSUME NEW u \in Terminals
        PROVE  HasReadMeant(u)'
    <2>1. HasReadMeant(u)
      BY DEF HomeInv, MeantInv
    <2> QED  BY <1>2, <2>1 DEF HasReadMeant, Kept, ReadsHome
  <1>4. Bootstrapped' = Bootstrapped
    BY DEF Bootstrapped
  <1> QED  BY <1>2, <1>3, <1>4 DEF HomeInv, MeantInv

\* Projects keep their files.
LEMMA CurrentKept ==
  ASSUME HomeInv, NEW t \in Terminals, \A u \in Terminals \ {t} : Kept(u),
         \A p : IsRoot(p) => IsFile(project'[p]),
         Bootstrapped' => config'.current = NoProject \/ IsFile(project'[config'.current]),
         \/ terminal'[t] = AtRest
         \/ /\ terminal'[t].op = terminal[t].op /\ terminal'[t].arg = terminal[t].arg
            /\ terminal'[t].loaded = terminal[t].loaded
            /\ terminal'[t].op = "init" /\ terminal'[t].pc \in {"fillProject", "empty", "fill"} =>
                  IsFile(project'[terminal[t].arg])
  PROVE  CurrentInv'
  <1>1. \A u \in Terminals :
           LET c == terminal[u]
           IN /\ Current(c.loaded)
              /\ c.op \in {"connect"} \cup ProjectOps => IsRoot(c.arg)
              /\ c.op = "init" /\ c.pc \in {"fillProject", "empty", "fill"} => IsRoot(c.arg)
    BY DEF HomeInv, CurrentInv
  <1>2. ASSUME NEW u \in Terminals
        PROVE  /\ terminal'[u].loaded.current # NoProject => IsFile(project'[terminal'[u].loaded.current])
               /\ terminal'[u].op \in {"connect"} \cup ProjectOps => IsFile(project'[terminal'[u].arg])
               /\ terminal'[u].op = "init" /\ terminal'[u].pc \in {"fillProject", "empty", "fill"} =>
                     IsFile(project'[terminal'[u].arg])
    <2>1. CASE u # t
      BY <1>1, <2>1 DEF Kept, Current
    <2>2. CASE u = t /\ terminal'[t] = AtRest
      BY <2>2 DEF AtRest, EmptyConfig, Config, ProjectOps
    <2>3. CASE u = t /\ terminal'[t] # AtRest
      BY <1>1, <2>3 DEF Current
    <2> QED  BY <2>1, <2>2, <2>3
  <1>3. \A p : IsRoot(p)' <=> IsFile(project'[p])
    BY DEF IsRoot, IsFile
  <1> QED  BY <1>2, <1>3 DEF CurrentInv, Current

LEMMA AskedKeeps ==
  ASSUME HomeInv, NEW t \in Terminals, Asked(t)
  PROVE  HomeInv'
  <1> DEFINE c == terminal[t]
             x == [c EXCEPT !.pc = "empty"]
  <1>1. c \in Commands /\ c.pc = "ask" /\ terminal \in [Terminals -> Commands] /\ HomeTypeOK
    BY DEF HomeInv, HomeTypeOK, Asked
  <1>2. /\ x \in Commands /\ x.op = c.op /\ x.arg = c.arg /\ x.loaded = c.loaded
        /\ x.disturbed = c.disturbed /\ x.pc = "empty" /\ c.op \notin ProjectOps /\ c.op # "init"
    <2>1. c.op \notin ProjectOps
      BY <1>1, CommandFacts DEF ProjectOps
    <2>2. c.op # "init"
      BY <1>1 DEF Commands, InitPcs, ProjectOps
    <2>3. x \in Commands
      BY <1>1, CommandSteps
    <2>4. /\ x.op = c.op /\ x.arg = c.arg /\ x.loaded = c.loaded
          /\ x.disturbed = c.disturbed /\ x.pc = "empty"
      BY <1>1, StepFacts
    <2> QED  BY <2>1, <2>2, <2>3, <2>4
  <1>3. /\ terminal' = [terminal EXCEPT ![t] = x] /\ config' = config /\ project' = project
        /\ meant' = meant /\ meantFacets' = meantFacets /\ harmed' = harmed
    BY DEF Asked, Goes
  <1> HIDE DEF x
  <1>4. /\ terminal' \in [Terminals -> Commands] /\ terminal'[t] = x
        /\ \A u \in Terminals \ {t} : Kept(u)
    BY <1>1, <1>2, <1>3, RestKept
  <1>5. MeantFacetsInv'
    BY <1>1, <1>2, <1>3, <1>4, FacetsKept DEF FillingProject
  <1>6. MeantInv'
    BY <1>1, <1>2, <1>3, <1>4, SettingsKept DEF Filling
  <1>7. CurrentInv'
    <2>1. Bootstrapped' => config'.current = NoProject \/ IsFile(project'[config'.current])
      BY <1>3 DEF HomeInv, CurrentInv, Current, IsRoot, Bootstrapped
    <2>2. \A p : IsRoot(p) => IsFile(project'[p])
      BY <1>3 DEF IsRoot
    <2> QED  BY <1>2, <1>4, <2>1, <2>2, CurrentKept
  <1> QED  BY <1>1, <1>3, <1>4, <1>5, <1>6, <1>7 DEF HomeInv, HomeTypeOK

LEMMA EmptyFileKeeps ==
  ASSUME HomeInv, NEW t \in Terminals, EmptyFile(t)
  PROVE  HomeInv'
  <1> DEFINE c == terminal[t]
             x == [c EXCEPT !.pc = IF c.pc = "empty" THEN "fill" ELSE "fillHome"]
  <1>1. c \in Commands /\ c.pc \in {"empty", "bootstrap"} /\ terminal \in [Terminals -> Commands] /\ HomeTypeOK
    BY DEF HomeInv, HomeTypeOK, EmptyFile
  <1>2. /\ x \in Commands /\ x.op = c.op /\ x.arg = c.arg /\ x.loaded = c.loaded
        /\ x.disturbed = c.disturbed /\ c.op \notin ProjectOps
        /\ x.pc = IF c.pc = "empty" THEN "fill" ELSE "fillHome"
    <2>1. c.op \notin ProjectOps
      BY <1>1, CommandFacts DEF ProjectOps
    <2>2. CASE c.pc = "empty"
      <3> DEFINE d == [c EXCEPT !.pc = "fill"]
      <3>1. x = d
        BY <2>2
      <3>2. d \in Commands
        BY <1>1, <2>2, CommandSteps
      <3>3. /\ d.op = c.op /\ d.arg = c.arg /\ d.loaded = c.loaded
            /\ d.disturbed = c.disturbed /\ d.pc = "fill"
        BY <1>1, StepFacts
      <3> HIDE DEF x, d
      <3> QED  BY <1>1, <2>1, <2>2, <3>1, <3>2, <3>3
    <2>3. CASE c.pc = "bootstrap"
      <3> DEFINE d == [c EXCEPT !.pc = "fillHome"]
      <3>1. x = d
        BY <2>3
      <3>2. d \in Commands
        BY <1>1, <2>3, CommandSteps
      <3>3. /\ d.op = c.op /\ d.arg = c.arg /\ d.loaded = c.loaded
            /\ d.disturbed = c.disturbed /\ d.pc = "fillHome"
        BY <1>1, StepFacts
      <3> HIDE DEF x, d
      <3> QED  BY <1>1, <2>1, <2>3, <3>1, <3>2, <3>3
    <2> QED  BY <1>1, <2>2, <2>3
  <1>3. /\ terminal' = [Disturb(t, ReadsHome) EXCEPT ![t] = x] /\ config' = EmptyConfig
        /\ project' = project /\ meant' = meant /\ meantFacets' = meantFacets /\ harmed' = harmed
    <2>1. Disturb(t, ReadsHome)[t] = c
      BY DEF Disturb
    <2> QED  BY <2>1 DEF EmptyFile
  <1> HIDE DEF x
  <1>4. /\ terminal' \in [Terminals -> Commands] /\ terminal'[t] = x
        /\ \A u \in Terminals \ {t} :
              /\ Kept(u)
              /\ terminal[u].pc # "done" /\ ReadsHome(terminal[u]) => terminal'[u].disturbed
    BY <1>1, <1>2, <1>3, DisturbHome
  <1>5. MeantFacetsInv'
    BY <1>1, <1>2, <1>3, <1>4, FacetsKept DEF FillingProject
  <1>6. MeantInv'
    <2>1. Filling(t)' /\ (Whole({t})' <=> Whole({t}))
      BY <1>2, <1>4 DEF Filling, Whole, Kept
    <2>2. ASSUME NEW u \in Terminals
          PROVE  HasReadMeant(u)'
      <3>1. CASE u = t
        BY <1>1, <1>2, <1>3, <1>4, <2>1, <3>1 DEF HomeInv, MeantInv, HasReadMeant, ReadsHome
      <3>2. CASE u # t
        BY <1>4, <3>2 DEF HasReadMeant, Kept, ReadsHome
      <3> QED  BY <3>1, <3>2
    <2>3. ~Whole({})'
      BY <2>1 DEF Whole
    <2> QED  BY <2>2, <2>3 DEF MeantInv
  <1>7. CurrentInv'
    <2>1. config'.current = NoProject
      BY <1>3 DEF EmptyConfig, Config
    <2>2. \A p : IsRoot(p) => IsFile(project'[p])
      BY <1>3 DEF IsRoot
    <2>3. c.op = "init" /\ c.pc = "empty" => IsRoot(c.arg)
      BY DEF HomeInv, CurrentInv
    <2> QED  BY <1>1, <1>2, <1>4, <2>1, <2>2, <2>3, CurrentKept
  <1> QED  BY <1>1, <1>3, <1>4, <1>5, <1>6, <1>7, RestFacts DEF HomeInv, HomeTypeOK

LEMMA ChangedFacts ==
  ASSUME NEW c \in Commands, c.pc \in {"fill", "fillHome"}, NEW file \in Settings
  PROVE  /\ Changed(c, file) \in Settings
         /\ c.pc = "fillHome" => Changed(c, file) = file
         /\ \/ Changed(c, file).current = file.current
            \/ /\ c.op \in {"init", "connect"} /\ c.pc = "fill"
               /\ Changed(c, file).current = c.arg
  <1>1. CASE c.op \in {"init", "connect"} /\ c.pc = "fill"
    <2>1. Changed(c, file) = [file EXCEPT !.current = c.arg]
      BY <1>1 DEF Changed
    <2>2. c.arg \in Projects
      BY <1>1, CommandFacts
    <2> DEFINE saved == [file EXCEPT !.current = c.arg]
    <2>3. saved \in Settings
      BY <2>2 DEF Settings
    <2>4. saved.current = c.arg
      BY DEF Settings
    <2>5. Changed(c, file) = saved
      BY <2>1
    <2> HIDE DEF saved
    <2> QED  BY <1>1, <2>2, <2>3, <2>4, <2>5
  <1>2. CASE c.op = "init" /\ c.pc = "fillHome"
    <2>1. Changed(c, file) = file
      BY <1>2 DEF Changed
    <2> QED  BY <1>2, <2>1
  <1>3. CASE c.op = "add"
    <2>1. Changed(c, file) = [file EXCEPT !.facets = @ \cup {c.arg}]
      BY <1>3 DEF Changed
    <2>2. c.arg \in Facets \cup DefaultFacets /\ c.pc # "fillHome"
      BY <1>3, CommandFacts
    <2> DEFINE saved == [file EXCEPT !.facets = file.facets \cup {c.arg}]
    <2>3. saved \in Settings
      BY <2>2 DEF Settings
    <2>4. saved.current = file.current
      BY DEF Settings
    <2>5. Changed(c, file) = saved
      BY <2>1
    <2> HIDE DEF saved
    <2> QED  BY <1>3, <2>2, <2>3, <2>4, <2>5
  <1>4. CASE c.op = "rm"
    <2>1. Changed(c, file) = [file EXCEPT !.facets = @ \ {c.arg}]
      BY <1>4 DEF Changed
    <2>2. c.pc # "fillHome"
      BY <1>4, CommandFacts
    <2> DEFINE saved == [file EXCEPT !.facets = file.facets \ {c.arg}]
    <2>3. saved \in Settings
      BY <2>2 DEF Settings
    <2>4. saved.current = file.current
      BY DEF Settings
    <2>5. Changed(c, file) = saved
      BY <2>1
    <2> HIDE DEF saved
    <2> QED  BY <1>4, <2>2, <2>3, <2>4, <2>5
  <1>5. CASE c.op = "login"
    <2>1. Changed(c, file) = [file EXCEPT !.token = c.arg]
      BY <1>5 DEF Changed
    <2>2. c.arg \in Sessions \cup {NoToken} /\ c.pc # "fillHome"
      BY <1>5, CommandFacts
    <2> DEFINE saved == [file EXCEPT !.token = c.arg]
    <2>3. saved \in Settings
      BY <2>2 DEF Settings
    <2>4. saved.current = file.current
      BY DEF Settings
    <2>5. Changed(c, file) = saved
      BY <2>1
    <2> HIDE DEF saved
    <2> QED  BY <1>5, <2>2, <2>3, <2>4, <2>5
  <1>6. /\ c.op \in {"init", "connect", "add", "rm", "login"}
        /\ c.pc = "fillHome" => c.op = "init"
    BY CommandFacts
  <1> QED  BY <1>1, <1>2, <1>3, <1>4, <1>5, <1>6

LEMMA FillFileKeeps ==
  ASSUME HomeInv, NEW t \in Terminals, FillFile(t)
  PROVE  HomeInv'
  <1> DEFINE c == terminal[t]
             x == IF c.pc = "fill" THEN AtRest ELSE [c EXCEPT !.pc = "create"]
  <1>1. c \in Commands /\ c.pc \in {"fill", "fillHome"} /\ terminal \in [Terminals -> Commands] /\ HomeTypeOK
    BY DEF HomeInv, HomeTypeOK, FillFile
  <1>2. /\ x \in Commands /\ c.op \notin ProjectOps
        /\ c.pc = "fill" => x = AtRest
        /\ c.pc = "fillHome" =>
              /\ c.op = "init" /\ x.op = c.op /\ x.arg = c.arg /\ x.loaded = c.loaded
              /\ x.disturbed = c.disturbed /\ x.pc = "create"
    <2>1. c.op \notin ProjectOps /\ (c.pc = "fillHome" => c.op = "init")
      BY <1>1, CommandFacts DEF ProjectOps
    <2>2. CASE c.pc = "fill"
      BY <2>1, <2>2, RestFacts
    <2>3. CASE c.pc = "fillHome"
      <3> DEFINE d == [c EXCEPT !.pc = "create"]
      <3>1. x = d
        BY <2>3
      <3>2. d \in Commands
        BY <1>1, <2>3, CommandSteps
      <3>3. /\ d.op = c.op /\ d.arg = c.arg /\ d.loaded = c.loaded
            /\ d.disturbed = c.disturbed /\ d.pc = "create"
        BY <1>1, StepFacts
      <3> HIDE DEF x, d
      <3> QED  BY <1>1, <2>1, <2>3, <3>1, <3>2, <3>3
    <2> QED  BY <1>1, <2>2, <2>3
  <1>3. /\ terminal' = [Disturb(t, ReadsHome) EXCEPT ![t] = x]
        /\ config' = Changed(c, c.loaded)
        /\ meant' = IF c.pc = "fillHome" THEN c.loaded ELSE Changed(c, meant)
        /\ harmed' = IF c.disturbed THEN harmed \cup {"home"} ELSE harmed
        /\ project' = project /\ meantFacets' = meantFacets
    BY DEF FillFile
  <1> HIDE DEF x
  <1>4. /\ terminal' \in [Terminals -> Commands] /\ terminal'[t] = x
        /\ \A u \in Terminals \ {t} :
              /\ Kept(u)
              /\ terminal[u].pc # "done" /\ ReadsHome(terminal[u]) => terminal'[u].disturbed
    BY <1>1, <1>2, <1>3, DisturbHome
  <1>5. /\ x.op \notin ProjectOps /\ x.pc \in {"create", "done"}
    BY <1>1, <1>2 DEF AtRest, ProjectOps
  <1>6. MeantFacetsInv'
    BY <1>1, <1>3, <1>4, <1>5, FacetsKept DEF FillingProject
  <1>7. c.loaded \in Settings /\ meant \in Settings /\ Current(c.loaded)
    BY <1>1, CommandFacts DEF HomeTypeOK, HomeInv, CurrentInv
  <1>8. config' \in Settings /\ meant' \in Settings
    BY <1>1, <1>3, <1>7, ChangedFacts
  <1>9. MeantInv'
    <2>1. Whole({})' => Whole({t})
      BY <1>4 DEF Whole, Filling, Kept
    <2>2. c.pc = "fill" => ReadsHome(c)
      BY <1>2 DEF ReadsHome
    <2>3. ASSUME "home" \notin harmed', Whole({})'
          PROVE  config' = meant'
      <3>1. CASE c.pc = "fillHome"
        BY <1>1, <1>3, <1>7, <3>1, ChangedFacts
      <3>2. CASE c.pc = "fill"
        <4>1. ~c.disturbed /\ "home" \notin harmed
          BY <1>1, <1>3, <2>3 DEF Commands
        <4>2. HasReadMeant(t)
          BY DEF HomeInv, MeantInv
        <4>3. c.loaded = meant
          BY <2>1, <2>2, <2>3, <3>2, <4>1, <4>2 DEF HasReadMeant
        <4> QED  BY <1>3, <3>2, <4>3
      <3> QED  BY <1>1, <3>1, <3>2
    <2>4. ASSUME NEW u \in Terminals
          PROVE  HasReadMeant(u)'
      <3>1. CASE u = t
        BY <1>1, <1>2, <1>3, <1>4, <3>1 DEF HasReadMeant, AtRest
      <3>2. CASE u # t
        BY <1>4, <3>2 DEF HasReadMeant, Kept, ReadsHome
      <3> QED  BY <3>1, <3>2
    <2> QED  BY <2>3, <2>4 DEF MeantInv
  <1>10. CurrentInv'
    <2>1. \A p : IsRoot(p) => IsFile(project'[p])
      BY <1>3 DEF IsRoot
    <2>2. config'.current = NoProject \/ IsFile(project'[config'.current])
      <3>1. c.op \in {"init", "connect"} /\ c.pc = "fill" => IsRoot(c.arg)
        BY DEF HomeInv, CurrentInv
      <3> QED  BY <1>1, <1>3, <1>7, <2>1, <3>1, ChangedFacts DEF Current
    <2> QED  BY <1>1, <1>2, <1>4, <2>1, <2>2, CurrentKept
  <1> QED  BY <1>1, <1>3, <1>4, <1>6, <1>8, <1>9, <1>10 DEF HomeInv, HomeTypeOK

\* config.yaml is not touched: what is left of the invariant is of the projects' files.
LEMMA CreateProjectKeeps ==
  ASSUME HomeInv, NEW t \in Terminals, CreateProject(t)
  PROVE  HomeInv'
  <1> DEFINE c == terminal[t]
             d == [c EXCEPT !.pc = "emptyProject"]
             x == IF project[c.arg] # Missing THEN AtRest ELSE d
  <1>1. c \in Commands /\ c.pc = "create" /\ terminal \in [Terminals -> Commands] /\ HomeTypeOK
    BY DEF HomeInv, HomeTypeOK, CreateProject
  <1>2. c.op = "init" /\ c.arg \in Projects
    BY <1>1, CommandFacts
  <1>3. d \in Commands
    BY <1>1, CommandSteps
  <1>4. /\ d.op = c.op /\ d.arg = c.arg /\ d.loaded = c.loaded
        /\ d.disturbed = c.disturbed /\ d.pc = "emptyProject"
    BY <1>1, StepFacts
  <1>5. /\ terminal' = [terminal EXCEPT ![t] = x] /\ config' = config
        /\ meant' = meant /\ meantFacets' = meantFacets /\ harmed' = harmed
        /\ project' = IF project[c.arg] # Missing THEN project ELSE [project EXCEPT ![c.arg] = Folder]
    BY DEF CreateProject
  <1> HIDE DEF d
  <1>6. /\ x \in Commands /\ x.op \notin ProjectOps /\ x.pc \in {"emptyProject", "done"}
        /\ \/ x = AtRest
           \/ /\ x.op = c.op /\ x.arg = c.arg /\ x.loaded = c.loaded
              /\ x.disturbed = c.disturbed /\ x.pc = "emptyProject"
    BY <1>2, <1>3, <1>4, RestFacts DEF AtRest, ProjectOps
  <1> HIDE DEF x
  <1>7. /\ terminal' \in [Terminals -> Commands] /\ terminal'[t] = x
        /\ \A u \in Terminals \ {t} : Kept(u)
    BY <1>1, <1>5, <1>6, RestKept
  <1>8. \A p \in Projects : /\ IsFile(project'[p]) <=> IsRoot(p)
                            /\ IsRoot(p) => project'[p] = project[p]
    BY <1>1, <1>2, <1>5 DEF HomeTypeOK, IsRoot, IsFile, Missing, Folder
  <1>9. MeantInv'
    BY <1>1, <1>5, <1>6, <1>7, SettingsKept DEF Filling, AtRest
  <1>10. MeantFacetsInv'
    <2>1. \A u \in Terminals : \A p : FillingProject(u, p)' <=> FillingProject(u, p)
      BY <1>1, <1>6, <1>7 DEF FillingProject, Kept
    <2>2. \A p, but : WholeProject(p, but)' <=> WholeProject(p, but)
      BY <2>1 DEF WholeProject
    <2>3. ASSUME NEW p \in Projects
          PROVE  HoldsMeant(p)'
      <3>1. HoldsMeant(p)
        BY DEF HomeInv, MeantFacetsInv
      <3>2. IsRoot(p)' <=> IsRoot(p)
        BY <1>8 DEF IsRoot
      <3> QED  BY <1>5, <1>8, <2>2, <3>1, <3>2 DEF HoldsMeant
    <2>4. ASSUME NEW u \in Terminals
          PROVE  HasReadFacets(u)'
      <3>1. HasReadFacets(u)
        BY DEF HomeInv, MeantFacetsInv
      <3>2. CASE u = t
        BY <1>6, <1>7, <3>2 DEF HasReadFacets
      <3>3. CASE u # t
        <4>1. Kept(u) /\ (WholeProject(terminal[u].arg, {u})' <=> WholeProject(terminal[u].arg, {u}))
          <5>1. Kept(u)
            BY <1>7, <3>3
          <5>2. \A v \in Terminals : FillingProject(v, terminal[u].arg)' <=> FillingProject(v, terminal[u].arg)
            BY <2>1, <5>1 DEF Kept, FillingProject
          <5> QED  BY <5>1, <5>2 DEF WholeProject
        <4>2. ChangedFacets(terminal'[u], meantFacets[terminal[u].arg])
              = ChangedFacets(terminal[u], meantFacets[terminal[u].arg])
          BY <4>1 DEF ChangedFacets, Kept
        <4> QED  BY <1>5, <3>1, <4>1, <4>2 DEF HasReadFacets, Kept
      <3> QED  BY <3>2, <3>3
    <2> QED  BY <2>3, <2>4 DEF MeantFacetsInv
  <1>11. CurrentInv'
    <2>1. \A p : IsRoot(p) => IsFile(project'[p])
      BY <1>1, <1>2, <1>5 DEF HomeTypeOK, IsRoot, IsFile, Missing, Folder
    <2>2. Bootstrapped' => config'.current = NoProject \/ IsFile(project'[config'.current])
      BY <1>5, <2>1 DEF HomeInv, CurrentInv, Current, Bootstrapped
    <2> QED  BY <1>6, <1>7, <2>1, <2>2, CurrentKept
  <1>12. project' \in [Projects -> {Missing, Folder} \cup ProjectFiles]
    BY <1>1, <1>2, <1>5 DEF HomeTypeOK
  <1> QED  BY <1>1, <1>5, <1>7, <1>9, <1>10, <1>11, <1>12 DEF HomeInv, HomeTypeOK

\* A step that writes p's file: it disturbs those that have read it.
LEMMA ProjectWritten ==
  ASSUME HomeInv, NEW t \in Terminals, NEW p \in Projects, NEW file \in ProjectFiles,
         project' = [project EXCEPT ![p] = file],
         meantFacets' \in [Projects -> SUBSET (Facets \cup DefaultFacets)],
         \A q \in Projects \ {p} : meantFacets'[q] = meantFacets[q],
         harmed \subseteq harmed', harmed' \subseteq harmed \cup {p},
         terminal[t].arg = p, terminal[t].pc # "done",
         terminal'[t].pc = "fillProject" => terminal'[t].arg = p,
         \A u \in Terminals \ {t} :
            /\ Kept(u)
            /\ terminal[u].pc # "done" /\ ReadsProject(terminal[u], p) => terminal'[u].disturbed,
         HoldsMeant(p)', HasReadFacets(t)'
  PROVE  MeantFacetsInv'
  <1>1. \A u \in Terminals : \A q : q # p => (FillingProject(u, q)' <=> FillingProject(u, q))
    BY DEF FillingProject, Kept
  <1>2. \A q, but : q # p => (WholeProject(q, but)' <=> WholeProject(q, but))
    BY <1>1 DEF WholeProject
  <1>3. project \in [Projects -> {Missing, Folder} \cup ProjectFiles] /\ terminal \in [Terminals -> Commands]
    BY DEF HomeInv, HomeTypeOK
  <1>4. ASSUME NEW q \in Projects, q # p
        PROVE  HoldsMeant(q)'
    <2>1. HoldsMeant(q)
      BY DEF HomeInv, MeantFacetsInv
    <2>2. project'[q] = project[q]
      BY <1>3, <1>4
    <2>3. IsRoot(q)' <=> IsRoot(q)
      BY <2>2 DEF IsRoot
    <2> QED  BY <1>2, <1>4, <2>1, <2>2, <2>3 DEF HoldsMeant
  <1>5. ASSUME NEW u \in Terminals, u # t
        PROVE  HasReadFacets(u)'
    <2>1. Kept(u) /\ HasReadFacets(u)
      BY <1>5 DEF HomeInv, MeantFacetsInv
    <2>2. terminal[u].op \in ProjectOps => terminal[u].arg \in Projects /\ terminal[u].pc # "done"
      BY <1>3, CommandFacts
    <2>3. CASE terminal[u].arg = p
      BY <1>5, <2>1, <2>2, <2>3 DEF HasReadFacets, Kept, ReadsProject
    <2>4. CASE terminal[u].arg # p
      <3>1. WholeProject(terminal[u].arg, {u})' <=> WholeProject(terminal[u].arg, {u})
        <4>1. \A v \in Terminals : FillingProject(v, terminal[u].arg)' <=> FillingProject(v, terminal[u].arg)
          BY <1>1, <2>1, <2>4 DEF Kept, FillingProject
        <4> QED  BY <4>1 DEF WholeProject
      <3>2. ChangedFacets(terminal'[u], meantFacets[terminal[u].arg])
            = ChangedFacets(terminal[u], meantFacets[terminal[u].arg])
        BY <2>1 DEF ChangedFacets, Kept
      <3> QED  BY <2>1, <2>2, <2>4, <3>1, <3>2 DEF HasReadFacets, Kept
    <2> QED  BY <2>3, <2>4
  <1> QED  BY <1>4, <1>5 DEF MeantFacetsInv

LEMMA EmptyProjectKeeps ==
  ASSUME HomeInv, NEW t \in Terminals, EmptyProject(t)
  PROVE  HomeInv'
  <1> DEFINE c == terminal[t]
             x == [c EXCEPT !.pc = "fillProject"]
  <1>1. /\ c \in Commands /\ c.pc = "emptyProject" /\ terminal \in [Terminals -> Commands] /\ HomeTypeOK
        /\ meantFacets \in [Projects -> SUBSET (Facets \cup DefaultFacets)]
    BY DEF HomeInv, HomeTypeOK, EmptyProject
  <1>2. PICK p \in Projects : c.arg = p
    BY <1>1, CommandFacts
  <1>3. x \in Commands
    BY <1>1, CommandSteps
  <1>4. /\ x.op = c.op /\ x.arg = c.arg /\ x.loaded = c.loaded /\ x.facet = c.facet
        /\ x.extra = c.extra /\ x.disturbed = c.disturbed /\ x.pc = "fillProject"
    BY <1>1, StepFacts
  <1>5. /\ terminal' = [Disturb(t, LAMBDA d : ReadsProject(d, p)) EXCEPT ![t] = x]
        /\ project' = [project EXCEPT ![p] = ProjectFile({})]
        /\ config' = config /\ meant' = meant /\ meantFacets' = meantFacets /\ harmed' = harmed
    <2>1. Disturb(t, LAMBDA d : ReadsProject(d, p))[t] = c
      BY DEF Disturb
    <2> QED  BY <1>2, <2>1 DEF EmptyProject, Disturb
  <1> HIDE DEF x
  <1>6. /\ terminal' \in [Terminals -> Commands] /\ terminal'[t] = x
        /\ \A u \in Terminals \ {t} :
              /\ Kept(u)
              /\ terminal[u].pc # "done" /\ ReadsProject(terminal[u], p) => terminal'[u].disturbed
    BY <1>1, <1>3, <1>5, DisturbProject
  <1>7. ProjectFile({}) \in ProjectFiles
    BY DEF ProjectFile, ProjectFiles
  <1>8. MeantInv'
    BY <1>1, <1>4, <1>5, <1>6, SettingsKept DEF Filling
  <1>9. HoldsMeant(p)'
    <2>1. \E u \in Terminals : terminal'[u].pc = "fillProject" /\ terminal'[u].arg = p
      BY <1>2, <1>4, <1>6
    <2> QED  BY <2>1 DEF HoldsMeant, WholeProject, FillingProject
  <1>10. HasReadFacets(t)'
    <2>1. HasReadFacets(t)
      BY DEF HomeInv, MeantFacetsInv
    <2>2. ChangedFacets(x, meantFacets[p]) = ChangedFacets(c, meantFacets[p])
      BY <1>4 DEF ChangedFacets
    <2>3. ASSUME NEW v \in Terminals \ {t}
          PROVE  terminal'[v].pc = terminal[v].pc /\ terminal'[v].arg = terminal[v].arg
      BY <1>6 DEF Kept
    <2>4. WholeProject(p, {t})' => WholeProject(p, {t})
      BY <2>3 DEF WholeProject, FillingProject
    <2>5. SUFFICES ASSUME c.op \in ProjectOps, ~c.disturbed, p \notin harmed, WholeProject(p, {t})'
                   PROVE  x.extra = ChangedFacets(x, meantFacets[p])
      BY <1>2, <1>4, <1>5, <1>6 DEF HasReadFacets
    <2> QED  BY <1>2, <1>4, <2>1, <2>2, <2>4, <2>5 DEF HasReadFacets
  <1>11. MeantFacetsInv'
    BY <1>1, <1>2, <1>4, <1>5, <1>6, <1>7, <1>9, <1>10, ProjectWritten
  <1>12. CurrentInv'
    <2>1. \A q : IsRoot(q) => IsFile(project'[q])
      BY <1>1, <1>2, <1>5 DEF HomeTypeOK, IsRoot, IsFile, ProjectFile
    <2>2. Bootstrapped' => config'.current = NoProject \/ IsFile(project'[config'.current])
      BY <1>5, <2>1 DEF HomeInv, CurrentInv, Current, Bootstrapped
    <2>3. IsFile(project'[p])
      BY <1>1, <1>2, <1>5 DEF HomeTypeOK, IsFile, ProjectFile
    <2> QED  BY <1>2, <1>4, <1>6, <2>1, <2>2, <2>3, CurrentKept
  <1>13. project' \in [Projects -> {Missing, Folder} \cup ProjectFiles]
    BY <1>1, <1>2, <1>5, <1>7 DEF HomeTypeOK
  <1> QED  BY <1>1, <1>5, <1>6, <1>8, <1>11, <1>12, <1>13 DEF HomeInv, HomeTypeOK

LEMMA FillProjectKeeps ==
  ASSUME HomeInv, NEW t \in Terminals, FillProject(t)
  PROVE  HomeInv'
  <1> DEFINE c == terminal[t]
             d == [c EXCEPT !.pc = "empty"]
             x == IF c.op \in ProjectOps THEN AtRest ELSE d
  <1>1. /\ c \in Commands /\ c.pc = "fillProject" /\ terminal \in [Terminals -> Commands] /\ HomeTypeOK
        /\ meantFacets \in [Projects -> SUBSET (Facets \cup DefaultFacets)]
    BY DEF HomeInv, HomeTypeOK, FillProject
  <1>16. PICK p \in Projects : c.arg = p
    BY <1>1, CommandFacts
  <1>2. /\ c.arg = p /\ c.op \in {"init"} \cup ProjectOps
        /\ c.extra \in SUBSET (Facets \cup DefaultFacets)
        /\ c.op \in ProjectOps => c.facet \in Facets \cup DefaultFacets
        /\ c.op = "init" => c.extra = {}
    BY <1>1, <1>16, CommandFacts
  <1>3. c.op \notin ProjectOps => d \in Commands
    BY <1>1, CommandSteps
  <1>4. /\ d.op = c.op /\ d.arg = c.arg /\ d.loaded = c.loaded
        /\ d.disturbed = c.disturbed /\ d.pc = "empty"
    BY <1>1, StepFacts
  <1>5. /\ terminal' = [Disturb(t, LAMBDA e : ReadsProject(e, p)) EXCEPT ![t] = x]
        /\ project' = [project EXCEPT ![p] = ProjectFile(c.extra)]
        /\ meantFacets' = [meantFacets EXCEPT ![p] = ChangedFacets(c, meantFacets[p])]
        /\ harmed' = IF c.op \in ProjectOps /\ c.disturbed THEN harmed \cup {p} ELSE harmed
        /\ config' = config /\ meant' = meant
    BY <1>2 DEF FillProject
  <1> HIDE DEF d
  <1>6. /\ x \in Commands /\ x.op \notin ProjectOps /\ x.pc \in {"empty", "done"}
        /\ \/ x = AtRest
           \/ /\ x.op = c.op /\ x.arg = c.arg /\ x.loaded = c.loaded
              /\ x.disturbed = c.disturbed /\ x.pc = "empty"
    BY <1>3, <1>4, RestFacts DEF AtRest, ProjectOps
  <1> HIDE DEF x
  <1>7. /\ terminal' \in [Terminals -> Commands] /\ terminal'[t] = x
        /\ \A u \in Terminals \ {t} :
              /\ Kept(u)
              /\ terminal[u].pc # "done" /\ ReadsProject(terminal[u], p) => terminal'[u].disturbed
    BY <1>1, <1>5, <1>6, DisturbProject
  <1>8. /\ ProjectFile(c.extra) \in ProjectFiles
        /\ ChangedFacets(c, meantFacets[p]) \in SUBSET (Facets \cup DefaultFacets)
    <2>1. ProjectFile(c.extra) \in ProjectFiles
      BY <1>2 DEF ProjectFile, ProjectFiles
    <2>2. meantFacets[p] \in SUBSET (Facets \cup DefaultFacets)
      BY <1>1, <1>2
    <2>3. CASE c.op = "addExtra"
      BY <1>2, <2>1, <2>2, <2>3 DEF ChangedFacets, ProjectOps
    <2>4. CASE c.op = "rmExtra"
      BY <1>2, <2>1, <2>2, <2>4 DEF ChangedFacets, ProjectOps
    <2>5. CASE c.op = "init"
      BY <2>1, <2>5 DEF ChangedFacets
    <2> QED  BY <1>2, <2>1, <2>3, <2>4, <2>5 DEF ProjectOps
  <1>9. MeantInv'
    <2>1. \/ terminal'[t].pc = "done"
          \/ /\ terminal'[t].op = terminal[t].op /\ terminal'[t].loaded = terminal[t].loaded
             /\ terminal'[t].disturbed = terminal[t].disturbed
      BY <1>6, <1>7 DEF AtRest
    <2>2. ~Filling(t) /\ ~Filling(t)' /\ harmed \subseteq harmed'
      BY <1>1, <1>5, <1>6, <1>7 DEF Filling
    <2>3. terminal[t].pc \in {"create", "emptyProject", "fillProject", "ask"}
      BY <1>1
    <2> QED  BY <1>5, <1>7, <2>1, <2>2, <2>3, SettingsKept
  <1>10. HoldsMeant(p)'
    <2>1. project'[p].facets = c.extra /\ meantFacets'[p] = ChangedFacets(c, meantFacets[p])
      BY <1>1, <1>2, <1>5 DEF HomeTypeOK, ProjectFile
    <2>2. CASE c.op = "init"
      BY <1>2, <2>1, <2>2 DEF HoldsMeant, ChangedFacets
    <2>3. CASE c.op \in ProjectOps
      <3>1. HasReadFacets(t)
        BY DEF HomeInv, MeantFacetsInv
      <3>2. WholeProject(p, {})' => WholeProject(p, {t})
        <4>1. ASSUME NEW v \in Terminals \ {t}
              PROVE  terminal'[v].pc = terminal[v].pc /\ terminal'[v].arg = terminal[v].arg
          BY <1>7 DEF Kept
        <4> QED  BY <4>1 DEF WholeProject, FillingProject
      <3>3. p \notin harmed' => ~c.disturbed /\ p \notin harmed
        BY <1>5, <2>3
      <3> QED  BY <1>2, <2>1, <2>3, <3>1, <3>2, <3>3 DEF HoldsMeant, HasReadFacets
    <2> QED  BY <1>2, <2>2, <2>3
  <1>11. HasReadFacets(t)'
    BY <1>6, <1>7 DEF HasReadFacets
  <1>12. meantFacets' \in [Projects -> SUBSET (Facets \cup DefaultFacets)]
    BY <1>1, <1>2, <1>5, <1>8
  <1>13. MeantFacetsInv'
    BY <1>1, <1>2, <1>5, <1>6, <1>7, <1>8, <1>10, <1>11, <1>12, ProjectWritten
  <1>14. CurrentInv'
    <2>1. \A q : IsRoot(q) => IsFile(project'[q])
      BY <1>1, <1>2, <1>5 DEF HomeTypeOK, IsRoot, IsFile, ProjectFile
    <2>2. Bootstrapped' => config'.current = NoProject \/ IsFile(project'[config'.current])
      BY <1>5, <2>1 DEF HomeInv, CurrentInv, Current, Bootstrapped
    <2>3. IsFile(project'[p])
      BY <1>1, <1>2, <1>5 DEF HomeTypeOK, IsFile, ProjectFile
    <2> QED  BY <1>2, <1>6, <1>7, <2>1, <2>2, <2>3, CurrentKept
  <1>15. project' \in [Projects -> {Missing, Folder} \cup ProjectFiles]
    BY <1>1, <1>2, <1>5, <1>8 DEF HomeTypeOK
  <1> QED  BY <1>1, <1>5, <1>7, <1>9, <1>12, <1>13, <1>14, <1>15 DEF HomeInv, HomeTypeOK

LEMMA KillKeeps ==
  ASSUME HomeInv, NEW t \in Terminals, KillCommand(t)
  PROVE  HomeInv'
  <1> DEFINE c == terminal[t]
  <1>1. c \in Commands /\ terminal \in [Terminals -> Commands] /\ HomeTypeOK
    BY DEF HomeInv, HomeTypeOK
  <1>2. /\ terminal' = [terminal EXCEPT ![t] = AtRest]
        /\ config' = config /\ project' = project /\ meant' = meant /\ meantFacets' = meantFacets
    BY DEF KillCommand
  <1>3. /\ harmed \subseteq harmed'
        /\ c.pc \in {"fill", "fillHome"} => "home" \in harmed'
        /\ c.pc = "fillProject" => c.arg \in harmed'
    BY DEF KillCommand
  <1>4. /\ terminal' \in [Terminals -> Commands] /\ terminal'[t] = AtRest
        /\ \A u \in Terminals \ {t} : Kept(u)
    BY <1>1, <1>2, RestFacts, RestKept
  <1>5. AtRest.op = "none" /\ AtRest.pc = "done"
    BY DEF AtRest
  <1>6. MeantInv'
    BY <1>2, <1>3, <1>4, <1>5, SettingsKept DEF Filling
  <1>7. MeantFacetsInv'
    <2>1. /\ terminal'[t].op \notin ProjectOps
          /\ \A p : FillingProject(t, p) => p \in harmed'
          /\ \A p : ~FillingProject(t, p)'
      BY <1>3, <1>4, <1>5 DEF FillingProject, ProjectOps
    <2> QED  BY <1>2, <1>3, <1>4, <2>1, FacetsKept
  <1>8. CurrentInv'
    <2>1. \A p : IsRoot(p) => IsFile(project'[p])
      BY <1>2 DEF IsRoot
    <2>2. Bootstrapped' => config'.current = NoProject \/ IsFile(project'[config'.current])
      BY <1>2, <2>1 DEF HomeInv, CurrentInv, Current, Bootstrapped
    <2> QED  BY <1>4, <2>1, <2>2, CurrentKept
  <1> QED  BY <1>1, <1>2, <1>4, <1>6, <1>7, <1>8 DEF HomeInv, HomeTypeOK

LEMMA HomeInvAlways == HomeSpec => []HomeInv
  <1>1. ASSUME HomeInv, [HomeNext]_homeVars
        PROVE  HomeInv'
    <2>1. CASE UNCHANGED homeVars
      <3>1. \A u \in Terminals : \A p : Filling(u)' = Filling(u) /\ FillingProject(u, p)' = FillingProject(u, p)
        BY <2>1 DEF homeVars, Filling, FillingProject
      <3> QED
        BY <1>1, <2>1 DEF homeVars, HomeInv, HomeTypeOK, CurrentInv, Current, MeantInv,
           MeantFacetsInv, HasReadMeant, HasReadFacets, HoldsMeant, Whole, WholeProject, Filling,
           FillingProject, Bootstrapped, IsRoot
    <2>2. CASE HomeNext
      <3> SUFFICES ASSUME NEW t \in Terminals, CommandNext(t)
                   PROVE  HomeInv'
        BY <2>2 DEF HomeNext
      <3> QED
        BY <1>1, BeginKeep, AskedKeeps, EmptyFileKeeps, FillFileKeeps, CreateProjectKeeps,
           EmptyProjectKeeps, FillProjectKeeps, KillKeeps DEF CommandNext
    <2> QED  BY <1>1, <2>1, <2>2
  <1> QED  BY <1>1, HomeInitInv, PTL DEF HomeSpec

\* Commands that overlap or are killed cost at most what one of them was saving, and the
\* current project always has its file.
THEOREM SettingsAreKept == HomeSpec => []HomeIsKept
  <1>1. HomeInv => HomeIsKept
    <2> SUFFICES ASSUME HomeInv PROVE HomeIsKept
      OBVIOUS
    <2>1. CurrentIsThere
      BY DEF HomeInv, CurrentInv, Current, CurrentIsThere
    <2>2. ~Writing({"fill", "fillHome"}, "home") => Whole({})
      BY DEF Writing, Whole, Filling
    <2>3. \A p \in Projects : ~Writing({"fillProject"}, p) => WholeProject(p, {})
      BY DEF Writing, WholeProject, FillingProject
    <2>4. SettingsLostOnlyByRace
      BY <2>2, <2>3 DEF HomeInv, MeantInv, MeantFacetsInv, HoldsMeant, SettingsLostOnlyByRace
    <2> QED  BY <2>1, <2>4 DEF HomeIsKept
  <1> QED  BY <1>1, HomeInvAlways, PTL

-----------------------------------------------------------------------------
(* The project.  A command works on a text and a tree that it read some    *)
(* steps ago.  The argument is that they are still so unless it has been   *)
(* told (since, doubt), that an index that is fresh was written by such a  *)
(* command, and that what push leaves out was at the server, as hashed,    *)
(* when it looked, and is unless it has been told (rivals).                *)

\* Names of folders.
Letters == Names \cup UNION {Range(p) : p \in Tree}

\* A folder's path has names, and the folders above it are there.
TreeIsClosed ==
    \A p \in dirs : /\ p \in Seq(Letters) /\ p # << >>
                    /\ \A k \in 1 .. Len(p) : SubSeq(p, 1, k) \in dirs

\* Entries and indexes are in folders.
InFolders == DOMAIN md \subseteq dirs /\ DOMAIN conf \subseteq dirs

IsIndex(x) ==
    x \in [to : {x.to}, resolved : {x.resolved}, fresh : BOOLEAN, doubt : SUBSET Doubts]

IsRemote(x) == x \in [text : {x.text}, hash : {x.hash}]

ReadingPcs ==
    {"next", "load", "check", "compile", "resolve", "write", "loaded", "done", "refused"}

IsReading(c) ==
    /\ c \in [op : {"none", "compile", "show", "links"}, pc : ReadingPcs, todo : {c.todo}, at : {c.at},
              text : {c.text}, exists : {c.exists}, bundle : {c.bundle},
              since : SUBSET Doubts, doubt : SUBSET Doubts]
    /\ c.op = "none" => c.pc = "done"

IsPush(c) ==
    c \in [op : {"push"}, pc : {"next", "list", "pack", "import", "pushed"}, delta : {c.delta},
           conflict : {c.conflict}, local : {c.local}, chosen : {c.chosen}, sent : {c.sent},
           rivals : {c.rivals}, hollow : {c.hollow}]

ProjectTypeOK ==
    /\ \A p \in DOMAIN conf : IsIndex(conf[p])
    /\ \A p \in DOMAIN remote : IsRemote(remote[p])
    /\ shell = [s \in Shells |-> shell[s]]

\* What a command that compiles has read.
CompilesTheText(c) ==
    Reading(c) /\ c.pc \in {"resolve", "write"} =>
       /\ "text" \notin c.since => c.at \in DOMAIN md /\ c.text = md[c.at]
       /\ c.pc = "write" /\ c.since = {} => c.exists = Resolves(c.text)

SinceIsDoubt(c) == Reading(c) => c.since \subseteq c.doubt

Found(text) == IF Resolves(text) THEN <<text>> ELSE << >>

\* What an export with links has done, and has to do, while nothing has changed.
BundlesTheText(c) ==
    c.op = "links" /\ c.doubt = {} /\ c.bundle # << >> =>
       LET text == c.bundle[1][2] n == Len(c.bundle)
       IN /\ \/ n = 1 /\ c.bundle = <<c.bundle[1]>>
             \/ n = 2 /\ c.bundle = <<c.bundle[1], c.bundle[2]>>
          /\ \A i \in 1 .. n : c.bundle[i][1] \in DOMAIN md /\ c.bundle[i][2] = md[c.bundle[i][1]]
          /\ c.pc \in {"check", "compile", "resolve", "write", "loaded"} => c.at = c.bundle[n][1]
          /\ n = 1 /\ c.pc = "loaded" => c.at \in DOMAIN conf /\ conf[c.at].fresh
          /\ n = 1 /\ c.pc = "next" => c.todo = Found(text)
          /\ n = 1 /\ c.pc = "load" => c.todo = << >> /\ Found(text) = <<c.at>>
          /\ n = 1 /\ c.pc = "done" => Found(text) = << >>
          /\ n = 2 => c.todo = << >> /\ Found(text) = <<c.bundle[2][1]>> /\ c.pc # "load"
          /\ c.pc # "refused" => \A i \in 1 .. n : ~Faulty(c.bundle[i][2])
          /\ c.pc = "refused" => \/ text \in dirs \ DOMAIN md
                                 \/ \E i \in 1 .. n : Faulty(c.bundle[i][2])

\* What push --delta has left out was at the server, and what it has packed it chose.
LeavesOutTheSame(c) ==
    c.delta =>
       /\ c.pc \in {"pack", "import", "pushed"} =>
             \A p \in DOMAIN c.local \ (c.rivals \cup c.hollow \cup c.chosen) :
                \/ c.pc = "pushed" /\ p \in DOMAIN c.sent
                \/ p \in DOMAIN remote /\ remote[p].text = c.local[p]
       /\ \A p \in DOMAIN c.sent : \E q \in c.chosen : Under(p, q)
       /\ c.pc \in {"next", "list", "pack"} => DOMAIN c.sent = {}

ShellOK(c) ==
    IF c.op = "push" THEN IsPush(c) /\ LeavesOutTheSame(c)
    ELSE IsReading(c) /\ CompilesTheText(c) /\ SinceIsDoubt(c) /\ BundlesTheText(c)

ProjectInv ==
    /\ TreeIsClosed /\ InFolders /\ ProjectTypeOK /\ IndexIsTrue
    /\ \A s \in Shells : ShellOK(shell[s])

LEMMA PrefixFacts ==
  ASSUME NEW p \in Seq(Letters), NEW q \in Seq(Letters)
  PROVE  Under(p, q) <=> Len(q) <= Len(p) /\ \A i \in 1 .. Len(q) : p[i] = q[i]
  BY DEF Under, IsPrefix

\* A folder moves with what is in it.
LEMMA RenamedFacts ==
  ASSUME NEW src \in Seq(Letters), NEW dest \in Seq(Letters), NEW p \in Seq(Letters), Under(p, src)
  PROVE  LET r == Renamed(p, src, dest)
         IN /\ r \in Seq(Letters) /\ Len(r) = Len(dest) + (Len(p) - Len(src))
            /\ \A i \in 1 .. Len(r) :
                  r[i] = IF i <= Len(dest) THEN dest[i] ELSE p[i - Len(dest) + Len(src)]
  <1>1. Len(src) \in Nat /\ Len(dest) \in Nat /\ Len(p) \in Nat /\ Len(src) <= Len(p)
    BY PrefixFacts
  <1> DEFINE rest == SubSeq(p, Len(src) + 1, Len(p))
  <1>2. /\ rest \in Seq(Letters) /\ Len(rest) = Len(p) - Len(src)
        /\ \A i \in 1 .. Len(rest) : rest[i] = p[i + Len(src)]
    BY <1>1
  <1> HIDE DEF rest
  <1>3. ASSUME NEW s \in Seq(Letters)
        PROVE  /\ dest \o s \in Seq(Letters) /\ Len(dest \o s) = Len(dest) + Len(s)
               /\ \A i \in 1 .. Len(dest) + Len(s) :
                     (dest \o s)[i] = IF i <= Len(dest) THEN dest[i] ELSE s[i - Len(dest)]
    OBVIOUS
  <1>4. Renamed(p, src, dest) = dest \o rest
    BY DEF Renamed, rest
  <1>5. ASSUME NEW i \in 1 .. Len(dest) + Len(rest), ~(i <= Len(dest))
        PROVE  rest[i - Len(dest)] = p[i - Len(dest) + Len(src)]
    <2>1. i - Len(dest) \in 1 .. Len(rest)
      BY <1>1, <1>2, <1>5
    <2>2. i - Len(dest) + Len(src) = (i - Len(dest)) + Len(src)
      OBVIOUS
    <2> QED  BY <1>2, <2>1
  <1>6. /\ dest \o rest \in Seq(Letters) /\ Len(dest \o rest) = Len(dest) + (Len(p) - Len(src))
    BY <1>1, <1>2, <1>3
  <1>7. ASSUME NEW i \in 1 .. Len(dest) + Len(rest)
        PROVE  (dest \o rest)[i] = IF i <= Len(dest) THEN dest[i] ELSE p[i - Len(dest) + Len(src)]
    BY <1>1, <1>2, <1>3, <1>5
  <1> QED  BY <1>2, <1>4, <1>6, <1>7

LEMMA SameEverywhere ==
  ASSUME NEW p \in Seq(Letters), NEW q \in Seq(Letters), Len(p) = Len(q),
         \A i \in 1 .. Len(p) : p[i] = q[i]
  PROVE  p = q
  OBVIOUS

\* A folder above p, as a sequence.
LEMMA AboveFacts ==
  ASSUME NEW p \in Seq(Letters), NEW k \in 1 .. Len(p)
  PROVE  /\ SubSeq(p, 1, k) \in Seq(Letters) /\ Len(SubSeq(p, 1, k)) = k /\ SubSeq(p, 1, k) # << >>
         /\ \A i \in 1 .. k : SubSeq(p, 1, k)[i] = p[i]
         /\ \A j \in 1 .. k : SubSeq(SubSeq(p, 1, k), 1, j) = SubSeq(p, 1, j)
  <1>1. /\ SubSeq(p, 1, k) \in Seq(Letters) /\ Len(SubSeq(p, 1, k)) = k
        /\ \A i \in 1 .. k : SubSeq(p, 1, k)[i] = p[i]
    OBVIOUS
  <1>2. SubSeq(p, 1, k) # << >>
    BY <1>1
  <1>3. ASSUME NEW j \in 1 .. k
        PROVE  SubSeq(SubSeq(p, 1, k), 1, j) = SubSeq(p, 1, j)
    <2> DEFINE q == SubSeq(p, 1, k)
    <2> HIDE DEF q
    <2>1. /\ SubSeq(q, 1, j) \in Seq(Letters) /\ Len(SubSeq(q, 1, j)) = j
          /\ \A i \in 1 .. j : SubSeq(q, 1, j)[i] = q[i]
      BY <1>1 DEF q
    <2>2. /\ SubSeq(p, 1, j) \in Seq(Letters) /\ Len(SubSeq(p, 1, j)) = j
          /\ \A i \in 1 .. j : SubSeq(p, 1, j)[i] = p[i]
      OBVIOUS
    <2>3. \A i \in 1 .. j : q[i] = p[i]
      BY <1>1 DEF q
    <2>4. SubSeq(q, 1, j) = SubSeq(p, 1, j)
      BY <2>1, <2>2, <2>3, SameEverywhere
    <2> QED  BY <2>4 DEF q
  <1> QED  BY <1>1, <1>2, <1>3

LEMMA AboveIsOutside ==
  ASSUME NEW p \in Seq(Letters), NEW src \in Seq(Letters), NEW k \in 1 .. Len(p), ~Under(p, src)
  PROVE  ~Under(SubSeq(p, 1, k), src)
  <1>1. /\ SubSeq(p, 1, k) \in Seq(Letters) /\ Len(SubSeq(p, 1, k)) = k
        /\ \A i \in 1 .. k : SubSeq(p, 1, k)[i] = p[i]
    BY AboveFacts
  <1>2. Under(SubSeq(p, 1, k), src) <=>
           Len(src) <= k /\ \A i \in 1 .. Len(src) : SubSeq(p, 1, k)[i] = src[i]
    BY <1>1, PrefixFacts
  <1>3. Under(p, src) <=> Len(src) <= Len(p) /\ \A i \in 1 .. Len(src) : p[i] = src[i]
    BY PrefixFacts
  <1> QED  BY <1>1, <1>2, <1>3

LEMMA RenamedInjective ==
  ASSUME TreeIsClosed, NEW src \in Seq(Letters), NEW dest \in Seq(Letters),
         dest # << >>, dest \notin dirs,
         NEW p \in dirs, NEW q \in dirs, Renamed(p, src, dest) = Renamed(q, src, dest)
  PROVE  p = q
  <1>1. p \in Seq(Letters) /\ q \in Seq(Letters)
    BY DEF TreeIsClosed
  <1>2. ASSUME NEW x \in dirs, NEW y \in dirs, Under(x, src), y = Renamed(x, src, dest)
        PROVE  FALSE
    <2>1. x \in Seq(Letters) /\ y \in Seq(Letters)
      BY DEF TreeIsClosed
    <2>2. /\ Len(y) = Len(dest) + (Len(x) - Len(src)) /\ Len(src) <= Len(x)
          /\ \A i \in 1 .. Len(y) :
                y[i] = IF i <= Len(dest) THEN dest[i] ELSE x[i - Len(dest) + Len(src)]
      <3>1. Len(src) <= Len(x)
        BY <1>2, <2>1, PrefixFacts
      <3>2. /\ Len(Renamed(x, src, dest)) = Len(dest) + (Len(x) - Len(src))
            /\ \A i \in 1 .. Len(Renamed(x, src, dest)) : Renamed(x, src, dest)[i]
                   = IF i <= Len(dest) THEN dest[i] ELSE x[i - Len(dest) + Len(src)]
        BY <1>2, <2>1, RenamedFacts
      <3> QED  BY <1>2, <3>1, <3>2
    <2>3. Len(dest) \in 1 .. Len(y)
      BY <2>1, <2>2
    <2>4. SubSeq(y, 1, Len(dest)) = dest
      <3>1. /\ SubSeq(y, 1, Len(dest)) \in Seq(Letters) /\ Len(SubSeq(y, 1, Len(dest))) = Len(dest)
            /\ \A i \in 1 .. Len(dest) : SubSeq(y, 1, Len(dest))[i] = y[i]
        BY <2>1, <2>3, AboveFacts
      <3>2. \A i \in 1 .. Len(dest) : y[i] = dest[i]
        BY <2>2, <2>3
      <3> QED  BY <3>1, <3>2, SameEverywhere
    <2> QED  BY <2>3, <2>4 DEF TreeIsClosed
  <1>3. CASE Under(p, src) /\ Under(q, src)
    <2> DEFINE r == Renamed(p, src, dest)
    <2>1. /\ Len(r) = Len(dest) + (Len(p) - Len(src)) /\ Len(src) <= Len(p)
          /\ \A i \in 1 .. Len(r) : r[i] = IF i <= Len(dest) THEN dest[i] ELSE p[i - Len(dest) + Len(src)]
      BY <1>1, <1>3, RenamedFacts, PrefixFacts
    <2>2. /\ Len(r) = Len(dest) + (Len(q) - Len(src)) /\ Len(src) <= Len(q)
          /\ \A i \in 1 .. Len(r) : r[i] = IF i <= Len(dest) THEN dest[i] ELSE q[i - Len(dest) + Len(src)]
      <3>1. Len(src) <= Len(q)
        BY <1>1, <1>3, PrefixFacts
      <3>2. /\ Len(Renamed(q, src, dest)) = Len(dest) + (Len(q) - Len(src))
            /\ \A i \in 1 .. Len(Renamed(q, src, dest)) : Renamed(q, src, dest)[i]
                   = IF i <= Len(dest) THEN dest[i] ELSE q[i - Len(dest) + Len(src)]
        BY <1>1, <1>3, RenamedFacts
      <3> QED  BY <3>1, <3>2
    <2>3. (\A i \in 1 .. Len(src) : p[i] = src[i]) /\ (\A i \in 1 .. Len(src) : q[i] = src[i])
      BY <1>1, <1>3, PrefixFacts
    <2> HIDE DEF r
    <2>4. Len(p) = Len(q) /\ Len(p) \in Nat /\ Len(src) \in Nat /\ Len(dest) \in Nat
      BY <1>1, <2>1, <2>2
    <2>5. ASSUME NEW i \in 1 .. Len(p)
          PROVE  p[i] = q[i]
      <3>1. CASE i <= Len(src)
        BY <2>3, <3>1
      <3>2. CASE ~(i <= Len(src))
        <4> DEFINE j == i - Len(src) + Len(dest)
        <4>1. j \in 1 .. Len(r) /\ ~(j <= Len(dest)) /\ j - Len(dest) + Len(src) = i
          BY <2>1, <2>4, <3>2
        <4> HIDE DEF j
        <4> QED  BY <2>1, <2>2, <4>1
      <3> QED  BY <3>1, <3>2
    <2> QED  BY <1>1, <2>4, <2>5, SameEverywhere
  <1>4. CASE ~Under(p, src) /\ ~Under(q, src)
    BY <1>4 DEF Renamed
  <1>5. CASE Under(p, src) /\ ~Under(q, src)
    BY <1>2, <1>5 DEF Renamed
  <1>6. CASE ~Under(p, src) /\ Under(q, src)
    BY <1>2, <1>6 DEF Renamed
  <1> QED  BY <1>3, <1>4, <1>5, <1>6

LEMMA MovedFacts ==
  ASSUME TreeIsClosed, NEW src \in Seq(Letters), NEW dest \in Seq(Letters),
         dest # << >>, dest \notin dirs, NEW f, DOMAIN f \subseteq dirs
  PROVE  /\ \A q : q \in DOMAIN Moved(f, src, dest) <=> \E p \in DOMAIN f : q = Renamed(p, src, dest)
         /\ \A p \in DOMAIN f : Moved(f, src, dest)[Renamed(p, src, dest)] = f[p]
  <1>1. \A q : q \in DOMAIN Moved(f, src, dest) <=> \E p \in DOMAIN f : q = Renamed(p, src, dest)
    BY DEF Moved
  <1>2. ASSUME NEW p \in DOMAIN f
        PROVE  Moved(f, src, dest)[Renamed(p, src, dest)] = f[p]
    <2> DEFINE r == Renamed(p, src, dest)
               q == CHOOSE x \in DOMAIN f : Renamed(x, src, dest) = r
    <2>1. q \in DOMAIN f /\ Renamed(q, src, dest) = r
      OBVIOUS
    <2>2. q = p
      BY <2>1, RenamedInjective
    <2>3. Moved(f, src, dest)[r] = f[q]
      BY DEF Moved
    <2> QED  BY <2>2, <2>3
  <1> QED  BY <1>1, <1>2

\* Entries may be moved, and directories made, and the tree stays one.
LEMMA MadeFacts ==
  ASSUME NEW d \in Seq(Letters)
  PROVE  \A p \in Made(d) : /\ p \in Seq(Letters) /\ p # << >>
                            /\ \A k \in 1 .. Len(p) : SubSeq(p, 1, k) \in Made(d)
  <1> SUFFICES ASSUME NEW j \in 1 .. Len(d)
               PROVE  LET p == SubSeq(d, 1, j)
                      IN /\ p \in Seq(Letters) /\ p # << >>
                         /\ \A k \in 1 .. Len(p) : SubSeq(p, 1, k) \in Made(d)
    BY DEF Made
  <1>1. /\ SubSeq(d, 1, j) \in Seq(Letters) /\ Len(SubSeq(d, 1, j)) = j /\ SubSeq(d, 1, j) # << >>
        /\ \A k \in 1 .. j : SubSeq(SubSeq(d, 1, j), 1, k) = SubSeq(d, 1, k)
    BY AboveFacts
  <1> QED  BY <1>1 DEF Made

LEMMA AssignTree ==
  ASSUME TreeIsClosed, NEW src \in dirs, NEW d \in Seq(Letters), NEW dest \in Seq(Letters),
         d # << >>, Len(dest) = Len(d) + 1, \A i \in 1 .. Len(d) : dest[i] = d[i], ~Under(d, src),
         dirs' = {Renamed(p, src, dest) : p \in dirs \cup Made(d)}
  PROVE  TreeIsClosed'
  <1>1. src \in Seq(Letters) /\ Len(src) \in Nat /\ Len(src) >= 1 /\ Len(d) \in Nat
    BY DEF TreeIsClosed
  <1>2. ASSUME NEW p \in dirs \cup Made(d)
        PROVE  /\ p \in Seq(Letters) /\ p # << >>
               /\ \A k \in 1 .. Len(p) : SubSeq(p, 1, k) \in dirs \cup Made(d)
    BY MadeFacts DEF TreeIsClosed
  <1>3. ASSUME NEW p \in dirs \cup Made(d), ~Under(p, src), NEW k \in 1 .. Len(p)
        PROVE  Renamed(p, src, dest) = p /\ SubSeq(p, 1, k) \in dirs'
    <2>1. ~Under(SubSeq(p, 1, k), src) /\ SubSeq(p, 1, k) \in dirs \cup Made(d)
      BY <1>1, <1>2, <1>3, AboveIsOutside
    <2>2. Renamed(SubSeq(p, 1, k), src, dest) = SubSeq(p, 1, k) /\ Renamed(p, src, dest) = p
      BY <1>3, <2>1 DEF Renamed
    <2> QED  BY <2>1, <2>2
  <1>4. \A p \in Made(d) : ~Under(p, src)
    <2> SUFFICES ASSUME NEW k \in 1 .. Len(d)
                 PROVE  ~Under(SubSeq(d, 1, k), src)
      BY DEF Made
    <2> QED  BY <1>1, AboveIsOutside
  <1>5. ASSUME NEW p \in dirs, Under(p, src)
        PROVE  LET r == Renamed(p, src, dest)
               IN /\ r \in Seq(Letters) /\ r # << >>
                  /\ \A k \in 1 .. Len(r) : SubSeq(r, 1, k) \in dirs'
    <2> DEFINE r == Renamed(p, src, dest)
    <2>1. p \in Seq(Letters) /\ p # << >> /\ Len(p) \in Nat
      BY <1>2
    <2>2. /\ r \in Seq(Letters) /\ Len(r) = Len(dest) + (Len(p) - Len(src))
          /\ \A i \in 1 .. Len(r) : r[i] = IF i <= Len(dest) THEN dest[i] ELSE p[i - Len(dest) + Len(src)]
      BY <1>1, <1>5, <2>1, RenamedFacts
    <2>3. Len(src) <= Len(p) /\ \A i \in 1 .. Len(src) : p[i] = src[i]
      BY <1>1, <1>5, <2>1, PrefixFacts
    <2> HIDE DEF r
    <2>4. r # << >>
      BY <1>1, <2>1, <2>2, <2>3
    <2>5. ASSUME NEW k \in 1 .. Len(r)
          PROVE  SubSeq(r, 1, k) \in dirs'
      <3>1. /\ SubSeq(r, 1, k) \in Seq(Letters) /\ Len(SubSeq(r, 1, k)) = k
            /\ \A i \in 1 .. k : SubSeq(r, 1, k)[i] = r[i]
        BY <2>2, AboveFacts
      <3>2. CASE k <= Len(d)
        <4>1. /\ SubSeq(d, 1, k) \in Seq(Letters) /\ Len(SubSeq(d, 1, k)) = k
              /\ \A i \in 1 .. k : SubSeq(d, 1, k)[i] = d[i]
          BY <3>2, AboveFacts
        <4>2. \A i \in 1 .. k : SubSeq(r, 1, k)[i] = SubSeq(d, 1, k)[i]
          <5> SUFFICES ASSUME NEW i \in 1 .. k
                       PROVE  SubSeq(r, 1, k)[i] = SubSeq(d, 1, k)[i]
            OBVIOUS
          <5>1. i \in 1 .. Len(r) /\ i \in 1 .. Len(d) /\ i <= Len(dest)
            BY <1>1, <2>2, <3>2
          <5>2. r[i] = dest[i] /\ dest[i] = d[i]
            BY <2>2, <5>1
          <5> QED  BY <3>1, <4>1, <5>2
        <4>3. SubSeq(r, 1, k) = SubSeq(d, 1, k)
          BY <3>1, <4>1, <4>2, SameEverywhere
        <4>4. SubSeq(d, 1, k) \in Made(d)
          BY <3>2 DEF Made
        <4>5. Renamed(SubSeq(d, 1, k), src, dest) = SubSeq(d, 1, k)
          BY <1>4, <4>4 DEF Renamed
        <4> QED  BY <4>3, <4>4, <4>5
      <3>3. CASE ~(k <= Len(d))
        <4> DEFINE j == k - Len(dest) + Len(src)
                   q == SubSeq(p, 1, j)
        <4>1. j \in 1 .. Len(p) /\ Len(src) <= j /\ k \in Nat /\ Len(dest) \in Nat /\ Len(dest) <= k
          BY <1>1, <2>1, <2>2, <2>3, <3>3
        <4> HIDE DEF j
        <4>2. /\ q \in Seq(Letters) /\ Len(q) = j /\ q \in dirs
              /\ \A i \in 1 .. j : q[i] = p[i]
          BY <2>1, <4>1, AboveFacts DEF TreeIsClosed
        <4> HIDE DEF q
        <4>3. Under(q, src)
          BY <1>1, <2>3, <4>1, <4>2, PrefixFacts
        <4> DEFINE rq == Renamed(q, src, dest)
        <4>4. /\ rq \in Seq(Letters) /\ Len(rq) = Len(dest) + (Len(q) - Len(src))
              /\ \A i \in 1 .. Len(rq) : rq[i] = IF i <= Len(dest) THEN dest[i] ELSE q[i - Len(dest) + Len(src)]
          BY <1>1, <4>2, <4>3, RenamedFacts
        <4>5. rq \in dirs'
          BY <4>2
        <4> HIDE DEF rq
        <4>6. Len(rq) = k
          BY <1>1, <4>1, <4>2, <4>4 DEF j
        <4>7. ASSUME NEW i \in 1 .. k
              PROVE  rq[i] = r[i]
          <5>1. CASE i <= Len(dest)
            BY <2>2, <4>4, <4>6, <5>1
          <5>2. CASE ~(i <= Len(dest))
            <6>1. i - Len(dest) + Len(src) \in 1 .. j
              BY <1>1, <4>1, <5>2 DEF j
            <6>2. i \in 1 .. Len(r) /\ i \in 1 .. Len(rq)
              BY <2>2, <4>6
            <6>3. r[i] = p[i - Len(dest) + Len(src)]
              BY <2>2, <5>2, <6>2
            <6>4. rq[i] = q[i - Len(dest) + Len(src)]
              BY <4>4, <5>2, <6>2
            <6> QED  BY <4>2, <6>1, <6>3, <6>4
          <5> QED  BY <5>1, <5>2
        <4>8. rq = SubSeq(r, 1, k)
          BY <3>1, <4>4, <4>6, <4>7, SameEverywhere
        <4> QED  BY <4>5, <4>8
      <3> QED  BY <3>2, <3>3
    <2> QED  BY <2>2, <2>4, <2>5 DEF r
  <1>6. ASSUME NEW r \in dirs'
        PROVE  /\ r \in Seq(Letters) /\ r # << >> /\ \A k \in 1 .. Len(r) : SubSeq(r, 1, k) \in dirs'
    <2>1. PICK p \in dirs \cup Made(d) : r = Renamed(p, src, dest)
      OBVIOUS
    <2>2. CASE Under(p, src)
      BY <1>4, <1>5, <2>1, <2>2
    <2>3. CASE ~Under(p, src)
      <3>1. r = p
        BY <2>1, <2>3 DEF Renamed
      <3> QED  BY <1>2, <1>3, <2>3, <3>1
    <2> QED  BY <2>2, <2>3
  <1> QED  BY <1>6 DEF TreeIsClosed

LEMMA LetterFacts ==
  /\ \A n \in Names : <<n>> \in Seq(Letters) /\ <<n>> # << >> /\ Len(<<n>>) = 1
  /\ \A p \in Tree : /\ p \in Seq(Letters) /\ p # << >>
                     /\ \A k \in 1 .. Len(p) : SubSeq(p, 1, k) \in Tree
  <1>1. \A n \in Names : <<n>> \in Seq(Letters) /\ <<n>> # << >> /\ Len(<<n>>) = 1
    BY DEF Letters
  <1>2. ASSUME NEW p \in Tree
        PROVE  p \in Seq(Letters)
    <2>1. p \in Seq(Range(p))
      BY WorkspaceAssumption
    <2>2. Range(p) \subseteq Letters
      BY DEF Letters
    <2>3. \A i \in 1 .. Len(p) : p[i] \in Letters
      BY <2>1, <2>2
    <2> QED  BY <2>1, <2>3
  <1> QED  BY <1>1, <1>2, WorkspaceAssumption

LEMMA IdleIsOK == IsReading(Idle) /\ Idle.op = "none" /\ ShellOK(Idle) /\ ShellOK(Idle)'
  <1>1. Idle.op = "none" /\ IsReading(Idle)
    <2> DEFINE c == ReadCommand("none", << >>)
    <2>1. /\ c.op = "none" /\ c.todo = << >> /\ c.at = << >> /\ c.text = NoLink /\ c.exists = FALSE
          /\ c.bundle = << >> /\ c.since = {} /\ c.doubt = {}
      BY DEF ReadCommand
    <2>2. c \in [op : {"none"}, pc : ReadingPcs, todo : {<< >>}, at : {<< >>}, text : {NoLink},
                 exists : {FALSE}, bundle : {<< >>}, since : {{}}, doubt : {{}}]
      BY DEF ReadCommand, ReadingPcs
    <2>3. [c EXCEPT !.pc = "done"] \in
             [op : {"none"}, pc : ReadingPcs, todo : {<< >>}, at : {<< >>}, text : {NoLink},
              exists : {FALSE}, bundle : {<< >>}, since : {{}}, doubt : {{}}]
      BY <2>2 DEF ReadingPcs
    <2> HIDE DEF c
    <2> QED  BY <2>3 DEF Idle, IsReading, c, Doubts
  <1>2. CompilesTheText(Idle) /\ CompilesTheText(Idle)'
    BY <1>1 DEF CompilesTheText, Reading
  <1>3. SinceIsDoubt(Idle) /\ SinceIsDoubt(Idle)'
    BY <1>1 DEF SinceIsDoubt, Reading
  <1>4. BundlesTheText(Idle) /\ BundlesTheText(Idle)'
    BY <1>1 DEF BundlesTheText
  <1> QED  BY <1>1, <1>2, <1>3, <1>4 DEF ShellOK

LEMMA ProjectInitInv == WorkspaceInit => ProjectInv
  <1> SUFFICES ASSUME WorkspaceInit PROVE ProjectInv
    OBVIOUS
  <1>1. dirs = Tree /\ md = Start /\ conf = << >> /\ DOMAIN conf = {}
    BY DEF WorkspaceInit, Tree
  <1>2. TreeIsClosed
    BY <1>1, LetterFacts DEF TreeIsClosed
  <1>3. InFolders
    BY <1>1 DEF InFolders, Tree
  <1>4. \A p \in DOMAIN remote : IsRemote(remote[p])
    BY DEF WorkspaceInit, IsRemote
  <1>5. ProjectTypeOK
    BY <1>1, <1>4 DEF ProjectTypeOK, WorkspaceInit
  <1>6. IndexIsTrue
    BY <1>1 DEF IndexIsTrue
  <1>7. \A s \in Shells : ShellOK(shell[s])
    BY IdleIsOK DEF WorkspaceInit
  <1> QED  BY <1>2, <1>3, <1>5, <1>6, <1>7 DEF ProjectInv

\* A step of one shell that leaves the project and the server alone.
LEMMA OneShell ==
  ASSUME ProjectInv, NEW s \in Shells, dirs' = dirs, md' = md, conf' = conf, remote' = remote,
         NEW x, shell' = [shell EXCEPT ![s] = x], ShellOK(x)
  PROVE  ProjectInv'
  <1>1. \A c : ShellOK(c)' <=> ShellOK(c)
    BY DEF ShellOK, IsPush, IsReading, LeavesOutTheSame, CompilesTheText, SinceIsDoubt,
       BundlesTheText, Found, Resolves, Reading
  <1>2. \A u \in Shells : shell'[u] = IF u = s THEN x ELSE shell[u]
    BY DEF ProjectInv, ProjectTypeOK
  <1>3. ASSUME NEW u \in Shells
        PROVE  ShellOK(shell[u])'
    <2>1. PICK c : c = shell'[u]
      OBVIOUS
    <2>2. ShellOK(c)
      BY <1>2, <2>1 DEF ProjectInv
    <2> QED  BY <1>1, <2>1, <2>2
  <1>4. shell' = [u \in Shells |-> shell'[u]]
    BY DEF ProjectInv, ProjectTypeOK
  <1>5. ProjectTypeOK'
    BY <1>4 DEF ProjectInv, ProjectTypeOK
  <1>6. TreeIsClosed' /\ InFolders' /\ IndexIsTrue'
    BY DEF ProjectInv, TreeIsClosed, InFolders, IndexIsTrue, Resolves
  <1> QED  BY <1>3, <1>5, <1>6 DEF ProjectInv

\* Steps of a command that reads.
LEMMA ReadingFacts ==
  ASSUME NEW c, IsReading(c)
  PROVE  /\ c.op \in {"none", "compile", "show", "links"} /\ c.pc \in ReadingPcs
         /\ c.since \subseteq Doubts /\ c.doubt \subseteq Doubts
         /\ c.op \in {"compile", "show", "links"} <=> Reading(c)
         /\ c.op # "push"
  BY DEF IsReading, Reading

LEMMA ReadingAt ==
  ASSUME NEW c, IsReading(c), c.op # "none", NEW pc \in ReadingPcs
  PROVE  LET d == [c EXCEPT !.pc = pc]
         IN /\ IsReading(d)
            /\ d.op = c.op /\ d.pc = pc /\ d.todo = c.todo /\ d.at = c.at /\ d.text = c.text
            /\ d.exists = c.exists /\ d.bundle = c.bundle /\ d.since = c.since /\ d.doubt = c.doubt
  BY DEF IsReading

LEMMA ShellChange ==
  ASSUME ProjectInv, NEW s \in Shells, NEW pc, NEW x, NEW y, NEW z
  PROVE  /\ [shell EXCEPT ![s].pc = pc] = [shell EXCEPT ![s] = [shell[s] EXCEPT !.pc = pc]]
         /\ [shell EXCEPT ![s].pc = pc, ![s].bundle = x]
              = [shell EXCEPT ![s] = [shell[s] EXCEPT !.pc = pc, !.bundle = x]]
  BY DEF ProjectInv, ProjectTypeOK

LEMMA ShellFacts ==
  ASSUME ProjectInv, NEW s \in Shells
  PROVE  /\ ShellOK(shell[s])
         /\ Reading(shell[s]) => shell[s].op # "push"
         /\ shell[s].op # "push" => /\ IsReading(shell[s]) /\ CompilesTheText(shell[s])
                                    /\ SinceIsDoubt(shell[s]) /\ BundlesTheText(shell[s])
         /\ shell[s].op = "push" => IsPush(shell[s]) /\ LeavesOutTheSame(shell[s])
  BY DEF ProjectInv, ShellOK, Reading

\* A refused export that has bundled an entry must have a reason.
LEMMA RefuseKeeps ==
  ASSUME ProjectInv, NEW s \in Shells, Refuse(s),
         LET c == shell[s]
         IN c.op = "links" /\ c.doubt = {} /\ c.bundle # << >> => c.bundle[1][2] \in dirs \ DOMAIN md
  PROVE  ProjectInv'
  <1> DEFINE c == shell[s] x == [c EXCEPT !.pc = "refused"]
  <1>1. CASE c.op # "links"
    BY <1>1, OneShell, IdleIsOK DEF Refuse, Refused
  <1>2. CASE c.op = "links"
    <2>1. IsReading(c) /\ SinceIsDoubt(c) /\ BundlesTheText(c)
      BY <1>2, ShellFacts DEF Reading
    <2>2. shell' = [shell EXCEPT ![s] = x]
      BY <1>2 DEF Refuse, Refused
    <2>3. /\ IsReading(x) /\ x.op = c.op /\ x.pc = "refused" /\ x.todo = c.todo /\ x.at = c.at
          /\ x.bundle = c.bundle /\ x.since = c.since /\ x.doubt = c.doubt
      BY <1>2, <2>1, ReadingAt DEF ReadingPcs
    <2> HIDE DEF x
    <2>4. CompilesTheText(x) /\ SinceIsDoubt(x)
      BY <1>2, <2>1, <2>3 DEF CompilesTheText, SinceIsDoubt, Reading
    <2>5. BundlesTheText(x)
      <3> SUFFICES ASSUME x.op = "links", x.doubt = {}, x.bundle # << >> PROVE BundlesTheText(x)
        BY DEF BundlesTheText
      <3>1. c.op = "links" /\ c.doubt = {} /\ c.bundle # << >>
        BY <2>3
      <3>2. c.bundle[1][2] \in dirs \ DOMAIN md
        BY <3>1
      <3>3. /\ \/ Len(c.bundle) = 1 /\ c.bundle = <<c.bundle[1]>>
               \/ Len(c.bundle) = 2 /\ c.bundle = <<c.bundle[1], c.bundle[2]>>
            /\ \A i \in 1 .. Len(c.bundle) :
                  c.bundle[i][1] \in DOMAIN md /\ c.bundle[i][2] = md[c.bundle[i][1]]
            /\ Len(c.bundle) = 2 => c.todo = << >> /\ Found(c.bundle[1][2]) = <<c.bundle[2][1]>>
        BY <2>1, <3>1 DEF BundlesTheText
      <3> HIDE DEF c
      <3> QED  BY <2>3, <3>2, <3>3 DEF BundlesTheText
    <2>6. ShellOK(x)
      BY <1>2, <2>3, <2>4, <2>5 DEF ShellOK
    <2> QED  BY <2>2, <2>6, OneShell DEF Refuse
  <1> QED  BY <1>1, <1>2

LEMMA FailKeeps ==
  ASSUME ProjectInv, NEW s \in Shells, Fail(s)
  PROVE  ProjectInv'
  BY OneShell, IdleIsOK DEF Fail

LEMMA BeginKeeps ==
  ASSUME ProjectInv, NEW s \in Shells,
         \/ \E todo : Compile(s, todo) \/ Show(s, todo)
         \/ \E p : ExportLinks(s, p)
         \/ \E delta, conflict : PushStart(s, delta, conflict)
  PROVE  ProjectInv'
  <1>1. ASSUME NEW op \in {"compile", "show", "links"}, NEW todo
        PROVE  ShellOK(ReadCommand(op, todo))
    <2> DEFINE x == ReadCommand(op, todo)
    <2>1. /\ IsReading(x) /\ x.op = op /\ x.pc = "next" /\ x.bundle = << >> /\ x.since = {}
      BY DEF ReadCommand, IsReading, ReadingPcs
    <2> HIDE DEF x
    <2>2. x.op # "push" /\ CompilesTheText(x) /\ SinceIsDoubt(x) /\ BundlesTheText(x)
      BY <2>1 DEF CompilesTheText, SinceIsDoubt, BundlesTheText
    <2>3. ShellOK(x)
      BY <2>1, <2>2 DEF ShellOK
    <2> QED  BY <2>3 DEF x
  <1>2. ASSUME NEW delta, NEW conflict
        PROVE  ShellOK(Push(delta, conflict))
    <2> DEFINE x == Push(delta, conflict)
    <2>1. IsPush(x) /\ x.op = "push" /\ x.pc = "next" /\ x.sent = << >>
      BY DEF Push, IsPush
    <2>2. DOMAIN x.sent = {}
      BY <2>1
    <2> HIDE DEF x
    <2>3. ShellOK(x)
      BY <2>1, <2>2 DEF ShellOK, LeavesOutTheSame
    <2> QED  BY <2>3 DEF x
  <1>3. ASSUME NEW x, shell' = [shell EXCEPT ![s] = x], ShellOK(x),
               UNCHANGED <<dirs, creating, md, conf, remote>>
        PROVE  ProjectInv'
    BY <1>3, OneShell
  <1> QED  BY <1>1, <1>2, <1>3 DEF Compile, Show, ExportLinks, PushStart, Begin

LEMMA NextEntryKeeps ==
  ASSUME ProjectInv, NEW s \in Shells, NextEntry(s)
  PROVE  ProjectInv'
  <1> DEFINE c == shell[s]
             x == [c EXCEPT !.at = Head(c.todo), !.todo = Tail(c.todo),
                            !.pc = IF c.op = "compile" THEN "compile" ELSE "load"]
  <1>1. Reading(c) /\ c.pc = "next" /\ c.todo # << >> /\ shell' = [shell EXCEPT ![s] = x]
    BY DEF NextEntry
  <1>2. IsReading(c) /\ SinceIsDoubt(c) /\ BundlesTheText(c)
    BY <1>1, ShellFacts
  <1>3. /\ IsReading(x) /\ x.op = c.op /\ x.pc = IF c.op = "compile" THEN "compile" ELSE "load"
        /\ x.todo = Tail(c.todo) /\ x.at = Head(c.todo)
        /\ x.bundle = c.bundle /\ x.since = c.since /\ x.doubt = c.doubt
    BY <1>1, <1>2 DEF IsReading, ReadingPcs
  <1>4. Head(<<c.bundle[1][2]>>) = c.bundle[1][2] /\ Tail(<<c.bundle[1][2]>>) = << >>
    OBVIOUS
  <1> HIDE DEF x
  <1>5. CompilesTheText(x) /\ SinceIsDoubt(x)
    BY <1>2, <1>3 DEF CompilesTheText, SinceIsDoubt, Reading
  <1>6. BundlesTheText(x)
    <2> SUFFICES ASSUME c.op = "links", c.doubt = {}, c.bundle # << >>
                 PROVE  BundlesTheText(x)
      BY <1>3 DEF BundlesTheText
    <2> DEFINE text == c.bundle[1][2]
    <2>1. c.bundle = <<c.bundle[1]>> /\ Len(c.bundle) = 1 /\ c.todo = Found(text)
      BY <1>1, <1>2 DEF BundlesTheText
    <2>2. c.todo = <<text>>
      BY <1>1, <2>1 DEF Found
    <2>3. x.at = text /\ x.todo = << >> /\ x.pc = "load" /\ Found(text) = <<x.at>>
      BY <1>3, <1>4, <2>1, <2>2
    <2>4. /\ c.bundle[1][1] \in DOMAIN md /\ c.bundle[1][2] = md[c.bundle[1][1]]
          /\ ~Faulty(c.bundle[1][2])
      BY <1>1, <1>2, <2>1 DEF BundlesTheText
    <2>5. \A i \in 1 .. Len(c.bundle) : i = 1
      BY <2>1
    <2> HIDE DEF c
    <2> QED  BY <1>3, <2>1, <2>3, <2>4, <2>5 DEF BundlesTheText
  <1>7. x.op # "push"
    BY <1>1, <1>3 DEF Reading
  <1>8. ShellOK(x)
    BY <1>3, <1>5, <1>6, <1>7 DEF ShellOK
  <1> QED  BY <1>1, <1>8, OneShell DEF NextEntry

LEMMA EndReadingKeeps ==
  ASSUME ProjectInv, NEW s \in Shells, EndReading(s)
  PROVE  ProjectInv'
  <1> DEFINE c == shell[s] x == [c EXCEPT !.pc = "done"]
  <1>1. Reading(c) /\ c.pc = "next" /\ c.todo = << >>
    BY DEF EndReading
  <1>2. c.op \notin {"push", "none"} /\ IsReading(c) /\ SinceIsDoubt(c) /\ BundlesTheText(c)
    BY <1>1, ShellFacts DEF Reading
  <1>3. CASE Refuse(s) /\ c.bundle[1][1] \notin dirs
    <2>1. c.op = "links" /\ c.doubt = {} /\ c.bundle # << >> => c.bundle[1][1] \in DOMAIN md
      BY <1>2 DEF BundlesTheText
    <2>2. DOMAIN md \subseteq dirs
      BY DEF ProjectInv, InFolders
    <2> QED  BY <1>3, <2>1, <2>2, RefuseKeeps
  <1>4. CASE /\ shell' = [shell EXCEPT ![s] = IF c.op = "links" THEN x ELSE Idle]
             /\ UNCHANGED <<dirs, creating, md, conf, remote, left>>
    <2>1. /\ IsReading(x) /\ x.op = c.op /\ x.pc = "done" /\ x.todo = c.todo /\ x.at = c.at
          /\ x.bundle = c.bundle /\ x.since = c.since /\ x.doubt = c.doubt
      BY <1>1, <1>2, ReadingAt DEF ReadingPcs
    <2> HIDE DEF x
    <2>2. CompilesTheText(x) /\ SinceIsDoubt(x)
      BY <1>2, <2>1 DEF CompilesTheText, SinceIsDoubt, Reading
    <2>3. BundlesTheText(x)
      BY <1>1, <1>2, <2>1 DEF BundlesTheText
    <2>4. ShellOK(IF c.op = "links" THEN x ELSE Idle)
      BY <2>1, <2>2, <2>3, IdleIsOK DEF ShellOK
    <2> QED  BY <1>4, <2>4, OneShell
  <1>5. CASE Fail(s)
    BY <1>5, FailKeeps
  <1> QED  BY <1>3, <1>4, <1>5 DEF EndReading

LEMMA LoadKeeps ==
  ASSUME ProjectInv, NEW s \in Shells, Load(s)
  PROVE  ProjectInv'
  <1> DEFINE c == shell[s]
             b == <<c.at, md[c.at]>>
             pc == IF Faulty(md[c.at]) THEN "refused" ELSE "check"
             x == [c EXCEPT !.pc = pc, !.bundle = Append(c.bundle, b)]
  <1>1. c.pc = "load"
    BY DEF Load
  <1>2. c.op \notin {"push", "none"} /\ IsReading(c) /\ SinceIsDoubt(c) /\ BundlesTheText(c)
    BY <1>1, ShellFacts DEF IsPush, IsReading
  <1>3. CASE c.at \notin DOMAIN md
    <2>1. c.op = "links" /\ c.doubt = {} /\ c.bundle # << >> => c.bundle[1][2] \in dirs \ DOMAIN md
      BY <1>1, <1>2, <1>3 DEF BundlesTheText, Found, Resolves
    <2> QED  BY <1>3, <2>1, RefuseKeeps DEF Load
  <1>4. CASE c.at \in DOMAIN md /\ ~Fail(s)
    <2>1. /\ shell' = [shell EXCEPT ![s] = IF pc = "refused" /\ c.op # "links" THEN Idle ELSE x]
          /\ UNCHANGED <<dirs, creating, md, conf, remote, left>>
      <3> DEFINE read == [c EXCEPT !.bundle = Append(c.bundle, b)]
      <3>1. /\ shell' = [shell EXCEPT ![s] = IF Faulty(md[c.at]) THEN Refused(read)
                                             ELSE [read EXCEPT !.pc = "check"]]
            /\ UNCHANGED <<dirs, creating, md, conf, remote, left>>
        BY <1>4 DEF Load
      <3>2. read.op = c.op /\ [read EXCEPT !.pc = pc] = x
        BY <1>2 DEF IsReading
      <3> HIDE DEF read, x, c
      <3> QED  BY <3>1, <3>2 DEF Refused
    <2>pc. /\ pc \in {"refused", "check"} /\ pc \in ReadingPcs
           /\ pc = "refused" <=> Faulty(b[2])
      BY DEF ReadingPcs
    <2> HIDE DEF pc
    <2>2. /\ IsReading(x) /\ x.op = c.op /\ x.pc = pc /\ x.todo = c.todo /\ x.at = c.at
          /\ x.bundle = Append(c.bundle, b) /\ x.since = c.since /\ x.doubt = c.doubt
      BY <1>2, <2>pc DEF IsReading
    <2> HIDE DEF x
    <2>3. CompilesTheText(x) /\ SinceIsDoubt(x)
      BY <1>2, <2>2, <2>pc DEF CompilesTheText, SinceIsDoubt, Reading
    <2>4. ASSUME NEW y
          PROVE  /\ Append(<< >>, b) = <<b>> /\ Append(<<y>>, b) = <<y, b>>
                 /\ Len(<<b>>) = 1 /\ Len(<<y, b>>) = 2 /\ <<b>>[1] = b
                 /\ <<y, b>>[1] = y /\ <<y, b>>[2] = b
      <3> HIDE DEF b
      <3>1. Append(<< >>, b) = <<b>>
        OBVIOUS
      <3>2. Append(<<y>>, b) = <<y, b>>
        <4>1. <<y>> \in Seq({y, b}) /\ <<y, b>> \in Seq({y, b})
          OBVIOUS
        <4>2. /\ Append(<<y>>, b) \in Seq({y, b}) /\ Len(Append(<<y>>, b)) = 2
              /\ Append(<<y>>, b)[1] = y /\ Append(<<y>>, b)[2] = b
          BY <4>1
        <4>3. Len(<<y, b>>) = 2 /\ <<y, b>>[1] = y /\ <<y, b>>[2] = b
          OBVIOUS
        <4>4. ASSUME NEW T, NEW p \in Seq(T), NEW q \in Seq(T), Len(p) = 2, Len(q) = 2,
                     p[1] = q[1], p[2] = q[2]
              PROVE  p = q
          BY <4>4
        <4> QED  BY <4>1, <4>2, <4>3, <4>4
      <3> QED  BY <3>1, <3>2
    <2>5. BundlesTheText(x)
      <3> SUFFICES ASSUME c.op = "links", c.doubt = {}
                   PROVE  BundlesTheText(x)
        BY <2>2 DEF BundlesTheText
      <3>1. CASE c.bundle = << >>
        <4>1. x.bundle = <<b>> /\ Len(x.bundle) = 1 /\ x.bundle[1] = b
          BY <2>2, <2>4, <3>1
        <4>2. b[1] = c.at /\ b[2] = md[c.at]
          OBVIOUS
        <4>3. \A i \in 1 .. 1 : i = 1
          OBVIOUS
        <4> HIDE DEF b, c
        <4> QED  BY <1>4, <2>2, <2>pc, <4>1, <4>2, <4>3 DEF BundlesTheText
      <3>2. CASE c.bundle # << >>
        <4> DEFINE y == c.bundle[1]
        <4>1. /\ c.bundle = <<y>> /\ y[1] \in DOMAIN md /\ y[2] = md[y[1]]
              /\ c.todo = << >> /\ Found(y[2]) = <<c.at>> /\ ~Faulty(y[2])
          BY <1>1, <1>2, <3>2 DEF BundlesTheText
        <4> HIDE DEF y
        <4>2. x.bundle = <<y, b>>
          BY <2>2, <2>4, <4>1
        <4>3. Len(x.bundle) = 2 /\ x.bundle[1] = y /\ x.bundle[2] = b /\ b[1] = c.at /\ b[2] = md[c.at]
          BY <2>4, <4>2
        <4> HIDE DEF b
        <4>4. x.bundle = <<x.bundle[1], x.bundle[2]>>
          BY <4>2, <4>3
        <4>5. \A i \in 1 .. 2 : x.bundle[i][1] \in DOMAIN md /\ x.bundle[i][2] = md[x.bundle[i][1]]
          BY <1>4, <4>1, <4>3
        <4>6. \A i \in 1 .. 2 : i = 1 \/ i = 2
          OBVIOUS
        <4>7. /\ pc # "refused" => \A i \in 1 .. 2 : ~Faulty(x.bundle[i][2])
              /\ pc = "refused" => \E i \in 1 .. 2 : Faulty(x.bundle[i][2])
          BY <2>pc, <4>1, <4>3, <4>6
        <4> HIDE DEF c
        <4> QED  BY <2>2, <2>pc, <4>1, <4>3, <4>4, <4>5, <4>7 DEF BundlesTheText
      <3> QED  BY <3>1, <3>2
    <2>6. ShellOK(x)
      BY <1>2, <2>2, <2>3, <2>5 DEF ShellOK, Reading
    <2> QED  BY <2>1, <2>6, OneShell, IdleIsOK
  <1>5. CASE Fail(s)
    BY <1>5, FailKeeps
  <1> QED  BY <1>3, <1>4, <1>5

LEMMA CheckKeeps ==
  ASSUME ProjectInv, NEW s \in Shells, Check(s)
  PROVE  ProjectInv'
  <1> DEFINE c == shell[s]
             pc == IF IsStale(c.at) THEN "compile" ELSE "loaded"
             x == [c EXCEPT !.pc = pc]
  <1>1. c.pc = "check"
    BY DEF Check
  <1>2. c.op \notin {"push", "none"} /\ IsReading(c) /\ SinceIsDoubt(c) /\ BundlesTheText(c)
    BY <1>1, ShellFacts DEF IsPush, IsReading
  <1>3. CASE c.at \notin DOMAIN md
    <2>1. ~(c.op = "links" /\ c.doubt = {} /\ c.bundle # << >>)
      BY <1>1, <1>2, <1>3 DEF BundlesTheText
    <2> QED  BY <1>3, <2>1, RefuseKeeps DEF Check
  <1>4. CASE c.at \in DOMAIN md
    <2>1. shell' = [shell EXCEPT ![s] = x]
      BY <1>4, ShellChange DEF Check
    <2>2. pc \in {"compile", "loaded"} /\ pc \in ReadingPcs
      BY DEF ReadingPcs
    <2>3. pc = "loaded" => c.at \in DOMAIN conf /\ conf[c.at].fresh
      BY DEF IsStale
    <2> HIDE DEF pc
    <2>4. /\ IsReading(x) /\ x.op = c.op /\ x.pc = pc /\ x.todo = c.todo /\ x.at = c.at
          /\ x.bundle = c.bundle /\ x.since = c.since /\ x.doubt = c.doubt
      BY <1>2, <2>2, ReadingAt
    <2> HIDE DEF x
    <2>5. CompilesTheText(x) /\ SinceIsDoubt(x)
      BY <1>2, <2>2, <2>4 DEF CompilesTheText, SinceIsDoubt, Reading
    <2>6. BundlesTheText(x)
      BY <1>1, <1>2, <2>2, <2>3, <2>4 DEF BundlesTheText
    <2>7. ShellOK(x)
      BY <1>2, <2>4, <2>5, <2>6 DEF ShellOK
    <2> QED  BY <1>4, <2>1, <2>7, OneShell DEF Check
  <1> QED  BY <1>3, <1>4

LEMMA CompileReadKeeps ==
  ASSUME ProjectInv, NEW s \in Shells, CompileRead(s)
  PROVE  ProjectInv'
  <1> DEFINE c == shell[s]
             x == [c EXCEPT !.pc = "resolve", !.text = md[c.at], !.since = {}]
  <1>1. c.pc = "compile"
    BY DEF CompileRead
  <1>2. c.op \notin {"push", "none"} /\ IsReading(c) /\ SinceIsDoubt(c) /\ BundlesTheText(c)
    BY <1>1, ShellFacts DEF IsPush, IsReading
  <1>3. CASE c.at \notin DOMAIN md \/ md[c.at] \in Malformed
    <2>1. ~(c.op = "links" /\ c.doubt = {} /\ c.bundle # << >>)
      <3> SUFFICES ASSUME c.op = "links", c.doubt = {}, c.bundle # << >> PROVE FALSE
        OBVIOUS
      <3>1. PICK n \in {1, 2} : /\ n = Len(c.bundle) /\ c.at = c.bundle[n][1]
                                /\ c.at \in DOMAIN md /\ c.bundle[n][2] = md[c.at]
                                /\ ~Faulty(c.bundle[n][2])
        BY <1>1, <1>2 DEF BundlesTheText
      <3> QED  BY <1>3, <3>1 DEF Faulty
    <2> QED  BY <1>3, <2>1, RefuseKeeps DEF CompileRead
  <1>4. CASE c.at \in DOMAIN md /\ md[c.at] \notin Malformed
    <2>1. shell' = [shell EXCEPT ![s] = x]
      BY <1>4 DEF CompileRead, ProjectInv, ProjectTypeOK
    <2>2. /\ IsReading(x) /\ x.op = c.op /\ x.pc = "resolve" /\ x.todo = c.todo /\ x.at = c.at
          /\ x.text = md[c.at] /\ x.bundle = c.bundle /\ x.since = {} /\ x.doubt = c.doubt
      BY <1>1, <1>2 DEF IsReading, ReadingPcs
    <2> HIDE DEF x
    <2>3. CompilesTheText(x) /\ SinceIsDoubt(x)
      BY <1>4, <2>2 DEF CompilesTheText, SinceIsDoubt
    <2>4. BundlesTheText(x)
      BY <1>1, <1>2, <2>2 DEF BundlesTheText
    <2>5. ShellOK(x)
      BY <1>2, <2>2, <2>3, <2>4 DEF ShellOK
    <2> QED  BY <1>4, <2>1, <2>5, OneShell DEF CompileRead
  <1> QED  BY <1>3, <1>4

LEMMA CompileResolveKeeps ==
  ASSUME ProjectInv, NEW s \in Shells, CompileResolve(s)
  PROVE  ProjectInv'
  <1> DEFINE c == shell[s]
             x == [c EXCEPT !.pc = "write", !.exists = Resolves(c.text), !.since = @ \ {"tree"}]
  <1>1. c.pc = "resolve"
    BY DEF CompileResolve
  <1>2. c.op \notin {"push", "none"} /\ IsReading(c) /\ CompilesTheText(c) /\ SinceIsDoubt(c) /\ BundlesTheText(c)
    BY <1>1, ShellFacts DEF IsPush, IsReading
  <1>3. shell' = [shell EXCEPT ![s] = x]
    BY DEF CompileResolve, ProjectInv, ProjectTypeOK
  <1>4. /\ IsReading(x) /\ x.op = c.op /\ x.pc = "write" /\ x.todo = c.todo /\ x.at = c.at
        /\ x.text = c.text /\ x.exists = Resolves(c.text) /\ x.bundle = c.bundle
        /\ x.since = c.since \ {"tree"} /\ x.doubt = c.doubt
    BY <1>1, <1>2 DEF IsReading, ReadingPcs
  <1> HIDE DEF x
  <1>5. CompilesTheText(x)
    BY <1>1, <1>2, <1>4 DEF CompilesTheText, Reading
  <1>6. SinceIsDoubt(x)
    BY <1>2, <1>4 DEF SinceIsDoubt, Reading
  <1>7. BundlesTheText(x)
    BY <1>1, <1>2, <1>4 DEF BundlesTheText
  <1>8. ShellOK(x)
    BY <1>2, <1>4, <1>5, <1>6, <1>7 DEF ShellOK
  <1> QED  BY <1>3, <1>8, OneShell DEF CompileResolve

LEMMA LoadedKeeps ==
  ASSUME ProjectInv, NEW s \in Shells, Loaded(s)
  PROVE  ProjectInv'
  <1> DEFINE c == shell[s]
  <1>1. c.pc = "loaded"
    BY DEF Loaded
  <1>2. c.op \notin {"push", "none"} /\ IsReading(c) /\ SinceIsDoubt(c) /\ BundlesTheText(c)
    BY <1>1, ShellFacts DEF IsPush, IsReading
  <1>3. CASE c.op = "show" \/ Len(c.bundle) > 1
    <2> DEFINE x == [c EXCEPT !.pc = "next"]
    <2>1. shell' = [shell EXCEPT ![s] = x] /\ UNCHANGED <<dirs, creating, md, conf, remote, left>>
      BY <1>3, ShellChange DEF Loaded
    <2>2. /\ IsReading(x) /\ x.op = c.op /\ x.pc = "next" /\ x.todo = c.todo /\ x.at = c.at
          /\ x.bundle = c.bundle /\ x.since = c.since /\ x.doubt = c.doubt
      <3>1. "next" \in ReadingPcs
        BY DEF ReadingPcs
      <3> HIDE DEF c
      <3> QED  BY <1>2, <3>1, ReadingAt
    <2> HIDE DEF x
    <2>3. CompilesTheText(x) /\ SinceIsDoubt(x)
      BY <1>2, <2>2 DEF CompilesTheText, SinceIsDoubt, Reading
    <2>4. BundlesTheText(x)
      <3> SUFFICES ASSUME c.op = "links", c.doubt = {}, c.bundle # << >> PROVE BundlesTheText(x)
        BY <2>2 DEF BundlesTheText
      <3>1. /\ Len(c.bundle) = 2 /\ c.bundle = <<c.bundle[1], c.bundle[2]>>
            /\ \A i \in 1 .. 2 : /\ c.bundle[i][1] \in DOMAIN md
                                 /\ c.bundle[i][2] = md[c.bundle[i][1]]
                                 /\ ~Faulty(c.bundle[i][2])
            /\ c.todo = << >> /\ Found(c.bundle[1][2]) = <<c.bundle[2][1]>>
        BY <1>1, <1>2, <1>3 DEF BundlesTheText
      <3> HIDE DEF c
      <3> QED  BY <2>2, <3>1 DEF BundlesTheText
    <2>5. ShellOK(x)
      BY <1>2, <2>2, <2>3, <2>4 DEF ShellOK
    <2> QED  BY <2>1, <2>5, OneShell
  <1>4. CASE ~(c.op = "show" \/ Len(c.bundle) > 1) /\ c.at \notin DOMAIN conf
    <2>1. ~(c.op = "links" /\ c.doubt = {} /\ c.bundle # << >>)
      BY <1>1, <1>2, <1>4 DEF BundlesTheText
    <2> QED  BY <1>4, <2>1, RefuseKeeps DEF Loaded
  <1>5. CASE ~(c.op = "show" \/ Len(c.bundle) > 1) /\ c.at \in DOMAIN conf
    <2> DEFINE index == conf[c.at]
               read == [c EXCEPT !.doubt = @ \cup index.doubt]
               x == IF "torn" \in index.doubt THEN [read EXCEPT !.pc = "refused"]
                    ELSE [read EXCEPT !.pc = "next", !.todo = Targets(index)]
    <2>1. shell' = [shell EXCEPT ![s] = x] /\ UNCHANGED <<dirs, creating, md, conf, remote, left>>
      BY <1>5 DEF Loaded
    <2>2. index.doubt \subseteq Doubts
      BY <1>5 DEF ProjectInv, ProjectTypeOK, IsIndex
    <2>3. c.at \in DOMAIN md /\ index.fresh =>
             /\ index.to = md[c.at] \/ index.doubt # {}
             /\ index.resolved = Resolves(index.to) \/ index.doubt # {}
      BY <1>5 DEF ProjectInv, IndexIsTrue
    <2> HIDE DEF index
    <2>4. /\ IsReading(read) /\ read.op = c.op /\ read.todo = c.todo /\ read.at = c.at
          /\ read.bundle = c.bundle /\ read.since = c.since /\ read.doubt = c.doubt \cup index.doubt
      BY <1>1, <1>2, <2>2 DEF IsReading
    <2> HIDE DEF read
    <2>5. /\ IsReading(x) /\ x.op = c.op /\ x.at = c.at /\ x.bundle = c.bundle /\ x.since = c.since
          /\ x.doubt = c.doubt \cup index.doubt
          /\ "torn" \notin index.doubt => x.pc = "next" /\ x.todo = Targets(index)
          /\ x.pc \in {"refused", "next"}
      <3>1. CASE "torn" \in index.doubt
        <4> DEFINE y == [read EXCEPT !.pc = "refused"]
        <4>1. /\ IsReading(y) /\ y.op = read.op /\ y.at = read.at /\ y.bundle = read.bundle
              /\ y.since = read.since /\ y.doubt = read.doubt /\ y.pc = "refused"
          BY <1>2, <2>4, ReadingAt DEF ReadingPcs
        <4> HIDE DEF y
        <4>2. x = y
          BY <3>1 DEF x, y
        <4> HIDE DEF x
        <4> QED  BY <2>4, <3>1, <4>1, <4>2
      <3>2. CASE "torn" \notin index.doubt
        <4> DEFINE y == [read EXCEPT !.pc = "next", !.todo = Targets(index)]
        <4>1. /\ IsReading(y) /\ y.op = read.op /\ y.at = read.at /\ y.bundle = read.bundle
              /\ y.since = read.since /\ y.doubt = read.doubt /\ y.pc = "next"
              /\ y.todo = Targets(index)
          BY <1>2, <2>4 DEF IsReading, ReadingPcs
        <4> HIDE DEF y
        <4>2. x = y
          BY <3>2 DEF x, y
        <4> HIDE DEF x
        <4> QED  BY <2>4, <3>2, <4>1, <4>2
      <3> QED  BY <3>1, <3>2
    <2> HIDE DEF x
    <2>6. CompilesTheText(x) /\ SinceIsDoubt(x)
      BY <1>2, <2>5 DEF CompilesTheText, SinceIsDoubt, Reading
    <2>7. BundlesTheText(x)
      <3> SUFFICES ASSUME c.op = "links", c.doubt = {}, index.doubt = {}, c.bundle # << >>
                   PROVE  BundlesTheText(x)
        BY <2>5 DEF BundlesTheText
      <3> DEFINE text == c.bundle[1][2]
      <3>1. /\ c.bundle = <<c.bundle[1]>> /\ Len(c.bundle) = 1 /\ c.at = c.bundle[1][1]
            /\ c.at \in DOMAIN md /\ text = md[c.at] /\ conf[c.at].fresh /\ ~Faulty(text)
        BY <1>1, <1>2, <1>5 DEF BundlesTheText
      <3>2. index.to = text /\ index.resolved = Resolves(text)
        BY <2>3, <3>1 DEF index
      <3>3. x.pc = "next" /\ x.todo = Found(text)
        BY <2>5, <3>2 DEF Targets, Found
      <3>4. \A i \in 1 .. Len(c.bundle) : i = 1
        BY <3>1
      <3> HIDE DEF c
      <3> QED  BY <2>5, <3>1, <3>3, <3>4 DEF BundlesTheText
    <2>8. ShellOK(x)
      BY <1>2, <2>5, <2>6, <2>7 DEF ShellOK
    <2> QED  BY <2>1, <2>8, OneShell
  <1> QED  BY <1>3, <1>4, <1>5

LEMMA KillKeepsProject ==
  ASSUME ProjectInv, NEW s \in Shells, Kill(s), conf' = conf
  PROVE  ProjectInv'
  BY OneShell, IdleIsOK DEF Kill

LEMMA PushFailsKeeps ==
  ASSUME ProjectInv, NEW s \in Shells, shell[s].op = "push", Refuse(s)
  PROVE  ProjectInv'
  BY RefuseKeeps

LEMMA PushHashKeeps ==
  ASSUME ProjectInv, NEW s \in Shells, PushHash(s)
  PROVE  ProjectInv'
  <1> DEFINE c == shell[s]
             x == [c EXCEPT !.local = md, !.pc = "list"]
             y == [c EXCEPT !.pc = "pack"]
  <1>1. c.op = "push" /\ c.pc = "next" /\ IsPush(c) /\ LeavesOutTheSame(c)
    BY ShellFacts DEF PushHash, PushPc
  <1>2. shell' = [shell EXCEPT ![s] = IF c.delta THEN x ELSE y]
    BY DEF PushHash, ProjectInv, ProjectTypeOK
  <1>3. ShellOK(x)
    <2>1. /\ IsPush(x) /\ x.op = "push" /\ x.pc = "list" /\ x.delta = c.delta
          /\ x.chosen = c.chosen /\ x.sent = c.sent
      BY <1>1 DEF IsPush
    <2> HIDE DEF x
    <2> QED  BY <1>1, <2>1 DEF ShellOK, LeavesOutTheSame
  <1>4. c.delta \/ ShellOK(y)
    <2>1. IsPush(y) /\ y.op = "push" /\ y.delta = c.delta
      BY <1>1 DEF IsPush
    <2> HIDE DEF y
    <2> QED  BY <2>1 DEF ShellOK, LeavesOutTheSame
  <1> HIDE DEF x, y
  <1>5. ShellOK(IF c.delta THEN x ELSE y)
    BY <1>3, <1>4
  <1> QED  BY <1>2, <1>5, OneShell DEF PushHash

\* What is not chosen has the hash of the local text: the body has it too, unless hollow.
LEMMA PushListKeeps ==
  ASSUME ProjectInv, NEW s \in Shells, PushList(s)
  PROVE  ProjectInv'
  <1> DEFINE c == shell[s]
             chosen == Chosen(c.local)
             hollow == {p \in DOMAIN remote : HashIsOfAnother(p)}
             pc == IF chosen = {} THEN "pushed" ELSE "pack"
             x == [c EXCEPT !.chosen = chosen, !.rivals = {}, !.hollow = hollow, !.pc = pc]
  <1>1. c.op = "push" /\ c.pc = "list" /\ IsPush(c) /\ LeavesOutTheSame(c)
    BY ShellFacts DEF PushList, PushPc
  <1>2. shell' = [shell EXCEPT ![s] = x]
    BY DEF PushList, ProjectInv, ProjectTypeOK
  <1>3. ASSUME NEW p \in DOMAIN c.local \ (hollow \cup chosen)
        PROVE  p \in DOMAIN remote /\ remote[p].text = c.local[p]
    <2>1. p \in DOMAIN remote /\ remote[p].hash = <<"of", c.local[p]>>
      BY <1>3 DEF Chosen
    <2>2. remote[p].hash \in {<<"unset">>, <<"of", remote[p].text>>}
      BY <1>3, <2>1 DEF HashIsOfAnother
    <2>3. ASSUME NEW a, NEW b, <<"of", a>> = <<"of", b>>
          PROVE  a = b
      BY <2>3
    <2>4. ASSUME NEW a
          PROVE  <<"of", a>> # <<"unset">>
      <3>1. Len(<<"of", a>>) = 2 /\ Len(<<"unset">>) = 1
        OBVIOUS
      <3> QED  BY <3>1
    <2> QED  BY <2>1, <2>2, <2>3, <2>4
  <1>4. /\ IsPush(x) /\ x.op = "push" /\ x.local = c.local /\ x.chosen = chosen /\ x.sent = c.sent
        /\ x.rivals = {} /\ x.hollow = hollow /\ x.delta = c.delta
    <2> HIDE DEF chosen, hollow
    <2> QED  BY <1>1 DEF IsPush
  <1>5. c.delta => DOMAIN c.sent = {}
    BY <1>1 DEF LeavesOutTheSame
  <1> HIDE DEF x, chosen, hollow, pc
  <1>6. ShellOK(x)
    BY <1>3, <1>4, <1>5 DEF ShellOK, LeavesOutTheSame
  <1> QED  BY <1>2, <1>6, OneShell DEF PushList

LEMMA PushPackKeeps ==
  ASSUME ProjectInv, NEW s \in Shells, PushPack(s)
  PROVE  ProjectInv'
  <1> DEFINE c == shell[s]
             sent == Packed(c)
             x == [c EXCEPT !.sent = sent, !.pc = "import"]
  <1>1. c.op = "push" /\ c.pc = "pack" /\ IsPush(c) /\ LeavesOutTheSame(c)
    BY ShellFacts DEF PushPack, PushPc
  <1>2. CASE Refuse(s)
    BY <1>1, <1>2, PushFailsKeeps
  <1>3. CASE ~Refuse(s)
    <2>1. shell' = [shell EXCEPT ![s] = x] /\ UNCHANGED <<dirs, md, conf, remote>>
      BY <1>3 DEF PushPack, ProjectInv, ProjectTypeOK
    <2>2. c.delta => \A p \in DOMAIN sent : \E q \in c.chosen : Under(p, q)
      BY DEF Packed, Restrict
    <2> HIDE DEF sent
    <2>3. /\ IsPush(x) /\ x.op = "push" /\ x.pc = "import" /\ x.local = c.local /\ x.chosen = c.chosen
          /\ x.sent = sent /\ x.rivals = c.rivals /\ x.hollow = c.hollow /\ x.delta = c.delta
      BY <1>1 DEF IsPush
    <2> HIDE DEF x
    <2>4. ShellOK(x)
      BY <1>1, <2>2, <2>3 DEF ShellOK, LeavesOutTheSame
    <2> QED  BY <2>1, <2>4, OneShell
  <1> QED  BY <1>2, <1>3

\* A step at the server: the pushes of the other shells are told of the paths it touches.
LEMMA ServerStep ==
  ASSUME ProjectInv, dirs' = dirs, md' = md, conf' = conf, NEW paths, NEW but,
         \A p \in DOMAIN remote' : IsRemote(remote'[p]),
         \A p \in DOMAIN remote \ paths : p \in DOMAIN remote' /\ remote'[p].text = remote[p].text,
         shell' = [u \in Shells |-> shell'[u]],
         \A u \in Shells \ but : shell'[u] = Rivalled(shell, paths, but)[u],
         \A u \in Shells \cap but : ShellOK(shell[u])'
  PROVE  ProjectInv'
  <1>1. \A c : c.op # "push" => (ShellOK(c)' <=> ShellOK(c))
    <2>1. \A c : IsReading(c)' <=> IsReading(c)
      BY DEF IsReading
    <2>2. \A c : CompilesTheText(c)' <=> CompilesTheText(c)
      BY DEF CompilesTheText, Resolves, Reading
    <2>3. \A c : SinceIsDoubt(c)' <=> SinceIsDoubt(c)
      BY DEF SinceIsDoubt, Reading
    <2>4. \A c : BundlesTheText(c)' <=> BundlesTheText(c)
      BY DEF BundlesTheText, Found, Resolves
    <2> QED  BY <2>1, <2>2, <2>3, <2>4 DEF ShellOK
  <1>2. ASSUME NEW u \in Shells \ but
        PROVE  ShellOK(shell[u])'
    <2> DEFINE c == shell[u] x == [c EXCEPT !.rivals = @ \cup paths]
    <2>1. CASE c.op # "push"
      <3>1. PICK d : d = shell[u]
        OBVIOUS
      <3>2. shell'[u] = d /\ d.op # "push" /\ ShellOK(d)
        BY <1>2, <2>1, <3>1 DEF Rivalled, ProjectInv
      <3> QED  BY <1>1, <3>2
    <2>2. CASE c.op = "push"
      <3>1. IsPush(c) /\ LeavesOutTheSame(c)
        BY <2>2, ShellFacts
      <3>2. shell'[u] = x
        BY <1>2, <2>2 DEF Rivalled
      <3>3. /\ IsPush(x) /\ x.op = "push" /\ x.pc = c.pc /\ x.local = c.local /\ x.chosen = c.chosen
            /\ x.sent = c.sent /\ x.rivals = c.rivals \cup paths /\ x.hollow = c.hollow
            /\ x.delta = c.delta
        BY <3>1 DEF IsPush
      <3> HIDE DEF x
      <3>4. PICK d : d = x
        OBVIOUS
      <3>5. LeavesOutTheSame(d)'
        BY <3>1, <3>3, <3>4 DEF LeavesOutTheSame, Under
      <3>6. ShellOK(d)'
        BY <3>3, <3>4, <3>5 DEF ShellOK, IsPush
      <3> QED  BY <3>2, <3>4, <3>6
    <2> QED  BY <2>1, <2>2
  <1>3. ProjectTypeOK'
    BY DEF ProjectInv, ProjectTypeOK
  <1>4. TreeIsClosed' /\ InFolders' /\ IndexIsTrue'
    BY DEF ProjectInv, TreeIsClosed, InFolders, IndexIsTrue, Resolves
  <1> QED  BY <1>2, <1>3, <1>4 DEF ProjectInv

LEMMA RivalKeeps ==
  ASSUME ProjectInv, NEW p, NEW text, RivalWrites(p, text) \/ RivalIsRefused(p, text) \/ RivalDeletes(p)
  PROVE  ProjectInv'
  <1>1. /\ dirs' = dirs /\ md' = md /\ conf' = conf /\ shell' = Rivalled(shell, {p}, {})
    BY DEF RivalWrites, RivalIsRefused, RivalDeletes
  <1>2. shell' = [u \in Shells |-> shell'[u]]
    BY <1>1 DEF Rivalled
  <1>3. \A q \in DOMAIN remote' : IsRemote(remote'[q])
    <2>1. \A q \in DOMAIN remote : IsRemote(remote[q])
      BY DEF ProjectInv, ProjectTypeOK
    <2>2. IsRemote(Stored(text))
      BY DEF IsRemote, Stored
    <2>3. CASE RivalWrites(p, text)
      BY <2>1, <2>2, <2>3 DEF RivalWrites, Put
    <2>4. CASE RivalIsRefused(p, text)
      <3> DEFINE r == [remote[p] EXCEPT !.text = text]
      <3>1. IsRemote(remote[p])
        BY <2>1, <2>4 DEF RivalIsRefused
      <3>2. IsRemote(r)
        BY <3>1 DEF IsRemote
      <3>3. remote' = [remote EXCEPT ![p] = r]
        BY <2>4 DEF RivalIsRefused
      <3> HIDE DEF r
      <3> QED  BY <2>1, <2>4, <3>2, <3>3 DEF RivalIsRefused
    <2>5. CASE RivalDeletes(p)
      BY <2>1, <2>5 DEF RivalDeletes, Restrict
    <2> QED  BY <2>3, <2>4, <2>5
  <1>4. \A q \in DOMAIN remote \ {p} : q \in DOMAIN remote' /\ remote'[q].text = remote[q].text
    BY DEF RivalWrites, RivalIsRefused, RivalDeletes, Put, Restrict
  <1> QED  BY <1>1, <1>2, <1>3, <1>4, ServerStep

LEMMA PushImportKeeps ==
  ASSUME ProjectInv, NEW s \in Shells, PushImport(s)
  PROVE  ProjectInv'
  <1> DEFINE c == shell[s]
             sent == c.sent
             others == Rivalled(shell, DOMAIN sent, {s})
             x == [c EXCEPT !.pc = "pushed"]
  <1>1. c.op = "push" /\ c.pc = "import" /\ IsPush(c) /\ LeavesOutTheSame(c)
    BY ShellFacts DEF PushImport, PushPc
  <1>2. remote' = [p \in DOMAIN sent \cup DOMAIN remote |->
                      IF p \in DOMAIN sent THEN Stored(sent[p]) ELSE remote[p]]
    BY DEF PushImport
  <1>3. shell' = [others EXCEPT ![s] = x]
    BY <1>1 DEF PushImport, Rivalled
  <1>4. /\ shell' = [u \in Shells |-> shell'[u]] /\ shell'[s] = x
        /\ \A u \in Shells \ {s} : shell'[u] = others[u]
    BY <1>3 DEF Rivalled
  <1>5. \A q \in DOMAIN remote' : IsRemote(remote'[q])
    BY <1>2 DEF ProjectInv, ProjectTypeOK, IsRemote, Stored
  <1>6. \A q \in DOMAIN remote \ DOMAIN sent : q \in DOMAIN remote' /\ remote'[q].text = remote[q].text
    BY <1>2
  <1>7. ShellOK(shell[s])'
    <2>1. /\ IsPush(x) /\ x.op = "push" /\ x.pc = "pushed" /\ x.local = c.local /\ x.chosen = c.chosen
          /\ x.sent = c.sent /\ x.rivals = c.rivals /\ x.hollow = c.hollow /\ x.delta = c.delta
      BY <1>1 DEF IsPush
    <2>2. PICK d : d = x
      OBVIOUS
    <2> HIDE DEF x
    <2>3. LeavesOutTheSame(d)'
      BY <1>1, <1>6, <2>1, <2>2 DEF LeavesOutTheSame, Under
    <2>4. ShellOK(d)'
      BY <2>1, <2>2, <2>3 DEF ShellOK, IsPush
    <2> QED  BY <1>4, <2>2, <2>4
  <1> HIDE DEF others, x
  <1>8. /\ \A u \in Shells \ {s} : shell'[u] = Rivalled(shell, DOMAIN sent, {s})[u]
        /\ \A u \in Shells \cap {s} : ShellOK(shell[u])'
    BY <1>4, <1>7 DEF others
  <1>9. dirs' = dirs /\ md' = md /\ conf' = conf /\ shell' = [u \in Shells |-> shell'[u]]
    BY <1>4 DEF PushImport
  <1> QED  BY <1>5, <1>6, <1>8, <1>9, ServerStep

LEMMA PushCutShortKeeps ==
  ASSUME ProjectInv, NEW s \in Shells, PushCutShort(s)
  PROVE  ProjectInv'
  <1> DEFINE sent == shell[s].sent
  <1>1. PICK written \in SUBSET (DOMAIN sent \cap DOMAIN remote) :
           /\ remote' = [p \in DOMAIN remote |->
                            IF p \in written THEN [remote[p] EXCEPT !.text = sent[p]] ELSE remote[p]]
           /\ shell' = [Rivalled(shell, written, {s}) EXCEPT ![s] = Idle]
    BY DEF PushCutShort
  <1>2. /\ shell' = [u \in Shells |-> shell'[u]] /\ shell'[s] = Idle
        /\ \A u \in Shells \ {s} : shell'[u] = Rivalled(shell, written, {s})[u]
    BY <1>1 DEF Rivalled
  <1>3. ASSUME NEW q \in DOMAIN remote'
        PROVE  IsRemote(remote'[q])
    <2> DEFINE r == [remote[q] EXCEPT !.text = sent[q]]
    <2>1. q \in DOMAIN remote /\ IsRemote(remote[q])
      BY <1>1, <1>3 DEF ProjectInv, ProjectTypeOK
    <2>2. IsRemote(r)
      BY <2>1 DEF IsRemote
    <2>3. remote'[q] = IF q \in written THEN r ELSE remote[q]
      BY <1>1, <2>1
    <2> HIDE DEF r
    <2> QED  BY <2>1, <2>2, <2>3
  <1>4. \A q \in DOMAIN remote \ written : q \in DOMAIN remote' /\ remote'[q].text = remote[q].text
    BY <1>1
  <1>5. ShellOK(shell[s])'
    <2>1. PICK d : d = Idle
      OBVIOUS
    <2>2. ShellOK(d)'
      BY <2>1, IdleIsOK
    <2> QED  BY <1>2, <2>1, <2>2
  <1>6. \A u \in Shells \cap {s} : ShellOK(shell[u])'
    BY <1>5
  <1>7. dirs' = dirs /\ md' = md /\ conf' = conf
    BY DEF PushCutShort
  <1> QED  BY <1>2, <1>3, <1>4, <1>6, <1>7, ServerStep

\* A step that leaves all but the folders that are being created, or nothing at all.
LEMMA RestKeeps ==
  ASSUME ProjectInv, UNCHANGED <<dirs, md, conf, remote, shell>>
  PROVE  ProjectInv'
  <1>1. \A c : ShellOK(c)' <=> ShellOK(c)
    BY DEF ShellOK, IsPush, IsReading, LeavesOutTheSame, CompilesTheText, SinceIsDoubt,
       BundlesTheText, Found, Resolves, Reading
  <1>2. ASSUME NEW u \in Shells
        PROVE  ShellOK(shell[u])'
    <2>1. PICK c : c = shell[u]
      OBVIOUS
    <2>2. ShellOK(c) /\ shell'[u] = c
      BY <2>1 DEF ProjectInv
    <2> QED  BY <1>1, <2>2
  <1>3. ProjectTypeOK'
    BY DEF ProjectInv, ProjectTypeOK
  <1>4. TreeIsClosed' /\ InFolders' /\ IndexIsTrue'
    BY DEF ProjectInv, TreeIsClosed, InFolders, IndexIsTrue, Resolves
  <1> QED  BY <1>2, <1>3, <1>4 DEF ProjectInv

\* A step that writes one index, which is fresh, and takes its command on.
LEMMA IndexStep ==
  ASSUME ProjectInv, dirs' = dirs, md' = md, remote' = remote,
         NEW p \in dirs, NEW x, IsIndex(x), x.fresh, conf' = Put(conf, p, x),
         p \in DOMAIN md => /\ x.to = md[p] \/ x.doubt \cap {"text", "torn"} # {}
                            /\ x.resolved = Resolves(x.to) \/ x.doubt # {},
         NEW s \in Shells, NEW y, shell' = [shell EXCEPT ![s] = y], ShellOK(y)'
  PROVE  ProjectInv'
  <1>1. /\ DOMAIN conf' = DOMAIN conf \cup {p}
        /\ \A q \in DOMAIN conf' : conf'[q] = IF q = p THEN x ELSE conf[q]
    BY DEF Put
  <1>2. \A u \in Shells : shell'[u] = IF u = s THEN y ELSE shell[u]
    BY DEF ProjectInv, ProjectTypeOK
  <1>3. \A c : ShellOK(c) => ShellOK(c)'
    <2> SUFFICES ASSUME NEW c, ShellOK(c)
                 PROVE  ShellOK(c)'
      OBVIOUS
    <2>1. CASE c.op = "push"
      BY <2>1 DEF ShellOK, IsPush, LeavesOutTheSame
    <2>2. CASE c.op # "push"
      <3>1. IsReading(c)' /\ CompilesTheText(c)' /\ SinceIsDoubt(c)'
        BY <2>2 DEF ShellOK, IsReading, CompilesTheText, SinceIsDoubt, Resolves, Reading
      <3>2. Found(c.bundle[1][2])' = Found(c.bundle[1][2])
        BY DEF Found, Resolves
      <3>3. c.at \in DOMAIN conf /\ conf[c.at].fresh => c.at \in DOMAIN conf' /\ conf'[c.at].fresh
        BY <1>1
      <3>4. BundlesTheText(c)'
        BY <2>2, <3>2, <3>3 DEF ShellOK, BundlesTheText
      <3> QED  BY <2>2, <3>1, <3>4 DEF ShellOK
    <2> QED  BY <2>1, <2>2
  <1>4. ASSUME NEW u \in Shells
        PROVE  ShellOK(shell[u])'
    <2>1. PICK c : c = shell[u]
      OBVIOUS
    <2>2. ShellOK(c)
      BY <2>1 DEF ProjectInv
    <2> QED  BY <1>2, <1>3, <2>1, <2>2
  <1>5. ProjectTypeOK'
    BY <1>1 DEF ProjectInv, ProjectTypeOK, IsIndex
  <1>6. IndexIsTrue'
    BY <1>1 DEF ProjectInv, IndexIsTrue, Resolves
  <1>7. TreeIsClosed' /\ InFolders'
    BY <1>1 DEF ProjectInv, TreeIsClosed, InFolders
  <1> QED  BY <1>4, <1>5, <1>6, <1>7 DEF ProjectInv

LEMMA KillKeepsShells ==
  ASSUME ProjectInv, NEW s \in Shells, Kill(s)
  PROVE  ProjectInv'
  <1>1. CASE conf' = conf
    BY <1>1, KillKeepsProject
  <1>2. CASE conf' # conf
    <2> DEFINE p == shell[s].at
               x == [to |-> NoLink, resolved |-> FALSE, fresh |-> TRUE, doubt |-> Doubts]
    <2>1. /\ p \in dirs /\ conf' = Put(conf, p, x) /\ shell' = [shell EXCEPT ![s] = Idle]
          /\ dirs' = dirs /\ md' = md /\ remote' = remote
      BY <1>2 DEF Kill
    <2>2. IsIndex(x) /\ x.fresh /\ x.doubt \cap {"text", "torn"} # {} /\ x.doubt # {}
      BY DEF IsIndex, Doubts
    <2> HIDE DEF x
    <2> QED  BY <2>1, <2>2, IdleIsOK, IndexStep
  <1> QED  BY <1>1, <1>2

LEMMA CompileWriteKeeps ==
  ASSUME ProjectInv, NEW s \in Shells, CompileWrite(s)
  PROVE  ProjectInv'
  <1> DEFINE c == shell[s]
             x == Index(c)
             pc == IF c.op = "compile" THEN "next" ELSE "loaded"
             y == [c EXCEPT !.pc = pc, !.text = NoLink, !.exists = FALSE, !.since = {}]
  <1>1. c.pc = "write"
    BY DEF CompileWrite
  <1>2. c.op \notin {"push", "none"} /\ IsReading(c) /\ CompilesTheText(c) /\ SinceIsDoubt(c) /\ BundlesTheText(c)
    BY <1>1, ShellFacts DEF IsPush, IsReading
  <1>3. DOMAIN md \subseteq dirs
    BY DEF ProjectInv, InFolders
  <1>4. CASE c.at \notin dirs
    <2>1. ~(c.op = "links" /\ c.doubt = {} /\ c.bundle # << >>)
      BY <1>1, <1>2, <1>3, <1>4 DEF BundlesTheText
    <2> QED  BY <1>4, <2>1, RefuseKeeps DEF CompileWrite
  <1>5. CASE c.at \in dirs
    <2>1. /\ conf' = Put(conf, c.at, x) /\ shell' = [shell EXCEPT ![s] = y]
          /\ dirs' = dirs /\ md' = md /\ remote' = remote
      BY <1>5 DEF CompileWrite, ProjectInv, ProjectTypeOK
    <2>2. /\ x.to = c.text /\ x.resolved = c.exists /\ x.fresh /\ x.doubt = c.since /\ IsIndex(x)
      <3>1. c.since \subseteq Doubts
        BY <1>1, <1>2 DEF IsReading
      <3> QED  BY <3>1 DEF Index, IsIndex
    <2>3. pc \in {"next", "loaded"} /\ pc \in ReadingPcs /\ (c.op = "links" => pc = "loaded")
      BY DEF ReadingPcs
    <2> HIDE DEF x, pc
    <2>4. /\ IsReading(y) /\ y.op = c.op /\ y.pc = pc /\ y.todo = c.todo /\ y.at = c.at
          /\ y.bundle = c.bundle /\ y.since = {} /\ y.doubt = c.doubt
      BY <1>1, <1>2, <2>3 DEF IsReading
    <2> HIDE DEF y
    <2>5. /\ x.to = md[c.at] \/ x.doubt \cap {"text", "torn"} # {}
          /\ x.resolved = Resolves(x.to) \/ x.doubt # {}
      <3>1. Reading(c)
        BY <1>2 DEF IsReading, Reading
      <3> QED  BY <1>1, <1>2, <2>2, <3>1 DEF CompilesTheText
    <2>6. c.at \in DOMAIN conf' /\ conf'[c.at].fresh
      BY <2>1, <2>2 DEF Put
    <2>7. PICK d : d = y
      OBVIOUS
    <2>8. CompilesTheText(d)' /\ SinceIsDoubt(d)'
      BY <2>3, <2>4, <2>7 DEF CompilesTheText, SinceIsDoubt
    <2>9. BundlesTheText(d)'
      <3>1. Found(d.bundle[1][2])' = Found(d.bundle[1][2])
        BY <2>1 DEF Found, Resolves
      <3> QED  BY <1>1, <1>2, <2>1, <2>3, <2>4, <2>6, <2>7, <3>1 DEF BundlesTheText
    <2>10. ShellOK(d)'
      BY <1>2, <2>4, <2>7, <2>8, <2>9 DEF ShellOK, IsReading
    <2> QED  BY <1>5, <2>1, <2>2, <2>5, <2>7, <2>10, IndexStep
  <1> QED  BY <1>4, <1>5

\* What a command is told of.
Tell(c, what) == [c EXCEPT !.since = @ \cup what, !.doubt = @ \cup what]

LEMMA ToldFacts ==
  ASSUME NEW c, IsReading(c), SinceIsDoubt(c), NEW what \in SUBSET Doubts
  PROVE  LET d == Tell(c, what)
         IN /\ IsReading(d) /\ SinceIsDoubt(d)
            /\ d.op = c.op /\ d.pc = c.pc /\ d.todo = c.todo /\ d.at = c.at /\ d.text = c.text
            /\ d.exists = c.exists /\ d.bundle = c.bundle
            /\ d.since = c.since \cup what /\ d.doubt = c.doubt \cup what
  <1> DEFINE d == Tell(c, what)
  <1>1. /\ IsReading(d)
        /\ d.op = c.op /\ d.pc = c.pc /\ d.todo = c.todo /\ d.at = c.at /\ d.text = c.text
        /\ d.exists = c.exists /\ d.bundle = c.bundle
        /\ d.since = c.since \cup what /\ d.doubt = c.doubt \cup what
    BY DEF IsReading, Tell
  <1> HIDE DEF d
  <1>2. SinceIsDoubt(d)
    BY <1>1 DEF SinceIsDoubt, Reading
  <1> QED  BY <1>1, <1>2 DEF d

\* A step of a user in the folders: every command that reads is told.
LEMMA TreeStep ==
  ASSUME ProjectInv, remote' = remote, TreeIsClosed', InFolders', IndexIsTrue',
         \A p \in DOMAIN conf' : IsIndex(conf'[p]),
         NEW what, \A u \in Shells : what[u] \in SUBSET Doubts /\ "tree" \in what[u],
         shell' = [u \in Shells |-> IF Reading(shell[u]) THEN Tell(shell[u], what[u]) ELSE shell[u]],
         \A u \in Shells : Reading(shell[u]) /\ shell[u].at \in DOMAIN md /\ "text" \notin what[u] =>
            shell[u].at \in DOMAIN md' /\ md'[shell[u].at] = md[shell[u].at]
  PROVE  ProjectInv'
  <1>1. ASSUME NEW u \in Shells
        PROVE  ShellOK(shell[u])'
    <2>1. PICK c : c = shell[u]
      OBVIOUS
    <2>2. CASE c.op = "push"
      <3>1. shell'[u] = c /\ ShellOK(c)
        BY <2>1, <2>2 DEF Reading, ProjectInv
      <3>2. ShellOK(c)'
        BY <2>2, <3>1 DEF ShellOK, IsPush, LeavesOutTheSame
      <3> QED  BY <3>1, <3>2
    <2>3. CASE c.op = "none"
      <3>1. shell'[u] = c /\ IsReading(c)
        BY <2>1, <2>3, ShellFacts DEF Reading
      <3>2. CompilesTheText(c)' /\ SinceIsDoubt(c)' /\ BundlesTheText(c)'
        BY <2>3 DEF CompilesTheText, SinceIsDoubt, BundlesTheText, Reading
      <3>3. ShellOK(c)'
        BY <2>3, <3>1, <3>2 DEF ShellOK, IsReading
      <3> QED  BY <3>1, <3>3
    <2>4. CASE c.op \notin {"push", "none"}
      <3>1. Reading(c) /\ IsReading(c) /\ CompilesTheText(c) /\ SinceIsDoubt(c)
        BY <2>1, <2>4, ShellFacts DEF IsReading, Reading
      <3>2. PICK d : d = Tell(c, what[u])
        OBVIOUS
      <3>3. shell'[u] = d
        BY <2>1, <3>1, <3>2
      <3>4. /\ IsReading(d) /\ SinceIsDoubt(d) /\ d.op = c.op /\ d.pc = c.pc /\ d.at = c.at
            /\ d.text = c.text /\ d.since = c.since \cup what[u] /\ d.doubt = c.doubt \cup what[u]
        BY <3>1, <3>2, ToldFacts
      <3>5. "tree" \in d.since /\ "tree" \in d.doubt
        BY <3>4
      <3>6. CompilesTheText(d)'
        BY <2>1, <3>1, <3>4, <3>5 DEF CompilesTheText
      <3>7. SinceIsDoubt(d)' /\ BundlesTheText(d)'
        BY <3>4, <3>5 DEF SinceIsDoubt, BundlesTheText, Reading
      <3>8. ShellOK(d)'
        BY <2>4, <3>4, <3>6, <3>7 DEF ShellOK, IsReading
      <3> QED  BY <3>3, <3>8
    <2> QED  BY <2>2, <2>3, <2>4
  <1>2. ProjectTypeOK'
    BY DEF ProjectInv, ProjectTypeOK
  <1> QED  BY <1>1, <1>2 DEF ProjectInv

LEMMA TreeDoubtedFacts ==
  ASSUME NEW index, \A p \in DOMAIN index : IsIndex(index[p])
  PROVE  /\ DOMAIN TreeDoubted(index) = DOMAIN index
         /\ \A p \in DOMAIN index :
               LET x == TreeDoubted(index)[p]
               IN /\ IsIndex(x) /\ x.to = index[p].to /\ x.fresh = index[p].fresh
                  /\ index[p].doubt \subseteq x.doubt /\ (x.fresh => "tree" \in x.doubt)
  <1> SUFFICES ASSUME NEW p \in DOMAIN index
               PROVE  LET x == TreeDoubted(index)[p]
                      IN /\ IsIndex(x) /\ x.to = index[p].to /\ x.fresh = index[p].fresh
                         /\ index[p].doubt \subseteq x.doubt /\ (x.fresh => "tree" \in x.doubt)
    BY DEF TreeDoubted
  <1> DEFINE y == [index[p] EXCEPT !.doubt = @ \cup {"tree"}]
  <1>1. IsIndex(index[p])
    OBVIOUS
  <1>2. /\ IsIndex(y) /\ y.to = index[p].to /\ y.fresh = index[p].fresh
        /\ y.doubt = index[p].doubt \cup {"tree"}
    BY <1>1 DEF IsIndex, Doubts
  <1>3. TreeDoubted(index)[p] = IF index[p].fresh THEN y ELSE index[p]
    BY DEF TreeDoubted
  <1> HIDE DEF y
  <1> QED  BY <1>1, <1>2, <1>3

LEMMA AgedFacts ==
  ASSUME NEW index, NEW p, \A q \in DOMAIN index : IsIndex(index[q])
  PROVE  /\ DOMAIN Aged(index, p) = DOMAIN index
         /\ \A q \in DOMAIN index :
               /\ IsIndex(Aged(index, p)[q])
               /\ q # p => Aged(index, p)[q] = index[q]
               /\ q = p => ~Aged(index, p)[q].fresh
  <1>1. CASE p \in DOMAIN index
    <2> DEFINE y == [index[p] EXCEPT !.fresh = FALSE, !.doubt = @ \cap {"torn"}]
    <2>1. IsIndex(index[p])
      BY <1>1
    <2>2. IsIndex(y) /\ y.fresh = FALSE
      BY <2>1 DEF IsIndex
    <2>3. Aged(index, p) = [index EXCEPT ![p] = y]
      BY <1>1 DEF Aged
    <2> HIDE DEF y
    <2> QED  BY <1>1, <2>2, <2>3
  <1>2. CASE p \notin DOMAIN index
    BY <1>2 DEF Aged
  <1> QED  BY <1>1, <1>2

LEMMA ToldTwice ==
  ASSUME NEW c, IsReading(c), NEW a, NEW b
  PROVE  Tell(Tell(c, a), b) = Tell(c, a \cup b)
  BY DEF Tell, IsReading

\* The commands are told that the folders have changed, or first that the text has.
LEMMA ToldOfTree ==
  ASSUME ProjectInv, NEW f, f = [u \in Shells |-> f[u]],
         NEW told, \A u \in Shells : f[u] = IF Reading(shell[u]) /\ u \in told
                                               THEN Tell(shell[u], {"text"}) ELSE shell[u]
  PROVE  TreeNoticed(f) =
           [u \in Shells |-> IF Reading(shell[u])
                             THEN Tell(shell[u], IF u \in told THEN {"text", "tree"} ELSE {"tree"})
                             ELSE shell[u]]
  <1>1. ASSUME NEW u \in Shells
        PROVE  (IF Reading(f[u]) THEN Tell(f[u], {"tree"}) ELSE f[u])
                = IF Reading(shell[u])
                  THEN Tell(shell[u], IF u \in told THEN {"text", "tree"} ELSE {"tree"}) ELSE shell[u]
    <2>1. CASE ~Reading(shell[u])
      BY <2>1
    <2>2. CASE Reading(shell[u]) /\ u \notin told
      BY <2>2
    <2>3. CASE Reading(shell[u]) /\ u \in told
      <3>1. IsReading(shell[u]) /\ SinceIsDoubt(shell[u])
        BY <2>3, ShellFacts
      <3>2. f[u] = Tell(shell[u], {"text"}) /\ Reading(f[u])
        BY <2>3, <3>1, ToldFacts DEF Reading, Doubts
      <3>3. {"text"} \cup {"tree"} = {"text", "tree"}
        OBVIOUS
      <3> QED  BY <2>3, <3>1, <3>2, <3>3, ToldTwice
    <2> QED  BY <2>1, <2>2, <2>3
  <1>2. TreeNoticed(f) = [u \in Shells |-> IF Reading(f[u]) THEN Tell(f[u], {"tree"}) ELSE f[u]]
    BY DEF TreeNoticed, Tell
  <1> QED  BY <1>1, <1>2

LEMMA FolderOfName ==
  ASSUME NEW n \in Names
  PROVE  /\ <<n>> \in Seq(Letters) /\ <<n>> # << >> /\ Len(<<n>>) = 1 /\ <<n>>[1] = n
         /\ \A k \in 1 .. Len(<<n>>) : SubSeq(<<n>>, 1, k) = <<n>>
  <1>1. <<n>> \in Seq(Letters) /\ <<n>> # << >> /\ Len(<<n>>) = 1 /\ <<n>>[1] = n
    BY LetterFacts
  <1>2. SubSeq(<<n>>, 1, 1) = <<n>>
    <2>1. /\ SubSeq(<<n>>, 1, 1) \in Seq(Letters) /\ Len(SubSeq(<<n>>, 1, 1)) = 1
          /\ SubSeq(<<n>>, 1, 1)[1] = n
      BY <1>1, AboveFacts
    <2> DEFINE p == <<n>> q == SubSeq(<<n>>, 1, 1)
    <2> HIDE DEF p, q
    <2>2. /\ p \in Seq(Letters) /\ q \in Seq(Letters) /\ Len(p) = 1 /\ Len(q) = 1
          /\ \A i \in 1 .. Len(p) : p[i] = q[i]
      BY <1>1, <2>1 DEF p, q
    <2>3. p = q
      BY <2>2, SameEverywhere
    <2> QED  BY <2>3 DEF p, q
  <1> QED  BY <1>1, <1>2

\* The commands are told of the folders alone.
LEMMA ToldOfFolders ==
  ASSUME ProjectInv
  PROVE  TreeNoticed(shell) =
            [u \in Shells |-> IF Reading(shell[u]) THEN Tell(shell[u], [v \in Shells |-> {"tree"}][u])
                              ELSE shell[u]]
  BY DEF TreeNoticed, Tell

LEMMA CreateFolderKeeps ==
  ASSUME ProjectInv, NEW n \in Names, CreateFolder(n)
  PROVE  ProjectInv'
  <1> DEFINE what == [v \in Shells |-> {"tree"}]
  <1>1. /\ dirs' = dirs \cup {<<n>>} /\ md' = md /\ remote' = remote /\ conf' = TreeDoubted(conf)
        /\ shell' = TreeNoticed(shell)
    BY DEF CreateFolder
  <1>2. TreeIsClosed'
    BY <1>1, FolderOfName DEF ProjectInv, TreeIsClosed
  <1>3. /\ DOMAIN conf' = DOMAIN conf
        /\ \A p \in DOMAIN conf :
              /\ IsIndex(conf'[p]) /\ conf'[p].to = conf[p].to /\ conf'[p].fresh = conf[p].fresh
              /\ conf[p].doubt \subseteq conf'[p].doubt /\ (conf'[p].fresh => "tree" \in conf'[p].doubt)
    BY <1>1, TreeDoubtedFacts DEF ProjectInv, ProjectTypeOK
  <1>4. InFolders'
    BY <1>1, <1>3 DEF ProjectInv, InFolders
  <1>5. IndexIsTrue'
    BY <1>1, <1>3 DEF ProjectInv, IndexIsTrue
  <1>6. \A u \in Shells : what[u] \in SUBSET Doubts /\ "tree" \in what[u]
    BY DEF Doubts
  <1>7. shell' = [u \in Shells |-> IF Reading(shell[u]) THEN Tell(shell[u], what[u]) ELSE shell[u]]
    BY <1>1, ToldOfFolders
  <1> HIDE DEF what
  <1> QED  BY <1>1, <1>2, <1>3, <1>4, <1>5, <1>6, <1>7, TreeStep

LEMMA AssignFailsKeeps ==
  ASSUME ProjectInv, NEW n \in Names, NEW d \in Folders \cup {<<m>> : m \in Names}, AssignFails(n, d)
  PROVE  ProjectInv'
  <1> DEFINE what == [v \in Shells |-> {"tree"}]
  <1>1. /\ dirs' = dirs \cup Made(d) /\ md' = md /\ remote' = remote /\ conf' = TreeDoubted(conf)
        /\ shell' = TreeNoticed(shell)
    BY DEF AssignFails
  <1>2. d \in Seq(Letters)
    BY LetterFacts DEF Tree
  <1>3. TreeIsClosed'
    BY <1>1, <1>2, MadeFacts DEF ProjectInv, TreeIsClosed
  <1>4. /\ DOMAIN conf' = DOMAIN conf
        /\ \A p \in DOMAIN conf :
              /\ IsIndex(conf'[p]) /\ conf'[p].to = conf[p].to /\ conf'[p].fresh = conf[p].fresh
              /\ conf[p].doubt \subseteq conf'[p].doubt /\ (conf'[p].fresh => "tree" \in conf'[p].doubt)
    BY <1>1, TreeDoubtedFacts DEF ProjectInv, ProjectTypeOK
  <1>5. InFolders'
    BY <1>1, <1>4 DEF ProjectInv, InFolders
  <1>6. IndexIsTrue'
    BY <1>1, <1>4 DEF ProjectInv, IndexIsTrue
  <1>7. \A u \in Shells : what[u] \in SUBSET Doubts /\ "tree" \in what[u]
    BY DEF Doubts
  <1>8. shell' = [u \in Shells |-> IF Reading(shell[u]) THEN Tell(shell[u], what[u]) ELSE shell[u]]
    BY <1>1, ToldOfFolders
  <1> HIDE DEF what
  <1> QED  BY <1>1, <1>3, <1>4, <1>5, <1>6, <1>7, <1>8, TreeStep

LEMMA CreateFilesKeeps ==
  ASSUME ProjectInv, NEW n \in Names, CreateFiles(n)
  PROVE  ProjectInv'
  <1> DEFINE p == <<n>>
             aged == Aged(conf, p)
             told == {u \in Shells : p \in {shell[u].at} \cup {b[1] : b \in ToSet(shell[u].bundle)}}
             what == [u \in Shells |-> IF u \in told THEN {"text", "tree"} ELSE {"tree"}]
             heard == Noticed(shell, p, "text")
  <1>1. /\ p \in dirs /\ dirs' = dirs /\ md' = Put(md, p, NoLink) /\ remote' = remote
        /\ conf' = TreeDoubted(aged) /\ shell' = TreeNoticed(heard)
    BY DEF CreateFiles
  <1>2. /\ DOMAIN aged = DOMAIN conf
        /\ \A q \in DOMAIN conf : /\ IsIndex(aged[q]) /\ (q # p => aged[q] = conf[q])
                                  /\ (q = p => ~aged[q].fresh)
    <2>1. \A q \in DOMAIN conf : IsIndex(conf[q])
      BY DEF ProjectInv, ProjectTypeOK
    <2> HIDE DEF p
    <2> QED  BY <2>1, AgedFacts
  <1> HIDE DEF aged
  <1>3. /\ DOMAIN conf' = DOMAIN conf
        /\ \A q \in DOMAIN conf :
              /\ IsIndex(conf'[q]) /\ conf'[q].to = aged[q].to /\ conf'[q].fresh = aged[q].fresh
              /\ aged[q].doubt \subseteq conf'[q].doubt /\ (conf'[q].fresh => "tree" \in conf'[q].doubt)
    BY <1>1, <1>2, TreeDoubtedFacts
  <1>4. DOMAIN md' = DOMAIN md \cup {p} /\ \A q \in DOMAIN md : q # p => md'[q] = md[q]
    BY <1>1 DEF Put
  <1>5. TreeIsClosed' /\ InFolders'
    BY <1>1, <1>3, <1>4 DEF ProjectInv, TreeIsClosed, InFolders
  <1>6. IndexIsTrue'
    BY <1>2, <1>3, <1>4 DEF ProjectInv, IndexIsTrue
  <1>7. \A u \in Shells : what[u] \in SUBSET Doubts /\ "tree" \in what[u]
    BY DEF Doubts
  <1>8. /\ heard = [u \in Shells |-> heard[u]]
        /\ \A u \in Shells : heard[u] = IF Reading(shell[u]) /\ u \in told
                                        THEN Tell(shell[u], {"text"}) ELSE shell[u]
    BY DEF Noticed, Tell
  <1>9. \A u \in Shells : "text" \notin what[u] => shell[u].at # p
    OBVIOUS
  <1> HIDE DEF heard, told
  <1>10. shell' = [u \in Shells |-> IF Reading(shell[u]) THEN Tell(shell[u], what[u]) ELSE shell[u]]
    BY <1>1, <1>8, ToldOfTree
  <1>11. \A q \in DOMAIN conf' : IsIndex(conf'[q])
    BY <1>3
  <1> HIDE DEF what, p
  <1> QED  BY <1>1, <1>4, <1>5, <1>6, <1>7, <1>9, <1>10, <1>11, TreeStep

LEMMA CreateEndsKeeps ==
  ASSUME ProjectInv, NEW n, CreateEnds(n)
  PROVE  ProjectInv'
  BY RestKeeps DEF CreateEnds

LEMMA AssignKeeps ==
  ASSUME ProjectInv, NEW n \in Names, NEW d \in Folders \cup {<<m>> : m \in Names}, Assign(n, d)
  PROVE  ProjectInv'
  <1> DEFINE src == <<n>>
             dest == Append(d, n)
             moved == Moved(conf, src, dest)
             told == {u \in Shells : Under(shell[u].at, src)}
             what == [u \in Shells |-> IF u \in told THEN {"text", "tree"} ELSE {"tree"}]
             heard == [u \in Shells |->
                         IF Reading(shell[u]) /\ Under(shell[u].at, src)
                         THEN [shell[u] EXCEPT !.since = @ \cup {"text"}, !.doubt = @ \cup {"text"}]
                         ELSE shell[u]]
  <1>1. /\ src \in dirs /\ dest \notin dirs /\ ~Under(d, src)
        /\ dirs' = {Renamed(p, src, dest) : p \in dirs \cup Made(d)}
        /\ md' = Moved(md, src, dest) /\ conf' = TreeDoubted(moved) /\ remote' = remote
        /\ shell' = TreeNoticed(heard)
    BY DEF Assign, MayAssign
  <1>2. src \in Seq(Letters) /\ d \in Seq(Letters) /\ d # << >> /\ n \in Letters
    BY LetterFacts DEF Tree, Letters
  <1>3. /\ dest \in Seq(Letters) /\ Len(dest) = Len(d) + 1 /\ dest # << >>
        /\ \A i \in 1 .. Len(d) : dest[i] = d[i]
    <2> HIDE DEF src, told, what, heard, moved
    <2>1. /\ dest \in Seq(Letters) /\ Len(dest) = Len(d) + 1
          /\ \A i \in 1 .. Len(d) : dest[i] = d[i]
      BY <1>2
    <2>2. Len(d) \in Nat
      BY <1>2
    <2> HIDE DEF dest
    <2> QED  BY <2>1, <2>2
  <1>4. TreeIsClosed
    BY DEF ProjectInv
  <1>5. \A u \in Shells : what[u] \in SUBSET Doubts /\ "tree" \in what[u]
    BY DEF Doubts
  <1>6. /\ heard = [u \in Shells |-> heard[u]]
        /\ \A u \in Shells : heard[u] = IF Reading(shell[u]) /\ u \in told
                                        THEN Tell(shell[u], {"text"}) ELSE shell[u]
    BY DEF Tell
  <1>7. \A u \in Shells : "text" \notin what[u] => ~Under(shell[u].at, src)
    OBVIOUS
  <1> HIDE DEF heard, told, src, dest
  <1>8. shell' = [u \in Shells |-> IF Reading(shell[u]) THEN Tell(shell[u], what[u]) ELSE shell[u]]
    BY <1>1, <1>6, ToldOfTree
  <1> HIDE DEF what
  <1>9. TreeIsClosed'
    BY <1>1, <1>2, <1>3, <1>4, AssignTree
  <1>10. DOMAIN md \subseteq dirs /\ DOMAIN conf \subseteq dirs
    BY DEF ProjectInv, InFolders
  <1>11. /\ \A q : q \in DOMAIN md' <=> \E p \in DOMAIN md : q = Renamed(p, src, dest)
         /\ \A p \in DOMAIN md : md'[Renamed(p, src, dest)] = md[p]
    BY <1>1, <1>2, <1>3, <1>4, <1>10, MovedFacts
  <1>12. /\ \A q : q \in DOMAIN moved <=> \E p \in DOMAIN conf : q = Renamed(p, src, dest)
         /\ \A p \in DOMAIN conf : moved[Renamed(p, src, dest)] = conf[p]
    BY <1>1, <1>2, <1>3, <1>4, <1>10, MovedFacts
  <1> HIDE DEF moved
  <1>13. \A p \in DOMAIN moved : IsIndex(moved[p])
    BY <1>12 DEF ProjectInv, ProjectTypeOK
  <1>14. /\ DOMAIN conf' = DOMAIN moved
         /\ \A p \in DOMAIN moved :
               /\ IsIndex(conf'[p]) /\ conf'[p].to = moved[p].to /\ conf'[p].fresh = moved[p].fresh
               /\ moved[p].doubt \subseteq conf'[p].doubt
               /\ (conf'[p].fresh => "tree" \in conf'[p].doubt)
    BY <1>1, <1>13, TreeDoubtedFacts
  <1>15. InFolders'
    BY <1>1, <1>10, <1>11, <1>12, <1>14 DEF InFolders
  <1>16. IndexIsTrue'
    <2> SUFFICES ASSUME NEW p \in DOMAIN conf' \cap DOMAIN md', conf'[p].fresh
                 PROVE  /\ conf'[p].to = md'[p] \/ conf'[p].doubt \cap {"text", "torn"} # {}
                        /\ conf'[p].doubt # {}
      BY DEF IndexIsTrue
    <2>1. PICK q \in DOMAIN conf : p = Renamed(q, src, dest)
      BY <1>12, <1>14
    <2>2. PICK r \in DOMAIN md : p = Renamed(r, src, dest)
      BY <1>11
    <2>3. q = r
      BY <1>1, <1>2, <1>3, <1>4, <1>10, <2>1, <2>2, RenamedInjective
    <2>4. moved[p] = conf[q] /\ md'[p] = md[q]
      BY <1>11, <1>12, <2>1, <2>2, <2>3
    <2>5. conf[q].fresh
      BY <1>12, <1>14, <2>4
    <2>6. conf[q].to = md[q] \/ conf[q].doubt \cap {"text", "torn"} # {}
      BY <2>2, <2>3, <2>5 DEF ProjectInv, IndexIsTrue
    <2> QED  BY <1>14, <2>4, <2>6
  <1>17. ASSUME NEW u \in Shells, Reading(shell[u]), shell[u].at \in DOMAIN md, "text" \notin what[u]
         PROVE  shell[u].at \in DOMAIN md' /\ md'[shell[u].at] = md[shell[u].at]
    <2>1. Renamed(shell[u].at, src, dest) = shell[u].at
      BY <1>7, <1>17 DEF Renamed
    <2> QED  BY <1>11, <1>17, <2>1
  <1>18. \A p \in DOMAIN conf' : IsIndex(conf'[p])
    BY <1>14
  <1> QED  BY <1>1, <1>5, <1>8, <1>9, <1>15, <1>16, <1>17, <1>18, TreeStep

LEMMA EditKeeps ==
  ASSUME ProjectInv, NEW p, NEW text, NEW later, Edit(p, text, later)
  PROVE  ProjectInv'
  <1> DEFINE told == {u \in Shells : p \in {shell[u].at} \cup {b[1] : b \in ToSet(shell[u].bundle)}}
  <1>1. /\ p \in DOMAIN md /\ md' = [md EXCEPT ![p] = text] /\ dirs' = dirs /\ remote' = remote
        /\ shell' = Noticed(shell, p, "text")
    BY DEF Edit
  <1>2. DOMAIN md' = DOMAIN md /\ \A q \in DOMAIN md : q # p => md'[q] = md[q]
    BY <1>1
  <1>3. /\ DOMAIN conf' = DOMAIN conf
        /\ \A q \in DOMAIN conf :
              /\ IsIndex(conf'[q]) /\ (q # p => conf'[q] = conf[q])
              /\ (q = p => ~conf'[q].fresh \/ "text" \in conf'[q].doubt)
    <2>1. \A q \in DOMAIN conf : IsIndex(conf[q])
      BY DEF ProjectInv, ProjectTypeOK
    <2>2. CASE later \/ p \notin DOMAIN conf
      BY <2>1, <2>2, AgedFacts DEF Edit
    <2>3. CASE ~(later \/ p \notin DOMAIN conf)
      <3> DEFINE x == [conf[p] EXCEPT !.doubt = @ \cup {"text"}]
      <3>1. conf' = [conf EXCEPT ![p] = x]
        BY <2>3 DEF Edit
      <3>2. IsIndex(conf[p])
        BY <2>1, <2>3
      <3>3. IsIndex(x) /\ "text" \in x.doubt
        BY <3>2 DEF IsIndex, Doubts
      <3> HIDE DEF x
      <3> QED  BY <2>1, <2>3, <3>1, <3>3
    <2> QED  BY <2>2, <2>3
  <1>4. TreeIsClosed' /\ InFolders'
    BY <1>1, <1>2, <1>3 DEF ProjectInv, TreeIsClosed, InFolders
  <1>5. IndexIsTrue'
    BY <1>1, <1>2, <1>3 DEF ProjectInv, IndexIsTrue, Resolves
  <1>6. ProjectTypeOK'
    BY <1>1, <1>3 DEF ProjectInv, ProjectTypeOK, Noticed
  <1>7. \A u \in Shells : shell'[u] = IF Reading(shell[u]) /\ u \in told
                                      THEN Tell(shell[u], {"text"}) ELSE shell[u]
    BY <1>1 DEF Noticed, Tell
  <1>8. ASSUME NEW u \in Shells
        PROVE  ShellOK(shell[u])'
    <2>1. PICK c : c = shell[u]
      OBVIOUS
    <2>2. CASE ~Reading(c)
      <3>1. shell'[u] = c /\ ShellOK(c)
        BY <1>7, <2>1, <2>2 DEF ProjectInv
      <3>2. c.op \in {"push", "none"}
        BY <2>2, <3>1 DEF ShellOK, IsReading, Reading
      <3>3. ShellOK(c)'
        BY <1>1, <3>1, <3>2 DEF ShellOK, IsPush, IsReading, LeavesOutTheSame, CompilesTheText,
           SinceIsDoubt, BundlesTheText, Reading
      <3> QED  BY <3>1, <3>3
    <2>3. CASE Reading(c) /\ u \in told
      <3>1. c.op # "push" /\ IsReading(c) /\ CompilesTheText(c) /\ SinceIsDoubt(c)
        BY <2>1, <2>3, ShellFacts
      <3>2. PICK d : d = Tell(c, {"text"})
        OBVIOUS
      <3>3. shell'[u] = d
        BY <1>7, <2>1, <2>3, <3>2
      <3>4. /\ IsReading(d) /\ SinceIsDoubt(d) /\ d.op = c.op /\ "text" \in d.since /\ "text" \in d.doubt
        BY <3>1, <3>2, ToldFacts DEF Doubts
      <3>5. CompilesTheText(d)' /\ SinceIsDoubt(d)' /\ BundlesTheText(d)'
        BY <3>4 DEF CompilesTheText, SinceIsDoubt, BundlesTheText, Reading
      <3>6. ShellOK(d)'
        BY <3>1, <3>4, <3>5 DEF ShellOK, IsReading
      <3> QED  BY <3>3, <3>6
    <2>4. CASE Reading(c) /\ u \notin told
      <3>1. /\ c.op # "push" /\ IsReading(c) /\ CompilesTheText(c) /\ SinceIsDoubt(c)
            /\ BundlesTheText(c)
        BY <2>1, <2>4, ShellFacts
      <3>2. shell'[u] = c
        BY <1>7, <2>1, <2>4
      <3>3. c.at # p /\ \A b \in ToSet(c.bundle) : b[1] # p
        BY <2>1, <2>4
      <3>4. CompilesTheText(c)' /\ SinceIsDoubt(c)'
        BY <1>1, <1>2, <3>1, <3>3 DEF CompilesTheText, SinceIsDoubt, Resolves, Reading
      <3>5. BundlesTheText(c)'
        <4> SUFFICES ASSUME c.op = "links", c.doubt = {}, c.bundle # << >>
                     PROVE  BundlesTheText(c)'
          BY DEF BundlesTheText
        <4>1. \A i \in 1 .. Len(c.bundle) : c.bundle[i][1] # p
          <5>1. \/ c.bundle = <<c.bundle[1]>> /\ Len(c.bundle) = 1
                \/ c.bundle = <<c.bundle[1], c.bundle[2]>> /\ Len(c.bundle) = 2
            BY <3>1 DEF BundlesTheText
          <5>2. \A i \in 1 .. Len(c.bundle) : c.bundle[i] \in ToSet(c.bundle)
            BY <5>1 DEF ToSet
          <5> QED  BY <3>3, <5>2
        <4>2. \A i \in 1 .. Len(c.bundle) :
                 c.bundle[i][1] \in DOMAIN md' /\ c.bundle[i][2] = md'[c.bundle[i][1]]
          BY <1>2, <3>1, <4>1 DEF BundlesTheText
        <4>3. Found(c.bundle[1][2])' = Found(c.bundle[1][2])
          BY <1>1 DEF Found, Resolves
        <4>4. c.at \in DOMAIN conf /\ conf[c.at].fresh => c.at \in DOMAIN conf' /\ conf'[c.at].fresh
          BY <1>3, <3>3
        <4> QED  BY <1>1, <1>2, <3>1, <4>2, <4>3, <4>4 DEF BundlesTheText
      <3>6. ShellOK(c)'
        BY <3>1, <3>4, <3>5 DEF ShellOK, IsReading
      <3> QED  BY <3>2, <3>6
    <2> QED  BY <2>2, <2>3, <2>4
  <1> QED  BY <1>4, <1>5, <1>6, <1>8 DEF ProjectInv

LEMMA ProjectInvAlways == WorkspaceSpec => []ProjectInv
  <1>1. ASSUME ProjectInv, [WorkspaceNext]_vars
        PROVE  ProjectInv'
    <2>1. CASE UNCHANGED vars
      BY <1>1, <2>1, RestKeeps DEF vars
    <2>2. ASSUME NEW n \in Names, CreateFolder(n)
          PROVE  ProjectInv'
      BY <1>1, <2>2, CreateFolderKeeps
    <2>3. ASSUME NEW n \in Names, CreateFiles(n)
          PROVE  ProjectInv'
      BY <1>1, <2>3, CreateFilesKeeps
    <2>4. ASSUME NEW n \in Names, CreateEnds(n)
          PROVE  ProjectInv'
      BY <1>1, <2>4, CreateEndsKeeps
    <2>5. ASSUME NEW n \in Names, NEW d \in Folders \cup {<<m>> : m \in Names},
                 Assign(n, d) \/ AssignFails(n, d)
          PROVE  ProjectInv'
      BY <1>1, <2>5, AssignKeeps, AssignFailsKeeps
    <2>6. ASSUME NEW p \in DOMAIN md, NEW text \in Texts, NEW later \in BOOLEAN, Edit(p, text, later)
          PROVE  ProjectInv'
      BY <1>1, <2>6, EditKeeps
    <2>7. ASSUME NEW s \in Shells, ReadNext(s)
          PROVE  ProjectInv'
      <3>1. CASE \/ \E todo : Compile(s, todo) \/ Show(s, todo)
                 \/ \E p : ExportLinks(s, p)
        BY <1>1, <3>1, BeginKeeps
      <3>2. CASE NextEntry(s) \/ EndReading(s) \/ Load(s) \/ Check(s)
        BY <1>1, <3>2, NextEntryKeeps, EndReadingKeeps, LoadKeeps, CheckKeeps
      <3>3. CASE CompileRead(s) \/ CompileResolve(s) \/ CompileWrite(s)
        BY <1>1, <3>3, CompileReadKeeps, CompileResolveKeeps, CompileWriteKeeps
      <3>4. CASE Loaded(s) \/ Kill(s)
        BY <1>1, <3>4, LoadedKeeps, KillKeepsShells
      <3> QED  BY <2>7, <3>1, <3>2, <3>3, <3>4 DEF ReadNext
    <2>8. ASSUME NEW s \in Shells, PushNext(s)
          PROVE  ProjectInv'
      <3>1. CASE \E delta, conflict : PushStart(s, delta, conflict)
        BY <1>1, <3>1, BeginKeeps
      <3>2. CASE PushHash(s) \/ PushList(s) \/ PushPack(s)
        BY <1>1, <3>2, PushHashKeeps, PushListKeeps, PushPackKeeps
      <3>3. CASE PushImport(s) \/ PushCutShort(s)
        BY <1>1, <3>3, PushImportKeeps, PushCutShortKeeps
      <3>4. CASE PushFails(s)
        BY <1>1, <3>4, PushFailsKeeps DEF PushFails
      <3> QED  BY <2>8, <3>1, <3>2, <3>3, <3>4 DEF PushNext
    <2>9. ASSUME NEW p, NEW text, RivalWrites(p, text) \/ RivalIsRefused(p, text) \/ RivalDeletes(p)
          PROVE  ProjectInv'
      BY <1>1, <2>9, RivalKeeps
    <2>10. RivalNext => ProjectInv'
      BY <2>9 DEF RivalNext
    <2>11. UserNext => ProjectInv'
      BY <2>2, <2>3, <2>4, <2>5, <2>6 DEF UserNext
    <2> QED  BY <1>1, <2>1, <2>7, <2>8, <2>10, <2>11 DEF WorkspaceNext
  <1> QED  BY <1>1, ProjectInitInv, PTL DEF WorkspaceSpec

\* An index that render and export take for fresh has the link of the text and knows whether
\* it leads to a folder, or says why not: whichever commands ran at once, in which order, and
\* wherever they were killed.
THEOREM FreshIndexIsTrue == WorkspaceSpec => []IndexIsTrue
  BY ProjectInvAlways, PTL DEF ProjectInv

\* An export with links of an entry that nothing disturbed bundles the entry that its text
\* links to, none of them with a fault, and is refused only for a link to a folder that is no
\* entry or for the fault of a text.
THEOREM ExportBundlesTheText == WorkspaceSpec => []BundleIsOfTheText
  <1>1. ProjectInv => BundleIsOfTheText
    <2> SUFFICES ASSUME ProjectInv, NEW s \in Shells, NEW c, c = shell[s],
                        c.op = "links", c.bundle # << >>, c.doubt = {}
                 PROVE  LET text == c.bundle[1][2]
                            faulty == \E i \in DOMAIN c.bundle : Faulty(c.bundle[i][2])
                        IN /\ c.pc = "done" =>
                                /\ [i \in DOMAIN Tail(c.bundle) |-> Tail(c.bundle)[i][1]]
                                   = IF Resolves(text) THEN <<text>> ELSE << >>
                                /\ ~faulty
                           /\ c.pc = "refused" => text \in dirs \ DOMAIN md \/ faulty
      BY Zenon DEF BundleIsOfTheText
    <2> DEFINE text == c.bundle[1][2]
    <2>1. /\ \/ Len(c.bundle) = 1 /\ c.bundle = <<c.bundle[1]>>
             \/ Len(c.bundle) = 2 /\ c.bundle = <<c.bundle[1], c.bundle[2]>>
          /\ Len(c.bundle) = 1 /\ c.pc = "done" => Found(text) = << >>
          /\ Len(c.bundle) = 2 => Found(text) = <<c.bundle[2][1]>>
          /\ c.pc # "refused" => \A i \in 1 .. Len(c.bundle) : ~Faulty(c.bundle[i][2])
          /\ c.pc = "refused" => \/ text \in dirs \ DOMAIN md
                                 \/ \E i \in 1 .. Len(c.bundle) : Faulty(c.bundle[i][2])
      BY DEF ProjectInv, ShellOK, BundlesTheText
    <2>2. ASSUME c.pc = "done"
          PROVE  [i \in DOMAIN Tail(c.bundle) |-> Tail(c.bundle)[i][1]] = Found(text)
      <3>1. ASSUME NEW a, NEW b
            PROVE  Tail(<<a>>) = << >> /\ Tail(<<a, b>>) = <<b>>
        OBVIOUS
      <3>2. CASE Len(c.bundle) = 1
        <4>1. PICK a : c.bundle = <<a>>
          BY <2>1, <3>2
        <4>2. Tail(c.bundle) = << >>
          BY <3>1, <4>1
        <4>3. [i \in DOMAIN Tail(c.bundle) |-> Tail(c.bundle)[i][1]] = << >>
          BY <4>2
        <4> QED  BY <2>1, <2>2, <3>2, <4>3
      <3>3. CASE Len(c.bundle) = 2
        <4>1. PICK a, b : c.bundle = <<a, b>>
          BY <2>1, <3>3
        <4>2. Tail(c.bundle) = <<b>> /\ c.bundle[2] = b
          BY <3>1, <4>1
        <4>3. [i \in DOMAIN <<b>> |-> <<b>>[i][1]] = <<b[1]>>
          OBVIOUS
        <4> QED  BY <2>1, <3>3, <4>2, <4>3
      <3> QED  BY <2>1, <3>2, <3>3
    <2>3. DOMAIN c.bundle = 1 .. Len(c.bundle)
      <3>1. \A a, b : DOMAIN <<a>> = 1 .. 1 /\ DOMAIN <<a, b>> = 1 .. 2
        OBVIOUS
      <3> QED  BY <2>1, <3>1
    <2> QED  BY <2>1, <2>2, <2>3 DEF Found
  <1> QED  BY <1>1, ProjectInvAlways, PTL

\* What push --delta leaves out is at the server with the text that was hashed, unless others
\* wrote it since or its hash there was that of another text, and what it sends it chose.
THEOREM DeltaLeavesOutTheSame == WorkspaceSpec => []DeltaSkipsForCause
  <1>1. ProjectInv => DeltaSkipsForCause
    BY DEF ProjectInv, ShellOK, LeavesOutTheSame, DeltaSkipsForCause
  <1> QED  BY <1>1, ProjectInvAlways, PTL

=============================================================================
