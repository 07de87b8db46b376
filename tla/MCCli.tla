------------------------------- MODULE MCCli -------------------------------
(***************************************************************************)
(* The CLI: its home with two projects, two facets and two terminals; or a *)
(* project in which one entry links to another that may be created,        *)
(* assigned and edited while two shells compile, render, export and push.  *)
(***************************************************************************)
EXTENDS Home, Workspace, TLC

CONSTANTS f, g   \* model values

VARIABLE part   \* what the run is about: the home, or a project

MCTexts == {NoLink, <<"b">>, <<"unclosed">>, <<"d">>}
MCMalformed == {<<"unclosed">>}
MCUnfit == {<<"d">>}
MCFolders == {<<"d">>}
MCPushes == {<<TRUE, "overwrite">>, <<FALSE, "fail">>}
MCStart == <<"a">> :> <<"b">>
MCBefore == {<<"a">>}

Budget(creates, moves, edits, reads, pushes, rivals) ==
    [creates |-> creates, moves |-> moves, edits |-> edits, reads |-> reads,
     pushes |-> pushes, rivals |-> rivals]

\* Commands that read beside one another and the user; pushes beside the user and others.
MCBudgets ==
    { Budget(1, 1, 0, 2, 0, 0), Budget(1, 0, 1, 2, 0, 0), Budget(2, 1, 1, 1, 0, 0), Budget(0, 0, 0, 3, 0, 0),
      Budget(2, 1, 1, 0, 1, 1), Budget(1, 1, 1, 0, 2, 0), Budget(1, 0, 1, 0, 2, 1) }

MCSymmetry == Permutations(Projects) \cup Permutations(Terminals) \cup Permutations(Shells)

CliInit ==
    /\ HomeInit /\ WorkspaceInit
    /\ part \in {"home", "project"}
    /\ part = "home" => left = CHOOSE b \in Budgets : TRUE

CliNext ==
    /\ UNCHANGED part
    /\ \/ part = "home" /\ HomeNext /\ UNCHANGED vars
       \/ part = "project" /\ WorkspaceNext /\ UNCHANGED homeVars

CliSpec == CliInit /\ [][CliNext]_<<part, homeVars, vars>>
=============================================================================
