---------------------------- MODULE MCLiveClient ----------------------------
(* Two projects with a session each, two handles, two functions of panels   *)
(* at once: the user goes from one game to another while answers about the  *)
(* first are on the way.                                                    *)
EXTENDS LiveClient, TLC

Budget(tasks, posts, ends) == [tasks |-> tasks, messages |-> posts, ends |-> ends]

\* Two sessions end while a message is shown, or beside three functions of panels; or three
\* functions and a message while the sessions run.
MCBudgets == {Budget(2, 1, 2), Budget(3, 0, 2), Budget(3, 1, 0)}
=============================================================================
