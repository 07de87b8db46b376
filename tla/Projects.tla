------------------------------ MODULE Projects ------------------------------
(***************************************************************************)
(* The life of one project in svc (handler/projects.go): members, invites, *)
(* deletion, and what content learns of the deletion.                      *)
(*                                                                         *)
(* Every handler reads before it writes, in two statements on a database   *)
(* of one connection, so other requests run between the two. A request     *)
(* that has passed its check is an element of req. The entries of the      *)
(* project are rows of content, another service with another database.    *)
(***************************************************************************)
EXTENDS Naturals, FiniteSets

CONSTANTS
    Users, Creator,  \* accounts, and the one that creates the project
    Invites,         \* invite tokens; a token is never used again
    Entries,         \* entries ever written to the project
    Handlers          \* requests handled at once

ASSUME ProjectsAssumption == Creator \in Users

VARIABLES
    project,   \* the projects row: not yet, live, or gone for good
    role,      \* project_members
    invite,    \* project_invites: its row, and whether it is past expires_at
    entry,     \* content's entries and their orphaned_at
    known,     \* users whom content's membership check still takes for members
    req,       \* what each request is about to do, its check passed
    joined,    \* ghost: who has joined with an invite
    told,      \* ghost: content has handled a notification of the deletion
    late       \* ghost: entries written when the project was gone already

projectsVars == <<project, role, invite, entry, known, req, joined, told, late>>

Roles == {"editor", "member"}
Unasked == [op |-> "idle"]

Pending ==
    {Unasked} \cup [op : {"add"}, user : Users, role : Roles]
           \cup [op : {"remove"}, user : Users]
           \cup [op : {"issue"}, role : Roles]
           \cup [op : {"revoke"}, invite : Invites]
           \cup [op : {"join"}, user : Users, invite : Invites, role : Roles,
                 before : SUBSET Users]
           \cup [op : {"delete", "notify", "write"}]

\* memberRole and isEditorRole
IsMember(u) == project = "live" /\ role[u] # "none"
IsEditor(u) == project = "live" /\ role[u] = "editor"

\* The check of a request has passed.
Proceed(w, r) ==
    /\ req[w] = Unasked
    /\ req' = [req EXCEPT ![w] = r]
    /\ UNCHANGED <<project, role, invite, entry, known, joined, told, late>>

Finish(w) == req' = [req EXCEPT ![w] = Unasked]

\* The database fails, the caller hangs up, or svc restarts: a request whose
\* statement has not run has no effect. A deletion may lose its notification.
GiveUp(w) ==
    /\ req[w] # Unasked
    /\ Finish(w)
    /\ UNCHANGED <<project, role, invite, entry, known, joined, told, late>>

-----------------------------------------------------------------------------
(* The project.                                                            *)

\* Create: the row and the creator's membership in one transaction.
Create ==
    /\ project = "none"
    /\ project' = "live"
    /\ role' = [role EXCEPT ![Creator] = "editor"]
    /\ UNCHANGED <<invite, entry, known, req, joined, told, late>>

\* Delete: the creator, member or not, may delete; then everything that refers
\* to the row goes with it. A second Delete that read the row finds nothing to do.
CheckDelete(w) == project = "live" /\ Proceed(w, [op |-> "delete"])

\* Slip: content is told first.
DeleteAfterNotice(w) ==
    \/ /\ req[w].op = "delete" /\ project = "live" /\ ~told
       /\ entry' = [e \in Entries |-> IF entry[e] = "live" THEN "orphaned" ELSE entry[e]]
       /\ told' = TRUE
       /\ UNCHANGED <<project, role, invite, known, req, joined, late>>
    \/ /\ req[w].op = "delete" /\ told
       /\ project' = "gone"
       /\ role' = [u \in Users |-> "none"]
       /\ invite' = [i \in Invites |->
            IF invite[i].row = "none" THEN invite[i] ELSE [invite[i] EXCEPT !.row = "gone"]]
       /\ Finish(w)
       /\ UNCHANGED <<entry, known, joined, told, late>>

Delete(w) ==
    /\ req[w].op = "delete"
    /\ project' = "gone"
    /\ role' = [u \in Users |-> "none"]
    /\ invite' = [i \in Invites |->
         IF invite[i].row = "none" THEN invite[i] ELSE [invite[i] EXCEPT !.row = "gone"]]
    /\ req' = [req EXCEPT ![w] = [op |-> "notify"]]
    /\ UNCHANGED <<entry, known, joined, told, late>>

\* ProjectDeleted of content stamps the entries that are not stamped yet.
Notify(w) ==
    /\ req[w].op = "notify"
    /\ entry' = [e \in Entries |-> IF entry[e] = "live" THEN "orphaned" ELSE entry[e]]
    /\ told' = TRUE
    /\ Finish(w)
    /\ UNCHANGED <<project, role, invite, known, joined, late>>

-----------------------------------------------------------------------------
(* Members.                                                                *)

CheckAdd(w, caller) ==
    \E u \in Users, r \in Roles :
        IsEditor(caller) /\ Proceed(w, [op |-> "add", user |-> u, role |-> r])

\* Slip: foreign keys are off.
AddMemberUnchecked(w) ==
    /\ req[w].op = "add"
    /\ role' = [role EXCEPT ![req[w].user] = IF @ = "none" THEN req[w].role ELSE @]
    /\ Finish(w)
    /\ UNCHANGED <<project, invite, entry, known, joined, told, late>>

\* INSERT OR IGNORE: a member keeps the role it has. The foreign key refuses a
\* row of a project that is gone.
AddMember(w) ==
    /\ req[w].op = "add" /\ project = "live"
    /\ role' = [role EXCEPT ![req[w].user] = IF @ = "none" THEN req[w].role ELSE @]
    /\ Finish(w)
    /\ UNCHANGED <<project, invite, entry, known, joined, told, late>>

\* Editors remove anyone, themselves included; members leave.
CheckRemove(w, caller) ==
    \E u \in Users :
        /\ IsEditor(caller) \/ (IsMember(caller) /\ u = caller)
        /\ Proceed(w, [op |-> "remove", user |-> u])

RemoveMember(w) ==
    /\ req[w].op = "remove"
    /\ role' = [role EXCEPT ![req[w].user] = "none"]
    /\ Finish(w)
    /\ UNCHANGED <<project, invite, entry, known, joined, told, late>>

-----------------------------------------------------------------------------
(* Invites.                                                                *)

CheckIssue(w, caller) ==
    \E r \in Roles : IsEditor(caller) /\ Proceed(w, [op |-> "issue", role |-> r])

CreateInvite(w) ==
    /\ req[w].op = "issue" /\ project = "live"
    /\ \E i \in Invites :
         /\ invite[i].row = "none"
         /\ invite' = [invite EXCEPT ![i] =
                [row |-> "open", role |-> req[w].role, expired |-> FALSE]]
    /\ Finish(w)
    /\ UNCHANGED <<project, role, entry, known, joined, told, late>>

CheckRevoke(w, caller) ==
    \E i \in Invites :
        IsEditor(caller) /\ invite[i].row # "none" /\ Proceed(w, [op |-> "revoke", invite |-> i])

RevokeInvite(w) ==
    /\ req[w].op = "revoke"
    /\ invite' = [invite EXCEPT ![req[w].invite].row = "gone"]
    /\ Finish(w)
    /\ UNCHANGED <<project, role, entry, known, joined, told, late>>

Expire(i) ==
    /\ invite[i].row \in {"open", "used"} /\ ~invite[i].expired
    /\ invite' = [invite EXCEPT ![i].expired = TRUE]
    /\ UNCHANGED <<project, role, entry, known, req, joined, told, late>>

\* Slip: used_at is left to the UPDATE.
CheckJoinUnexpired(w, u) ==
    \E i \in Invites :
        /\ invite[i].row \in {"open", "used"} /\ ~invite[i].expired
        /\ Proceed(w, [op |-> "join", user |-> u, invite |-> i, role |-> invite[i].role,
                       before |-> joined[i]])

\* The invite is there, was not used, has not expired.
CheckJoin(w, u) ==
    \E i \in Invites :
        /\ invite[i].row = "open" /\ ~invite[i].expired
        /\ Proceed(w, [op |-> "join", user |-> u, invite |-> i, role |-> invite[i].role,
                       before |-> joined[i]])

\* The transaction: neither statement looks at used_at or expires_at again, and
\* the UPDATE finds no row when the invite was revoked. The foreign key refuses
\* the member of a project that is gone.
Join(w) ==
    LET u == req[w].user
        i == req[w].invite
    IN /\ req[w].op = "join" /\ project = "live"
       /\ role' = [role EXCEPT ![u] = IF @ = "none" THEN req[w].role ELSE @]
       /\ invite' = [invite EXCEPT ![i].row = IF @ = "open" THEN "used" ELSE @]
       /\ joined' = [joined EXCEPT ![i] = @ \cup {u}]
       /\ Finish(w)
       /\ UNCHANGED <<project, entry, known, told, late>>

-----------------------------------------------------------------------------
(* content. Whom it takes for a member, and for how long, is MembershipCache. *)

Learn(u) ==
    /\ IsMember(u) /\ u \notin known
    /\ known' = known \cup {u}
    /\ UNCHANGED <<project, role, invite, entry, req, joined, told, late>>

Forget(u) ==
    /\ ~IsMember(u) /\ u \in known
    /\ known' = known \ {u}
    /\ UNCHANGED <<project, role, invite, entry, req, joined, told, late>>

\* Create, or an import: admitted, then written. content has no row of the
\* project that could refuse it.
CheckWrite(w, u) == u \in known /\ Proceed(w, [op |-> "write"])

WriteEntry(w) ==
    /\ req[w].op = "write"
    /\ \E e \in Entries :
         /\ entry[e] = "none"
         /\ entry' = [entry EXCEPT ![e] = "live"]
         /\ late' = IF project = "gone" THEN late \cup {e} ELSE late
    /\ Finish(w)
    /\ UNCHANGED <<project, role, invite, known, joined, told>>

-----------------------------------------------------------------------------
ProjectsInit ==
    /\ project = "none"
    /\ role = [u \in Users |-> "none"]
    /\ invite = [i \in Invites |-> [row |-> "none", role |-> "member", expired |-> FALSE]]
    /\ entry = [e \in Entries |-> "none"]
    /\ known = {}
    /\ req = [w \in Handlers |-> Unasked]
    /\ joined = [i \in Invites |-> {}]
    /\ told = FALSE
    /\ late = {}

ProjectsNext ==
    \/ Create
    \/ \E i \in Invites : Expire(i)
    \/ \E u \in Users : Learn(u) \/ Forget(u)
    \/ \E w \in Handlers, u \in Users :
         \/ CheckAdd(w, u) \/ CheckRemove(w, u) \/ CheckIssue(w, u) \/ CheckRevoke(w, u)
         \/ CheckJoin(w, u) \/ CheckWrite(w, u)
    \/ \E w \in Handlers :
         \/ CheckDelete(w) \/ Delete(w) \/ Notify(w) \/ AddMember(w) \/ RemoveMember(w)
         \/ CreateInvite(w) \/ RevokeInvite(w) \/ Join(w) \/ WriteEntry(w) \/ GiveUp(w)

ProjectsSpec == ProjectsInit /\ [][ProjectsNext]_projectsVars

-----------------------------------------------------------------------------
(* Properties.                                                             *)

\* The state is well-formed; in particular an invite is used only if somebody joined
\* with it.
ProjectsTypeOK ==
    /\ project \in {"none", "live", "gone"}
    /\ role \in [Users -> Roles \cup {"none"}]
    /\ invite \in [Invites -> [row : {"none", "open", "used", "gone"}, role : Roles,
                               expired : BOOLEAN]]
    /\ entry \in [Entries -> {"none", "live", "orphaned"}]
    /\ known \in SUBSET Users
    /\ req \in [Handlers -> Pending]
    /\ joined \in [Invites -> SUBSET Users]
    /\ told \in BOOLEAN
    /\ late \in SUBSET Entries
    /\ \A i \in Invites : invite[i].row = "used" => joined[i] # {}

\* An invite lets a second user in only if both Joins were under way together: whoever
\* joins had looked at the invite before anybody had joined with it.
InviteSharedOnlyByOverlap ==
    [][\A i \in Invites : \A u \in joined'[i] \ joined[i] :
          \E w \in Handlers :
              /\ req[w].op = "join" /\ req[w].user = u /\ req[w].invite = i
              /\ req[w].before = {}]_projectsVars

\* Nobody is left in a deleted project and no invite leads into it, whatever
\* requests had passed their checks when the row went.
DeletedIsEmpty ==
    project = "gone" =>
        /\ \A u \in Users : role[u] = "none"
        /\ \A i \in Invites : invite[i].row \in {"none", "gone"}

\* Once content knows of the deletion, an entry of the project is live only if it was
\* written after the row was gone, by a request that content had admitted before or on
\* an answer that had aged.
ToldIsOrphaned ==
    told => \A e \in Entries : entry[e] = "live" => e \in late

=============================================================================
