---------------------------- MODULE RoomService -----------------------------
(***************************************************************************)
(* What the chat hub of svc promises the handlers that use it: a room per  *)
(* project whose members hear each of its messages exactly once and in the *)
(* order they were broadcast, from the moment they join until they leave.  *)
(* Any member may be dropped by a broadcast it is too slow for.  Hub.tla   *)
(* implements this specification; GameSession.tla is written on top of it. *)
(***************************************************************************)
EXTENDS Integers, FiniteSets

CONSTANTS
    Projects,    \* project ids, one room each
    Clients,     \* WebSocket connections, each used once
    ProjectOf,   \* the project a client connects to
    MaxCasts     \* bound: broadcasts per room

VARIABLES
    members,     \* the clients registered in each project's room
    gone,        \* clients that have been members and are not any more
    casts,       \* messages broadcast to each room so far
    heard        \* ordinal of the last message each member heard

roomVars == <<members, gone, casts, heard>>

RoomInit ==
    /\ members = [p \in Projects |-> {}]
    /\ gone = {}
    /\ casts = [p \in Projects |-> 0]
    /\ heard = [c \in Clients |-> 0]

Present == UNION {members[p] : p \in Projects}

\* The clients E leave room p for good.
Drop(p, E) ==
    /\ members' = [members EXCEPT ![p] = @ \ E]
    /\ gone' = gone \cup E
    /\ heard' = [c \in Clients |-> IF c \in E THEN 0 ELSE heard[c]]

Join(c) ==
    LET p == ProjectOf[c]
    IN /\ c \notin Present \cup gone
       /\ members' = [members EXCEPT ![p] = @ \cup {c}]
       /\ heard' = [heard EXCEPT ![c] = casts[p]]
       /\ UNCHANGED <<gone, casts>>

\* Unregister, or the eviction of a client a single frame did not fit.
Leave(c) ==
    /\ c \in members[ProjectOf[c]]
    /\ Drop(ProjectOf[c], {c})
    /\ UNCHANGED casts

\* A broadcast, which evicts the members E whose buffers are full.
Cast(p, E) ==
    /\ casts[p] < MaxCasts
    /\ casts' = [casts EXCEPT ![p] = @ + 1]
    /\ Drop(p, E)

\* A member hears the message after the last one it heard.
Hear(c) ==
    /\ c \in Present
    /\ heard[c] < casts[ProjectOf[c]]
    /\ heard' = [heard EXCEPT ![c] = @ + 1]
    /\ UNCHANGED <<members, gone, casts>>

CloseAll(p) ==
    /\ Drop(p, members[p])
    /\ UNCHANGED casts

\* The process restarts: every connection is lost.
Reset ==
    /\ members' = [p \in Projects |-> {}]
    /\ gone' = gone \cup Present
    /\ heard' = [c \in Clients |-> 0]
    /\ UNCHANGED casts

RoomNext ==
    \/ \E c \in Clients : Join(c) \/ Leave(c) \/ Hear(c)
    \/ \E p \in Projects : CloseAll(p) \/ \E E \in SUBSET members[p] : Cast(p, E)
    \/ Reset

RoomSpec == RoomInit /\ [][RoomNext]_roomVars
=============================================================================
