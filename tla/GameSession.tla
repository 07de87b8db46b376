---------------------------- MODULE GameSession -----------------------------
(***************************************************************************)
(* Game Mode of svc (handler/chat_ws.go, handler/game_sessions.go and the  *)
(* project deletion of handler/projects.go) on top of the room service:    *)
(* sessions are rows of SQLite, rooms live in memory, and no lock or       *)
(* transaction spans the two.  A handler is one step per access to the     *)
(* database or to the hub, so requests interleave between any two.         *)
(*                                                                         *)
(* The unique index on running sessions leaves one candidate per project:  *)
(* sessions are numbered 1 .. started[p], and the last may be running.     *)
(* Chat messages are numbered in the order they are inserted.              *)
(***************************************************************************)
EXTENDS RoomService, Sequences, SequencesExt

CONSTANTS
    RoomConnCap,     \* 20 in the code
    ServerConnCap,   \* 100 in the code
    MaxSessions,     \* bound: sessions per project
    MaxMessages      \* bound: chat messages inserted

ASSUME GameAssumption ==
    /\ IsFiniteSet(Clients)
    /\ ProjectOf \in [Clients -> Projects]
    /\ RoomConnCap \in Nat /\ ServerConnCap \in Nat
    /\ MaxSessions \in Nat /\ MaxMessages \in Nat
    /\ MaxCasts >= MaxMessages

VARIABLES
    exists,      \* the projects row is there, and all that cascades from it
    started,     \* game_sessions rows the project ever had
    running,     \* the last of them has status 'running'
    serve,       \* how far Serve got with each connection
    session,     \* the sessionID Serve read, which the connection keeps
    reading,     \* connections whose readPump runs
    posting,     \* the message a readPump has inserted and not yet broadcast
    inserted,    \* the project and session of every message ever inserted
    stored,      \* the messages chat_messages holds
    live,        \* the messages broadcast to each room, in order
    closing,     \* sessions stopped whose Stop has CloseRoom still to call
    cut,         \* sessions whose Stop returned without calling it (ghost)
    overtaken,   \* clients Serve was admitting when CloseRoom ran (ghost)
    lost         \* messages inserted whose broadcast a crash prevented (ghost)

dbVars == <<exists, started, running, inserted, stored>>
connVars == <<serve, session, reading, posting>>
traceVars == <<cut, overtaken, lost>>
gameVars == <<roomVars, dbVars, connVars, live, closing, traceVars>>

Messages == 1 .. MaxMessages
SessionIds == Projects \X (1 .. MaxSessions)

\* Between the check that a session runs and the registration of the client.
Admitting == {"running", "counted", "sized"}

GameTypeOK ==
    /\ exists \in [Projects -> BOOLEAN]
    /\ started \in [Projects -> 0 .. MaxSessions]
    /\ running \in [Projects -> BOOLEAN]
    /\ \A p \in Projects : running[p] => started[p] > 0 /\ exists[p]
    /\ serve \in [Clients -> {"idle", "refused", "joined"} \cup Admitting]
    /\ session \in [Clients -> 0 .. MaxSessions]
    /\ reading \subseteq Clients
    /\ posting \in [Clients -> 0 .. MaxMessages]
    /\ inserted \in Seq(SessionIds) /\ Len(inserted) <= MaxMessages
    /\ stored \subseteq DOMAIN inserted
    /\ live \in [Projects -> Seq(DOMAIN inserted)]
    /\ closing \subseteq SessionIds /\ cut \subseteq SessionIds
    /\ overtaken \subseteq Clients
    /\ lost \subseteq DOMAIN inserted

GameInit ==
    /\ RoomInit
    /\ exists = [p \in Projects |-> TRUE]
    /\ started = [p \in Projects |-> 0]
    /\ running = [p \in Projects |-> FALSE]
    /\ serve = [c \in Clients |-> "idle"]
    /\ session = [c \in Clients |-> 0]
    /\ reading = {}
    /\ posting = [c \in Clients |-> 0]
    /\ inserted = <<>>
    /\ stored = {}
    /\ live = [p \in Projects |-> <<>>]
    /\ closing = {} /\ cut = {} /\ overtaken = {} /\ lost = {}

-----------------------------------------------------------------------------
(* GameSessionsHandler.                                                    *)

\* Start: one INSERT.  The unique index refuses a second running session (409)
\* and the foreign key one of a deleted project.
StartSession(p) ==
    /\ exists[p] /\ ~running[p]
    /\ started[p] < MaxSessions
    /\ started' = [started EXCEPT ![p] = @ + 1]
    /\ running' = [running EXCEPT ![p] = TRUE]
    /\ UNCHANGED <<roomVars, exists, inserted, stored, connVars, live, closing, traceVars>>

\* Stop: UPDATE ... RETURNING takes the running row, for one caller only.
MarkStopped(p) ==
    /\ running[p]
    /\ running' = [running EXCEPT ![p] = FALSE]
    /\ UNCHANGED <<roomVars, exists, started, inserted, stored, connVars, live>>

StopSession(p) ==
    /\ MarkStopped(p)
    /\ closing' = closing \cup {<<p, started[p]>>}
    /\ UNCHANGED traceVars

\* The caller went away after the UPDATE: Scan fails with the request's context,
\* and Stop answers 500 without closing the room.
StopCut(p) ==
    /\ MarkStopped(p)
    /\ cut' = cut \cup {<<p, started[p]>>}
    /\ UNCHANGED <<closing, overtaken, lost>>

\* Slip: the room is forgotten with its clients connected.
CloseRoomOnly(p, k) ==
    /\ <<p, k>> \in closing
    /\ closing' = closing \ {<<p, k>>}
    /\ UNCHANGED <<roomVars, dbVars, connVars, live, traceVars>>

\* Stop's call of the hub.
CloseRoom(p, k) ==
    /\ <<p, k>> \in closing
    /\ closing' = closing \ {<<p, k>>}
    /\ CloseAll(p)
    /\ overtaken' = overtaken \cup
         {c \in Clients : ProjectOf[c] = p /\ session[c] = k /\ serve[c] \in Admitting}
    /\ UNCHANGED <<dbVars, connVars, live, cut, lost>>

\* ProjectsHandler.Delete: DELETE FROM projects cascades to sessions and messages.
\* The hub is not told.
DeleteProject(p) ==
    /\ exists[p]
    /\ exists' = [exists EXCEPT ![p] = FALSE]
    /\ running' = [running EXCEPT ![p] = FALSE]
    /\ stored' = {m \in stored : inserted[m][1] # p}
    /\ UNCHANGED <<roomVars, started, inserted, connVars, live, closing, traceVars>>

-----------------------------------------------------------------------------
(* ChatWSHandler.Serve, for a member of the project.                       *)

\* serve[c] goes from one value to the next, and nothing else changes.
Advance(c, from, to) ==
    /\ serve[c] = from
    /\ serve' = [serve EXCEPT ![c] = to]
    /\ UNCHANGED <<roomVars, dbVars, reading, posting, live, closing, traceVars>>

\* Slip: the project's last session will do.
ReadLast(c) ==
    /\ started[ProjectOf[c]] > 0
    /\ Advance(c, "idle", "running")
    /\ session' = [session EXCEPT ![c] = started[ProjectOf[c]]]

ReadRunning(c) ==
    /\ running[ProjectOf[c]]
    /\ Advance(c, "idle", "running")
    /\ session' = [session EXCEPT ![c] = started[ProjectOf[c]]]

CheckTotal(c) ==
    /\ Advance(c, "running",
               IF Cardinality(Present) < ServerConnCap THEN "counted" ELSE "refused")
    /\ UNCHANGED session

CheckRoom(c) ==
    /\ Advance(c, "counted",
               IF Cardinality(members[ProjectOf[c]]) < RoomConnCap THEN "sized" ELSE "refused")
    /\ UNCHANGED session

UpgradeFails(c) == Advance(c, "sized", "refused") /\ UNCHANGED session

\* Upgrade, OpenRoomAndRegister and client.Start.
Register(c) ==
    /\ serve[c] = "sized"
    /\ serve' = [serve EXCEPT ![c] = "joined"]
    /\ Join(c)
    /\ reading' = reading \cup {c}
    /\ UNCHANGED <<dbVars, session, posting, live, closing, traceVars>>

-----------------------------------------------------------------------------
(* handleInbound, on the client's read goroutine, and the pumps.           *)

\* INSERT INTO chat_messages, with the session Serve read.  It fails once the
\* project is gone, and the frame is then dropped.
Persist(c) ==
    LET p == ProjectOf[c]
        m == Len(inserted) + 1
    IN /\ c \in reading /\ posting[c] = 0 /\ m \in Messages
       /\ exists[p]
       /\ inserted' = Append(inserted, <<p, session[c]>>)
       /\ stored' = stored \cup {m}
       /\ posting' = [posting EXCEPT ![c] = m]
       /\ UNCHANGED <<roomVars, exists, started, running, serve, session, reading,
                      live, closing, traceVars>>

\* Slip: a broadcast that evicts somebody is tried again.
BroadcastRetrying(c, E) ==
    LET p == ProjectOf[c]
    IN /\ posting[c] # 0
       /\ Cast(p, E)
       /\ live' = [live EXCEPT ![p] = Append(@, posting[c])]
       /\ posting' = [posting EXCEPT ![c] = IF E = {} THEN 0 ELSE @]
       /\ UNCHANGED <<dbVars, serve, session, reading, closing, traceVars>>

\* Slip: a sender that has left the room is not heard any more.
BroadcastPresent(c, E) ==
    LET p == ProjectOf[c]
    IN /\ posting[c] # 0
       /\ posting' = [posting EXCEPT ![c] = 0]
       /\ \/ /\ c \in members[p]
             /\ Cast(p, E)
             /\ live' = [live EXCEPT ![p] = Append(@, posting[c])]
          \/ c \notin members[p] /\ UNCHANGED <<roomVars, live>>
       /\ UNCHANGED <<dbVars, serve, session, reading, closing, traceVars>>

\* hub.Broadcast, which evicts the clients E.
Broadcast(c, E) ==
    LET p == ProjectOf[c]
    IN /\ posting[c] # 0
       /\ Cast(p, E)
       /\ live' = [live EXCEPT ![p] = Append(@, posting[c])]
       /\ posting' = [posting EXCEPT ![c] = 0]
       /\ UNCHANGED <<dbVars, serve, session, reading, closing, traceVars>>

\* A share_card of an entry of another project is answered to its sender alone,
\* which is evicted if that frame does not fit.
RejectCard(c) ==
    /\ c \in reading /\ posting[c] = 0
    /\ Leave(c)
    /\ UNCHANGED <<dbVars, connVars, live, closing, traceVars>>

\* readPump returns and unregisters the client, unless it is gone already.
ReadExit(c) ==
    /\ c \in reading /\ posting[c] = 0
    /\ reading' = reading \ {c}
    /\ \/ Leave(c)
       \/ c \notin Present /\ UNCHANGED roomVars
    /\ UNCHANGED <<dbVars, serve, session, posting, live, closing, traceVars>>

Deliver(c) ==
    /\ Hear(c)
    /\ UNCHANGED <<dbVars, connVars, live, closing, traceVars>>

\* The process restarts: the database stays, requests and connections do not.
Restart ==
    /\ Reset
    /\ serve' = [c \in Clients |-> IF serve[c] = "idle" THEN "idle" ELSE "refused"]
    /\ reading' = {}
    /\ posting' = [c \in Clients |-> 0]
    /\ lost' = lost \cup {posting[c] : c \in {d \in Clients : posting[d] # 0}}
    /\ closing' = {}
    /\ UNCHANGED <<dbVars, session, live, cut, overtaken>>

GameNext ==
    \/ \E p \in Projects :
          \/ StartSession(p) \/ StopSession(p) \/ StopCut(p) \/ DeleteProject(p)
          \/ \E k \in 1 .. MaxSessions : CloseRoom(p, k)
    \/ \E c \in Clients :
          \/ ReadRunning(c) \/ CheckTotal(c) \/ CheckRoom(c) \/ UpgradeFails(c) \/ Register(c)
          \/ Persist(c) \/ RejectCard(c) \/ ReadExit(c) \/ Deliver(c)
          \/ \E E \in SUBSET members[ProjectOf[c]] : Broadcast(c, E)
    \/ Restart

\* A handler or a read goroutine that has begun a call sequence finishes it.
GameFairness ==
    /\ \A p \in Projects, k \in 1 .. MaxSessions : WF_gameVars(CloseRoom(p, k))
    /\ \A c \in Clients :
          WF_gameVars(\E E \in SUBSET members[ProjectOf[c]] : Broadcast(c, E))

GameSpec == GameInit /\ [][GameNext]_gameVars
FairGameSpec == GameSpec /\ GameFairness

-----------------------------------------------------------------------------
(* Properties.                                                             *)

\* Every message of a surviving project that reached its room is in the history a
\* late joiner reads, because the INSERT comes first and its failure ends the post.
LiveIsStored ==
    \A p \in Projects : exists[p] => ToSet(live[p]) \subseteq stored

CastsOf(m) == {w \in Projects \X Messages : w[2] <= Len(live[w[1]]) /\ live[w[1]][w[2]] = m}
Casts(m) == Cardinality(CastsOf(m))
Posters(m) == Cardinality({c \in Clients : posting[c] = m})

\* Conversely a stored message reaches its room exactly once: it has been
\* broadcast, or one reader is about to, or a restart came in between.
StoredIsCastOnce ==
    \A m \in stored : Casts(m) + Posters(m) + (IF m \in lost THEN 1 ELSE 0) = 1

\* Both: the history a late joiner reads and what the room was shown agree, in either
\* direction.
HistoryMatchesRoom == LiveIsStored /\ StoredIsCastOnce

\* The session a client was admitted to is still the project's running one.
Current(c) == running[ProjectOf[c]] /\ session[c] = started[ProjectOf[c]]

\* Whoever is in the room of a project without belonging to its running session
\* is about to be put out by the Stop of its session, unless that Stop was cut
\* short or ran its CloseRoom while Serve was still admitting the client.
LeftBehindOnlyByRace ==
    \A p \in Projects : exists[p] => \A c \in members[p] :
        \/ Current(c)
        \/ <<p, session[c]>> \in closing \cup cut
        \/ c \in overtaken

\* Stopping a session disconnects everybody who is in its room at that moment.
StopEmptiesRoom ==
    \A c \in Clients :
        (c \in Present /\ <<ProjectOf[c], session[c]>> \in closing) ~> c \notin Present

\* What is in the history is shown to the room, short of a restart.
StoredReachesRoom ==
    \A m \in Messages : \A p \in Projects :
        (m \in stored /\ inserted[m][1] = p) ~> (m \in ToSet(live[p]) \cup lost)

=============================================================================
