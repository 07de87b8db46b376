-------------------------------- MODULE Hub --------------------------------
(***************************************************************************)
(* The Game Mode chat hub of svc (app/svc/internal/ws): one process-wide   *)
(* registry of project rooms, every operation of which runs under Hub.mu,  *)
(* and the two goroutines ("pumps") of each WebSocket connection.          *)
(*                                                                         *)
(* A hub method holds the mutex from its first line to its last, so each   *)
(* one is a single action; a frame that some writePump takes meanwhile     *)
(* could as well have been taken just before it (SendBuf > 1).  A room is  *)
(* the set of its clients: the code never reads Room.SessionID, and a      *)
(* missing room behaves as an empty one.  A client is one connection and   *)
(* is never used twice.                                                    *)
(*                                                                         *)
(* A chat message is identified by its ordinal among its room's broadcasts *)
(* (casts); what a message says is GameSession's business.                 *)
(***************************************************************************)
EXTENDS Integers, Sequences, FiniteSets

CONSTANTS
    Projects,    \* project ids, the keys of Hub.rooms
    Clients,     \* WebSocket connections
    People,      \* authenticated users; one may hold several connections
    ProjectOf,   \* Client.projectID
    UserOf,      \* Client.UserID
    SendBuf,     \* sendBufferSize, 16 in the code
    MaxCasts     \* bound: broadcasts per room

ASSUME HubAssumption ==
    /\ IsFiniteSet(Clients)
    /\ ProjectOf \in [Clients -> Projects]
    /\ UserOf \in [Clients -> People]
    /\ SendBuf \in Nat \ {0, 1}
    /\ MaxCasts \in Nat

VARIABLES
    rooms,       \* Hub.rooms: the registered clients of each project
    total,       \* Hub.total
    send,        \* the queued frames of each Client.send channel
    closed,      \* clients whose send channel has been closed
    stage,       \* how far Serve got: "new", "registered", "started"
    conn,        \* the socket: "none", "up", "down"
    writing,     \* clients whose writePump runs
    reading,     \* clients whose readPump runs
    casts,       \* messages broadcast to each room so far (ghost)
    got,         \* ordinal of the last message written to a client (ghost)
    seen,        \* the last roster written to a client (ghost)
    missed       \* clients skipped by their room's last roster (ghost)

channelVars == <<send, closed>>
registryVars == <<rooms, total>>
pumpVars == <<stage, conn, writing, reading>>
ghostVars == <<casts, got, seen>>
hubVars == <<rooms, total, send, closed, stage, conn, writing, reading,
             casts, got, seen, missed>>

-----------------------------------------------------------------------------
(* Frames queued on a send channel.                                        *)

Presence(S) == [type |-> "presence", users |-> S]
Message(n)  == [type |-> "message", n |-> n]
Rejected    == [type |-> "error"]
Ended       == [type |-> "session_ended"]

Frame ==
    [type : {"presence"}, users : SUBSET People]
        \cup [type : {"message"}, n : Nat]
        \cup [type : {"error", "session_ended"}]

Registered == UNION {rooms[p] : p \in Projects}

Roster(S) == {UserOf[c] : c \in S}

HubTypeOK ==
    /\ rooms \in [Projects -> SUBSET Clients]
    /\ total \in Nat
    /\ send \in [Clients -> Seq(Frame)]
    /\ closed \subseteq Clients
    /\ stage \in [Clients -> {"new", "registered", "started"}]
    /\ conn \in [Clients -> {"none", "up", "down"}]
    /\ writing \subseteq Clients
    /\ reading \subseteq Clients
    /\ casts \in [Projects -> Nat]
    /\ got \in [Clients -> Nat]
    /\ seen \in [Clients -> SUBSET People]
    /\ missed \subseteq Clients

HubInit ==
    /\ rooms = [p \in Projects |-> {}]
    /\ total = 0
    /\ send = [c \in Clients |-> <<>>]
    /\ closed = {}
    /\ stage = [c \in Clients |-> "new"]
    /\ conn = [c \in Clients |-> "none"]
    /\ writing = {}
    /\ reading = {}
    /\ casts = [p \in Projects |-> 0]
    /\ got = [c \in Clients |-> 0]
    /\ seen = [c \in Clients |-> {}]
    /\ missed = {}

-----------------------------------------------------------------------------
(* Bodies that run with Hub.mu held.                                       *)

Full(c) == Len(send[c]) >= SendBuf

\* Queue f for every client of S whose buffer has room: a select with a default.
Offer(S, f) ==
    [c \in Clients |-> IF c \in S /\ ~Full(c) THEN Append(send[c], f) ELSE send[c]]

\* Slip: the client leaves the room with its channel open.
RemoveLockedOpen(p, E) ==
    LET out == E \cap rooms[p]
    IN /\ rooms' = [rooms EXCEPT ![p] = @ \ out]
       /\ total' = total - Cardinality(out)
       /\ got' = [c \in Clients |-> IF c \in out THEN 0 ELSE got[c]]
       /\ seen' = [c \in Clients |-> IF c \in out THEN {} ELSE seen[c]]
       /\ UNCHANGED closed

\* removeLocked for the clients E of room p; those already gone are left alone.
\* The ghosts follow registered clients only.
RemoveLocked(p, E) ==
    LET out == E \cap rooms[p]
    IN /\ rooms' = [rooms EXCEPT ![p] = @ \ out]
       /\ closed' = closed \cup out
       /\ total' = total - Cardinality(out)
       /\ got' = [c \in Clients |-> IF c \in out THEN 0 ELSE got[c]]
       /\ seen' = [c \in Clients |-> IF c \in out THEN {} ELSE seen[c]]

\* broadcastPresenceLocked to room p, whose clients are now S: a full buffer is
\* skipped, never evicted.
BroadcastPresenceLocked(p, S) ==
    /\ send' = Offer(S, Presence(Roster(S)))
    /\ missed' = (missed \ rooms[p]) \cup {c \in S : Full(c)}

-----------------------------------------------------------------------------
(* Hub methods.                                                            *)

OpenRoomAndRegister(c) ==
    LET p == ProjectOf[c]
        room == rooms[p] \cup {c}
    IN /\ rooms' = [rooms EXCEPT ![p] = room]
       /\ total' = total + 1
       /\ BroadcastPresenceLocked(p, room)
       /\ got' = [got EXCEPT ![c] = casts[p]]
       /\ UNCHANGED <<closed, casts, seen>>

\* Slip: the room is not told who left.
UnregisterSilently(c) ==
    /\ RemoveLocked(ProjectOf[c], {c})
    /\ missed' = missed \ {c}
    /\ UNCHANGED <<send, casts>>

Unregister(c) ==
    LET p == ProjectOf[c]
    IN /\ RemoveLocked(p, {c})
       /\ BroadcastPresenceLocked(p, rooms[p] \ {c})
       /\ UNCHANGED casts

\* Slip: the loop ends at a client it evicts.
BroadcastBreaking(p) ==
    LET evicted == {c \in rooms[p] : Full(c)}
    IN /\ casts[p] < MaxCasts
       /\ casts' = [casts EXCEPT ![p] = @ + 1]
       /\ RemoveLocked(p, evicted)
       /\ send' = IF evicted = {} THEN Offer(rooms[p], Message(casts[p] + 1)) ELSE send
       /\ UNCHANGED missed

\* A client that cannot take the message is evicted; the survivors then get the
\* new roster if the message left room for it.
Broadcast(p) ==
    LET room == rooms[p]
        evicted == {c \in room : Full(c)}
        stay == room \ evicted
        roster == Presence(Roster(stay))
        tight == {c \in stay : Len(send[c]) + 1 >= SendBuf}
        queued == Offer(room, Message(casts[p] + 1))
    IN /\ casts[p] < MaxCasts
       /\ casts' = [casts EXCEPT ![p] = @ + 1]
       /\ RemoveLocked(p, evicted)
       /\ \/ /\ evicted = {}
             /\ send' = queued
             /\ UNCHANGED missed
          \/ /\ evicted # {}
             /\ send' = [c \in Clients |-> IF c \in stay \ tight
                                           THEN Append(queued[c], roster)
                                           ELSE queued[c]]
             /\ missed' = (missed \ room) \cup tight

\* Slip: the client may be gone by the time it is answered.
SendToGone(c) ==
    /\ stage[c] = "started"
    /\ send' = Offer({c}, Rejected)
    /\ UNCHANGED <<registryVars, closed, missed, ghostVars>>

\* The rejection of a share_card, to one client, if it is still registered.
SendTo(c) ==
    LET p == ProjectOf[c]
    IN /\ c \in rooms[p]
       /\ \/ /\ ~Full(c)
             /\ send' = Offer({c}, Rejected)
             /\ UNCHANGED <<registryVars, closed, got, seen, missed>>
          \/ /\ Full(c)
             /\ RemoveLocked(p, {c})
             /\ BroadcastPresenceLocked(p, rooms[p] \ {c})
       /\ UNCHANGED casts

\* Slip: the room is deleted with its clients still counted.
CloseRoomUncounted(p) ==
    /\ send' = Offer(rooms[p], Ended)
    /\ rooms' = [rooms EXCEPT ![p] = {}]
    /\ closed' = closed \cup rooms[p]
    /\ got' = [c \in Clients |-> IF c \in rooms[p] THEN 0 ELSE got[c]]
    /\ seen' = [c \in Clients |-> IF c \in rooms[p] THEN {} ELSE seen[c]]
    /\ missed' = missed \ rooms[p]
    /\ UNCHANGED <<total, casts>>

CloseRoom(p) ==
    /\ send' = Offer(rooms[p], Ended)
    /\ RemoveLocked(p, rooms[p])
    /\ missed' = missed \ rooms[p]
    /\ UNCHANGED casts

-----------------------------------------------------------------------------
(* The connection and its pumps.                                           *)

\* Serve's last two lines: register the upgraded connection, then Start.
Register(c) ==
    /\ stage[c] = "new"
    /\ OpenRoomAndRegister(c)
    /\ stage' = [stage EXCEPT ![c] = "registered"]
    /\ conn' = [conn EXCEPT ![c] = "up"]
    /\ UNCHANGED <<writing, reading>>

Start(c) ==
    /\ stage[c] = "registered"
    /\ stage' = [stage EXCEPT ![c] = "started"]
    /\ writing' = writing \cup {c}
    /\ reading' = reading \cup {c}
    /\ UNCHANGED <<registryVars, channelVars, conn, ghostVars, missed>>

\* writePump takes the next frame and the socket accepts it, which it may do for
\* a while after the peer is gone.
WriteFrame(c) ==
    /\ c \in writing /\ send[c] # <<>>
    /\ LET f == Head(send[c])
           live == c \in Registered
       IN /\ got' = IF live /\ f.type = "message" THEN [got EXCEPT ![c] = f.n] ELSE got
          /\ seen' = IF live /\ f.type = "presence" THEN [seen EXCEPT ![c] = f.users] ELSE seen
    /\ send' = [send EXCEPT ![c] = Tail(@)]
    /\ UNCHANGED <<registryVars, closed, pumpVars, casts, missed>>

\* The channel is closed and drained: close frame, conn.Close, return.
WriteClose(c) ==
    /\ c \in writing /\ c \in closed /\ send[c] = <<>>
    /\ writing' = writing \ {c}
    /\ conn' = [conn EXCEPT ![c] = "down"]
    /\ UNCHANGED <<registryVars, channelVars, stage, reading, ghostVars, missed>>

\* A frame (lost with it) or a ping fails to be written: conn.Close, return.
WriteFail(c) ==
    /\ c \in writing
    /\ \/ UNCHANGED send
       \/ send[c] # <<>> /\ send' = [send EXCEPT ![c] = Tail(@)]
    /\ writing' = writing \ {c}
    /\ conn' = [conn EXCEPT ![c] = "down"]
    /\ UNCHANGED <<registryVars, closed, stage, reading, ghostVars, missed>>

\* Slip: readPump has no deferred Unregister.
ReadExitOnly(c) ==
    /\ c \in reading
    /\ reading' = reading \ {c}
    /\ UNCHANGED <<registryVars, channelVars, stage, conn, writing, ghostVars, missed>>

\* ReadMessage fails (peer gone, read deadline, oversized frame, conn closed by
\* writePump): readPump returns and its defer unregisters the client.
ReadExit(c) ==
    /\ c \in reading
    /\ reading' = reading \ {c}
    /\ Unregister(c)
    /\ UNCHANGED <<stage, conn, writing>>

PeerGone(c) ==
    /\ conn[c] = "up"
    /\ conn' = [conn EXCEPT ![c] = "down"]
    /\ UNCHANGED <<registryVars, channelVars, stage, writing, reading, ghostVars, missed>>

\* The process dies: the hub and the goroutines with it.  No client is reused.
Crash ==
    /\ rooms' = [p \in Projects |-> {}]
    /\ total' = 0
    /\ send' = [c \in Clients |-> <<>>]
    /\ closed' = closed \cup Registered
    /\ stage' = [c \in Clients |-> IF stage[c] = "new" THEN "new" ELSE "started"]
    /\ conn' = [c \in Clients |-> IF stage[c] = "new" THEN "none" ELSE "down"]
    /\ writing' = {}
    /\ reading' = {}
    /\ got' = [c \in Clients |-> 0]
    /\ seen' = [c \in Clients |-> {}]
    /\ missed' = {}
    /\ UNCHANGED casts

-----------------------------------------------------------------------------
(* The hub driven by any handler: GameSession says which calls svc makes.  *)

Connection(c) ==
    \/ Start(c)
    \/ WriteFrame(c) \/ WriteClose(c) \/ WriteFail(c)
    \/ ReadExit(c) \/ PeerGone(c)

HubNext ==
    \/ \E c \in Clients :
          \/ Register(c) \/ Connection(c)
          \/ c \in reading /\ SendTo(c) /\ UNCHANGED pumpVars
    \/ \E p \in Projects :
          \/ Broadcast(p) /\ UNCHANGED pumpVars
          \/ CloseRoom(p) /\ UNCHANGED pumpVars
    \/ Crash

\* A goroutine that can run does run.  A write ends within writeWait and a ping
\* goes out every pingPeriod, so a writer on a dead socket fails; a reader of a
\* dead or closed socket gets its error within pongWait.
PumpFairness(c) ==
    /\ WF_hubVars(Start(c))
    /\ WF_hubVars(WriteFrame(c) \/ WriteClose(c))
    /\ WF_hubVars(conn[c] = "down" /\ WriteFail(c))
    /\ WF_hubVars(conn[c] = "down" /\ ReadExit(c))

HubSpec == HubInit /\ [][HubNext]_hubVars
FairHubSpec == HubSpec /\ \A c \in Clients : PumpFairness(c)

-----------------------------------------------------------------------------
(* Properties.                                                             *)

\* The counter behind ServerConnCap equals the number of registered clients,
\* whatever mix of evictions, closes and repeated Unregisters happened.
TotalAgrees == total = Cardinality(Registered)

\* "presence in the room map is the single source of truth for whether send is
\* still open" (hub.go, Unregister): an upgraded client is in its own project's
\* room exactly while its channel is open, and in no other.
RoomOwnsChannel ==
    \A c \in Clients :
        /\ \A p \in Projects : c \in rooms[p] => p = ProjectOf[c]
        /\ c \in Registered <=> stage[c] # "new" /\ c \notin closed

EndQueued(c) == \E i \in DOMAIN send[c] : send[c][i] = Ended

\* Nothing is put on a closed channel (Go panics), nor after session_ended, which is the
\* last frame of a connection and whose channel is closed.
QuietStep ==
    \A c \in Clients :
        c \in closed \/ EndQueued(c) => c \in closed' /\ Len(send'[c]) <= Len(send[c])

\* No step sends to a removed client, to one that is told that the session has ended, or
\* closes a channel a second time.
ClosedChannelQuiet == [][QuietStep]_hubVars

\* A client whose writePump has not failed (or not begun) has every frame it was
\* sent still ahead of it.
Listening(c) == stage[c] = "registered" \/ c \in writing

LastRoster(c) ==
    LET at == {i \in DOMAIN send[c] : send[c][i].type = "presence"}
    IN IF at = {} THEN seen[c]
       ELSE send[c][CHOOSE i \in at : \A j \in at : j <= i].users

\* The newest roster a client has been sent is the room's, unless the last one
\* found its buffer full: every way of joining or leaving announces itself.
RosterCurrent ==
    \A p \in Projects : \A c \in rooms[p] :
        c \notin missed /\ Listening(c) => LastRoster(c) = Roster(rooms[p])

\* No goroutine leak: once a started client's channel is closed or its socket is
\* dead, both pumps return, the socket is closed and the room forgets it.
PumpsReturn ==
    \A c \in Clients :
        stage[c] = "started" /\ (c \in closed \/ conn[c] = "down")
            ~> /\ c \notin writing /\ c \notin reading
               /\ c \notin Registered /\ conn[c] = "down"

-----------------------------------------------------------------------------
(* The hub implements the service its callers rely on.                     *)

Service == INSTANCE RoomService WITH
              members <- rooms, gone <- closed, heard <- got

\* Queues, evictions and pumps together are a room service: its members hear
\* every message of their room once and in order, from the moment they join.
ImplementsRoomService == Service!RoomSpec
=============================================================================
