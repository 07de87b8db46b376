----------------------------- MODULE LiveClient -----------------------------
(***************************************************************************)
(* The browser's side of Game Mode (ui: api/ws.ts, useLiveSessionStore.ts, *)
(* LiveSessionPanel.vue). The store is global to the page and holds one    *)
(* handle, which reopens its socket by itself; a panel is mounted for the  *)
(* project on screen and its functions go on after it is left. JavaScript  *)
(* runs to the next await without interruption: an action is what runs     *)
(* when an answer, a frame or a timer arrives. An answer says what the     *)
(* server read at some time since it was asked, and may be overtaken.      *)
(*                                                                         *)
(* The server is here as the page sees it: GameSession says what it does.  *)
(* A restart of it is a drop of every socket. The roster and texts of      *)
(* messages are left out; back-off is a timer that fires at some time.     *)
(***************************************************************************)
EXTENDS Integers, Sequences, SequencesExt

CONSTANTS
    Projects,
    NumHandles,    \* bound: handles that are in use or waiting for an answer
    NumTasks,      \* bound: functions of panels under way
    NumSessions,   \* bound: sessions a project ever has
    Budgets        \* bounds: how many functions of panels ever begin, how many messages are
                   \* posted, and how many sessions are stopped or projects deleted

ASSUME LiveAssumption ==
    /\ {NumHandles, NumTasks, NumSessions} \subseteq Nat
    /\ Budgets \subseteq [tasks : Nat, messages : Nat, ends : Nat]

VARIABLES
    exists,    \* whether the project has not been deleted
    running,   \* the project's running session: its number, or 0
    begun,     \* how many sessions the project has had
    closing,   \* sessions whose Stop has stopped them and not yet closed the room
    chat,      \* chat_messages, by id: the session of each, and whether it was broadcast
    page,      \* the store: status, session, the handle it holds, and all handles
    messages,  \* the store's messages: ids of what is shown
    task,      \* functions of panels: what each one under way waits for
    view,      \* the project whose panel is on screen
    left,      \* what is left of the budget
    due        \* auxiliary: ids that are to be shown exactly once

serverVars == <<exists, running, begun, closing, chat>>
vars == <<serverVars, page, messages, task, view, left, due>>

Handles == 1 .. NumHandles
Tasks == 1 .. NumTasks
None == 0                        \* no handle, no session running
NoView == "none"
NoSession == <<"none", 0>>       \* sessionId null
Ended == 0                       \* the frame session_ended; a message is its id

-----------------------------------------------------------------------------
(* Answers.                                                                *)

NoReply == [is |-> "awaited"]
Status(s, id) == [is |-> s, session |-> id]

\* ListMessages: what of a session is stored, by id.
Stored(s) ==
    LET upTo[m \in 0 .. Len(chat)] ==
            IF m = 0 THEN << >>
            ELSE IF chat[m].session = s THEN Append(upTo[m - 1], m) ELSE upTo[m - 1]
    IN upTo[Len(chat)]
History(s) ==
    [is |-> "history", messages |-> Stored(s),
     cast |-> {m \in DOMAIN chat : chat[m].session = s /\ chat[m].cast}]

\* Status
CurrentStatus(p) ==
    IF running[p] = None THEN Status("stopped", NoSession)
    ELSE Status("running", <<p, running[p]>>)

-----------------------------------------------------------------------------
(* Handles (connect) and the store that holds one.                         *)

Free == [pc |-> "free"]   \* no handle, or one that will do nothing any more
Opening(p) ==
    [pc |-> "opening", project |-> p, byCaller |-> FALSE, frames |-> << >>, reply |-> NoReply]

\* "stranded" is open, too: its session is over, and no Stop will close the room for it.
IsOpen(x) == x.pc \in {"open", "stranded"}
HasSocket(x) == x.pc \in {"opening", "admitted"} \/ IsOpen(x)

\* close(): no reconnect from now on; shouldReconnect is not interrupted.
Closed(x) ==
    IF x.pc = "asking" THEN [x EXCEPT !.byCaller = TRUE] ELSE Free

\* disconnect
Disconnect(g) ==
    IF g.held = None THEN g
    ELSE [g EXCEPT !.handle[g.held] = Closed(@), !.held = None]

\* applySession
ApplySession(g, r) == [g EXCEPT !.status = r.is, !.session = r.session]

\* fetchStatus, from its answer on: a socket of another project is closed.
FetchStatus(g, p, r) ==
    ApplySession(IF g.held # None /\ g.handle[g.held].project # p THEN Disconnect(g) ELSE g, r)

\* connect
Opened(g, p) ==
    LET h == CHOOSE i \in Handles : g.handle[i] = Free
    IN [g EXCEPT !.handle[h] = Opening(p), !.held = h]

\* connectSocket
ConnectSocket(g, p) ==
    IF g.held # None /\ g.handle[g.held].project = p THEN g ELSE Opened(Disconnect(g), p)

CanConnect == \E h \in Handles : Disconnect(page).handle[h] = Free

\* Frames on their way to the page.
InTransit(g) ==
    IF g.held = None THEN {} ELSE ToSet(g.handle[g.held].frames) \ {Ended}

\* The page goes on as g; what was in transit on a socket it lost need not be shown.
GoesOn(g) ==
    /\ page' = g
    /\ due' = due \ (InTransit(page) \ InTransit(g))

\* The server finds a session running, and registers the socket some time later.
Admit(h) ==
    /\ page.handle[h].pc = "opening" /\ running[page.handle[h].project] # None
    /\ page' = [page EXCEPT !.handle[h].pc = "admitted"]
    /\ UNCHANGED <<serverVars, messages, task, view, left, due>>

Register(h) ==
    /\ page.handle[h].pc = "admitted"
    /\ LET p == page.handle[h].project
       IN page' = [page EXCEPT !.handle[h].pc =
             IF running[p] # None \/ \E k \in 1 .. begun[p] : <<p, k>> \in closing
             THEN "open" ELSE "stranded"]
    /\ UNCHANGED <<serverVars, messages, task, view, left, due>>

\* onclose: shouldReconnect asks for the status.
Asking(g, h) ==
    [g EXCEPT !.handle[h].pc = "asking", !.handle[h].reply = NoReply, !.handle[h].frames = << >>]

\* The handshake is refused, or the network drops the socket.
Drop(h) ==
    /\ HasSocket(page.handle[h])
    /\ GoesOn(Asking(page, h))
    /\ UNCHANGED <<serverVars, messages, task, view, left>>

Refuse(h) ==
    /\ page.handle[h].pc = "opening" /\ running[page.handle[h].project] = None
    /\ Drop(h)

\* onGiveUp
GiveUp(g, h) == IF g.held = h THEN [g EXCEPT !.held = None] ELSE g

\* Slip: closedByCaller is not looked at again.
DecideAnyway(g, h, ok) ==
    IF ok THEN [g EXCEPT !.handle[h].pc = "timer"]
    ELSE GiveUp([g EXCEPT !.handle[h] = Free], h)

\* Slip: reconnecting never ends.
DecideAlways(g, h, ok) ==
    IF ~g.handle[h].byCaller
    THEN [g EXCEPT !.handle[h].pc = "timer", !.handle[h].reply = NoReply]
    ELSE [g EXCEPT !.handle[h] = Free]

\* scheduleReconnect, once shouldReconnect has said ok. A handle closed by its caller is
\* not the store's: giving up means nothing to it.
Decide(g, h, ok) ==
    IF ok /\ ~g.handle[h].byCaller
    THEN [g EXCEPT !.handle[h].pc = "timer", !.handle[h].reply = NoReply]
    ELSE GiveUp([g EXCEPT !.handle[h] = Free], h)

\* The status that shouldReconnect asked for arrives.
Reconsider(h) ==
    /\ page.handle[h].pc = "asking" /\ page.handle[h].reply # NoReply
    /\ LET g == FetchStatus(page, page.handle[h].project, page.handle[h].reply)
       IN GoesOn(Decide(g, h, g.status = "running"))
    /\ UNCHANGED <<serverVars, messages, task, view, left>>

\* It does not arrive.
CheckFails(h) ==
    /\ page.handle[h].pc = "asking"
    /\ GoesOn(Decide(page, h, FALSE))
    /\ UNCHANGED <<serverVars, messages, task, view, left>>

\* The reconnect timer: open() again.
TimerFires(h) ==
    /\ page.handle[h].pc = "timer"
    /\ page' = [page EXCEPT !.handle[h].pc = "opening"]
    /\ UNCHANGED <<serverVars, messages, task, view, left, due>>

\* onmessage, handleFrame.
Receive(h) ==
    /\ IsOpen(page.handle[h]) /\ page.handle[h].frames # << >>
    /\ LET frame == Head(page.handle[h].frames)
            g == [page EXCEPT !.handle[h].frames = Tail(@)]
       IN IF frame = Ended
          THEN /\ GoesOn(Disconnect([g EXCEPT !.status = "stopped"]))
               /\ UNCHANGED messages
          ELSE /\ page' = g
               /\ messages' = Append(messages, frame)
               /\ UNCHANGED due
    /\ UNCHANGED <<serverVars, task, view, left>>

-----------------------------------------------------------------------------
(* The panel's functions.                                                  *)

Spend(what) == left[what] > 0 /\ left' = [left EXCEPT ![what] = @ - 1]

\* No function is in this slot.
Over == [pc |-> "over"]
Arrived(t, pc) == task[t].pc = pc /\ task[t].reply # NoReply

\* A function that waits for its first answer; here: its panel is still on screen.
Begun(kind, p) ==
    [kind |-> kind, project |-> p, here |-> TRUE, pc |-> "first", session |-> NoSession,
     reply |-> NoReply]
Begin(kind, p, tasks) ==
    /\ Spend("tasks")
    /\ \E t \in Tasks : tasks[t] = Over /\ (\A u \in 1 .. t - 1 : tasks[u] # Over)
          /\ task' = [tasks EXCEPT ![t] = Begun(kind, p)]

TaskEnds(t) == task' = [task EXCEPT ![t] = Over]

\* onMounted, refreshSession: the user goes to a project's game.
Mount(p) ==
    /\ view' = p
    /\ Begin("refresh", p, [t \in Tasks |->
          IF task[t] = Over THEN Over ELSE [task[t] EXCEPT !.here = FALSE]])
    /\ UNCHANGED <<serverVars, page, messages, due>>

\* onStart or onStop, one at a time: the button shown goes by the status of the store.
Press(kind) ==
    /\ view # NoView
    /\ kind = IF page.status = "running" THEN "stop" ELSE "start"
    /\ {t \in Tasks : task[t] # Over /\ task[t].kind = kind /\ task[t].here} = {}
    /\ Begin(kind, view, task)
    /\ UNCHANGED <<serverVars, page, messages, view, due>>

\* refreshSession has the status, onStart the new session: the history is asked for.
FirstArrives(t) ==
    /\ Arrived(t, "first") /\ task[t].kind # "stop"
    /\ LET g == IF task[t].kind = "refresh" THEN FetchStatus(page, task[t].project, task[t].reply)
                ELSE ApplySession(page, task[t].reply)
       IN /\ GoesOn(g)
          /\ IF g.status = "running"
             THEN task' = [task EXCEPT ![t].pc = "history", ![t].session = g.session,
                                       ![t].reply = NoReply]
             ELSE TaskEnds(t)
    /\ UNCHANGED <<serverVars, messages, view, left>>

\* onStop has the stopped session: the server answers when it has closed the room.
StopArrives(t) ==
    /\ Arrived(t, "first") /\ task[t].kind = "stop" /\ task[t].reply.session \notin closing
    /\ GoesOn(Disconnect(ApplySession(page, task[t].reply)))
    /\ TaskEnds(t)
    /\ UNCHANGED <<serverVars, messages, view, left>>

\* Slip: the history is added to what is shown.
HistoryAdded(t) ==
    /\ Arrived(t, "history")
    /\ CanConnect
    /\ page' = ConnectSocket(page, task[t].project)
    /\ messages' = messages \o task[t].reply.messages
    /\ due' = (task[t].reply.cast \ InTransit(page')) \cup
              ((due \cap InTransit(page')) \ ToSet(task[t].reply.messages))
    /\ TaskEnds(t)
    /\ UNCHANGED <<serverVars, view, left>>

\* The history replaces what is shown, and the socket is opened. What was broadcast
\* before the history was read is in it once, what is still in transit comes after it.
HistoryArrives(t) ==
    /\ Arrived(t, "history")
    /\ CanConnect
    /\ page' = ConnectSocket(page, task[t].project)
    /\ messages' = task[t].reply.messages
    /\ due' = (task[t].reply.cast \ InTransit(page')) \cup
              ((due \cap InTransit(page')) \ ToSet(messages'))
    /\ TaskEnds(t)
    /\ UNCHANGED <<serverVars, view, left>>

\* catch: an error is shown. The server has refused or failed, or the network has lost the
\* request or the answer to it.
TaskFails(t) ==
    /\ task[t] # Over
    /\ TaskEnds(t)
    /\ UNCHANGED <<serverVars, page, messages, view, left, due>>

-----------------------------------------------------------------------------
(* The server.                                                             *)

\* Who is in the room. Frames to them are queued, session_ended is the last.
InRoom(p) ==
    {h \in Handles : /\ IsOpen(page.handle[h]) /\ page.handle[h].project = p
                     /\ Ended \notin ToSet(page.handle[h].frames)}
Queued(x, frame) == [x EXCEPT !.frames = Append(x.frames, frame)]
Send(p, frame) ==
    page' = [page EXCEPT !.handle = [h \in Handles |->
       IF h \in InRoom(p) THEN Queued(page.handle[h], frame) ELSE page.handle[h]]]

\* Nobody in the room will hear that the session is over.
Strand(p) ==
    page' = [page EXCEPT !.handle = [h \in Handles |->
       IF h \in InRoom(p) THEN [page.handle[h] EXCEPT !.pc = "stranded"] ELSE page.handle[h]]]

\* Stop: the UPDATE,
MarkStopped(p) ==
    /\ running[p] # None
    /\ Spend("ends")
    /\ running' = [running EXCEPT ![p] = None]
    /\ UNCHANGED <<exists, begun, chat>>

SessionEnds(p) ==
    /\ MarkStopped(p)
    /\ closing' = closing \cup {<<p, running[p]>>}
    /\ UNCHANGED page

\* after which the scan of its row may fail,
SessionCut(p) == MarkStopped(p) /\ Strand(p) /\ UNCHANGED closing

\* and the call of the hub.
CloseRoom(p, k) ==
    /\ <<p, k>> \in closing
    /\ closing' = closing \ {<<p, k>>}
    /\ Send(p, Ended)
    /\ UNCHANGED <<exists, running, begun, chat, messages, task, view, left, due>>

\* ProjectsHandler.Delete: the hub is not told.
DeleteProject(p) ==
    /\ Spend("ends") /\ exists[p]
    /\ exists' = [exists EXCEPT ![p] = FALSE]
    /\ running' = [running EXCEPT ![p] = None]
    /\ Strand(p)
    /\ UNCHANGED <<begun, closing, chat, messages, task, view, due>>

SessionBegins(p) ==
    /\ exists[p] /\ running[p] = None /\ begun[p] < NumSessions
    /\ begun' = [begun EXCEPT ![p] = @ + 1]
    /\ running' = [running EXCEPT ![p] = begun'[p]]
    /\ UNCHANGED <<exists, closing, chat, page>>

\* Another member starts or stops the session.
OthersStart(p) == SessionBegins(p) /\ UNCHANGED <<messages, task, view, left, due>>
OthersStop(p) == (SessionEnds(p) \/ SessionCut(p)) /\ UNCHANGED <<messages, task, view, due>>

\* A message of a member is stored, then broadcast: with the session it was admitted to,
\* which may be over.
Persist(p, k) ==
    /\ Spend("messages") /\ exists[p] /\ k <= begun[p]
    /\ chat' = Append(chat, [session |-> <<p, k>>, cast |-> FALSE])
    /\ UNCHANGED <<exists, running, begun, closing, page, messages, task, view, due>>

\* One that is shown already, from a history read in between, will be shown twice.
Broadcast(m) ==
    LET p == chat[m].session[1]
    IN /\ ~chat[m].cast
       /\ chat' = [chat EXCEPT ![m].cast = TRUE]
       /\ Send(p, m)
       /\ due' = IF InRoom(p) # {} /\ m \notin ToSet(messages) THEN due \cup {m} ELSE due
       /\ UNCHANGED <<exists, running, begun, closing, messages, task, view, left>>

Waiting(t) == task[t] # Over /\ task[t].reply = NoReply
Answer(t, r) == task' = [task EXCEPT ![t].reply = r]

\* The server reads what a task asks for, if the project is there.
ServeRead(t) ==
    /\ Waiting(t) /\ exists[task[t].project]
    /\ \/ task[t].pc = "history" /\ Answer(t, History(task[t].session))
       \/ task[t].pc = "first" /\ task[t].kind = "refresh" /\ Answer(t, CurrentStatus(task[t].project))
    /\ UNCHANGED <<serverVars, page, messages, view, left, due>>

\* Start and Stop take effect; a second Start or Stop is refused.
ServeStart(t) ==
    /\ Waiting(t) /\ task[t].pc = "first" /\ task[t].kind = "start"
    /\ SessionBegins(task[t].project)
    /\ Answer(t, Status("running", <<task[t].project, begun'[task[t].project]>>))
    /\ UNCHANGED <<messages, view, left, due>>

ServeStop(t) ==
    /\ Waiting(t) /\ task[t].pc = "first" /\ task[t].kind = "stop"
    /\ SessionEnds(task[t].project)
    /\ Answer(t, Status("stopped", <<task[t].project, running[task[t].project]>>))
    /\ UNCHANGED <<messages, view, due>>

ServeStopCut(t) ==
    /\ Waiting(t) /\ task[t].pc = "first" /\ task[t].kind = "stop"
    /\ SessionCut(task[t].project)
    /\ TaskEnds(t)
    /\ UNCHANGED <<messages, view, due>>

\* The same for the status that a handle asks for.
ServeCheck(h) ==
    /\ page.handle[h].pc = "asking" /\ page.handle[h].reply = NoReply
    /\ exists[page.handle[h].project]
    /\ page' = [page EXCEPT !.handle[h].reply = CurrentStatus(page.handle[h].project)]
    /\ UNCHANGED <<serverVars, messages, task, view, left, due>>

-----------------------------------------------------------------------------
LiveInit ==
    /\ exists = [p \in Projects |-> TRUE] /\ running = [p \in Projects |-> None]
    /\ begun = [p \in Projects |-> 0] /\ closing = {} /\ chat = << >>
    /\ page = [status |-> "stopped", session |-> NoSession, held |-> None,
               handle |-> [h \in Handles |-> Free]]
    /\ messages = << >> /\ due = {}
    /\ task = [t \in Tasks |-> Over] /\ view = NoView /\ left \in Budgets

LiveNext ==
    \/ \E p \in Projects :
          \/ Mount(p) \/ OthersStart(p) \/ OthersStop(p) \/ DeleteProject(p)
          \/ \E k \in 1 .. NumSessions : CloseRoom(p, k) \/ Persist(p, k)
    \/ \E kind \in {"start", "stop"} : Press(kind)
    \/ \E m \in DOMAIN chat : Broadcast(m)
    \/ \E t \in Tasks :
          \/ FirstArrives(t) \/ StopArrives(t) \/ HistoryArrives(t) \/ TaskFails(t)
          \/ ServeRead(t) \/ ServeStart(t) \/ ServeStop(t) \/ ServeStopCut(t)
    \/ \E h \in Handles :
          \/ Admit(h) \/ Register(h) \/ Drop(h) \/ ServeCheck(h) \/ Reconsider(h) \/ CheckFails(h)
          \/ TimerFires(h) \/ Receive(h)

LiveSpec == LiveInit /\ [][LiveNext]_vars

\* The status of a deleted project is an error.
CheckRefused(h) == page.handle[h].pc = "asking" /\ ~exists[page.handle[h].project] /\ CheckFails(h)

\* A handshake is refused or goes on, a status asked for is read or refused and arrives, timers
\* fire, frames arrive: whatever a handle waits for when its session is over comes to pass.
HandleGoesOn(h) ==
    \/ Refuse(h) \/ Register(h) \/ ServeCheck(h) \/ Reconsider(h) \/ CheckRefused(h)
    \/ TimerFires(h) \/ Receive(h)

\* And a Stop that goes on after its UPDATE closes the room.
FairLiveSpec ==
    /\ LiveSpec
    /\ \A h \in Handles : WF_vars(HandleGoesOn(h))
    /\ \A p \in Projects, k \in 1 .. NumSessions : WF_vars(CloseRoom(p, k))

-----------------------------------------------------------------------------
(* Properties.                                                             *)

SessionIds == Projects \X (0 .. NumSessions)
Statuses ==
    [is : {"running"}, session : SessionIds]
    \cup [is : {"stopped"}, session : SessionIds \cup {NoSession}]
Histories == [is : {"history"}, messages : Seq(DOMAIN chat), cast : SUBSET DOMAIN chat]

HandlesInUse ==
    [pc : {"opening", "admitted", "open", "stranded", "asking", "timer"}, project : Projects,
     byCaller : BOOLEAN, frames : Seq({Ended} \cup DOMAIN chat),
     reply : {NoReply} \cup Statuses]

Pages ==
    [status : {"running", "stopped"}, session : SessionIds \cup {NoSession},
     held : Handles \cup {None}, handle : [Handles -> {Free} \cup HandlesInUse]]

TasksUnderWay ==
    [kind : {"refresh", "start", "stop"}, project : Projects, here : BOOLEAN, pc : {"first"},
     session : {NoSession}, reply : {NoReply} \cup Statuses]
    \cup [kind : {"refresh", "start"}, project : Projects, here : BOOLEAN, pc : {"history"},
          session : SessionIds, reply : {NoReply} \cup Histories]

LiveTypeOK ==
    /\ exists \in [Projects -> BOOLEAN] /\ closing \subseteq SessionIds
    /\ running \in [Projects -> 0 .. NumSessions] /\ begun \in [Projects -> 0 .. NumSessions]
    /\ chat \in Seq([session : SessionIds, cast : BOOLEAN])
    /\ page \in Pages
    /\ messages \in Seq(DOMAIN chat) /\ due \subseteq DOMAIN chat
    /\ task \in [Tasks -> {Over} \cup TasksUnderWay]
    /\ view \in Projects \cup {NoView} /\ left \in [tasks : Nat, messages : Nat, ends : Nat]

\* A handle is the store's if and only if it has a socket or may open one: none reopens
\* after its caller closed it, however late an answer or a timer, and the store is never
\* left with one that has given up, which would keep it from connecting again.
HeldIsAlive ==
    \A h \in Handles :
       page.held = h <=>
          \/ page.handle[h].pc \in {"opening", "admitted", "open", "stranded", "timer"}
          \/ page.handle[h].pc = "asking" /\ ~page.handle[h].byCaller

\* While a handle is held, what is shown is of its project, however often the user went
\* from one to another and whatever answers came late.
ShownIsOfProject ==
    page.held # None =>
       \A m \in ToSet(messages) : chat[m].session[1] = page.handle[page.held].project

\* A message that was broadcast to the page, or before its history was read, is shown once,
\* unless it was in transit on a socket that was lost, or was shown by a history that was
\* read before its broadcast or while it was in transit, or wiped by one read before it.
ShownOnce ==
    \A m \in due :
       Cardinality({i \in DOMAIN messages : messages[i] = m})
       + (IF m \in InTransit(page) THEN 1 ELSE 0) = 1

ChatIsShown == ShownIsOfProject /\ ShownOnce

\* When the session of its project is over, the store lets go of its handle, unless another
\* session begins, or the socket is one that no session_ended will reach: open when the
\* project was deleted or a Stop failed after its UPDATE (cut, in GameSession), or admitted
\* before the end and registered when the room had been closed (overtaken).
InVain ==
    /\ page.held # None /\ page.handle[page.held].pc # "stranded"
    /\ running[page.handle[page.held].project] = None
LetsGo == InVain ~> ~InVain

\* A handle that finds its session over, or not, tears down no connection but itself
\* ("Guard on identity so we never tear down a newer connection opened in the meantime",
\* useLiveSessionStore.ts:114).
NewerIsSpared ==
    [][\A h \in Handles :
         page.handle[h].pc = "asking" /\ page.held \notin {None, h} =>
            page'.handle[h].pc = "asking" \/ page'.held = page.held]_vars
=============================================================================
