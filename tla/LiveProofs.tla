----------------------------- MODULE LiveProofs -----------------------------
(***************************************************************************)
(* For every number of projects, handles, functions of panels and sessions *)
(* and every budget: what LiveClient says of the store's handle and of     *)
(* what is shown.                                                          *)
(*                                                                         *)
(* Most steps change the page by one of the store's functions, so what     *)
(* they do to a page is proved first, of any page g. A frame on its way    *)
(* and a history that was read are promises of what will be shown: the     *)
(* invariant says what they hold (FramesAreCast, AnswersFit), and that a   *)
(* message that is due is either in transit or shown, once (Once).         *)
(***************************************************************************)
EXTENDS LiveClient, FiniteSetTheorems, TLAPS

\* It has a socket, or may open one.
Alive(x) ==
    \/ x.pc \in {"opening", "admitted", "open", "stranded", "timer"}
    \/ x.pc = "asking" /\ ~x.byCaller

\* HeldIsAlive, of any page; and a handle that was closed by its caller waits for nothing
\* but the answer that shouldReconnect asked for.
HoldsAlive(g) ==
    /\ \A h \in Handles : g.held = h <=> Alive(g.handle[h])
    /\ \A h \in Handles :
         g.handle[h] # Free /\ g.handle[h].byCaller => g.handle[h].pc = "asking"

IsMessageOf(m, p) == m \in DOMAIN chat /\ chat[m].session[1] = p
IsCast(m) == m \in DOMAIN chat /\ chat[m].cast

\* No element of s but those in X is there twice.
Distinct(s, X) == \A i, j \in DOMAIN s : s[i] = s[j] => i = j \/ s[i] \in X

\* Frames are messages that were broadcast to the project's room, each of them once.
GoodFrames(x) ==
    /\ \A i \in DOMAIN x.frames :
         x.frames[i] # Ended => IsMessageOf(x.frames[i], x.project) /\ IsCast(x.frames[i])
    /\ Distinct(x.frames, {Ended})
FramesAreCast(g) == \A h \in Handles : g.handle[h] # Free => GoodFrames(g.handle[h])

GoodHistory(r, p) ==
    /\ \A i \in DOMAIN r.messages : IsMessageOf(r.messages[i], p)
    /\ Distinct(r.messages, {})
    /\ \A m \in r.cast : IsCast(m) /\ m \in ToSet(r.messages)

\* What a function of a panel is told is about its project.
AnswerFits(x) ==
    /\ x.pc = "first" /\ x.reply # NoReply /\ x.reply.is = "running" =>
         x.reply.session[1] = x.project
    /\ x.pc = "history" => x.session[1] = x.project
    /\ x.pc = "history" /\ x.reply # NoReply => GoodHistory(x.reply, x.project)
AnswersFit == \A t \in Tasks : task[t] # Over => AnswerFits(task[t])

DueIsCast == \A m \in due : IsCast(m)

\* ShownOnce, without counting.
Once ==
    \A m \in due :
        /\ m \in InTransit(page) <=> m \notin ToSet(messages)
        /\ \A i, j \in DOMAIN messages : messages[i] = m /\ messages[j] = m => i = j

ServerIsSound ==
    /\ exists \in [Projects -> BOOLEAN] /\ closing \subseteq SessionIds
    /\ running \in [Projects -> 0 .. NumSessions] /\ begun \in [Projects -> 0 .. NumSessions]
    /\ chat \in Seq([session : SessionIds, cast : BOOLEAN])

PageIsSound ==
    /\ page \in Pages /\ HoldsAlive(page) /\ FramesAreCast(page)
    /\ messages \in Seq(DOMAIN chat) /\ due \subseteq DOMAIN chat
    /\ DueIsCast /\ ShownIsOfProject /\ Once

Lefts == [tasks : Nat, messages : Nat, ends : Nat]

TasksAreSound ==
    /\ task \in [Tasks -> {Over} \cup TasksUnderWay] /\ AnswersFit
    /\ view \in Projects \cup {NoView} /\ left \in Lefts

LiveInv == ServerIsSound /\ PageIsSound /\ TasksAreSound

-----------------------------------------------------------------------------
(* Handles and pages.                                                      *)

SomeHandle == {Free} \cup HandlesInUse
Pcs == {"opening", "admitted", "open", "stranded", "asking", "timer"}

LEMMA HandleKinds ==
  ASSUME NEW x \in SomeHandle
  PROVE  /\ x = Free => x.pc = "free" /\ ~Alive(x)
         /\ x # Free => /\ x \in HandlesInUse /\ x.pc \in Pcs /\ x.project \in Projects
                        /\ x.byCaller \in BOOLEAN
                        /\ x.frames \in Seq({Ended} \cup DOMAIN chat)
                        /\ x.reply \in {NoReply} \cup Statuses
  BY DEF SomeHandle, Free, HandlesInUse, Alive, Pcs

\* A handle with some of its fields changed.
LEMMA HandleWith ==
  ASSUME NEW x \in HandlesInUse, NEW pc \in Pcs, NEW b \in BOOLEAN,
         NEW fs \in Seq({Ended} \cup DOMAIN chat), NEW r \in {NoReply} \cup Statuses
  PROVE  LET y == [x EXCEPT !.pc = pc, !.byCaller = b, !.frames = fs, !.reply = r]
         IN /\ y \in HandlesInUse /\ y # Free
            /\ y.pc = pc /\ y.byCaller = b /\ y.frames = fs /\ y.reply = r
            /\ y.project = x.project
  BY DEF HandlesInUse, Pcs, Free

With(g, h, x) == [g EXCEPT !.handle[h] = x]

LEMMA PageWith ==
  ASSUME NEW g \in Pages, NEW h \in Handles, NEW x \in SomeHandle
  PROVE  /\ With(g, h, x) \in Pages
         /\ With(g, h, x).handle = [g.handle EXCEPT ![h] = x]
         /\ With(g, h, x).handle[h] = x
         /\ \A k \in Handles : k # h => With(g, h, x).handle[k] = g.handle[k]
         /\ \A k \in Handles : With(g, h, x).handle[k] \in SomeHandle
         /\ With(g, h, x).held = g.held
         /\ With(g, h, x).status = g.status /\ With(g, h, x).session = g.session
  BY DEF Pages, With, SomeHandle

LEMMA PageHandles ==
  ASSUME NEW g \in Pages
  PROVE  /\ \A h \in Handles : g.handle[h] \in SomeHandle
         /\ g.held \in Handles \cup {None} /\ None \notin Handles
         /\ DOMAIN g.handle = Handles
  BY LiveAssumption DEF Pages, SomeHandle, Handles, None

LEMMA PcChange ==
  ASSUME NEW g \in Pages, NEW h \in Handles, NEW v
  PROVE  [g EXCEPT !.handle[h].pc = v] = With(g, h, [g.handle[h] EXCEPT !.pc = v])
  BY DEF Pages, With

LEMMA AskingIs ==
  ASSUME NEW g \in Pages, NEW h \in Handles
  PROVE  Asking(g, h) =
           With(g, h, [g.handle[h] EXCEPT !.pc = "asking", !.reply = NoReply, !.frames = << >>])
  BY DEF Pages, With, Asking

\* y is x, without its frames perhaps, or is given up.
Stays(x, y) ==
    \/ y = Free
    \/ x # Free /\ y.project = x.project /\ y.frames \in {x.frames, << >>}

\* f is what g may become by what the store does, opening no socket and receiving no frame.
Moves(g, f) ==
    /\ f \in Pages /\ HoldsAlive(f)
    /\ f.held \in {g.held, None}
    /\ \A h \in Handles : Stays(g.handle[h], f.handle[h])

LEMMA StaysMeans ==
  ASSUME NEW x \in SomeHandle, NEW y \in SomeHandle, NEW z \in SomeHandle
  PROVE  /\ Stays(x, x)
         /\ Stays(x, y) /\ Stays(y, z) => Stays(x, z)
  BY HandleKinds DEF Stays

LEMMA MovesOn ==
  ASSUME NEW g \in Pages, NEW f, Moves(g, f), NEW e, Moves(f, e)
  PROVE  Moves(g, e)
  <1>1. \A h \in Handles : g.handle[h] \in SomeHandle /\ f.handle[h] \in SomeHandle
                           /\ e.handle[h] \in SomeHandle
    BY PageHandles DEF Moves
  <1>2. \A h \in Handles : Stays(g.handle[h], e.handle[h])
    BY <1>1, StaysMeans DEF Moves
  <1> QED  BY <1>2 DEF Moves

LEMMA MovesSelf ==
  ASSUME NEW g \in Pages, HoldsAlive(g)
  PROVE  Moves(g, g)
  <1>1. \A h \in Handles : g.handle[h] \in SomeHandle
    BY PageHandles
  <1>2. \A h \in Handles : Stays(g.handle[h], g.handle[h])
    BY <1>1, StaysMeans
  <1> QED  BY <1>2 DEF Moves

\* One handle changes, and stays as alive as it was.
LEMMA OneMoves ==
  ASSUME NEW g \in Pages, HoldsAlive(g), NEW h \in Handles, NEW x \in SomeHandle,
         Stays(g.handle[h], x), Alive(x) <=> Alive(g.handle[h]),
         x # Free /\ x.byCaller => x.pc = "asking"
  PROVE  Moves(g, With(g, h, x)) /\ With(g, h, x).held = g.held
  <1> DEFINE f == With(g, h, x)
  <1>1. /\ f \in Pages /\ f.held = g.held /\ f.handle[h] = x
        /\ f.handle = [g.handle EXCEPT ![h] = x]
        /\ \A k \in Handles : k # h => f.handle[k] = g.handle[k]
        /\ f.status = g.status /\ f.session = g.session
    BY PageWith
  <1>2. \A k \in Handles : g.handle[k] \in SomeHandle
    BY PageHandles
  <1> HIDE DEF f
  <1>3. HoldsAlive(f)
    BY <1>1 DEF HoldsAlive
  <1>4. \A k \in Handles : Stays(g.handle[k], f.handle[k])
    BY <1>1, <1>2, StaysMeans
  <1>5. Moves(g, f) /\ f.held = g.held
    BY <1>1, <1>3, <1>4 DEF Moves
  <1> QED  BY <1>5 DEF f

\* The store lets go of its handle, which is dead from then on.
Without(g, h, x) == [With(g, h, x) EXCEPT !.held = None]

LEMMA HeldMoves ==
  ASSUME NEW g \in Pages, HoldsAlive(g), NEW h \in Handles, g.held = h, NEW x \in SomeHandle,
         Stays(g.handle[h], x), ~Alive(x),
         x # Free /\ x.byCaller => x.pc = "asking"
  PROVE  /\ Moves(g, Without(g, h, x)) /\ Without(g, h, x).held = None
         /\ Without(g, h, x).handle = [g.handle EXCEPT ![h] = x]
         /\ Without(g, h, x).status = g.status /\ Without(g, h, x).session = g.session
  <1> DEFINE e == With(g, h, x)
             f == [e EXCEPT !.held = None]
  <1>1. /\ e \in Pages /\ e.held = g.held /\ e.handle[h] = x
        /\ e.handle = [g.handle EXCEPT ![h] = x]
        /\ \A k \in Handles : k # h => e.handle[k] = g.handle[k]
        /\ e.status = g.status /\ e.session = g.session
    BY PageWith
  <1>2. \A k \in Handles : g.handle[k] \in SomeHandle
    BY PageHandles
  <1> HIDE DEF e
  <1>3. /\ f \in Pages /\ f.held = None /\ f.handle = e.handle
        /\ f.status = e.status /\ f.session = e.session
    BY <1>1 DEF Pages
  <1> HIDE DEF f
  <1>4. None \notin Handles
    BY PageHandles
  <1>5. HoldsAlive(f)
    BY <1>1, <1>3, <1>4 DEF HoldsAlive
  <1>6. \A k \in Handles : Stays(g.handle[k], f.handle[k])
    BY <1>1, <1>2, <1>3, StaysMeans
  <1>7. Moves(g, f)
    BY <1>3, <1>5, <1>6 DEF Moves
  <1>8. f = Without(g, h, x)
    BY DEF f, e, Without
  <1> QED  BY <1>1, <1>3, <1>7, <1>8

-----------------------------------------------------------------------------
(* The functions of the store.                                             *)

LEMMA ClosedIsDead ==
  ASSUME NEW x \in SomeHandle
  PROVE  /\ Closed(x) \in SomeHandle /\ ~Alive(Closed(x)) /\ Stays(x, Closed(x))
         /\ Closed(x) # Free /\ Closed(x).byCaller => Closed(x).pc = "asking"
  <1>1. CASE x.pc = "asking"
    <2> DEFINE y == [x EXCEPT !.byCaller = TRUE]
    <2>1. x \in HandlesInUse
      BY <1>1, HandleKinds
    <2>2. y \in HandlesInUse /\ y.pc = "asking" /\ y.byCaller = TRUE /\ y # Free
          /\ y.project = x.project /\ y.frames = x.frames
      BY <1>1, <2>1 DEF HandlesInUse, Free
    <2>3. Closed(x) = y
      BY <1>1 DEF Closed
    <2> HIDE DEF y
    <2>4. x # Free
      BY <1>1 DEF Free
    <2> QED  BY <2>2, <2>3, <2>4 DEF SomeHandle, Alive, Stays
  <1>2. CASE x.pc # "asking"
    <2>1. Closed(x) = Free
      BY <1>2 DEF Closed
    <2> QED  BY <2>1, HandleKinds DEF SomeHandle, Stays
  <1> QED  BY <1>1, <1>2

LEMMA DisconnectMoves ==
  ASSUME NEW g \in Pages, HoldsAlive(g)
  PROVE  /\ Moves(g, Disconnect(g)) /\ Disconnect(g).held = None
         /\ Disconnect(g).status = g.status /\ Disconnect(g).session = g.session
         /\ \A h \in Handles : h # g.held => Disconnect(g).handle[h] = g.handle[h]
  <1>1. CASE g.held = None
    BY <1>1, MovesSelf DEF Disconnect
  <1>2. CASE g.held # None
    <2> DEFINE h == g.held
               x == Closed(g.handle[h])
    <2>1. h \in Handles /\ g.handle[h] \in SomeHandle /\ DOMAIN g.handle = Handles
      BY <1>2, PageHandles
    <2>2. /\ x \in SomeHandle /\ ~Alive(x) /\ Stays(g.handle[h], x)
          /\ x # Free /\ x.byCaller => x.pc = "asking"
      BY <2>1, ClosedIsDead
    <2>3. Disconnect(g) = Without(g, h, x)
      BY <1>2, <2>1 DEF Disconnect, Without, With, Pages
    <2> HIDE DEF x
    <2>4. /\ Moves(g, Without(g, h, x)) /\ Without(g, h, x).held = None
          /\ Without(g, h, x).handle = [g.handle EXCEPT ![h] = x]
          /\ Without(g, h, x).status = g.status /\ Without(g, h, x).session = g.session
      BY <2>1, <2>2, HeldMoves
    <2> QED  BY <2>1, <2>3, <2>4
  <1> QED  BY <1>1, <1>2

LEMMA ApplySessionMoves ==
  ASSUME NEW g \in Pages, HoldsAlive(g), NEW r \in Statuses
  PROVE  /\ Moves(g, ApplySession(g, r))
         /\ ApplySession(g, r).held = g.held /\ ApplySession(g, r).handle = g.handle
         /\ ApplySession(g, r).status = r.is /\ ApplySession(g, r).session = r.session
  <1> DEFINE f == [g EXCEPT !.status = r.is, !.session = r.session]
  <1>1. f \in Pages /\ f.held = g.held /\ f.handle = g.handle
        /\ f.status = r.is /\ f.session = r.session
    BY DEF Pages, Statuses
  <1> HIDE DEF f
  <1>2. HoldsAlive(f)
    BY <1>1 DEF HoldsAlive
  <1>3. Moves(g, f)
    BY <1>1, <1>2, MovesSelf DEF Moves
  <1>4. f = ApplySession(g, r)
    BY DEF f, ApplySession
  <1> QED  BY <1>1, <1>3, <1>4

\* A handle of the project asked about, held or not, is left alone.
LEMMA FetchStatusMoves ==
  ASSUME NEW g \in Pages, HoldsAlive(g), NEW p, NEW r \in Statuses
  PROVE  /\ Moves(g, FetchStatus(g, p, r))
         /\ FetchStatus(g, p, r).status = r.is /\ FetchStatus(g, p, r).session = r.session
         /\ \A h \in Handles : g.handle[h].project = p =>
              FetchStatus(g, p, r).handle[h] = g.handle[h]
  <1>1. CASE g.held # None /\ g.handle[g.held].project # p
    <2> DEFINE d == Disconnect(g)
    <2>1. /\ Moves(g, d)
          /\ \A h \in Handles : h # g.held => d.handle[h] = g.handle[h]
      BY DisconnectMoves
    <2>2. d \in Pages /\ HoldsAlive(d)
      BY <2>1 DEF Moves
    <2> HIDE DEF d
    <2>3. Moves(d, ApplySession(d, r)) /\ ApplySession(d, r).handle = d.handle
          /\ ApplySession(d, r).status = r.is /\ ApplySession(d, r).session = r.session
      BY <2>2, ApplySessionMoves
    <2>4. FetchStatus(g, p, r) = ApplySession(d, r)
      BY <1>1 DEF FetchStatus, d
    <2>5. Moves(g, ApplySession(d, r))
      BY <2>1, <2>3, MovesOn
    <2> QED  BY <1>1, <2>1, <2>3, <2>4, <2>5
  <1>2. CASE ~(g.held # None /\ g.handle[g.held].project # p)
    <2>1. FetchStatus(g, p, r) = ApplySession(g, r)
      BY <1>2 DEF FetchStatus
    <2> QED  BY <2>1, ApplySessionMoves
  <1> QED  BY <1>1, <1>2

LEMMA DecideMoves ==
  ASSUME NEW g \in Pages, HoldsAlive(g), NEW h \in Handles, g.handle[h].pc = "asking",
         NEW ok \in BOOLEAN
  PROVE  Moves(g, Decide(g, h, ok))
  <1> DEFINE x == g.handle[h]
  <1>1. x \in SomeHandle /\ x # Free
    BY PageHandles DEF Free
  <1>2. x \in HandlesInUse
    BY <1>1, HandleKinds
  <1>3. CASE ok /\ ~x.byCaller
    <2> DEFINE y == [x EXCEPT !.pc = "timer", !.reply = NoReply]
    <2>1. y \in HandlesInUse /\ y.pc = "timer" /\ y.byCaller = x.byCaller
          /\ y.project = x.project /\ y.frames = x.frames
      BY <1>2 DEF HandlesInUse
    <2>2. Decide(g, h, ok) = With(g, h, y)
      BY <1>3 DEF Decide, With, Pages
    <2> HIDE DEF y
    <2>3. y \in SomeHandle /\ Stays(x, y) /\ Alive(y) /\ Alive(x) /\ ~y.byCaller
      BY <1>1, <1>3, <2>1 DEF SomeHandle, Stays, Alive
    <2> QED  BY <2>2, <2>3, OneMoves
  <1>4. CASE ~(ok /\ ~x.byCaller)
    <2>1. Free \in SomeHandle /\ Stays(x, Free) /\ ~Alive(Free)
      BY HandleKinds DEF SomeHandle, Stays
    <2>2. Decide(g, h, ok) = GiveUp(With(g, h, Free), h)
      BY <1>4 DEF Decide, With
    <2>3. With(g, h, Free).held = g.held
      BY <2>1, PageWith
    <2>4. CASE g.held = h
      <3>1. Decide(g, h, ok) = Without(g, h, Free)
        BY <2>2, <2>3, <2>4 DEF GiveUp, Without
      <3>2. Moves(g, Without(g, h, Free)) /\ Without(g, h, Free).held = None
        BY <2>1, <2>4, HeldMoves
      <3> QED  BY <3>1, <3>2
    <2>5. CASE g.held # h
      <3>1. Decide(g, h, ok) = With(g, h, Free)
        BY <2>2, <2>3, <2>5 DEF GiveUp
      <3>2. ~Alive(x)
        BY <2>5 DEF HoldsAlive
      <3> QED  BY <2>1, <3>1, <3>2, OneMoves
    <2> QED  BY <2>4, <2>5
  <1> QED  BY <1>3, <1>4

LEMMA AskingMoves ==
  ASSUME NEW g \in Pages, HoldsAlive(g), NEW h \in Handles, HasSocket(g.handle[h])
  PROVE  Moves(g, Asking(g, h))
  <1> DEFINE x == g.handle[h]
             y == [x EXCEPT !.pc = "asking", !.reply = NoReply, !.frames = << >>]
  <1>1. x.pc \in {"opening", "admitted", "open", "stranded"}
    BY DEF HasSocket, IsOpen
  <1>2. x \in SomeHandle /\ x # Free
    BY <1>1, PageHandles DEF Free
  <1>3. x \in HandlesInUse /\ ~x.byCaller
    BY <1>1, <1>2, HandleKinds DEF HoldsAlive
  <1>4. << >> \in Seq({Ended} \cup DOMAIN chat)
    OBVIOUS
  <1>5. y \in HandlesInUse /\ y.pc = "asking" /\ y.byCaller = x.byCaller
        /\ y.project = x.project /\ y.frames = << >>
    BY <1>4, <1>3 DEF HandlesInUse
  <1>6. Asking(g, h) = With(g, h, y)
    BY AskingIs
  <1> HIDE DEF y
  <1>7. y \in SomeHandle /\ Stays(x, y) /\ Alive(y) /\ Alive(x) /\ ~y.byCaller
    BY <1>1, <1>2, <1>3, <1>5 DEF SomeHandle, Stays, Alive
  <1> QED  BY <1>6, <1>7, OneMoves

\* A handle that lives goes on to another step.
LEMMA PcMoves ==
  ASSUME NEW g \in Pages, HoldsAlive(g), NEW h \in Handles,
         g.handle[h].pc \in Pcs \ {"asking"}, NEW v \in Pcs \ {"asking"}
  PROVE  /\ Moves(g, [g EXCEPT !.handle[h].pc = v])
         /\ InTransit([g EXCEPT !.handle[h].pc = v]) = InTransit(g)
  <1> DEFINE x == g.handle[h]
             y == [x EXCEPT !.pc = v]
  <1>1. x \in SomeHandle /\ x # Free
    BY PageHandles DEF Free, Pcs
  <1>2. x \in HandlesInUse /\ ~x.byCaller
    BY <1>1, HandleKinds DEF HoldsAlive, Pcs
  <1>3. y \in HandlesInUse /\ y.pc = v /\ y.byCaller = x.byCaller
        /\ y.project = x.project /\ y.frames = x.frames
    BY <1>2 DEF HandlesInUse, Pcs
  <1>4. [g EXCEPT !.handle[h].pc = v] = With(g, h, y)
    BY PcChange
  <1> HIDE DEF y
  <1>5. y \in SomeHandle /\ Stays(x, y) /\ Alive(y) /\ Alive(x) /\ ~y.byCaller
    BY <1>1, <1>2, <1>3 DEF SomeHandle, Stays, Alive, Pcs
  <1>6. Moves(g, With(g, h, y)) /\ With(g, h, y).held = g.held
    BY <1>5, OneMoves
  <1>7. /\ With(g, h, y).handle = [g.handle EXCEPT ![h] = y]
        /\ With(g, h, y).handle[h] = y
        /\ \A k \in Handles : k # h => With(g, h, y).handle[k] = g.handle[k]
        /\ With(g, h, y).status = g.status
    BY <1>5, PageWith
  <1>8. g.held \in Handles \cup {None}
    BY PageHandles
  <1>9. InTransit(With(g, h, y)) = InTransit(g)
    BY <1>3, <1>6, <1>7, <1>8 DEF InTransit
  <1> QED  BY <1>4, <1>6, <1>9

\* What is in transit after a move was so before, to the same handle.
LEMMA TransitShrinks ==
  ASSUME NEW g \in Pages, HoldsAlive(g), NEW f, Moves(g, f)
  PROVE  /\ InTransit(f) \subseteq InTransit(g)
         /\ f.held # None => /\ f.held = g.held /\ f.held \in Handles
                             /\ f.handle[f.held].project = g.handle[g.held].project
  <1>1. CASE f.held = None
    BY <1>1 DEF InTransit
  <1>2. CASE f.held # None
    <2>1. f.held = g.held /\ f.held \in Handles
      BY <1>2, PageHandles DEF Moves
    <2>2. Alive(f.handle[f.held])
      BY <2>1 DEF Moves, HoldsAlive
    <2>3. f.handle[f.held] # Free
      BY <2>2 DEF Alive, Free
    <2>4. /\ f.handle[f.held].project = g.handle[g.held].project
          /\ f.handle[f.held].frames \in {g.handle[g.held].frames, << >>}
      BY <2>1, <2>3 DEF Moves, Stays
    <2>5. ToSet(<< >>) = {}
      BY DEF ToSet
    <2>6. InTransit(f) \subseteq InTransit(g)
      BY <1>2, <2>1, <2>4, <2>5 DEF InTransit
    <2> QED  BY <2>1, <2>4, <2>6
  <1> QED  BY <1>1, <1>2

\* What is known of the frames of a page is known when it is the next one.
LEMMA FramesOfNext ==
  ASSUME NEW g, FramesAreCast(g), page' = g, UNCHANGED chat
  PROVE  FramesAreCast(page)'
  BY DEF FramesAreCast, GoodFrames, IsMessageOf, IsCast

\* The store goes on.
LEMMA PageGoesOn ==
  ASSUME PageIsSound, NEW g, Moves(page, g), GoesOn(g), UNCHANGED <<chat, messages>>
  PROVE  PageIsSound'
  <1>1. page' = g /\ due' = due \ (InTransit(page) \ InTransit(g))
    BY DEF GoesOn
  <1>2. /\ InTransit(g) \subseteq InTransit(page)
        /\ g.held # None => /\ g.held = page.held /\ g.held \in Handles
                            /\ g.handle[g.held].project = page.handle[page.held].project
    BY TransitShrinks DEF PageIsSound
  <1>3. (page \in Pages)' /\ HoldsAlive(page)'
    BY <1>1 DEF Moves, Pages, SomeHandle, HandlesInUse, Statuses, SessionIds, HoldsAlive
  <1>4. FramesAreCast(page)'
    <2> SUFFICES ASSUME NEW h \in Handles, g.handle[h] # Free
                 PROVE  GoodFrames(g.handle[h])
      BY <1>1, FramesOfNext DEF FramesAreCast
    <2>1. /\ page.handle[h] # Free /\ g.handle[h].project = page.handle[h].project
          /\ g.handle[h].frames \in {page.handle[h].frames, << >>}
      BY DEF Moves, Stays
    <2>2. GoodFrames(page.handle[h])
      BY <2>1 DEF PageIsSound, FramesAreCast
    <2> QED  BY <2>1, <2>2 DEF GoodFrames, Distinct
  <1>5. /\ messages' \in Seq(DOMAIN chat') /\ due' \subseteq DOMAIN chat' /\ DueIsCast'
    BY <1>1 DEF PageIsSound, DueIsCast, IsCast
  <1>6. ShownIsOfProject'
    BY <1>1, <1>2 DEF PageIsSound, ShownIsOfProject
  <1>7. Once'
    <2> SUFFICES ASSUME NEW m \in due'
                 PROVE  /\ m \in InTransit(g) <=> m \notin ToSet(messages)
                        /\ \A i, j \in DOMAIN messages :
                             messages[i] = m /\ messages[j] = m => i = j
      BY <1>1 DEF Once, InTransit
    <2>1. m \in due /\ (m \in InTransit(page) <=> m \in InTransit(g))
      BY <1>1, <1>2
    <2> QED  BY <2>1 DEF PageIsSound, Once
  <1> QED  BY <1>3, <1>4, <1>5, <1>6, <1>7 DEF PageIsSound

-----------------------------------------------------------------------------
(* Sequences.                                                              *)

LEMMA HeadAndTail ==
  ASSUME NEW S, NEW s \in Seq(S), s # << >>, NEW X
  PROVE  /\ Head(s) = s[1] /\ 1 \in DOMAIN s /\ Tail(s) \in Seq(S)
         /\ \A i \in DOMAIN Tail(s) : i \in Nat \ {0} /\ i + 1 \in DOMAIN s /\ Tail(s)[i] = s[i + 1]
         /\ ToSet(s) = ToSet(Tail(s)) \cup {Head(s)}
         /\ Distinct(s, X) => /\ Distinct(Tail(s), X)
                              /\ Head(s) \notin X => Head(s) \notin ToSet(Tail(s))
  <1>1. Len(s) \in Nat \ {0} /\ DOMAIN s = 1 .. Len(s) /\ Head(s) = s[1]
    OBVIOUS
  <1>2. Tail(s) \in Seq(S) /\ Len(Tail(s)) = Len(s) - 1
    BY <1>1
  <1>3. DOMAIN Tail(s) = 1 .. (Len(s) - 1)
    BY <1>2
  <1>4. \A i \in DOMAIN Tail(s) : i \in Nat \ {0} /\ i + 1 \in DOMAIN s
    BY <1>1, <1>3
  <1>5. \A i \in DOMAIN Tail(s) : Tail(s)[i] = s[i + 1]
    BY <1>1, <1>3
  <1>6. \A j \in DOMAIN s : j = 1 \/ (j - 1 \in DOMAIN Tail(s) /\ (j - 1) + 1 = j)
    BY <1>1, <1>3
  <1>7. \A j \in DOMAIN s : j = 1 \/ Tail(s)[j - 1] = s[j]
    BY <1>5, <1>6
  <1>8. ToSet(s) = ToSet(Tail(s)) \cup {Head(s)}
    <2>1. \A e \in ToSet(s) : e \in ToSet(Tail(s)) \cup {Head(s)}
      <3> SUFFICES ASSUME NEW j \in DOMAIN s
                   PROVE  s[j] \in ToSet(Tail(s)) \cup {Head(s)}
        BY DEF ToSet
      <3>1. CASE j = 1
        BY <3>1, <1>1
      <3>2. CASE j # 1
        <4>1. j - 1 \in DOMAIN Tail(s) /\ Tail(s)[j - 1] = s[j]
          BY <1>6, <1>7, <3>2
        <4> QED  BY <4>1 DEF ToSet
      <3> QED  BY <3>1, <3>2
    <2>2. \A e \in ToSet(Tail(s)) : e \in ToSet(s)
      BY <1>4, <1>5 DEF ToSet
    <2>3. Head(s) \in ToSet(s)
      BY <1>1 DEF ToSet
    <2> QED  BY <2>1, <2>2, <2>3
  <1>9. ASSUME Distinct(s, X)
        PROVE  /\ Distinct(Tail(s), X)
               /\ Head(s) \notin X => Head(s) \notin ToSet(Tail(s))
    <2>1. ASSUME NEW i \in DOMAIN Tail(s), NEW j \in DOMAIN Tail(s), Tail(s)[i] = Tail(s)[j]
          PROVE  i = j \/ Tail(s)[i] \in X
      <3>1. i + 1 \in DOMAIN s /\ j + 1 \in DOMAIN s /\ s[i + 1] = s[j + 1]
            /\ i \in Nat /\ j \in Nat
        BY <1>4, <1>5, <2>1
      <3>2. i + 1 = j + 1 \/ s[i + 1] \in X
        BY <1>9, <3>1 DEF Distinct
      <3> QED  BY <1>5, <3>1, <3>2
    <2>2. ASSUME NEW i \in DOMAIN Tail(s), Tail(s)[i] = Head(s)
          PROVE  Head(s) \in X
      <3>1. i + 1 \in DOMAIN s /\ s[i + 1] = s[1] /\ 1 \in DOMAIN s /\ i + 1 # 1
        BY <1>1, <1>4, <1>5, <2>2
      <3> QED  BY <1>1, <1>9, <3>1 DEF Distinct
    <2> QED  BY <2>1, <2>2 DEF Distinct, ToSet
  <1> QED  BY <1>1, <1>2, <1>4, <1>5, <1>8, <1>9

LEMMA ElementsIn ==
  ASSUME NEW S, NEW s \in Seq(S)
  PROVE  /\ \A i \in DOMAIN s : s[i] \in S /\ i \in Nat \ {0} /\ i <= Len(s)
         /\ DOMAIN s = 1 .. Len(s) /\ Len(s) \in Nat
  OBVIOUS

LEMMA Overwritten ==
  ASSUME NEW S, NEW s \in Seq(S), NEW i \in DOMAIN s, NEW e \in S
  PROVE  LET t == [s EXCEPT ![i] = e]
         IN /\ t \in Seq(S) /\ DOMAIN t = DOMAIN s /\ t[i] = e
            /\ \A j \in DOMAIN s : j # i => t[j] = s[j]
  OBVIOUS

LEMMA AppendedTo ==
  ASSUME NEW S, NEW s \in Seq(S), NEW e \in S, NEW X
  PROVE  /\ Append(s, e) \in Seq(S) /\ Len(s) \in Nat
         /\ \A i \in DOMAIN Append(s, e) :
              \/ i \in DOMAIN s /\ Append(s, e)[i] = s[i]
              \/ i = Len(s) + 1 /\ Append(s, e)[i] = e
         /\ \A i \in DOMAIN s : i \in DOMAIN Append(s, e) /\ Append(s, e)[i] = s[i]
         /\ ToSet(Append(s, e)) = ToSet(s) \cup {e}
         /\ Distinct(s, X) /\ (e \in X \/ e \notin ToSet(s)) => Distinct(Append(s, e), X)
  <1> DEFINE t == Append(s, e)
  <1>1. /\ t \in Seq(S) /\ Len(s) \in Nat /\ Len(t) = Len(s) + 1
        /\ DOMAIN s = 1 .. Len(s) /\ DOMAIN t = 1 .. Len(s) + 1
        /\ t[Len(s) + 1] = e
        /\ \A i \in 1 .. Len(s) : t[i] = s[i]
    OBVIOUS
  <1> HIDE DEF t
  <1>2. \A i \in DOMAIN t :
           \/ i \in DOMAIN s /\ t[i] = s[i]
           \/ i = Len(s) + 1 /\ t[i] = e
    BY <1>1
  <1>3. \A i \in DOMAIN s : i \in DOMAIN t /\ t[i] = s[i]
    BY <1>1
  <1>4. Len(s) + 1 \in DOMAIN t
    BY <1>1
  <1>5. ToSet(t) = ToSet(s) \cup {e}
    <2>1. \A y \in ToSet(t) : y \in ToSet(s) \cup {e}
      BY <1>2 DEF ToSet
    <2>2. \A y \in ToSet(s) : y \in ToSet(t)
      BY <1>3 DEF ToSet
    <2>3. e \in ToSet(t)
      BY <1>1, <1>4 DEF ToSet
    <2> QED  BY <2>1, <2>2, <2>3
  <1>6. ASSUME Distinct(s, X), e \in X \/ e \notin ToSet(s)
        PROVE  Distinct(t, X)
    <2> SUFFICES ASSUME NEW i \in DOMAIN t, NEW j \in DOMAIN t, t[i] = t[j], e \notin X \/ t[i] # e
                 PROVE  i = j \/ t[i] \in X
      BY DEF Distinct
    <2>1. CASE i \in DOMAIN s /\ t[i] = s[i] /\ j \in DOMAIN s /\ t[j] = s[j]
      BY <1>6, <2>1 DEF Distinct
    <2>2. CASE t[i] = e
      <3>1. e \notin ToSet(s)
        BY <1>6, <2>2
      <3>2. i = Len(s) + 1
        BY <1>2, <2>2, <3>1 DEF ToSet
      <3>3. j = Len(s) + 1
        BY <1>2, <2>2, <3>1 DEF ToSet
      <3> QED  BY <3>2, <3>3
    <2> QED  BY <1>2, <2>1, <2>2
  <1>7. /\ t \in Seq(S) /\ Len(s) \in Nat
        /\ Distinct(s, X) /\ (e \in X \/ e \notin ToSet(s)) => Distinct(t, X)
    BY <1>1, <1>6
  <1> QED  BY <1>2, <1>3, <1>5, <1>7 DEF t


-----------------------------------------------------------------------------
(* Frames.                                                                 *)

\* Nothing but chat matters to what is known of a frame or a message.
LEMMA GoodFramesStay ==
  ASSUME NEW x, GoodFrames(x), DOMAIN chat \subseteq DOMAIN chat',
         \A m \in DOMAIN chat : /\ chat'[m].session = chat[m].session
                                /\ chat[m].cast => chat'[m].cast
  PROVE  GoodFrames(x)'
  BY DEF GoodFrames, IsMessageOf, IsCast

\* One handle of the page has other frames, and the same project.
WithFrames(h, fs) == [page EXCEPT !.handle[h].frames = fs]

LEMMA FramesChange ==
  ASSUME page \in Pages, HoldsAlive(page), NEW h \in Handles, page.handle[h] # Free,
         NEW fs \in Seq({Ended} \cup DOMAIN chat)
  PROVE  LET f == WithFrames(h, fs)
         IN /\ f \in Pages /\ HoldsAlive(f) /\ f.held = page.held
            /\ f.handle[h] # Free /\ f.handle[h].frames = fs
            /\ f.handle[h].project = page.handle[h].project
            /\ f.handle[h].pc = page.handle[h].pc
            /\ \A k \in Handles : k # h => f.handle[k] = page.handle[k]
  <1>1. PICK x : x = page.handle[h]
    OBVIOUS
  <1> DEFINE y == [x EXCEPT !.frames = fs]
             f == With(page, h, y)
  <1>2. x \in SomeHandle /\ x # Free /\ DOMAIN page.handle = Handles
    BY <1>1, PageHandles
  <1>3. x \in HandlesInUse
    BY <1>2, HandleKinds
  <1>4. y \in HandlesInUse /\ y.pc = x.pc /\ y.byCaller = x.byCaller
        /\ y.project = x.project /\ y.frames = fs /\ y # Free
    BY <1>3 DEF HandlesInUse, Free
  <1>5. f = WithFrames(h, fs)
    BY <1>1, <1>2 DEF With, Pages, WithFrames
  <1> HIDE DEF y
  <1>6. /\ f \in Pages /\ f.handle[h] = y
        /\ f.handle = [page.handle EXCEPT ![h] = y]
        /\ \A k \in Handles : k # h => f.handle[k] = page.handle[k]
        /\ f.held = page.held
    BY <1>4, PageWith DEF SomeHandle
  <1> HIDE DEF f
  <1>7. HoldsAlive(f)
    BY <1>1, <1>4, <1>6 DEF HoldsAlive, Alive
  <1> QED  BY <1>1, <1>4, <1>5, <1>6, <1>7

\* The handle that is in the room receives a message.
LEMMA MessageReceived ==
  ASSUME PageIsSound, NEW h \in Handles, IsOpen(page.handle[h]),
         page.handle[h].frames # << >>, Head(page.handle[h].frames) # Ended,
         page' = [page EXCEPT !.handle[h].frames = Tail(@)],
         messages' = Append(messages, Head(page.handle[h].frames)),
         UNCHANGED <<chat, due>>
  PROVE  PageIsSound'
  <1>1. PICK x : x = page.handle[h]
    OBVIOUS
  <1>2. PICK fs : fs = x.frames
    OBVIOUS
  <1>3. PICK m : m = Head(fs)
    OBVIOUS
  <1>4. x \in SomeHandle /\ x # Free /\ page.held = h
    BY <1>1, PageHandles DEF PageIsSound, IsOpen, Free, HoldsAlive, Alive
  <1>5. x \in HandlesInUse /\ fs \in Seq({Ended} \cup DOMAIN chat) /\ fs # << >>
    BY <1>1, <1>2, <1>4, HandleKinds
  <1>6. GoodFrames(x)
    BY <1>1, <1>4 DEF PageIsSound, FramesAreCast
  <1>7. Distinct(fs, {Ended}) /\ m = fs[1] /\ 1 \in DOMAIN fs
    BY <1>2, <1>3, <1>5, <1>6, HeadAndTail DEF GoodFrames
  <1>8. m # Ended
    BY <1>1, <1>2, <1>3
  <1>9. IsMessageOf(m, x.project) /\ IsCast(m)
    BY <1>2, <1>6, <1>7, <1>8 DEF GoodFrames
  <1>10. PICK gs : gs = Tail(fs)
    OBVIOUS
  <1>11. /\ gs \in Seq({Ended} \cup DOMAIN chat) /\ Distinct(gs, {Ended}) /\ m \notin ToSet(gs)
         /\ ToSet(fs) = ToSet(gs) \cup {m}
         /\ \A i \in DOMAIN gs : i + 1 \in DOMAIN fs /\ gs[i] = fs[i + 1]
    BY <1>3, <1>5, <1>7, <1>8, <1>10, HeadAndTail
  <1>12. page \in Pages /\ HoldsAlive(page) /\ page.handle[h] # Free
    BY <1>1, <1>4 DEF PageIsSound
  <1>13. gs \in Seq({Ended} \cup DOMAIN chat)
    BY <1>11
  <1>14. PICK f : f = WithFrames(h, gs)
    OBVIOUS
  <1>15. /\ f \in Pages /\ HoldsAlive(f) /\ f.held = page.held
         /\ f.handle[h] # Free /\ f.handle[h].frames = gs
         /\ f.handle[h].project = page.handle[h].project
         /\ f.handle[h].pc = page.handle[h].pc
         /\ \A k \in Handles : k # h => f.handle[k] = page.handle[k]
    BY <1>12, <1>13, <1>14, FramesChange
  <1>16. page' = f
    BY <1>1, <1>2, <1>10, <1>14 DEF WithFrames
  <1>17. (page \in Pages)' /\ HoldsAlive(page)'
    <2>1. f \in Pages /\ HoldsAlive(f)
      BY <1>15
    <2>2. (page \in Pages)'
      BY <1>16, <2>1 DEF Pages, SomeHandle, HandlesInUse, Statuses, SessionIds
    <2>3. HoldsAlive(page)'
      BY <1>16, <2>1 DEF HoldsAlive
    <2> QED  BY <2>2, <2>3
  <1>18. FramesAreCast(page)'
    <2> SUFFICES ASSUME NEW k \in Handles, f.handle[k] # Free
                 PROVE  GoodFrames(f.handle[k])
      BY <1>16, FramesOfNext DEF FramesAreCast
    <2>1. CASE k = h
      <3>1. \A i \in DOMAIN gs :
               gs[i] # Ended => IsMessageOf(gs[i], x.project) /\ IsCast(gs[i])
        BY <1>2, <1>6, <1>11 DEF GoodFrames
      <3> QED  BY <1>1, <1>11, <1>15, <2>1, <3>1 DEF GoodFrames
    <2>2. CASE k # h
      BY <1>15, <2>2 DEF PageIsSound, FramesAreCast
    <2> QED  BY <2>1, <2>2
  <1>19. PICK ms : ms = messages /\ messages' = Append(ms, m)
    BY <1>1, <1>2, <1>3
  <1>20. /\ ms \in Seq(DOMAIN chat) /\ m \in DOMAIN chat
    BY <1>9, <1>19 DEF PageIsSound, IsCast
  <1>21. /\ messages' \in Seq(DOMAIN chat) /\ ToSet(messages') = ToSet(messages) \cup {m}
         /\ \A i \in DOMAIN messages' :
              \/ i \in DOMAIN messages /\ messages'[i] = messages[i]
              \/ i = Len(messages) + 1 /\ messages'[i] = m
    BY <1>19, <1>20, AppendedTo
  <1>22. messages' \in Seq(DOMAIN chat') /\ due' \subseteq DOMAIN chat' /\ DueIsCast'
    BY <1>21 DEF PageIsSound, DueIsCast, IsCast
  <1>23. h # None
    BY PageHandles DEF PageIsSound
  <1>24. ShownIsOfProject'
    <2>1. chat[m].session[1] = x.project
      BY <1>9 DEF IsMessageOf
    <2>2. \A e \in ToSet(messages) : chat[e].session[1] = x.project
      BY <1>1, <1>4, <1>23 DEF PageIsSound, ShownIsOfProject
    <2>3. \A e \in ToSet(messages') : chat[e].session[1] = x.project
      BY <1>21, <2>1, <2>2
    <2>4. page'.held = h /\ page'.handle[h].project = x.project
      BY <1>1, <1>4, <1>15, <1>16
    <2> QED  BY <2>3, <2>4 DEF ShownIsOfProject
  <1>25. InTransit(page) = ToSet(fs) \ {Ended} /\ InTransit(f) = ToSet(gs) \ {Ended}
    BY <1>1, <1>2, <1>4, <1>15, <1>23 DEF InTransit
  <1>26. Once'
    <2> SUFFICES ASSUME NEW n \in due
                 PROVE  /\ n \in InTransit(f) <=> n \notin ToSet(messages')
                        /\ \A i, j \in DOMAIN messages' :
                             messages'[i] = n /\ messages'[j] = n => i = j
      BY <1>16 DEF Once, InTransit
    <2>1. /\ n \in InTransit(page) <=> n \notin ToSet(messages)
          /\ \A i, j \in DOMAIN messages : messages[i] = n /\ messages[j] = n => i = j
      BY DEF PageIsSound, Once
    <2>2. CASE n # m
      <3>1. n \in InTransit(f) <=> n \notin ToSet(messages')
        BY <1>11, <1>21, <1>25, <2>1, <2>2
      <3>2. \A i \in DOMAIN messages' : messages'[i] = n =>
               i \in DOMAIN messages /\ messages[i] = n
        BY <1>21, <2>2
      <3> QED  BY <2>1, <3>1, <3>2
    <2>3. CASE n = m
      <3>1. n \notin ToSet(messages)
        BY <1>8, <1>11, <1>25, <2>1, <2>3
      <3>2. n \notin InTransit(f) /\ n \in ToSet(messages')
        BY <1>11, <1>21, <1>25, <2>3
      <3>3. \A i \in DOMAIN messages' : messages'[i] = n => i = Len(messages) + 1
        BY <1>21, <3>1 DEF ToSet
      <3> QED  BY <3>2, <3>3
    <2> QED  BY <2>2, <2>3
  <1> QED  BY <1>17, <1>18, <1>22, <1>24, <1>26 DEF PageIsSound

\* The session is over: the socket is closed.
LEMMA EndReceived ==
  ASSUME page \in Pages, HoldsAlive(page), NEW h \in Handles, IsOpen(page.handle[h]),
         NEW gs \in Seq({Ended} \cup DOMAIN chat)
  PROVE  Moves(page, Disconnect([WithFrames(h, gs) EXCEPT !.status = "stopped"]))
  <1> DEFINE g == WithFrames(h, gs)
             e == [g EXCEPT !.status = "stopped"]
  <1>1. page.handle[h] # Free /\ page.held = h /\ h # None
    BY PageHandles DEF IsOpen, Free, HoldsAlive, Alive
  <1>2. /\ g \in Pages /\ HoldsAlive(g) /\ g.held = page.held
        /\ g.handle[h] # Free /\ g.handle[h].frames = gs
        /\ g.handle[h].project = page.handle[h].project
        /\ g.handle[h].pc = page.handle[h].pc
        /\ \A k \in Handles : k # h => g.handle[k] = page.handle[k]
    BY <1>1, FramesChange
  <1> HIDE DEF g
  <1>3. e \in Pages /\ e.held = g.held /\ e.handle = g.handle
    BY <1>2 DEF Pages
  <1> HIDE DEF e
  <1>4. HoldsAlive(e)
    BY <1>2, <1>3 DEF HoldsAlive
  <1> DEFINE d == Disconnect(e)
  <1>5. /\ Moves(e, d) /\ d.held = None
        /\ \A k \in Handles : k # e.held => d.handle[k] = e.handle[k]
    BY <1>3, <1>4, DisconnectMoves
  <1>6. e.held = h /\ e.handle[h].pc # "asking" /\ DOMAIN e.handle = Handles
    BY <1>1, <1>2, <1>3, PageHandles DEF IsOpen
  <1>7. d.handle[h] = Free
    <2>1. d = [e EXCEPT !.handle[h] = Closed(@), !.held = None]
      BY <1>1, <1>6 DEF Disconnect
    <2>2. d.handle[h] = Closed(e.handle[h])
      BY <1>3, <1>6, <2>1 DEF Pages
    <2> QED  BY <1>6, <2>2 DEF Closed
  <1> HIDE DEF d
  <1>8. \A k \in Handles : page.handle[k] \in SomeHandle
    BY PageHandles
  <1>9. \A k \in Handles : Stays(page.handle[k], d.handle[k])
    <2> TAKE k \in Handles
    <2>1. CASE k = h
      BY <1>7, <2>1 DEF Stays
    <2>2. CASE k # h
      <3>1. d.handle[k] = page.handle[k]
        BY <1>2, <1>3, <1>5, <1>6, <2>2
      <3> QED  BY <1>8, <3>1, StaysMeans
    <2> QED  BY <2>1, <2>2
  <1>10. Moves(page, d)
    BY <1>5, <1>9 DEF Moves
  <1> QED  BY <1>10 DEF d, e, g

\* A frame is queued on the sockets in the room: on one at most, that of the handle held.
LEMMA QueuedIs ==
  ASSUME NEW x \in HandlesInUse, NEW frame \in {Ended} \cup DOMAIN chat
  PROVE  LET y == Queued(x, frame)
         IN /\ y \in HandlesInUse /\ y # Free
            /\ y.pc = x.pc /\ y.byCaller = x.byCaller /\ y.project = x.project
            /\ y.frames = Append(x.frames, frame)
            /\ x.frames \in Seq({Ended} \cup DOMAIN chat)
  <1>1. x.frames \in Seq({Ended} \cup DOMAIN chat)
    BY DEF HandlesInUse
  <1>2. PICK S : S = {Ended} \cup DOMAIN chat
    OBVIOUS
  <1>3. Append(x.frames, frame) \in Seq({Ended} \cup DOMAIN chat)
    BY <1>1, <1>2
  <1>4. PICK fs : fs = Append(x.frames, frame)
    OBVIOUS
  <1>5. /\ [x EXCEPT !.frames = fs] \in HandlesInUse
        /\ [x EXCEPT !.frames = fs].frames = fs
        /\ [x EXCEPT !.frames = fs].pc = x.pc
        /\ [x EXCEPT !.frames = fs].byCaller = x.byCaller
        /\ [x EXCEPT !.frames = fs].project = x.project
        /\ [x EXCEPT !.frames = fs] # Free
    BY <1>3, <1>4 DEF HandlesInUse, Free
  <1> QED  BY <1>1, <1>4, <1>5 DEF Queued

Sent(p, frame) ==
    [page EXCEPT !.handle = [h \in Handles |->
       IF h \in InRoom(p) THEN Queued(page.handle[h], frame) ELSE page.handle[h]]]

\* The page to whose socket a frame for a project was sent, if it is in the room.
IsSent(p, frame, f) ==
    /\ f \in Pages /\ HoldsAlive(f) /\ f.held = page.held
    /\ \A h \in Handles :
         \/ h \notin InRoom(p) /\ f.handle[h] = page.handle[h]
         \/ /\ h \in InRoom(p) /\ page.held = h
            /\ page.handle[h] # Free /\ f.handle[h] # Free
            /\ f.handle[h].project = p /\ page.handle[h].project = p
            /\ f.handle[h].frames = Append(page.handle[h].frames, frame)
            /\ page.handle[h].frames \in Seq({Ended} \cup DOMAIN chat)

LEMMA SendKeeps ==
  ASSUME page \in Pages, HoldsAlive(page), NEW p,
         NEW frame \in {Ended} \cup DOMAIN chat, NEW f, f = Sent(p, frame)
  PROVE  IsSent(p, frame, f)
  <1> DEFINE new(h) == Queued(page.handle[h], frame)
  <1>1. \A h \in Handles : page.handle[h] \in SomeHandle
    BY PageHandles
  <1>2. \A h \in InRoom(p) :
           /\ h \in Handles /\ page.handle[h] # Free /\ page.held = h
           /\ page.handle[h].project = p
    BY DEF InRoom, IsOpen, Free, HoldsAlive, Alive
  <1>3. \A h \in InRoom(p) : page.handle[h] \in HandlesInUse
    BY <1>1, <1>2, HandleKinds
  <1>4. \A h \in InRoom(p) :
           /\ new(h) \in HandlesInUse /\ new(h) # Free
           /\ new(h).pc = page.handle[h].pc /\ new(h).byCaller = page.handle[h].byCaller
           /\ new(h).project = page.handle[h].project
           /\ new(h).frames = Append(page.handle[h].frames, frame)
           /\ page.handle[h].frames \in Seq({Ended} \cup DOMAIN chat)
    BY <1>3, QueuedIs
  <1> HIDE DEF new
  <1>5. PICK hs : hs = [h \in Handles |-> IF h \in InRoom(p) THEN new(h) ELSE page.handle[h]]
    OBVIOUS
  <1>6. f = [page EXCEPT !.handle = hs]
    BY <1>5 DEF new, Sent
  <1>7. \A h \in Handles :
           \/ h \notin InRoom(p) /\ hs[h] = page.handle[h]
           \/ h \in InRoom(p) /\ hs[h] = new(h)
    BY <1>5
  <1>8. hs \in [Handles -> SomeHandle]
    <2>1. \A h \in Handles : hs[h] \in SomeHandle
      BY <1>1, <1>4, <1>7 DEF SomeHandle
    <2> QED  BY <1>5, <2>1
  <1>9. f \in Pages /\ f.handle = hs /\ f.held = page.held
    BY <1>6, <1>8 DEF Pages, SomeHandle
  <1>10. HoldsAlive(f)
    <2>1. \A h \in Handles : /\ Alive(hs[h]) <=> Alive(page.handle[h])
                             /\ hs[h] # Free /\ hs[h].byCaller => hs[h].pc = "asking"
      BY <1>2, <1>4, <1>7 DEF Alive, HoldsAlive
    <2> QED  BY <1>9, <2>1 DEF HoldsAlive
  <1>11. \A h \in Handles :
           \/ h \notin InRoom(p) /\ f.handle[h] = page.handle[h]
           \/ /\ h \in InRoom(p) /\ page.held = h
              /\ page.handle[h] # Free /\ f.handle[h] # Free
              /\ f.handle[h].project = p /\ page.handle[h].project = p
              /\ f.handle[h].frames = Append(page.handle[h].frames, frame)
              /\ page.handle[h].frames \in Seq({Ended} \cup DOMAIN chat)
    BY <1>2, <1>4, <1>7, <1>9
  <1> QED  BY <1>9, <1>10, <1>11 DEF IsSent

\* The sockets in the room are left behind: the frames on them go on.
LEMMA StrandedIs ==
  ASSUME NEW x \in HandlesInUse, IsOpen(x), ~x.byCaller
  PROVE  LET y == [x EXCEPT !.pc = "stranded"]
         IN /\ y \in SomeHandle /\ Stays(x, y) /\ Alive(y) /\ y # Free /\ ~y.byCaller
            /\ y.frames = x.frames
  <1> DEFINE y == [x EXCEPT !.pc = "stranded"]
  <1>1. x # Free
    BY DEF IsOpen, Free
  <1>2. y \in HandlesInUse /\ y.pc = "stranded" /\ y.byCaller = x.byCaller
        /\ y.project = x.project /\ y.frames = x.frames /\ y # Free
    BY DEF HandlesInUse, Free
  <1> HIDE DEF y
  <1>3. y \in SomeHandle /\ Stays(x, y) /\ Alive(y)
    BY <1>1, <1>2 DEF SomeHandle, Stays, Alive
  <1>4. y \in SomeHandle /\ Stays(x, y) /\ Alive(y) /\ y # Free /\ ~y.byCaller
        /\ y.frames = x.frames
    BY <1>2, <1>3
  <1> QED  BY <1>4 DEF y

LEMMA StrandMoves ==
  ASSUME page \in Pages, HoldsAlive(page), NEW p, Strand(p)
  PROVE  Moves(page, page') /\ InTransit(page') = InTransit(page)
  <1> DEFINE new(h) == [page.handle[h] EXCEPT !.pc = "stranded"]
  <1>1. \A h \in Handles : page.handle[h] \in SomeHandle
    BY PageHandles
  <1>2. \A h \in InRoom(p) :
           /\ h \in Handles /\ IsOpen(page.handle[h]) /\ page.handle[h] # Free
           /\ Alive(page.handle[h])
    BY DEF InRoom, IsOpen, Free, Alive
  <1>3. \A h \in InRoom(p) : page.handle[h] \in HandlesInUse /\ ~page.handle[h].byCaller
    <2> SUFFICES ASSUME NEW h \in InRoom(p)
                 PROVE  page.handle[h] \in HandlesInUse /\ ~page.handle[h].byCaller
      OBVIOUS
    <2>1. page.handle[h] \in HandlesInUse /\ page.handle[h].byCaller \in BOOLEAN
      BY <1>1, <1>2, HandleKinds
    <2>2. page.handle[h].pc # "asking"
      BY <1>2 DEF IsOpen
    <2> QED  BY <1>2, <2>1, <2>2 DEF HoldsAlive
  <1>4. \A h \in InRoom(p) :
           /\ new(h) \in SomeHandle /\ Stays(page.handle[h], new(h)) /\ Alive(new(h))
           /\ new(h) # Free /\ ~new(h).byCaller /\ new(h).frames = page.handle[h].frames
    BY <1>2, <1>3, StrandedIs
  <1> HIDE DEF new
  <1>5. PICK hs : hs = [h \in Handles |-> IF h \in InRoom(p) THEN new(h) ELSE page.handle[h]]
    OBVIOUS
  <1>6. page' = [page EXCEPT !.handle = hs]
    BY <1>5 DEF new, Strand
  <1>7. \A h \in Handles :
           \/ h \notin InRoom(p) /\ hs[h] = page.handle[h]
           \/ h \in InRoom(p) /\ hs[h] = new(h)
    BY <1>5
  <1>8. hs \in [Handles -> SomeHandle]
    <2>1. \A h \in Handles : hs[h] \in SomeHandle
      BY <1>1, <1>4, <1>7
    <2> QED  BY <1>5, <2>1
  <1>9. PICK f : f = page'
    OBVIOUS
  <1>10. f \in Pages /\ f.handle = hs /\ f.held = page.held
    BY <1>6, <1>8, <1>9 DEF Pages, SomeHandle
  <1>11. HoldsAlive(f)
    <2>1. \A h \in Handles : /\ Alive(hs[h]) <=> Alive(page.handle[h])
                             /\ hs[h] # Free /\ hs[h].byCaller => hs[h].pc = "asking"
      BY <1>2, <1>4, <1>7 DEF HoldsAlive
    <2> QED  BY <1>10, <2>1 DEF HoldsAlive
  <1>12. \A h \in Handles : /\ Stays(page.handle[h], f.handle[h])
                            /\ f.handle[h].frames = page.handle[h].frames
    BY <1>1, <1>4, <1>7, <1>10, StaysMeans
  <1>13. page.held \in Handles \cup {None}
    BY PageHandles
  <1>14. InTransit(f) = InTransit(page)
    BY <1>10, <1>12, <1>13 DEF InTransit
  <1>15. Moves(page, f)
    BY <1>10, <1>11, <1>12 DEF Moves
  <1> QED  BY <1>9, <1>14, <1>15

LEMMA StrandedSound ==
  ASSUME PageIsSound, NEW p, Strand(p), UNCHANGED <<chat, messages, due>>
  PROVE  PageIsSound'
  <1>1. PICK f : f = page'
    OBVIOUS
  <1>2. page \in Pages /\ HoldsAlive(page)
    BY DEF PageIsSound
  <1>3. Moves(page, f) /\ InTransit(f) = InTransit(page)
    BY <1>1, <1>2, StrandMoves
  <1>4. GoesOn(f)
    BY <1>1, <1>3 DEF GoesOn
  <1> QED  BY <1>3, <1>4, PageGoesOn

\* The session of a project ends.
LEMMA EndQueued ==
  ASSUME PageIsSound, NEW p, Send(p, Ended), UNCHANGED <<chat, messages, due>>
  PROVE  PageIsSound'
  <1>1. PICK f : f = page'
    OBVIOUS
  <1>2. page \in Pages /\ HoldsAlive(page)
    BY DEF PageIsSound
  <1>3. PICK e \in {Ended} \cup DOMAIN chat : e = Ended
    OBVIOUS
  <1>4. f = Sent(p, e)
    BY <1>1, <1>3 DEF Send, Sent
  <1>5. /\ f \in Pages /\ HoldsAlive(f) /\ f.held = page.held
        /\ \A h \in Handles :
             \/ h \notin InRoom(p) /\ f.handle[h] = page.handle[h]
             \/ /\ h \in InRoom(p) /\ page.held = h
                /\ page.handle[h] # Free /\ f.handle[h] # Free
                /\ f.handle[h].project = p /\ page.handle[h].project = p
                /\ f.handle[h].frames = Append(page.handle[h].frames, e)
                /\ page.handle[h].frames \in Seq({Ended} \cup DOMAIN chat)
    <2>1. IsSent(p, e, f)
      BY <1>4, <1>2, <1>3, SendKeeps
    <2> QED  BY <2>1 DEF IsSent
  <1>6. (page \in Pages)' /\ HoldsAlive(page)'
    <2>1. (page \in Pages)'
      BY <1>1, <1>5 DEF Pages, SomeHandle, HandlesInUse, Statuses, SessionIds
    <2>2. HoldsAlive(page)'
      BY <1>1, <1>5 DEF HoldsAlive
    <2> QED  BY <2>1, <2>2
  <1>7. \A h \in Handles : f.handle[h] # Free =>
           /\ page.handle[h] # Free /\ GoodFrames(f.handle[h])
           /\ f.handle[h].project = page.handle[h].project
           /\ ToSet(f.handle[h].frames) \ {Ended} = ToSet(page.handle[h].frames) \ {Ended}
    <2> SUFFICES ASSUME NEW h \in Handles, f.handle[h] # Free
                 PROVE  /\ page.handle[h] # Free /\ GoodFrames(f.handle[h])
                        /\ f.handle[h].project = page.handle[h].project
                        /\ ToSet(f.handle[h].frames) \ {Ended}
                             = ToSet(page.handle[h].frames) \ {Ended}
      OBVIOUS
    <2>1. CASE h \notin InRoom(p) /\ f.handle[h] = page.handle[h]
      BY <2>1 DEF PageIsSound, FramesAreCast
    <2>2. CASE /\ page.handle[h] # Free
               /\ f.handle[h].project = p /\ page.handle[h].project = p
               /\ f.handle[h].frames = Append(page.handle[h].frames, e)
               /\ page.handle[h].frames \in Seq({Ended} \cup DOMAIN chat)
      <3>1. PICK fs : fs = page.handle[h].frames
        OBVIOUS
      <3>2. GoodFrames(page.handle[h])
        BY <2>2 DEF PageIsSound, FramesAreCast
      <3>3. PICK S : S = {Ended} \cup DOMAIN chat
        OBVIOUS
      <3>4. fs \in Seq(S) /\ e \in S /\ Distinct(fs, {Ended}) /\ e \in {Ended}
        BY <1>3, <2>2, <3>1, <3>2, <3>3 DEF GoodFrames
      <3>5. /\ \A i \in DOMAIN Append(fs, e) :
                 \/ i \in DOMAIN fs /\ Append(fs, e)[i] = fs[i]
                 \/ i = Len(fs) + 1 /\ Append(fs, e)[i] = e
            /\ ToSet(Append(fs, e)) = ToSet(fs) \cup {e}
            /\ Distinct(Append(fs, e), {Ended})
        BY <3>4, AppendedTo
      <3>6. GoodFrames(f.handle[h])
        BY <1>3, <2>2, <3>1, <3>2, <3>5 DEF GoodFrames
      <3> QED  BY <1>3, <2>2, <3>1, <3>5, <3>6
    <2> QED  BY <1>5, <2>1, <2>2
  <1>8. FramesAreCast(page)'
    BY <1>1, <1>7 DEF FramesAreCast, GoodFrames, IsMessageOf, IsCast
  <1>9. /\ messages' \in Seq(DOMAIN chat') /\ due' \subseteq DOMAIN chat' /\ DueIsCast'
    BY DEF PageIsSound, DueIsCast, IsCast
  <1>10. page.held # None =>
            /\ page.held \in Handles /\ f.handle[page.held] # Free
    BY <1>2, <1>5, PageHandles DEF HoldsAlive, Alive, Free
  <1>11. ShownIsOfProject'
    BY <1>1, <1>5, <1>7, <1>10 DEF PageIsSound, ShownIsOfProject
  <1>12. InTransit(f) = InTransit(page)
    BY <1>5, <1>7, <1>10 DEF InTransit
  <1>13. Once'
    BY <1>1, <1>12 DEF PageIsSound, Once, InTransit
  <1> QED  BY <1>6, <1>8, <1>9, <1>11, <1>13 DEF PageIsSound

\* A message is broadcast.
LEMMA MessageQueued ==
  ASSUME ServerIsSound, PageIsSound, NEW m \in DOMAIN chat, Broadcast(m)
  PROVE  PageIsSound' /\ ServerIsSound'
  <1> DEFINE p == chat[m].session[1]
  <1>1. PICK f : f = page'
    OBVIOUS
  <1>2. f = Sent(p, m)
    BY <1>1 DEF Broadcast, Send, Sent
  <1>3. page \in Pages /\ HoldsAlive(page)
    BY DEF PageIsSound
  <1>4. /\ chat' \in Seq([session : SessionIds, cast : BOOLEAN])
        /\ DOMAIN chat' = DOMAIN chat /\ m # Ended
        /\ ~chat[m].cast /\ chat'[m].cast
        /\ \A n \in DOMAIN chat : chat'[n].session = chat[n].session
        /\ \A n \in DOMAIN chat : n # m => chat'[n].cast = chat[n].cast
    <2>1. /\ chat \in Seq([session : SessionIds, cast : BOOLEAN])
          /\ ~chat[m].cast /\ chat' = [chat EXCEPT ![m].cast = TRUE]
      BY DEF ServerIsSound, Broadcast
    <2>2. m # Ended
      BY <2>1 DEF Ended
    <2>3. PICK c : c = [chat[m] EXCEPT !.cast = TRUE]
      OBVIOUS
    <2>4. PICK S : S = [session : SessionIds, cast : BOOLEAN]
      OBVIOUS
    <2>5. chat \in Seq(S) /\ chat[m] \in S
      BY <2>1, <2>4, ElementsIn
    <2>6. /\ c \in S /\ c.cast = TRUE /\ c.session = chat[m].session
          /\ chat' = [chat EXCEPT ![m] = c]
      BY <2>1, <2>3, <2>4, <2>5
    <2>7. /\ chat' \in Seq(S) /\ DOMAIN chat' = DOMAIN chat /\ chat'[m] = c
          /\ \A n \in DOMAIN chat : n # m => chat'[n] = chat[n]
      BY <2>5, <2>6, Overwritten
    <2> QED  BY <2>1, <2>2, <2>4, <2>6, <2>7
  <1>5. ServerIsSound'
    BY <1>4 DEF ServerIsSound, Broadcast, SessionIds
  <1>6. m \in {Ended} \cup DOMAIN chat
    OBVIOUS
  <1>7. /\ f \in Pages /\ HoldsAlive(f) /\ f.held = page.held
        /\ \A h \in Handles :
             \/ h \notin InRoom(p) /\ f.handle[h] = page.handle[h]
             \/ /\ h \in InRoom(p) /\ page.held = h
                /\ page.handle[h] # Free /\ f.handle[h] # Free
                /\ f.handle[h].project = p /\ page.handle[h].project = p
                /\ f.handle[h].frames = Append(page.handle[h].frames, m)
                /\ page.handle[h].frames \in Seq({Ended} \cup DOMAIN chat)
    <2> HIDE DEF p
    <2>1. IsSent(p, m, f)
      BY <1>2, <1>3, <1>6, SendKeeps
    <2> QED  BY <2>1 DEF IsSent
  <1> HIDE DEF p
  <1>8. (page \in Pages)' /\ HoldsAlive(page)'
    <2>1. (page \in Pages)'
      BY <1>1, <1>4, <1>7 DEF Pages, SomeHandle, HandlesInUse, Statuses, SessionIds
    <2>2. HoldsAlive(page)'
      BY <1>1, <1>7 DEF HoldsAlive
    <2> QED  BY <2>1, <2>2
  <1>9. ~IsCast(m) /\ \A h \in Handles : page.handle[h] # Free => GoodFrames(page.handle[h])
    BY <1>4 DEF IsCast, PageIsSound, FramesAreCast
  <1>10. \A h \in Handles : h \in InRoom(p) => ToSet(f.handle[h].frames)
                                               = ToSet(page.handle[h].frames) \cup {m}
    <2> SUFFICES ASSUME NEW h \in Handles, h \in InRoom(p)
                 PROVE  ToSet(f.handle[h].frames) = ToSet(page.handle[h].frames) \cup {m}
      OBVIOUS
    <2>1. PICK fs : fs = page.handle[h].frames
      OBVIOUS
    <2>2. PICK S : S = {Ended} \cup DOMAIN chat
      OBVIOUS
    <2>3. fs \in Seq(S) /\ m \in S /\ f.handle[h].frames = Append(fs, m)
      BY <1>7, <2>1, <2>2
    <2>4. ToSet(Append(fs, m)) = ToSet(fs) \cup {m}
      BY <2>3, AppendedTo
    <2> QED  BY <2>1, <2>3, <2>4
  <1>11. FramesAreCast(page)'
    <2> SUFFICES ASSUME NEW h \in Handles, f.handle[h] # Free
                 PROVE  GoodFrames(f.handle[h])'
      BY <1>1 DEF FramesAreCast, GoodFrames, IsMessageOf, IsCast
    <2>1. CASE h \notin InRoom(p) /\ f.handle[h] = page.handle[h]
      <3>1. GoodFrames(f.handle[h])
        BY <1>9, <2>1
      <3>2. PICK x : x = f.handle[h]
        OBVIOUS
      <3>3. GoodFrames(x)'
        BY <1>4, <3>1, <3>2, GoodFramesStay
      <3> QED  BY <3>2, <3>3 DEF GoodFrames, IsMessageOf, IsCast
    <2>2. CASE /\ page.handle[h] # Free
               /\ f.handle[h].project = p /\ page.handle[h].project = p
               /\ f.handle[h].frames = Append(page.handle[h].frames, m)
               /\ page.handle[h].frames \in Seq({Ended} \cup DOMAIN chat)
      <3>1. PICK fs : fs = page.handle[h].frames
        OBVIOUS
      <3>2. GoodFrames(page.handle[h])
        BY <1>9, <2>2
      <3>3. PICK S : S = {Ended} \cup DOMAIN chat
        OBVIOUS
      <3>4. m \notin ToSet(fs)
        BY <1>4, <1>9, <3>1, <3>2 DEF GoodFrames, ToSet
      <3>5. fs \in Seq(S) /\ m \in S /\ Distinct(fs, {Ended})
        BY <2>2, <3>1, <3>2, <3>3 DEF GoodFrames
      <3>6. /\ \A i \in DOMAIN Append(fs, m) :
                 \/ i \in DOMAIN fs /\ Append(fs, m)[i] = fs[i]
                 \/ i = Len(fs) + 1 /\ Append(fs, m)[i] = m
            /\ Distinct(Append(fs, m), {Ended})
        BY <3>4, <3>5, AppendedTo
      <3>7. \A i \in DOMAIN fs : fs[i] # Ended => /\ fs[i] \in DOMAIN chat
                                                  /\ chat[fs[i]].session[1] = p
                                                  /\ chat[fs[i]].cast
        BY <2>2, <3>1, <3>2 DEF GoodFrames, IsMessageOf, IsCast
      <3>8. \A i \in DOMAIN fs : fs[i] # Ended => /\ fs[i] \in DOMAIN chat'
                                                  /\ chat'[fs[i]].session[1] = p
                                                  /\ chat'[fs[i]].cast
        BY <1>4, <3>7
      <3>9. m \in DOMAIN chat' /\ chat'[m].session[1] = p /\ chat'[m].cast
        BY <1>4 DEF p
      <3>10. PICK x : x = f.handle[h]
        OBVIOUS
      <3>11. \A i \in DOMAIN x.frames : x.frames[i] # Ended =>
                /\ x.frames[i] \in DOMAIN chat' /\ chat'[x.frames[i]].session[1] = x.project
                /\ chat'[x.frames[i]].cast
        <4>1. PICK xs : xs = Append(fs, m)
          OBVIOUS
        <4>2. x.frames = xs /\ x.project = p
          BY <2>2, <3>1, <3>10, <4>1
        <4>3. \A i \in DOMAIN xs : (i \in DOMAIN fs /\ xs[i] = fs[i]) \/ xs[i] = m
          BY <3>6, <4>1
        <4>4. \A i \in DOMAIN xs : xs[i] # Ended =>
                 xs[i] \in DOMAIN chat' /\ chat'[xs[i]].session[1] = p /\ chat'[xs[i]].cast
          BY <3>8, <3>9, <4>3
        <4> QED  BY <4>2, <4>4
      <3>12. Distinct(x.frames, {Ended})
        BY <2>2, <3>1, <3>6, <3>10
      <3>13. GoodFrames(x)'
        BY <3>11, <3>12 DEF GoodFrames, IsMessageOf, IsCast, Distinct
      <3> QED  BY <3>10, <3>13 DEF GoodFrames, IsMessageOf, IsCast, Distinct
    <2> QED  BY <1>7, <2>1, <2>2
  <1>12. messages' = messages /\ due' = IF InRoom(p) # {} /\ m \notin ToSet(messages)
                                        THEN due \cup {m} ELSE due
    BY DEF Broadcast, p
  <1>13. /\ messages' \in Seq(DOMAIN chat') /\ due' \subseteq DOMAIN chat' /\ DueIsCast'
         /\ m \notin due
    BY <1>4, <1>9, <1>12 DEF PageIsSound, DueIsCast, IsCast
  <1>14. page.held # None =>
            /\ page.held \in Handles
            /\ f.handle[page.held].project = page.handle[page.held].project
    BY <1>3, <1>7, PageHandles
  <1>15. ShownIsOfProject'
    <2> SUFFICES ASSUME page.held # None, NEW n \in ToSet(messages)
                 PROVE  chat'[n].session[1] = f.handle[page.held].project
      BY <1>1, <1>7, <1>12 DEF ShownIsOfProject
    <2>1. n \in DOMAIN chat
      BY DEF PageIsSound, ToSet
    <2> QED  BY <1>4, <1>14, <2>1 DEF PageIsSound, ShownIsOfProject
  <1>16. /\ InTransit(f) \ {m} = InTransit(page) \ {m}
         /\ InRoom(p) # {} => m \in InTransit(f)
    <2>1. InTransit(f) \ {m} = InTransit(page) \ {m}
      BY <1>7, <1>10, <1>14 DEF InTransit
    <2>2. ASSUME NEW h \in InRoom(p)
          PROVE  m \in InTransit(f)
      <3>1. h \in Handles /\ f.held = h /\ h # None
        BY <1>3, <1>7, PageHandles DEF InRoom
      <3> QED  BY <1>4, <1>10, <3>1 DEF InTransit
    <2> QED  BY <2>1, <2>2
  <1>17. Once'
    <2> SUFFICES ASSUME NEW n \in due'
                 PROVE  /\ n \in InTransit(f) <=> n \notin ToSet(messages)
                        /\ \A i, j \in DOMAIN messages :
                             messages[i] = n /\ messages[j] = n => i = j
      BY <1>1, <1>12 DEF Once, InTransit
    <2>1. CASE n \in due
      <3>1. n # m
        BY <1>13, <2>1
      <3> QED  BY <1>16, <2>1, <3>1 DEF PageIsSound, Once
    <2>2. CASE n \notin due
      <3>1. n = m /\ InRoom(p) # {} /\ m \notin ToSet(messages)
        BY <1>12, <2>2
      <3> QED  BY <1>16, <3>1 DEF ToSet
    <2> QED  BY <2>1, <2>2
  <1> QED  BY <1>5, <1>8, <1>11, <1>13, <1>15, <1>17 DEF PageIsSound

-----------------------------------------------------------------------------
(* What is stored stays, and what was broadcast was.                       *)

ChatGrows ==
    /\ DOMAIN chat \subseteq DOMAIN chat'
    /\ \A m \in DOMAIN chat : /\ chat'[m].session = chat[m].session
                              /\ chat[m].cast => chat'[m].cast

LEMMA SeqOfMore ==
  ASSUME NEW S, NEW T, S \subseteq T
  PROVE  Seq(S) \subseteq Seq(T)
  OBVIOUS

LEMMA TypesGrow ==
  ASSUME DOMAIN chat \subseteq DOMAIN chat'
  PROVE  /\ Seq(DOMAIN chat) \subseteq Seq(DOMAIN chat')
         /\ Pages \subseteq Pages'
         /\ Histories \subseteq Histories'
         /\ TasksUnderWay \subseteq TasksUnderWay'
  <1>1. Seq(DOMAIN chat) \subseteq Seq(DOMAIN chat')
    BY SeqOfMore
  <1>2. Seq({Ended} \cup DOMAIN chat) \subseteq Seq({Ended} \cup DOMAIN chat')
    <2>1. {Ended} \cup DOMAIN chat \subseteq {Ended} \cup DOMAIN chat'
      OBVIOUS
    <2> QED  BY <2>1, SeqOfMore
  <1>3. PICK F : F = Seq({Ended} \cup DOMAIN chat)
    OBVIOUS
  <1>4. PICK G : G = Seq({Ended} \cup DOMAIN chat')
    OBVIOUS
  <1>5. HandlesInUse \subseteq HandlesInUse'
    <2>1. HandlesInUse = [pc : Pcs, project : Projects, byCaller : BOOLEAN, frames : F,
                          reply : {NoReply} \cup Statuses]
      BY <1>3 DEF HandlesInUse, Pcs
    <2>2. HandlesInUse' = [pc : Pcs, project : Projects, byCaller : BOOLEAN, frames : G,
                           reply : {NoReply} \cup Statuses]
      BY <1>4 DEF HandlesInUse, Pcs, Statuses, SessionIds
    <2>3. F \subseteq G
      BY <1>2, <1>3, <1>4
    <2> QED  BY <2>1, <2>2, <2>3
  <1>6. Pages \subseteq Pages'
    <2>1. PICK X : X = {Free} \cup HandlesInUse
      OBVIOUS
    <2>2. PICK Y : Y = {Free} \cup HandlesInUse'
      OBVIOUS
    <2>3. /\ Pages = [status : {"running", "stopped"}, session : SessionIds \cup {NoSession},
                      held : Handles \cup {None}, handle : [Handles -> X]]
          /\ Pages' = [status : {"running", "stopped"}, session : SessionIds \cup {NoSession},
                       held : Handles \cup {None}, handle : [Handles -> Y]]
      BY <2>1, <2>2 DEF Pages, SessionIds
    <2>4. [Handles -> X] \subseteq [Handles -> Y]
      BY <1>5, <2>1, <2>2
    <2> QED  BY <2>3, <2>4
  <1>7. Histories \subseteq Histories'
    <2>1. PICK X : X = Seq(DOMAIN chat)
      OBVIOUS
    <2>2. PICK Y : Y = Seq(DOMAIN chat')
      OBVIOUS
    <2>3. /\ Histories = [is : {"history"}, messages : X, cast : SUBSET DOMAIN chat]
          /\ Histories' = [is : {"history"}, messages : Y, cast : SUBSET DOMAIN chat']
          /\ X \subseteq Y
      BY <1>1, <2>1, <2>2 DEF Histories
    <2> QED  BY <2>3
  <1>8. TasksUnderWay \subseteq TasksUnderWay'
    <2>1. PICK X : X = {NoReply} \cup Histories
      OBVIOUS
    <2>2. PICK Y : Y = {NoReply} \cup Histories'
      OBVIOUS
    <2>3. X \subseteq Y
      BY <1>7, <2>1, <2>2
    <2>4. TasksUnderWay =
             [kind : {"refresh", "start", "stop"}, project : Projects, here : BOOLEAN,
              pc : {"first"}, session : {NoSession}, reply : {NoReply} \cup Statuses]
             \cup [kind : {"refresh", "start"}, project : Projects, here : BOOLEAN,
                   pc : {"history"}, session : SessionIds, reply : X]
      BY <2>1 DEF TasksUnderWay
    <2>5. TasksUnderWay' =
             [kind : {"refresh", "start", "stop"}, project : Projects, here : BOOLEAN,
              pc : {"first"}, session : {NoSession}, reply : {NoReply} \cup Statuses]
             \cup [kind : {"refresh", "start"}, project : Projects, here : BOOLEAN,
                   pc : {"history"}, session : SessionIds, reply : Y]
      BY <2>2 DEF TasksUnderWay, Statuses, SessionIds
    <2> QED  BY <2>3, <2>4, <2>5
  <1> QED  BY <1>1, <1>6, <1>7, <1>8

LEMMA PageStays ==
  ASSUME PageIsSound, ChatGrows, UNCHANGED <<page, messages, due>>
  PROVE  PageIsSound'
  <1>1. (page \in Pages)' /\ messages' \in Seq(DOMAIN chat')
    BY TypesGrow DEF PageIsSound, ChatGrows
  <1>2. HoldsAlive(page)'
    BY DEF PageIsSound, HoldsAlive
  <1>3. FramesAreCast(page)'
    <2> SUFFICES ASSUME NEW h \in Handles, page.handle[h] # Free
                 PROVE  GoodFrames(page.handle[h])'
      BY DEF FramesAreCast
    <2>1. PICK x : x = page.handle[h]
      OBVIOUS
    <2>2. GoodFrames(x)
      BY <2>1 DEF PageIsSound, FramesAreCast
    <2>3. GoodFrames(x)'
      BY <2>2, GoodFramesStay DEF ChatGrows
    <2> QED  BY <2>1, <2>3 DEF GoodFrames, IsMessageOf, IsCast
  <1>4. due' \subseteq DOMAIN chat' /\ DueIsCast'
    BY DEF PageIsSound, ChatGrows, DueIsCast, IsCast
  <1>5. ShownIsOfProject'
    <2>1. \A m \in ToSet(messages) : m \in DOMAIN chat
      BY DEF PageIsSound, ToSet
    <2> QED  BY <2>1 DEF PageIsSound, ChatGrows, ShownIsOfProject
  <1>6. Once'
    BY DEF PageIsSound, Once, InTransit
  <1> QED  BY <1>1, <1>2, <1>3, <1>4, <1>5, <1>6 DEF PageIsSound

\* The functions of panels.
LEMMA AnswerStillFits ==
  ASSUME ChatGrows, NEW x, AnswerFits(x)
  PROVE  AnswerFits(x)'
  BY DEF ChatGrows, AnswerFits, GoodHistory, IsMessageOf, IsCast

LEMMA TasksStay ==
  ASSUME TasksAreSound, ChatGrows, UNCHANGED <<task, view>>, left' = left \/ left' \in Lefts
  PROVE  TasksAreSound'
  <1>1. TasksUnderWay \subseteq TasksUnderWay'
    BY TypesGrow DEF ChatGrows
  <1>2. (task \in [Tasks -> {Over} \cup TasksUnderWay])'
    BY <1>1 DEF TasksAreSound
  <1>3. AnswersFit'
    <2> SUFFICES ASSUME NEW t \in Tasks, task[t] # Over
                 PROVE  AnswerFits(task[t])'
      BY DEF AnswersFit
    <2>1. PICK x : x = task[t]
      OBVIOUS
    <2>2. AnswerFits(x)
      BY <2>1 DEF TasksAreSound, AnswersFit
    <2>3. AnswerFits(x)'
      BY <2>2, AnswerStillFits
    <2> QED  BY <2>1, <2>3 DEF AnswerFits, GoodHistory, IsMessageOf, IsCast
  <1> QED  BY <1>2, <1>3 DEF TasksAreSound

LEMMA Spent ==
  ASSUME left \in Lefts, NEW what \in {"tasks", "messages", "ends"}, Spend(what)
  PROVE  left' \in Lefts
  <1>1. left[what] \in Nat
    BY DEF Lefts
  <1>2. PICK n \in Nat : n = left[what] - 1
    BY <1>1 DEF Spend
  <1>3. left' = [left EXCEPT ![what] = n]
    BY <1>2 DEF Spend
  <1> QED  BY <1>3 DEF Lefts

\* A message is stored.
LEMMA Persisted ==
  ASSUME LiveInv, NEW p \in Projects, NEW k \in 1 .. NumSessions, Persist(p, k)
  PROVE  LiveInv'
  <1>1. <<p, k>> \in SessionIds
    BY LiveAssumption DEF SessionIds
  <1>2. PICK c : c = [session |-> <<p, k>>, cast |-> FALSE]
    OBVIOUS
  <1>3. PICK S : S = [session : SessionIds, cast : BOOLEAN]
    OBVIOUS
  <1>4. c \in S /\ chat \in Seq(S) /\ chat' = Append(chat, c)
    BY <1>1, <1>2, <1>3 DEF Persist, LiveInv, ServerIsSound
  <1>5. /\ chat' \in Seq(S)
        /\ \A i \in DOMAIN chat : i \in DOMAIN chat' /\ chat'[i] = chat[i]
    BY <1>4, AppendedTo
  <1>6. ChatGrows
    BY <1>5 DEF ChatGrows
  <1>7. ServerIsSound'
    BY <1>3, <1>5 DEF Persist, LiveInv, ServerIsSound, SessionIds
  <1>8. left' \in Lefts
    BY Spent DEF Persist, LiveInv, TasksAreSound
  <1>9. PageIsSound' /\ TasksAreSound'
    BY <1>6, <1>8, PageStays, TasksStay DEF Persist, LiveInv
  <1> QED  BY <1>7, <1>9 DEF LiveInv

-----------------------------------------------------------------------------
(* What is read of the server.                                             *)

\* Induction for a set of numbers: the least number outside it would follow one inside.
LEMMA SetOfNaturals ==
  ASSUME NEW S, 0 \in S, \A n \in Nat : n \in S => n + 1 \in S
  PROVE  \A n \in Nat : n \in S
  <1> DEFINE T == Nat \ S
             R == {ss \in Nat \X Nat : ss[1] < ss[2]}
  <1> SUFFICES ASSUME T # {} PROVE FALSE
    OBVIOUS
  <1>1. IsWellFoundedOn(R, Nat)
    BY NatLessThanWellFounded DEF OpToRel
  <1>2. PICK x \in T : \A y \in T : ~ (<<y, x>> \in R)
    <2> HIDE DEF R
    <2> QED  BY <1>1, WFMin
  <1>3. x # 0 /\ x \in Nat
    OBVIOUS
  <1>4. x - 1 \in Nat /\ <<x - 1, x>> \in R
    BY <1>3
  <1>5. x - 1 \in S
    BY <1>2, <1>4
  <1>6. (x - 1) + 1 = x
    BY <1>3
  <1> QED  BY <1>4, <1>5, <1>6

\* The recursive function of Stored exists: for every length, one that is defined so.
LEMMA StoredTurns ==
  ASSUME NEW s, Len(chat) \in Nat
  PROVE  \E upTo :
            /\ upTo = [m \in 0 .. Len(chat) |->
                 IF m = 0 THEN << >>
                 ELSE IF chat[m].session = s THEN Append(upTo[m - 1], m) ELSE upTo[m - 1]]
            /\ Stored(s) = upTo[Len(chat)]
  <1> DEFINE Step(ms, m) == IF chat[m].session = s THEN Append(ms, m) ELSE ms
             Is(f, k) == f = [m \in 0 .. k |-> IF m = 0 THEN << >> ELSE Step(f[m - 1], m)]
             upTo[m \in 0 .. Len(chat)] ==
                IF m = 0 THEN << >>
                ELSE IF chat[m].session = s THEN Append(upTo[m - 1], m) ELSE upTo[m - 1]
             S == {k \in Nat : \E f : Is(f, k)}
  <1>1. upTo = CHOOSE f : Is(f, Len(chat))
    BY DEF upTo
  <1>2. Stored(s) = upTo[Len(chat)]
    BY DEF Stored
  <1> HIDE DEF Step, upTo
  <1>3. 0 \in S
    <2> DEFINE f == [m \in 0 .. 0 |-> << >>]
    <2>1. Is(f, 0)
      OBVIOUS
    <2> HIDE DEF f, Is
    <2> QED  BY <2>1
  <1>4. ASSUME NEW k \in Nat, k \in S
        PROVE  k + 1 \in S
    <2>1. PICK f : Is(f, k)
      BY <1>4
    <2> DEFINE g == [m \in 0 .. k + 1 |-> IF m = k + 1 THEN Step(f[k], k + 1) ELSE f[m]]
               h == [m \in 0 .. k + 1 |-> IF m = 0 THEN << >> ELSE Step(g[m - 1], m)]
    <2>2. \A m \in 0 .. k : f[m] = IF m = 0 THEN << >> ELSE Step(f[m - 1], m)
      BY <2>1
    <2>3. \A m \in 0 .. k : g[m] = f[m]
      OBVIOUS
    <2>4. ASSUME NEW m \in 0 .. k + 1
          PROVE  g[m] = IF m = 0 THEN << >> ELSE Step(g[m - 1], m)
      <3>1. CASE m = k + 1
        <4>1. g[m] = Step(f[k], k + 1) /\ g[k] = f[k] /\ m # 0 /\ m - 1 = k
          BY <2>3, <3>1
        <4> HIDE DEF g
        <4> QED  BY <3>1, <4>1
      <3>2. CASE m # k + 1
        <4>1. m \in 0 .. k /\ (m # 0 => m - 1 \in 0 .. k)
          BY <3>2
        <4>2. g[m] = f[m] /\ (m # 0 => g[m - 1] = f[m - 1])
          BY <2>3, <4>1
        <4> HIDE DEF g
        <4> QED  BY <2>2, <4>1, <4>2
      <3> QED  BY <3>1, <3>2
    <2>5. g = h
      <3>1. \A m \in 0 .. k + 1 : g[m] = h[m]
        BY <2>4
      <3> QED  BY <3>1
    <2>6. Is(g, k + 1)
      BY <2>5
    <2> HIDE DEF g, Is
    <2> QED  BY <2>6
  <1>5. \E f : Is(f, Len(chat))
    <2>1. Len(chat) \in S
      <3> HIDE DEF Is, S
      <3> QED  BY <1>3, <1>4, SetOfNaturals
    <2> HIDE DEF Is
    <2> QED  BY <2>1
  <1>6. Is(upTo, Len(chat))
    <2> HIDE DEF Is
    <2> QED  BY <1>1, <1>5
  <1> QED  BY <1>2, <1>6 DEF Step

\* The ids of a session's messages up to n, each of them once.
IsStoredOf(ms, s, n) ==
    /\ ms \in Seq(DOMAIN chat)
    /\ \A i \in DOMAIN ms : ms[i] <= n /\ chat[ms[i]].session = s
    /\ \A m \in DOMAIN chat : m <= n /\ chat[m].session = s => m \in ToSet(ms)
    /\ Distinct(ms, {})

LEMMA StoredIsStored ==
  ASSUME ServerIsSound, NEW s
  PROVE  IsStoredOf(Stored(s), s, Len(chat))
  <1>1. /\ Len(chat) \in Nat /\ DOMAIN chat = 1 .. Len(chat)
    <2>1. PICK S : S = [session : SessionIds, cast : BOOLEAN]
      OBVIOUS
    <2> QED  BY <2>1, ElementsIn DEF ServerIsSound
  <1>2. PICK upTo : 
            /\ upTo = [m \in 0 .. Len(chat) |->
                 IF m = 0 THEN << >>
                 ELSE IF chat[m].session = s THEN Append(upTo[m - 1], m) ELSE upTo[m - 1]]
            /\ Stored(s) = upTo[Len(chat)]
    BY <1>1, StoredTurns
  <1> DEFINE S == {k \in Nat : k <= Len(chat) => IsStoredOf(upTo[k], s, k)}
  <1>3. 0 \in S
    <2>1. upTo[0] = << >>
      BY <1>1, <1>2
    <2>2. /\ << >> \in Seq(DOMAIN chat) /\ DOMAIN << >> = {}
      OBVIOUS
    <2>3. \A m \in DOMAIN chat : ~(m <= 0)
      BY <1>1
    <2>4. IsStoredOf(<< >>, s, 0)
      BY <2>2, <2>3 DEF IsStoredOf, Distinct
    <2> QED  BY <2>1, <2>4
  <1>4. ASSUME NEW k \in Nat, k \in S
        PROVE  k + 1 \in S
    <2> SUFFICES ASSUME k + 1 <= Len(chat)
                 PROVE  IsStoredOf(upTo[k + 1], s, k + 1)
      OBVIOUS
    <2>1. /\ k + 1 \in DOMAIN chat /\ k + 1 \in 0 .. Len(chat) /\ k + 1 # 0 /\ (k + 1) - 1 = k
          /\ k <= Len(chat)
      BY <1>1
    <2>2. upTo[k + 1] = IF chat[k + 1].session = s THEN Append(upTo[k], k + 1) ELSE upTo[k]
      BY <1>2, <2>1
    <2>3. PICK ms : ms = upTo[k]
      OBVIOUS
    <2>4. IsStoredOf(ms, s, k)
      BY <1>4, <2>1, <2>3
    <2>5. PICK D : D = DOMAIN chat
      OBVIOUS
    <2>6. ms \in Seq(D) /\ k + 1 \in D
      BY <2>1, <2>4, <2>5 DEF IsStoredOf
    <2>7. \A i \in DOMAIN ms : ms[i] \in D /\ ms[i] \in Nat /\ ms[i] <= k /\ chat[ms[i]].session = s
      BY <1>1, <2>4, <2>5, <2>6, ElementsIn DEF IsStoredOf
    <2>8. CASE chat[k + 1].session = s
      <3>1. k + 1 \notin ToSet(ms)
        BY <2>7 DEF ToSet
      <3>2. Distinct(ms, {})
        BY <2>4 DEF IsStoredOf
      <3>3. PICK ns : ns = Append(ms, k + 1)
        OBVIOUS
      <3>4. /\ ns \in Seq(D) /\ Len(ms) \in Nat
            /\ \A i \in DOMAIN ns :
                 \/ i \in DOMAIN ms /\ ns[i] = ms[i]
                 \/ i = Len(ms) + 1 /\ ns[i] = k + 1
            /\ \A i \in DOMAIN ms : i \in DOMAIN ns /\ ns[i] = ms[i]
            /\ ToSet(ns) = ToSet(ms) \cup {k + 1}
            /\ Distinct(ns, {})
        BY <2>6, <3>1, <3>2, <3>3, AppendedTo
      <3>5. \A i \in DOMAIN ns : ns[i] <= k + 1 /\ chat[ns[i]].session = s
        BY <2>7, <2>8, <3>4
      <3>6. \A m \in DOMAIN chat : m <= k + 1 /\ chat[m].session = s => m \in ToSet(ns)
        <4> SUFFICES ASSUME NEW m \in DOMAIN chat, m <= k + 1, chat[m].session = s
                     PROVE  m \in ToSet(ns)
          OBVIOUS
        <4>1. m = k + 1 \/ m <= k
          BY <1>1
        <4> QED  BY <2>4, <3>4, <4>1 DEF IsStoredOf
      <3>7. IsStoredOf(ns, s, k + 1)
        BY <2>5, <3>4, <3>5, <3>6 DEF IsStoredOf
      <3> QED  BY <2>2, <2>3, <2>8, <3>3, <3>7
    <2>9. CASE chat[k + 1].session # s
      <3>1. \A i \in DOMAIN ms : ms[i] <= k + 1
        BY <2>7
      <3>2. \A m \in DOMAIN chat : m <= k + 1 /\ chat[m].session = s => m <= k
        BY <1>1, <2>9
      <3>3. IsStoredOf(ms, s, k + 1)
        BY <2>4, <3>1, <3>2 DEF IsStoredOf
      <3> QED  BY <2>2, <2>3, <2>9, <3>3
    <2> QED  BY <2>8, <2>9
  <1>5. Len(chat) \in S
    <2> HIDE DEF S
    <2> QED  BY <1>1, <1>3, <1>4, SetOfNaturals
  <1> QED  BY <1>1, <1>2, <1>5

LEMMA HistoryIsGood ==
  ASSUME ServerIsSound, NEW s
  PROVE  History(s) \in Histories /\ GoodHistory(History(s), s[1]) /\ History(s) # NoReply
  <1>1. PICK ms : ms = Stored(s)
    OBVIOUS
  <1>2. IsStoredOf(ms, s, Len(chat))
    BY <1>1, StoredIsStored
  <1>3. PICK c : c = {m \in DOMAIN chat : chat[m].session = s /\ chat[m].cast}
    OBVIOUS
  <1>4. History(s) = [is |-> "history", messages |-> ms, cast |-> c]
    BY <1>1, <1>3 DEF History
  <1>5. ms \in Seq(DOMAIN chat)
    BY <1>2 DEF IsStoredOf
  <1>6. History(s) \in Histories /\ History(s) # NoReply
    BY <1>3, <1>4, <1>5 DEF Histories, NoReply
  <1>7. \A i \in DOMAIN ms : IsMessageOf(ms[i], s[1])
    <2>1. PICK D : D = DOMAIN chat
      OBVIOUS
    <2>2. \A i \in DOMAIN ms : ms[i] \in D
      BY <1>5, <2>1, ElementsIn
    <2> QED  BY <1>2, <2>1, <2>2 DEF IsStoredOf, IsMessageOf
  <1>8. \A m \in DOMAIN chat : m <= Len(chat)
    <2>1. PICK S : S = [session : SessionIds, cast : BOOLEAN]
      OBVIOUS
    <2> QED  BY <2>1, ElementsIn DEF ServerIsSound
  <1>9. \A m \in c : IsCast(m) /\ m \in ToSet(ms)
    BY <1>2, <1>3, <1>8 DEF IsStoredOf, IsCast
  <1>10. Distinct(ms, {})
    BY <1>2 DEF IsStoredOf
  <1>11. PICK r : r = History(s)
    OBVIOUS
  <1>12. r.messages = ms /\ r.cast = c
    BY <1>4, <1>11
  <1>13. GoodHistory(r, s[1])
    BY <1>7, <1>9, <1>10, <1>12 DEF GoodHistory
  <1> QED  BY <1>6, <1>11, <1>13

LEMMA StatusIsGood ==
  ASSUME ServerIsSound, NEW p \in Projects
  PROVE  /\ CurrentStatus(p) \in Statuses /\ CurrentStatus(p) # NoReply
         /\ CurrentStatus(p).is = "running" => CurrentStatus(p).session[1] = p
  <1>1. running[p] \in 0 .. NumSessions
    BY DEF ServerIsSound
  <1>2. CASE running[p] = None
    <2>1. CurrentStatus(p) = [is |-> "stopped", session |-> NoSession]
      BY <1>2 DEF CurrentStatus, Status
    <2> QED  BY <2>1 DEF Statuses, NoReply
  <1>3. CASE running[p] # None
    <2>1. CurrentStatus(p) = [is |-> "running", session |-> <<p, running[p]>>]
      BY <1>3 DEF CurrentStatus, Status
    <2>2. <<p, running[p]>> \in SessionIds
      BY <1>1 DEF SessionIds
    <2> QED  BY <2>1, <2>2 DEF Statuses, NoReply
  <1> QED  BY <1>2, <1>3

-----------------------------------------------------------------------------
(* The functions of panels.                                                *)

Kinds == {"refresh", "start", "stop"}
FirstTasks ==
    [kind : Kinds, project : Projects, here : BOOLEAN, pc : {"first"}, session : {NoSession},
     reply : {NoReply} \cup Statuses]
HistoryTasks ==
    [kind : {"refresh", "start"}, project : Projects, here : BOOLEAN, pc : {"history"},
     session : SessionIds, reply : {NoReply} \cup Histories]

LEMMA TaskKinds ==
  /\ TasksUnderWay = FirstTasks \cup HistoryTasks /\ Over \notin TasksUnderWay
  /\ \A x \in TasksUnderWay :
       /\ x.project \in Projects
       /\ x.pc = "first" => x \in FirstTasks
       /\ x.pc = "history" => x \in HistoryTasks
  /\ Over.pc = "over" /\ \A x \in TasksUnderWay : x.pc \in {"first", "history"}
  <1>1. TasksUnderWay = FirstTasks \cup HistoryTasks
    BY DEF TasksUnderWay, FirstTasks, HistoryTasks, Kinds
  <1>2. \A x \in FirstTasks : x.pc = "first" /\ x.project \in Projects
    BY DEF FirstTasks
  <1>3. \A x \in HistoryTasks : x.pc = "history" /\ x.project \in Projects
    BY DEF HistoryTasks
  <1>4. Over.pc = "over"
    BY DEF Over
  <1> QED  BY <1>1, <1>2, <1>3, <1>4

LEMMA TaskBegun ==
  ASSUME NEW kind \in Kinds, NEW p \in Projects
  PROVE  /\ Begun(kind, p) \in TasksUnderWay /\ AnswerFits(Begun(kind, p))
  <1>1. PICK x : x = Begun(kind, p)
    OBVIOUS
  <1>2. x \in FirstTasks /\ x.reply = NoReply /\ x.pc = "first"
    BY <1>1 DEF Begun, FirstTasks
  <1> QED  BY <1>1, <1>2, TaskKinds DEF AnswerFits

LEMMA TaskLeft ==
  ASSUME NEW x \in TasksUnderWay, AnswerFits(x)
  PROVE  [x EXCEPT !.here = FALSE] \in TasksUnderWay /\ AnswerFits([x EXCEPT !.here = FALSE])
  <1>1. PICK y : y = [x EXCEPT !.here = FALSE]
    OBVIOUS
  <1>2. /\ y \in TasksUnderWay
        /\ y.pc = x.pc /\ y.reply = x.reply /\ y.session = x.session /\ y.project = x.project
    <2>1. CASE x \in FirstTasks
      <3>1. /\ y \in FirstTasks
            /\ y.pc = x.pc /\ y.reply = x.reply /\ y.session = x.session /\ y.project = x.project
        BY <1>1, <2>1 DEF FirstTasks
      <3> QED  BY <3>1, TaskKinds
    <2>2. CASE x \in HistoryTasks
      <3>1. PICK H : H = {NoReply} \cup Histories
        OBVIOUS
      <3>2. HistoryTasks = [kind : {"refresh", "start"}, project : Projects, here : BOOLEAN,
                            pc : {"history"}, session : SessionIds, reply : H]
        BY <3>1 DEF HistoryTasks
      <3>3. /\ y \in HistoryTasks
            /\ y.pc = x.pc /\ y.reply = x.reply /\ y.session = x.session /\ y.project = x.project
        BY <1>1, <2>2, <3>2
      <3> QED  BY <3>3, TaskKinds
    <2> QED  BY <2>1, <2>2, TaskKinds
  <1>3. AnswerFits(y)
    BY <1>2 DEF AnswerFits
  <1> QED  BY <1>1, <1>2, <1>3

LEMMA TaskGoesOn ==
  ASSUME NEW x \in FirstTasks, x.kind # "stop", NEW s \in SessionIds, s[1] = x.project
  PROVE  LET y == [x EXCEPT !.pc = "history", !.session = s, !.reply = NoReply]
         IN y \in TasksUnderWay /\ AnswerFits(y)
  <1>1. PICK y : y = [x EXCEPT !.pc = "history", !.session = s, !.reply = NoReply]
    OBVIOUS
  <1>2. PICK H : H = {NoReply} \cup Histories
    OBVIOUS
  <1>3. HistoryTasks = [kind : {"refresh", "start"}, project : Projects, here : BOOLEAN,
                        pc : {"history"}, session : SessionIds, reply : H]
    BY <1>2 DEF HistoryTasks
  <1>4. NoReply \in H
    BY <1>2
  <1>5. /\ y \in HistoryTasks
        /\ y.pc = "history" /\ y.reply = NoReply /\ y.session = s /\ y.project = x.project
    BY <1>1, <1>3, <1>4 DEF FirstTasks, Kinds
  <1> QED  BY <1>1, <1>5, TaskKinds DEF AnswerFits

LEMMA TaskAnswered ==
  ASSUME NEW x \in TasksUnderWay, AnswerFits(x), NEW r,
         \/ /\ x.pc = "first" /\ r \in Statuses
            /\ r.is = "running" => r.session[1] = x.project
         \/ /\ x.pc = "history" /\ r \in Histories /\ GoodHistory(r, x.project)
  PROVE  [x EXCEPT !.reply = r] \in TasksUnderWay /\ AnswerFits([x EXCEPT !.reply = r])
  <1>1. PICK y : y = [x EXCEPT !.reply = r]
    OBVIOUS
  <1>2. CASE /\ x.pc = "first" /\ r \in Statuses
             /\ r.is = "running" => r.session[1] = x.project
    <2>1. x \in FirstTasks
      BY <1>2, TaskKinds
    <2>2. y \in FirstTasks /\ y.pc = "first" /\ y.reply = r /\ y.project = x.project
      BY <1>1, <1>2, <2>1 DEF FirstTasks
    <2> QED  BY <1>1, <1>2, <2>2, TaskKinds DEF AnswerFits
  <1>3. CASE x.pc = "history" /\ r \in Histories /\ GoodHistory(r, x.project)
    <2>1. x \in HistoryTasks
      BY <1>3, TaskKinds
    <2>2. PICK H : H = {NoReply} \cup Histories
      OBVIOUS
    <2>3. HistoryTasks = [kind : {"refresh", "start"}, project : Projects, here : BOOLEAN,
                          pc : {"history"}, session : SessionIds, reply : H]
      BY <2>2 DEF HistoryTasks
    <2>4. r \in H
      BY <1>3, <2>2
    <2>5. /\ y \in HistoryTasks /\ y.pc = "history" /\ y.reply = r
          /\ y.project = x.project /\ y.session = x.session
      BY <1>1, <2>1, <2>3, <2>4
    <2> QED  BY <1>1, <1>3, <2>5, TaskKinds DEF AnswerFits
  <1> QED  BY <1>2, <1>3

\* Functions begin, wait and end.
LEMMA TasksBecome ==
  ASSUME UNCHANGED chat, NEW ts, task' = ts,
         ts \in [Tasks -> {Over} \cup TasksUnderWay],
         \A t \in Tasks : ts[t] # Over => AnswerFits(ts[t]),
         view' \in Projects \cup {NoView}, left' \in Lefts
  PROVE  TasksAreSound'
  <1>1. ChatGrows
    BY DEF ChatGrows
  <1>2. TasksUnderWay \subseteq TasksUnderWay'
    BY <1>1, TypesGrow DEF ChatGrows
  <1>3. (task \in [Tasks -> {Over} \cup TasksUnderWay])'
    BY <1>2
  <1>4. AnswersFit'
    BY DEF AnswersFit, AnswerFits, GoodHistory, IsMessageOf, IsCast
  <1> QED  BY <1>3, <1>4 DEF TasksAreSound

LEMMA TaskBecomes ==
  ASSUME TasksAreSound, UNCHANGED <<chat, view>>, left' = left \/ left' \in Lefts,
         NEW t \in Tasks, NEW x \in {Over} \cup TasksUnderWay, x # Over => AnswerFits(x),
         task' = [task EXCEPT ![t] = x]
  PROVE  TasksAreSound'
  <1>1. PICK ts : ts = [task EXCEPT ![t] = x]
    OBVIOUS
  <1>2. /\ ts \in [Tasks -> {Over} \cup TasksUnderWay]
        /\ ts[t] = x /\ \A u \in Tasks : u # t => ts[u] = task[u]
    <2>1. PICK X : X = {Over} \cup TasksUnderWay
      OBVIOUS
    <2>2. task \in [Tasks -> X] /\ x \in X
      BY <2>1 DEF TasksAreSound
    <2> QED  BY <1>1, <2>1, <2>2
  <1>3. \A u \in Tasks : ts[u] # Over => AnswerFits(ts[u])
    BY <1>2 DEF TasksAreSound, AnswersFit
  <1>4. view' \in Projects \cup {NoView} /\ left' \in Lefts /\ task' = ts /\ chat' = chat
    BY <1>1 DEF TasksAreSound
  <1> QED  BY <1>2, <1>3, <1>4, TasksBecome

-----------------------------------------------------------------------------
(* Each action.                                                            *)

LEMMA ServerStays ==
  ASSUME ServerIsSound, UNCHANGED serverVars
  PROVE  ServerIsSound'
  BY DEF ServerIsSound, serverVars, SessionIds

LEMMA ChatStays ==
  ASSUME UNCHANGED chat
  PROVE  ChatGrows
  BY DEF ChatGrows

LEMMA BeginsSound ==
  ASSUME ServerIsSound, NEW p \in Projects, SessionBegins(p)
  PROVE  ServerIsSound' /\ begun'[p] \in 1 .. NumSessions
  <1>1. begun[p] + 1 \in 1 .. NumSessions /\ NumSessions \in Nat
    BY LiveAssumption DEF ServerIsSound, SessionBegins
  <1>2. /\ begun' \in [Projects -> 0 .. NumSessions] /\ begun'[p] \in 1 .. NumSessions
    BY <1>1 DEF ServerIsSound, SessionBegins
  <1>3. running' \in [Projects -> 0 .. NumSessions]
    BY <1>2 DEF ServerIsSound, SessionBegins
  <1> QED  BY <1>2, <1>3 DEF ServerIsSound, SessionBegins, SessionIds

\* The UPDATE, after which the room is closed or left behind.
LEMMA MarksSound ==
  ASSUME ServerIsSound, NEW p \in Projects, MarkStopped(p)
  PROVE  /\ running' \in [Projects -> 0 .. NumSessions] /\ <<p, running[p]>> \in SessionIds
         /\ UNCHANGED <<exists, begun, chat>>
  <1>1. 0 \in 0 .. NumSessions /\ running[p] \in 0 .. NumSessions
    BY LiveAssumption DEF ServerIsSound
  <1> QED  BY <1>1 DEF ServerIsSound, MarkStopped, SessionIds, None

LEMMA EndsSound ==
  ASSUME ServerIsSound, PageIsSound, NEW p \in Projects, SessionEnds(p) \/ SessionCut(p),
         UNCHANGED <<messages, due>>
  PROVE  ServerIsSound' /\ PageIsSound' /\ UNCHANGED chat
  <1>1. MarkStopped(p)
    BY DEF SessionEnds, SessionCut
  <1>2. /\ running' \in [Projects -> 0 .. NumSessions] /\ <<p, running[p]>> \in SessionIds
        /\ UNCHANGED <<exists, begun, chat>>
    BY <1>1, MarksSound
  <1>3. (closing \subseteq SessionIds)'
    BY <1>2 DEF SessionEnds, SessionCut, ServerIsSound, SessionIds
  <1>4. ServerIsSound'
    BY <1>2, <1>3 DEF ServerIsSound, SessionIds
  <1>5. CASE SessionEnds(p)
    BY <1>2, <1>4, <1>5, ChatStays, PageStays DEF SessionEnds
  <1>6. CASE SessionCut(p)
    BY <1>2, <1>4, <1>6, StrandedSound DEF SessionCut
  <1> QED  BY <1>5, <1>6

LEMMA EndsSpend ==
  ASSUME TasksAreSound, NEW p, SessionEnds(p) \/ SessionCut(p) \/ DeleteProject(p)
  PROVE  left' \in Lefts
  <1>1. Spend("ends")
    BY DEF SessionEnds, SessionCut, MarkStopped, DeleteProject
  <1> QED  BY <1>1, Spent DEF TasksAreSound

LEMMA CloseStep ==
  ASSUME LiveInv, NEW p \in Projects, NEW k, CloseRoom(p, k)
  PROVE  LiveInv'
  <1>1. /\ closing' \subseteq closing /\ Send(p, Ended)
        /\ UNCHANGED <<exists, running, begun, chat>> /\ UNCHANGED <<messages, due>>
        /\ UNCHANGED <<task, view, left>>
    BY DEF CloseRoom
  <1>2. ServerIsSound'
    BY <1>1 DEF LiveInv, ServerIsSound, SessionIds
  <1>3. PageIsSound'
    BY <1>1, EndQueued DEF LiveInv
  <1>4. TasksAreSound'
    BY <1>1, ChatStays, TasksStay DEF LiveInv
  <1> QED  BY <1>2, <1>3, <1>4 DEF LiveInv

LEMMA DeleteStep ==
  ASSUME LiveInv, NEW p \in Projects, DeleteProject(p)
  PROVE  LiveInv'
  <1>1. 0 \in 0 .. NumSessions
    BY LiveAssumption
  <1>2. /\ Strand(p) /\ UNCHANGED <<begun, closing, chat>> /\ UNCHANGED <<messages, due>>
        /\ UNCHANGED <<task, view>>
    BY DEF DeleteProject
  <1>3. ServerIsSound'
    BY <1>1, <1>2 DEF LiveInv, ServerIsSound, DeleteProject, SessionIds, None
  <1>4. PageIsSound'
    BY <1>2, StrandedSound DEF LiveInv
  <1>5. TasksAreSound'
    BY <1>2, ChatStays, EndsSpend, TasksStay DEF LiveInv
  <1> QED  BY <1>3, <1>4, <1>5 DEF LiveInv

LEMMA ServerSteps ==
  ASSUME LiveInv, NEW p \in Projects, OthersStart(p) \/ OthersStop(p)
  PROVE  LiveInv'
  <1>1. CASE OthersStart(p)
    <2>1. ServerIsSound'
      BY <1>1, BeginsSound DEF OthersStart, LiveInv
    <2>2. PageIsSound' /\ TasksAreSound'
      BY <1>1, ChatStays, PageStays, TasksStay DEF OthersStart, SessionBegins, LiveInv
    <2> QED  BY <2>1, <2>2 DEF LiveInv
  <1>2. CASE OthersStop(p)
    <2>1. SessionEnds(p) \/ SessionCut(p)
      BY <1>2 DEF OthersStop
    <2>2. UNCHANGED <<messages, due>> /\ UNCHANGED <<task, view>>
      BY <1>2 DEF OthersStop
    <2>3. ServerIsSound' /\ PageIsSound' /\ UNCHANGED chat
      BY <2>1, <2>2, EndsSound DEF LiveInv
    <2>4. TasksAreSound'
      BY <2>1, <2>2, <2>3, ChatStays, EndsSpend, TasksStay DEF LiveInv
    <2> QED  BY <2>3, <2>4 DEF LiveInv
  <1> QED  BY <1>1, <1>2

LEMMA BroadcastStep ==
  ASSUME LiveInv, NEW m \in DOMAIN chat, Broadcast(m)
  PROVE  LiveInv'
  <1>1. ServerIsSound' /\ PageIsSound'
    BY MessageQueued DEF LiveInv
  <1>2. ChatGrows
    <2>1. chat' = [chat EXCEPT ![m].cast = TRUE]
      BY DEF Broadcast
    <2>2. PICK S : S = [session : SessionIds, cast : BOOLEAN]
      OBVIOUS
    <2>3. chat \in Seq(S) /\ DOMAIN chat = 1 .. Len(chat)
      BY <2>2, ElementsIn DEF LiveInv, ServerIsSound
    <2>4. \A n \in DOMAIN chat : chat[n] \in [session : SessionIds, cast : BOOLEAN]
      BY <2>2, <2>3, ElementsIn
    <2>5. DOMAIN chat' = DOMAIN chat
      BY <2>1, <2>3
    <2>6. \A n \in DOMAIN chat : n # m => chat'[n] = chat[n]
      BY <2>1, <2>3
    <2>7. chat'[m] = [chat[m] EXCEPT !.cast = TRUE]
      BY <2>1, <2>3
    <2>8. chat'[m].session = chat[m].session /\ chat'[m].cast
      BY <2>4, <2>7
    <2> QED  BY <2>5, <2>6, <2>8 DEF ChatGrows
  <1>3. TasksAreSound'
    BY <1>2, TasksStay DEF Broadcast, LiveInv
  <1> QED  BY <1>1, <1>3 DEF LiveInv

\* The store goes on as g, and nothing happens at the server or in a panel.
LEMMA StoreStep ==
  ASSUME LiveInv, NEW g, Moves(page, g), GoesOn(g),
         UNCHANGED <<serverVars, messages, task, view, left>>
  PROVE  LiveInv'
  <1>1. ServerIsSound'
    BY ServerStays DEF LiveInv
  <1>2. UNCHANGED <<chat, messages>>
    BY DEF serverVars
  <1>3. PageIsSound'
    BY <1>2, PageGoesOn DEF LiveInv
  <1>4. TasksAreSound'
    BY <1>2, ChatStays, TasksStay DEF LiveInv
  <1> QED  BY <1>1, <1>3, <1>4 DEF LiveInv

LEMMA PcSteps ==
  ASSUME LiveInv, NEW h \in Handles, Admit(h) \/ Register(h) \/ TimerFires(h)
  PROVE  LiveInv'
  <1>1. PICK v \in Pcs \ {"asking"} : page' = [page EXCEPT !.handle[h].pc = v]
    BY DEF Admit, Register, TimerFires, Pcs
  <1>2. /\ page \in Pages /\ HoldsAlive(page) /\ page.handle[h].pc \in Pcs \ {"asking"}
    BY DEF Admit, Register, TimerFires, Pcs, LiveInv, PageIsSound
  <1>3. PICK g : g = [page EXCEPT !.handle[h].pc = v]
    OBVIOUS
  <1>4. Moves(page, g) /\ InTransit(g) = InTransit(page)
    BY <1>2, <1>3, PcMoves
  <1>5. GoesOn(g) /\ UNCHANGED <<serverVars, messages, task, view, left>>
    BY <1>1, <1>3, <1>4 DEF GoesOn, Admit, Register, TimerFires
  <1> QED  BY <1>4, <1>5, StoreStep

LEMMA DropStep ==
  ASSUME LiveInv, NEW h \in Handles, Drop(h)
  PROVE  LiveInv'
  <1>1. page \in Pages /\ HoldsAlive(page)
    BY DEF LiveInv, PageIsSound
  <1>2. Moves(page, Asking(page, h))
    BY <1>1, AskingMoves DEF Drop
  <1> QED  BY <1>2, StoreStep DEF Drop

LEMMA CheckSteps ==
  ASSUME LiveInv, NEW h \in Handles, Reconsider(h) \/ CheckFails(h)
  PROVE  LiveInv'
  <1>1. page \in Pages /\ HoldsAlive(page)
    BY DEF LiveInv, PageIsSound
  <1>2. CASE Reconsider(h)
    <2> DEFINE r == page.handle[h].reply
               p == page.handle[h].project
    <2>1. page.handle[h] \in SomeHandle /\ page.handle[h] # Free /\ page.handle[h].pc = "asking"
      BY <1>1, <1>2, PageHandles DEF Reconsider, Free
    <2>2. r \in Statuses
      BY <1>2, <2>1, HandleKinds DEF Reconsider
    <2>3. PICK g : g = FetchStatus(page, p, r)
      OBVIOUS
    <2>4. Moves(page, g) /\ g.handle[h] = page.handle[h]
      BY <1>1, <2>2, <2>3, FetchStatusMoves
    <2>5. PICK ok \in BOOLEAN : ok = (g.status = "running")
      OBVIOUS
    <2>6. Moves(g, Decide(g, h, ok))
      BY <2>1, <2>4, DecideMoves DEF Moves
    <2>7. Moves(page, Decide(g, h, ok))
      BY <1>1, <2>4, <2>6, MovesOn
    <2>8. GoesOn(Decide(g, h, ok)) /\ UNCHANGED <<serverVars, messages, task, view, left>>
      BY <1>2, <2>3, <2>5 DEF Reconsider
    <2> QED  BY <2>7, <2>8, StoreStep
  <1>3. CASE CheckFails(h)
    <2>1. Moves(page, Decide(page, h, FALSE))
      BY <1>1, <1>3, DecideMoves DEF CheckFails
    <2> QED  BY <1>3, <2>1, StoreStep DEF CheckFails
  <1> QED  BY <1>2, <1>3

LEMMA ServeCheckStep ==
  ASSUME LiveInv, NEW h \in Handles, ServeCheck(h)
  PROVE  LiveInv'
  <1>1. page \in Pages /\ HoldsAlive(page)
    BY DEF LiveInv, PageIsSound
  <1>2. PICK x : x = page.handle[h]
    OBVIOUS
  <1>3. x \in HandlesInUse /\ x # Free /\ x.pc = "asking"
    BY <1>1, <1>2, PageHandles, HandleKinds DEF ServeCheck, Free
  <1>4. PICK r \in Statuses : r = CurrentStatus(x.project)
    BY <1>3, HandleKinds, StatusIsGood DEF LiveInv, HandlesInUse
  <1>5. PICK y : y = [x EXCEPT !.reply = r]
    OBVIOUS
  <1>6. /\ y \in HandlesInUse /\ y.pc = "asking" /\ y.byCaller = x.byCaller
        /\ y.project = x.project /\ y.frames = x.frames
    BY <1>3, <1>5 DEF HandlesInUse
  <1>7. y \in SomeHandle /\ Stays(x, y) /\ (Alive(y) <=> Alive(x))
    BY <1>3, <1>6 DEF SomeHandle, Stays, Alive
  <1>8. Moves(page, With(page, h, y)) /\ With(page, h, y).held = page.held
    BY <1>1, <1>2, <1>6, <1>7, OneMoves
  <1>9. /\ With(page, h, y).handle = [page.handle EXCEPT ![h] = y]
        /\ With(page, h, y).handle[h] = y
        /\ \A k \in Handles : k # h => With(page, h, y).handle[k] = page.handle[k]
        /\ With(page, h, y).status = page.status
    BY <1>1, <1>7, PageWith
  <1>10. page.held \in Handles \cup {None}
    BY <1>1, PageHandles
  <1>11. InTransit(With(page, h, y)) = InTransit(page)
    BY <1>2, <1>6, <1>8, <1>9, <1>10 DEF InTransit
  <1>12. page' = With(page, h, y)
    BY <1>1, <1>2, <1>4, <1>5 DEF ServeCheck, With, Pages
  <1>13. GoesOn(With(page, h, y)) /\ UNCHANGED <<serverVars, messages, task, view, left>>
    BY <1>11, <1>12 DEF GoesOn, ServeCheck
  <1> QED  BY <1>8, <1>13, StoreStep

LEMMA ReceiveStep ==
  ASSUME LiveInv, NEW h \in Handles, Receive(h)
  PROVE  LiveInv'
  <1>1. page \in Pages /\ HoldsAlive(page)
    BY DEF LiveInv, PageIsSound
  <1>2. IsOpen(page.handle[h]) /\ page.handle[h].frames # << >>
    BY DEF Receive
  <1>3. CASE Head(page.handle[h].frames) = Ended
    <2>1. PICK fs : fs = page.handle[h].frames
      OBVIOUS
    <2>2. page.handle[h] \in SomeHandle /\ page.handle[h] # Free
      BY <1>1, <1>2, PageHandles DEF IsOpen, Free
    <2>3. fs \in Seq({Ended} \cup DOMAIN chat)
      BY <2>1, <2>2, HandleKinds
    <2>4. PICK S : S = {Ended} \cup DOMAIN chat
      OBVIOUS
    <2>5. PICK gs : gs = Tail(fs)
      OBVIOUS
    <2>6. gs \in Seq({Ended} \cup DOMAIN chat)
      BY <1>2, <2>1, <2>3, <2>4, <2>5, HeadAndTail
    <2>7. PICK g : g = Disconnect([WithFrames(h, gs) EXCEPT !.status = "stopped"])
      OBVIOUS
    <2>8. Moves(page, g)
      BY <1>1, <1>2, <2>6, <2>7, EndReceived
    <2>9. GoesOn(g) /\ UNCHANGED <<serverVars, messages, task, view, left>>
      BY <1>3, <2>1, <2>5, <2>7 DEF Receive, WithFrames
    <2> QED  BY <2>8, <2>9, StoreStep
  <1>4. CASE Head(page.handle[h].frames) # Ended
    <2>1. /\ page' = [page EXCEPT !.handle[h].frames = Tail(@)]
          /\ messages' = Append(messages, Head(page.handle[h].frames))
          /\ UNCHANGED <<serverVars, due, task, view, left>>
      BY <1>4 DEF Receive
    <2>2. UNCHANGED <<chat, due>>
      BY <2>1 DEF serverVars
    <2>3. PageIsSound'
      BY <1>2, <1>4, <2>1, <2>2, MessageReceived DEF LiveInv
    <2>4. ServerIsSound' /\ TasksAreSound'
      BY <2>1, <2>2, ServerStays, ChatStays, TasksStay DEF LiveInv
    <2> QED  BY <2>3, <2>4 DEF LiveInv
  <1> QED  BY <1>3, <1>4

\* The socket that is opened, or is open already, is the project's.
LEMMA Connected ==
  ASSUME page \in Pages, HoldsAlive(page), FramesAreCast(page), NEW p \in Projects, CanConnect,
         NEW f, f = ConnectSocket(page, p)
  PROVE  /\ f \in Pages /\ HoldsAlive(f) /\ FramesAreCast(f)
         /\ f.held # None /\ f.handle[f.held].project = p
         /\ InTransit(f) \subseteq InTransit(page)
  <1>1. CASE page.held # None /\ page.handle[page.held].project = p
    BY <1>1 DEF ConnectSocket
  <1>2. CASE ~(page.held # None /\ page.handle[page.held].project = p)
    <2>1. PICK d : d = Disconnect(page)
      OBVIOUS
    <2>2. Moves(page, d) /\ d.held = None
      BY <2>1, DisconnectMoves
    <2>3. d \in Pages /\ HoldsAlive(d)
      BY <2>2 DEF Moves
    <2>4. PICK h : h = CHOOSE i \in Handles : d.handle[i] = Free
      OBVIOUS
    <2>5. h \in Handles /\ d.handle[h] = Free
      BY <2>1, <2>4 DEF CanConnect
    <2>6. PICK x : x = Opening(p)
      OBVIOUS
    <2>7. << >> \in Seq({Ended} \cup DOMAIN chat)
      OBVIOUS
    <2>8. /\ x \in HandlesInUse /\ x.pc = "opening" /\ x.byCaller = FALSE
          /\ x.project = p /\ x.frames = << >>
      BY <2>6, <2>7 DEF Opening, HandlesInUse
    <2>9. f = [With(d, h, x) EXCEPT !.held = h]
      BY <1>2, <2>1, <2>4, <2>6 DEF ConnectSocket, Opened, With
    <2>10. PICK e : e = With(d, h, x)
      OBVIOUS
    <2>11. /\ e \in Pages /\ e.handle = [d.handle EXCEPT ![h] = x] /\ e.handle[h] = x
           /\ \A k \in Handles : k # h => e.handle[k] = d.handle[k]
           /\ e.held = d.held /\ e.status = d.status
      BY <2>3, <2>5, <2>8, <2>10, PageWith DEF SomeHandle
    <2>12. f \in Pages /\ f.handle = e.handle /\ f.held = h
      BY <2>5, <2>9, <2>10, <2>11 DEF Pages
    <2>13. None \notin Handles
      BY <2>3, PageHandles
    <2>14. HoldsAlive(f)
      <3>1. \A k \in Handles : k # h => ~Alive(f.handle[k])
        BY <2>2, <2>3, <2>11, <2>12, <2>13 DEF HoldsAlive
      <3>2. Alive(f.handle[h])
        BY <2>8, <2>11, <2>12 DEF Alive
      <3>3. \A k \in Handles :
               f.handle[k] # Free /\ f.handle[k].byCaller => f.handle[k].pc = "asking"
        BY <2>3, <2>8, <2>11, <2>12 DEF HoldsAlive
      <3> QED  BY <2>12, <3>1, <3>2, <3>3 DEF HoldsAlive
    <2>15. FramesAreCast(f)
      <3> SUFFICES ASSUME NEW k \in Handles, f.handle[k] # Free
                   PROVE  GoodFrames(f.handle[k])
        BY DEF FramesAreCast
      <3>1. CASE k = h
        BY <2>8, <2>11, <2>12, <3>1 DEF GoodFrames, Distinct
      <3>2. CASE k # h
        <4>1. f.handle[k] = d.handle[k]
          BY <2>11, <2>12, <3>2
        <4>2. /\ page.handle[k] # Free /\ d.handle[k].project = page.handle[k].project
              /\ d.handle[k].frames \in {page.handle[k].frames, << >>}
          BY <2>2, <4>1 DEF Moves, Stays
        <4>3. GoodFrames(page.handle[k])
          BY <4>2 DEF FramesAreCast
        <4> QED  BY <4>1, <4>2, <4>3 DEF GoodFrames, Distinct
      <3> QED  BY <3>1, <3>2
    <2>16. InTransit(f) = {}
      BY <2>8, <2>11, <2>12 DEF InTransit, ToSet
    <2> QED  BY <2>5, <2>8, <2>11, <2>12, <2>13, <2>14, <2>15, <2>16
  <1> QED  BY <1>1, <1>2

LEMMA HistoryStep ==
  ASSUME LiveInv, NEW t \in Tasks, HistoryArrives(t)
  PROVE  LiveInv'
  <1>1. PICK x : x = task[t]
    OBVIOUS
  <1>2. x.pc = "history" /\ x.reply # NoReply /\ x \in {Over} \cup TasksUnderWay
    BY <1>1 DEF HistoryArrives, Arrived, LiveInv, TasksAreSound
  <1>3. x \in TasksUnderWay /\ x \in HistoryTasks /\ x # Over /\ x.project \in Projects
    BY <1>2, TaskKinds
  <1>4. PICK r : r = x.reply
    OBVIOUS
  <1>5. r \in Histories
    BY <1>2, <1>3, <1>4 DEF HistoryTasks
  <1>6. GoodHistory(r, x.project)
    BY <1>1, <1>2, <1>3, <1>4 DEF LiveInv, TasksAreSound, AnswersFit, AnswerFits
  <1>7. page \in Pages /\ HoldsAlive(page) /\ FramesAreCast(page)
    BY DEF LiveInv, PageIsSound
  <1>8. PICK f : f = ConnectSocket(page, x.project)
    OBVIOUS
  <1>9. /\ f \in Pages /\ HoldsAlive(f) /\ FramesAreCast(f)
        /\ f.held # None /\ f.handle[f.held].project = x.project
        /\ InTransit(f) \subseteq InTransit(page)
    BY <1>3, <1>7, <1>8, Connected DEF HistoryArrives
  <1>10. /\ page' = f /\ messages' = r.messages
         /\ due' = (r.cast \ InTransit(f)) \cup ((due \cap InTransit(f)) \ ToSet(r.messages))
         /\ chat' = chat
    BY <1>1, <1>4, <1>8 DEF HistoryArrives, serverVars
  <1>11. (page \in Pages)'
    BY <1>9, <1>10 DEF Pages, HandlesInUse, Statuses, SessionIds
  <1>12. HoldsAlive(page)' /\ FramesAreCast(page)'
    BY <1>9, <1>10 DEF HoldsAlive, FramesAreCast, GoodFrames, IsMessageOf, IsCast
  <1>13. messages' \in Seq(DOMAIN chat')
    BY <1>5, <1>10 DEF Histories
  <1>14. due' \subseteq DOMAIN chat' /\ DueIsCast'
    BY <1>6, <1>10 DEF LiveInv, PageIsSound, DueIsCast, GoodHistory, IsCast
  <1>15. ShownIsOfProject'
    BY <1>6, <1>9, <1>10 DEF ShownIsOfProject, GoodHistory, IsMessageOf, ToSet
  <1>16. Once'
    <2> SUFFICES ASSUME NEW n \in due'
                 PROVE  /\ n \in InTransit(f) <=> n \notin ToSet(r.messages)
                        /\ \A i, j \in DOMAIN r.messages :
                             r.messages[i] = n /\ r.messages[j] = n => i = j
      BY <1>10 DEF Once, InTransit
    <2>1. n \in InTransit(f) <=> n \notin ToSet(r.messages)
      BY <1>6, <1>10 DEF GoodHistory
    <2>2. Distinct(r.messages, {})
      BY <1>6 DEF GoodHistory
    <2> QED  BY <2>1, <2>2 DEF Distinct
  <1>17. PageIsSound'
    BY <1>11, <1>12, <1>13, <1>14, <1>15, <1>16 DEF PageIsSound
  <1>18. ServerIsSound'
    BY ServerStays DEF HistoryArrives, LiveInv
  <1>19. TasksAreSound'
    BY <1>10, TaskBecomes DEF HistoryArrives, TaskEnds, LiveInv
  <1> QED  BY <1>17, <1>18, <1>19 DEF LiveInv

LEMMA FirstStep ==
  ASSUME LiveInv, NEW t \in Tasks, FirstArrives(t)
  PROVE  LiveInv'
  <1>1. PICK x : x = task[t]
    OBVIOUS
  <1>2. x.pc = "first" /\ x.reply # NoReply /\ x.kind # "stop" /\ x \in {Over} \cup TasksUnderWay
    BY <1>1 DEF FirstArrives, Arrived, LiveInv, TasksAreSound
  <1>3. x \in TasksUnderWay /\ x \in FirstTasks /\ x # Over /\ x.project \in Projects
    BY <1>2, TaskKinds
  <1>4. PICK r : r = x.reply
    OBVIOUS
  <1>5. r \in Statuses
    BY <1>2, <1>3, <1>4 DEF FirstTasks
  <1>6. r.is = "running" => r.session[1] = x.project
    BY <1>1, <1>2, <1>3, <1>4 DEF LiveInv, TasksAreSound, AnswersFit, AnswerFits
  <1>7. page \in Pages /\ HoldsAlive(page)
    BY DEF LiveInv, PageIsSound
  <1>8. PICK g : g = IF x.kind = "refresh" THEN FetchStatus(page, x.project, r)
                     ELSE ApplySession(page, r)
    OBVIOUS
  <1>9. Moves(page, g) /\ g.status = r.is /\ g.session = r.session
    <2>1. CASE x.kind = "refresh"
      BY <1>5, <1>7, <1>8, <2>1, FetchStatusMoves
    <2>2. CASE x.kind # "refresh"
      BY <1>5, <1>7, <1>8, <2>2, ApplySessionMoves
    <2> QED  BY <2>1, <2>2
  <1>10. /\ GoesOn(g)
         /\ IF g.status = "running"
            THEN task' = [task EXCEPT ![t].pc = "history", ![t].session = g.session,
                                      ![t].reply = NoReply]
            ELSE task' = [task EXCEPT ![t] = Over]
         /\ UNCHANGED <<serverVars, messages, view, left>>
    BY <1>1, <1>4, <1>8 DEF FirstArrives, TaskEnds
  <1>11. UNCHANGED <<chat, messages, view, left>> /\ UNCHANGED serverVars
    BY <1>10 DEF serverVars
  <1>12. PageIsSound'
    BY <1>9, <1>10, <1>11, PageGoesOn DEF LiveInv
  <1>13. ServerIsSound'
    BY <1>11, ServerStays DEF LiveInv
  <1>14. TasksAreSound'
    <2>1. CASE g.status = "running"
      <3>1. PICK s : s = g.session
        OBVIOUS
      <3>2. s \in SessionIds /\ s[1] = x.project
        BY <1>5, <1>6, <1>9, <2>1, <3>1 DEF Statuses
      <3>3. PICK y : y = [x EXCEPT !.pc = "history", !.session = s, !.reply = NoReply]
        OBVIOUS
      <3>4. y \in TasksUnderWay /\ AnswerFits(y)
        BY <1>2, <1>3, <3>2, <3>3, TaskGoesOn
      <3>5. task' = [task EXCEPT ![t] = y]
        <4>1. DOMAIN task = Tasks
          BY DEF LiveInv, TasksAreSound
        <4> QED  BY <1>1, <1>10, <2>1, <3>1, <3>3, <4>1
      <3>6. y \in {Over} \cup TasksUnderWay
        BY <3>4
      <3> QED  BY <1>11, <3>4, <3>5, <3>6, TaskBecomes DEF LiveInv
    <2>2. CASE g.status # "running"
      <3>1. task' = [task EXCEPT ![t] = Over]
        BY <1>10, <2>2
      <3> QED  BY <1>11, <3>1, TaskBecomes DEF LiveInv
    <2> QED  BY <2>1, <2>2
  <1> QED  BY <1>12, <1>13, <1>14 DEF LiveInv

LEMMA StopStep ==
  ASSUME LiveInv, NEW t \in Tasks, StopArrives(t)
  PROVE  LiveInv'
  <1>1. PICK x : x = task[t]
    OBVIOUS
  <1>2. x.pc = "first" /\ x.reply # NoReply /\ x \in {Over} \cup TasksUnderWay
    BY <1>1 DEF StopArrives, Arrived, LiveInv, TasksAreSound
  <1>3. x \in FirstTasks
    BY <1>2, TaskKinds
  <1>4. PICK r : r = x.reply
    OBVIOUS
  <1>5. r \in Statuses
    BY <1>2, <1>3, <1>4 DEF FirstTasks
  <1>6. page \in Pages /\ HoldsAlive(page)
    BY DEF LiveInv, PageIsSound
  <1>7. PICK e : e = ApplySession(page, r)
    OBVIOUS
  <1>8. Moves(page, e)
    BY <1>5, <1>6, <1>7, ApplySessionMoves
  <1>9. Moves(e, Disconnect(e))
    BY <1>8, DisconnectMoves DEF Moves
  <1>10. Moves(page, Disconnect(e))
    BY <1>6, <1>8, <1>9, MovesOn
  <1>11. /\ GoesOn(Disconnect(e)) /\ task' = [task EXCEPT ![t] = Over]
         /\ UNCHANGED <<chat, messages, view, left>> /\ UNCHANGED serverVars
    BY <1>1, <1>4, <1>7 DEF StopArrives, TaskEnds, serverVars
  <1>12. PageIsSound'
    BY <1>10, <1>11, PageGoesOn DEF LiveInv
  <1>13. ServerIsSound' /\ TasksAreSound'
    BY <1>11, ServerStays, TaskBecomes DEF LiveInv
  <1> QED  BY <1>12, <1>13 DEF LiveInv

LEMMA FailStep ==
  ASSUME LiveInv, NEW t \in Tasks, TaskFails(t)
  PROVE  LiveInv'
  <1>1. /\ UNCHANGED <<page, messages, due>> /\ UNCHANGED <<chat, view, left>>
        /\ UNCHANGED serverVars /\ task' = [task EXCEPT ![t] = Over]
    BY DEF TaskFails, TaskEnds, serverVars
  <1>2. ServerIsSound' /\ PageIsSound' /\ TasksAreSound'
    BY <1>1, ServerStays, ChatStays, PageStays, TaskBecomes DEF LiveInv
  <1> QED  BY <1>2 DEF LiveInv

LEMMA BeginSound ==
  ASSUME TasksAreSound, UNCHANGED chat, NEW kind \in Kinds, NEW p \in Projects,
         NEW ts \in [Tasks -> {Over} \cup TasksUnderWay],
         \A t \in Tasks : ts[t] # Over => AnswerFits(ts[t]),
         Begin(kind, p, ts), view' \in Projects \cup {NoView}
  PROVE  TasksAreSound'
  <1>1. PICK t \in Tasks : task' = [ts EXCEPT ![t] = Begun(kind, p)]
    BY DEF Begin
  <1>2. PICK x : x = Begun(kind, p)
    OBVIOUS
  <1>3. x \in TasksUnderWay /\ AnswerFits(x)
    BY <1>2, TaskBegun
  <1>4. PICK us : us = [ts EXCEPT ![t] = x]
    OBVIOUS
  <1>5. /\ us \in [Tasks -> {Over} \cup TasksUnderWay]
        /\ us[t] = x /\ \A u \in Tasks : u # t => us[u] = ts[u]
    <2>1. PICK X : X = {Over} \cup TasksUnderWay
      OBVIOUS
    <2>2. ts \in [Tasks -> X] /\ x \in X
      BY <1>3, <2>1
    <2> QED  BY <1>4, <2>1, <2>2
  <1>6. \A u \in Tasks : us[u] # Over => AnswerFits(us[u])
    BY <1>3, <1>5
  <1>7. left' \in Lefts
    BY Spent DEF TasksAreSound, Begin
  <1>8. task' = us
    BY <1>1, <1>2, <1>4
  <1> QED  BY <1>5, <1>6, <1>7, <1>8, TasksBecome

LEMMA MountStep ==
  ASSUME LiveInv, NEW p \in Projects, Mount(p)
  PROVE  LiveInv'
  <1>1. PICK ts : ts = [t \in Tasks |->
                IF task[t] = Over THEN Over ELSE [task[t] EXCEPT !.here = FALSE]]
    OBVIOUS
  <1>2. \A t \in Tasks : /\ task[t] \in {Over} \cup TasksUnderWay
                         /\ task[t] # Over => AnswerFits(task[t])
    BY DEF LiveInv, TasksAreSound, AnswersFit
  <1>3. \A t \in Tasks : /\ ts[t] \in {Over} \cup TasksUnderWay
                         /\ ts[t] # Over => AnswerFits(ts[t])
    <2> TAKE t \in Tasks
    <2>1. CASE task[t] = Over
      BY <1>1, <2>1
    <2>2. CASE task[t] # Over
      <3>1. PICK x : x = task[t]
        OBVIOUS
      <3>2. x \in TasksUnderWay /\ AnswerFits(x)
        BY <1>2, <2>2, <3>1
      <3>3. ts[t] = [x EXCEPT !.here = FALSE]
        BY <1>1, <2>2, <3>1
      <3>4. [x EXCEPT !.here = FALSE] \in TasksUnderWay /\ AnswerFits([x EXCEPT !.here = FALSE])
        BY <3>2, TaskLeft
      <3>5. PICK y : y = [x EXCEPT !.here = FALSE]
        OBVIOUS
      <3> QED  BY <3>3, <3>4, <3>5
    <2> QED  BY <2>1, <2>2
  <1>4. ts \in [Tasks -> {Over} \cup TasksUnderWay]
    <2>1. PICK X : X = {Over} \cup TasksUnderWay
      OBVIOUS
    <2>2. DOMAIN ts = Tasks /\ \A t \in Tasks : ts[t] \in X
      BY <1>1, <1>3, <2>1
    <2>3. ts = [t \in Tasks |-> ts[t]]
      BY <1>1
    <2> QED  BY <2>1, <2>2, <2>3
  <1>5. Begin("refresh", p, ts)
    BY <1>1 DEF Mount
  <1>6. /\ UNCHANGED <<page, messages, due>> /\ UNCHANGED chat
        /\ UNCHANGED serverVars /\ view' = p
    BY DEF Mount, serverVars
  <1>7. TasksAreSound'
    BY <1>3, <1>4, <1>5, <1>6, BeginSound DEF Kinds, LiveInv
  <1>8. ServerIsSound' /\ PageIsSound'
    BY <1>6, ServerStays, ChatStays, PageStays DEF LiveInv
  <1> QED  BY <1>7, <1>8 DEF LiveInv

LEMMA PressStep ==
  ASSUME LiveInv, NEW kind \in {"start", "stop"}, Press(kind)
  PROVE  LiveInv'
  <1>1. /\ UNCHANGED <<page, messages, due>> /\ UNCHANGED chat
        /\ UNCHANGED serverVars /\ view' = view /\ view \in Projects
        /\ Begin(kind, view, task)
    BY DEF Press, serverVars, LiveInv, TasksAreSound
  <1>2. PICK p \in Projects : p = view
    BY <1>1
  <1>3. /\ task \in [Tasks -> {Over} \cup TasksUnderWay]
        /\ \A t \in Tasks : task[t] # Over => AnswerFits(task[t])
    BY DEF LiveInv, TasksAreSound, AnswersFit
  <1>4. PICK ts : ts = task
    OBVIOUS
  <1>5. /\ ts \in [Tasks -> {Over} \cup TasksUnderWay]
        /\ \A t \in Tasks : ts[t] # Over => AnswerFits(ts[t])
        /\ Begin(kind, p, ts) /\ kind \in Kinds /\ view' \in Projects \cup {NoView}
    BY <1>1, <1>2, <1>3, <1>4 DEF Kinds
  <1>6. TasksAreSound'
    BY <1>1, <1>5, BeginSound DEF LiveInv
  <1>7. ServerIsSound' /\ PageIsSound'
    BY <1>1, ServerStays, ChatStays, PageStays DEF LiveInv
  <1> QED  BY <1>6, <1>7 DEF LiveInv

\* A task is told r.
LEMMA AnswerSound ==
  ASSUME TasksAreSound, NEW t \in Tasks, Waiting(t), NEW r, Answer(t, r),
         UNCHANGED <<chat, view>>, left' = left \/ left' \in Lefts,
         \/ /\ task[t].pc = "first" /\ r \in Statuses
            /\ r.is = "running" => r.session[1] = task[t].project
         \/ /\ task[t].pc = "history" /\ r \in Histories /\ GoodHistory(r, task[t].project)
  PROVE  TasksAreSound'
  <1>1. PICK x : x = task[t]
    OBVIOUS
  <1>2. x \in TasksUnderWay /\ AnswerFits(x)
    BY <1>1 DEF Waiting, TasksAreSound, AnswersFit
  <1>3. PICK y : y = [x EXCEPT !.reply = r]
    OBVIOUS
  <1>4. y \in TasksUnderWay /\ AnswerFits(y)
    BY <1>1, <1>2, <1>3, TaskAnswered
  <1>5. task' = [task EXCEPT ![t] = y]
    BY <1>1, <1>3 DEF Answer
  <1>6. y \in {Over} \cup TasksUnderWay
    BY <1>4
  <1> QED  BY <1>4, <1>5, <1>6, TaskBecomes

LEMMA ReadStep ==
  ASSUME LiveInv, NEW t \in Tasks, ServeRead(t)
  PROVE  LiveInv'
  <1>1. /\ UNCHANGED <<page, messages, due>> /\ UNCHANGED <<chat, view, left>>
        /\ UNCHANGED serverVars /\ Waiting(t)
    BY DEF ServeRead, serverVars
  <1>2. PICK x : x = task[t]
    OBVIOUS
  <1>3. x \in TasksUnderWay /\ AnswerFits(x)
    BY <1>1, <1>2 DEF Waiting, LiveInv, TasksAreSound, AnswersFit
  <1>4. TasksAreSound'
    <2>1. CASE x.pc = "history" /\ Answer(t, History(x.session))
      <3>1. PICK r : r = History(x.session)
        OBVIOUS
      <3>2. x.session[1] = x.project
        BY <1>3, <2>1 DEF AnswerFits
      <3>3. r \in Histories /\ GoodHistory(r, x.project)
        BY <3>1, <3>2, HistoryIsGood DEF LiveInv
      <3> QED  BY <1>1, <1>2, <2>1, <3>1, <3>3, AnswerSound DEF LiveInv
    <2>2. CASE x.pc = "first" /\ Answer(t, CurrentStatus(x.project))
      <3>1. PICK r : r = CurrentStatus(x.project)
        OBVIOUS
      <3>2. x.project \in Projects
        BY <1>3, TaskKinds
      <3>3. r \in Statuses /\ (r.is = "running" => r.session[1] = x.project)
        BY <3>1, <3>2, StatusIsGood DEF LiveInv
      <3> QED  BY <1>1, <1>2, <2>2, <3>1, <3>3, AnswerSound DEF LiveInv
    <2> QED  BY <1>2, <2>1, <2>2 DEF ServeRead
  <1>5. ServerIsSound' /\ PageIsSound'
    BY <1>1, ServerStays, ChatStays, PageStays DEF LiveInv
  <1> QED  BY <1>4, <1>5 DEF LiveInv

LEMMA StartStep ==
  ASSUME LiveInv, NEW t \in Tasks, ServeStart(t)
  PROVE  LiveInv'
  <1>1. PICK x : x = task[t]
    OBVIOUS
  <1>2. x \in TasksUnderWay /\ x.pc = "first" /\ x.project \in Projects
    BY <1>1, TaskKinds DEF ServeStart, Waiting, LiveInv, TasksAreSound
  <1>3. SessionBegins(x.project)
    BY <1>1 DEF ServeStart
  <1>4. UNCHANGED <<chat, view>> /\ UNCHANGED <<page, messages, due>> /\ left' = left /\ Waiting(t)
    BY <1>3 DEF ServeStart, SessionBegins
  <1>5. ServerIsSound' /\ begun'[x.project] \in 1 .. NumSessions
    BY <1>2, <1>3, BeginsSound DEF LiveInv
  <1>6. PICK n \in 1 .. NumSessions : n = begun'[x.project]
    BY <1>5
  <1>7. PICK r : r = [is |-> "running", session |-> <<x.project, n>>]
    OBVIOUS
  <1>8. Answer(t, r)
    BY <1>1, <1>6, <1>7 DEF ServeStart, Status
  <1>9. r \in Statuses /\ (r.is = "running" => r.session[1] = x.project)
    <2>1. <<x.project, n>> \in SessionIds
      BY <1>2, LiveAssumption DEF SessionIds
    <2> QED  BY <1>7, <2>1 DEF Statuses
  <1>10. TasksAreSound'
    BY <1>1, <1>2, <1>4, <1>8, <1>9, AnswerSound DEF LiveInv
  <1>11. PageIsSound'
    BY <1>4, ChatStays, PageStays DEF LiveInv
  <1> QED  BY <1>5, <1>10, <1>11 DEF LiveInv

LEMMA StopSteps ==
  ASSUME LiveInv, NEW t \in Tasks, ServeStop(t) \/ ServeStopCut(t)
  PROVE  LiveInv'
  <1>1. PICK x : x = task[t]
    OBVIOUS
  <1>2. Waiting(t) /\ x.pc = "first" /\ UNCHANGED <<messages, due>> /\ view' = view
    BY <1>1 DEF ServeStop, ServeStopCut
  <1>3. x \in TasksUnderWay /\ x.project \in Projects
    BY <1>1, <1>2, TaskKinds DEF Waiting, LiveInv, TasksAreSound
  <1>4. SessionEnds(x.project) \/ SessionCut(x.project)
    BY <1>1 DEF ServeStop, ServeStopCut
  <1>5. ServerIsSound' /\ PageIsSound' /\ UNCHANGED chat
    BY <1>2, <1>3, <1>4, EndsSound DEF LiveInv
  <1>6. left' \in Lefts
    BY <1>4, EndsSpend DEF LiveInv
  <1>7. CASE ServeStop(t)
    <2>1. PICK n \in 0 .. NumSessions : n = running[x.project]
      BY <1>3 DEF LiveInv, ServerIsSound
    <2>2. PICK r : r = [is |-> "stopped", session |-> <<x.project, n>>]
      OBVIOUS
    <2>3. Answer(t, r)
      BY <1>1, <1>7, <2>1, <2>2 DEF ServeStop, Status
    <2>4. r \in Statuses /\ (r.is = "running" => r.session[1] = x.project)
      BY <1>3, <2>2 DEF Statuses, SessionIds
    <2>5. TasksAreSound'
      BY <1>1, <1>2, <1>5, <1>6, <2>3, <2>4, AnswerSound DEF LiveInv
    <2> QED  BY <1>5, <2>5 DEF LiveInv
  <1>8. CASE ServeStopCut(t)
    <2>1. task' = [task EXCEPT ![t] = Over]
      BY <1>8 DEF ServeStopCut, TaskEnds
    <2>2. TasksAreSound'
      BY <1>2, <1>5, <1>6, <2>1, TaskBecomes DEF LiveInv
    <2> QED  BY <1>5, <2>2 DEF LiveInv
  <1> QED  BY <1>7, <1>8

-----------------------------------------------------------------------------
LEMMA LiveStarts ==
  ASSUME LiveInit
  PROVE  LiveInv
  <1>1. /\ running = [p \in Projects |-> 0] /\ begun = [p \in Projects |-> 0]
        /\ 0 \in 0 .. NumSessions
    BY LiveAssumption DEF LiveInit, None
  <1>2. running \in [Projects -> 0 .. NumSessions] /\ begun \in [Projects -> 0 .. NumSessions]
    BY <1>1
  <1>3. ServerIsSound
    <2>1. exists \in [Projects -> BOOLEAN] /\ closing = {} /\ chat = << >>
      BY DEF LiveInit
    <2> QED  BY <1>2, <2>1 DEF ServerIsSound
  <1>4. /\ page = [status |-> "stopped", session |-> NoSession, held |-> None,
                   handle |-> [h \in Handles |-> Free]]
        /\ messages = << >> /\ due = {}
    BY DEF LiveInit
  <1>5. page \in Pages /\ page.held = None /\ \A h \in Handles : page.handle[h] = Free
    BY <1>4 DEF Pages
  <1>6. None \notin Handles /\ ~Alive(Free)
    BY <1>5, PageHandles, HandleKinds DEF SomeHandle
  <1>7. HoldsAlive(page) /\ FramesAreCast(page)
    BY <1>5, <1>6 DEF HoldsAlive, FramesAreCast
  <1>8. PageIsSound
    BY <1>4, <1>5, <1>7 DEF PageIsSound, DueIsCast, ShownIsOfProject, Once
  <1>9. TasksAreSound
    BY LiveAssumption DEF LiveInit, TasksAreSound, AnswersFit, Lefts
  <1> QED  BY <1>3, <1>8, <1>9 DEF LiveInv

LEMMA LiveInvStutters ==
  ASSUME LiveInv, UNCHANGED vars
  PROVE  LiveInv'
  <1>1. /\ UNCHANGED <<page, messages, due>> /\ UNCHANGED <<task, view, left>>
        /\ UNCHANGED chat /\ UNCHANGED serverVars
    BY DEF vars, serverVars
  <1>2. ServerIsSound' /\ PageIsSound' /\ TasksAreSound'
    BY <1>1, ServerStays, ChatStays, PageStays, TasksStay DEF LiveInv
  <1> QED  BY <1>2 DEF LiveInv

LEMMA LiveInvSteps ==
  ASSUME LiveInv, [LiveNext]_vars
  PROVE  LiveInv'
  <1>1. CASE \E p \in Projects :
                \/ Mount(p) \/ OthersStart(p) \/ OthersStop(p) \/ DeleteProject(p)
                \/ \E k \in 1 .. NumSessions : CloseRoom(p, k) \/ Persist(p, k)
    BY <1>1, MountStep, ServerSteps, DeleteStep, CloseStep, Persisted
  <1>2. CASE \E kind \in {"start", "stop"} : Press(kind)
    BY <1>2, PressStep
  <1>3. CASE \E m \in DOMAIN chat : Broadcast(m)
    BY <1>3, BroadcastStep
  <1>4. CASE \E t \in Tasks :
                \/ FirstArrives(t) \/ StopArrives(t) \/ HistoryArrives(t) \/ TaskFails(t)
                \/ ServeRead(t) \/ ServeStart(t) \/ ServeStop(t) \/ ServeStopCut(t)
    BY <1>4, FirstStep, StopStep, HistoryStep, FailStep, ReadStep, StartStep, StopSteps
  <1>5. CASE \E h \in Handles :
                \/ Admit(h) \/ Register(h) \/ Drop(h) \/ ServeCheck(h) \/ Reconsider(h)
                \/ CheckFails(h) \/ TimerFires(h) \/ Receive(h)
    BY <1>5, PcSteps, DropStep, ServeCheckStep, CheckSteps, ReceiveStep
  <1>6. CASE UNCHANGED vars
    BY <1>6, LiveInvStutters
  <1> QED  BY <1>1, <1>2, <1>3, <1>4, <1>5, <1>6 DEF LiveNext

\* What LiveInv says of the server, the page and the functions of panels is kept by every step
\* of api/ws.ts, useLiveSessionStore.ts and LiveSessionPanel.vue.
THEOREM LiveInvariance == LiveSpec => []LiveInv
  BY LiveStarts, LiveInvSteps, PTL DEF LiveSpec

\* Everything has its type: an answer is one the server may give, of a session of the
\* project asked about, and what is shown and what is due are ids of stored messages.
THEOREM LiveTyped == LiveSpec => []LiveTypeOK
  <1>1. LiveInv => LiveTypeOK
    BY DEF LiveInv, ServerIsSound, PageIsSound, TasksAreSound, Lefts, LiveTypeOK
  <1> QED  BY <1>1, LiveInvariance, PTL

\* However answers, timers, closes and sockets interleave (scheduleReconnect, close,
\* onGiveUp, disconnect), the store holds a handle if and only if that handle lives.
THEOREM HeldOnesLive == LiveSpec => []HeldIsAlive
  <1>1. LiveInv => HeldIsAlive
    BY DEF LiveInv, PageIsSound, HoldsAlive, Alive, HeldIsAlive
  <1> QED  BY <1>1, LiveInvariance, PTL

\* What is shown while a handle is held is of its project, and a message that is due is in
\* transit or shown, and not both or twice, however late a history or a frame arrives.
THEOREM EachIsShownOnce == LiveSpec => []ChatIsShown
  <1>1. ASSUME LiveInv
        PROVE  ShownOnce
    <2> SUFFICES ASSUME NEW m \in due
                 PROVE  Cardinality({i \in DOMAIN messages : messages[i] = m})
                        + (IF m \in InTransit(page) THEN 1 ELSE 0) = 1
      BY DEF ShownOnce
    <2>1. /\ m \in InTransit(page) <=> m \notin ToSet(messages)
          /\ \A i, j \in DOMAIN messages : messages[i] = m /\ messages[j] = m => i = j
      BY <1>1 DEF LiveInv, PageIsSound, Once
    <2> DEFINE at == {i \in DOMAIN messages : messages[i] = m}
    <2>2. CASE m \in InTransit(page)
      <3>1. at = {}
        BY <2>1, <2>2 DEF ToSet
      <3>2. Cardinality(at) = 0
        BY <3>1, FS_EmptySet
      <3> QED  BY <2>2, <3>2
    <2>3. CASE m \notin InTransit(page)
      <3>1. PICK i \in DOMAIN messages : messages[i] = m
        BY <2>1, <2>3 DEF ToSet
      <3>2. at = {i}
        BY <2>1, <3>1
      <3>3. Cardinality({i}) = 1
        BY FS_Singleton
      <3>4. Cardinality(at) = 1
        BY <3>2, <3>3
      <3> QED  BY <2>3, <3>4
    <2> QED  BY <2>2, <2>3
  <1>2. LiveInv => ChatIsShown
    BY <1>1 DEF LiveInv, PageIsSound, ChatIsShown
  <1> QED  BY <1>2, LiveInvariance, PTL
=============================================================================
