------------------------- MODULE GameSessionProofs --------------------------
(***************************************************************************)
(* For every number of projects, connections, sessions and messages: what  *)
(* GameSession says of who is in a room and of what the room is shown.     *)
(*                                                                         *)
(* The first half follows a connection from the row Serve read to the end  *)
(* of its membership (Entitled). The second half follows a message from    *)
(* its INSERT: it is in exactly one place (OnePlace).                      *)
(***************************************************************************)
EXTENDS GameSession, FiniteSetTheorems, TLAPS

\* A member connected to the project of its room, and Serve is done with it.
MembersServed ==
    /\ members \in [Projects -> SUBSET Clients]
    /\ \A p \in Projects : \A c \in members[p] : p = ProjectOf[c] /\ serve[c] = "joined"

\* Whoever got past the first check has read a session; only the joined post.
SessionsRead ==
    \A c \in Clients :
        /\ serve[c] \in {"joined"} \cup Admitting => session[c] # 0
        /\ c \in reading => serve[c] = "joined"
        /\ posting[c] # 0 => c \in reading

\* Why a connection may be in the room, or on its way into it: its session runs, or
\* the Stop that ended it has the room still to close, was cut short, or came too early
\* for this connection.
Excused(c) ==
    \/ Current(c)
    \/ <<ProjectOf[c], session[c]>> \in closing \cup cut
    \/ c \in overtaken

Entitled ==
    \A c \in Clients :
        /\ exists[ProjectOf[c]]
        /\ serve[c] \in Admitting \/ c \in members[ProjectOf[c]]
        => Excused(c)

\* A message about to be broadcast is a row of its project.
PostsAreRows ==
    \A c \in Clients : posting[c] # 0 =>
        /\ posting[c] \in DOMAIN inserted
        /\ inserted[posting[c]][1] = ProjectOf[c]
        /\ exists[ProjectOf[c]] => posting[c] \in stored

\* What a room was shown are messages of its project, which the history holds unless
\* it went with the project.
ShownAreRows ==
    \A p \in Projects : \A i \in DOMAIN live[p] :
        /\ inserted[live[p][i]][1] = p
        /\ exists[p] => live[p][i] \in stored

\* No message is in two places, nor twice in one: shown to a room, about to be shown by
\* a reader, or lost.
OnePlace ==
    /\ \A p, q \in Projects : \A i \in DOMAIN live[p], j \in DOMAIN live[q] :
          live[p][i] = live[q][j] => p = q /\ i = j
    /\ \A c, d \in Clients : posting[c] # 0 /\ posting[c] = posting[d] => c = d
    /\ \A p \in Projects : \A i \in DOMAIN live[p] :
          live[p][i] \notin lost /\ \A c \in Clients : posting[c] # live[p][i]
    /\ \A c \in Clients : posting[c] \notin lost

\* And a message of the history is in one of them.
SomePlace ==
    \A m \in stored :
        \/ \E p \in Projects : \E i \in DOMAIN live[p] : live[p][i] = m
        \/ \E c \in Clients : posting[c] = m
        \/ m \in lost

AdmissionInv == GameTypeOK /\ MembersServed /\ SessionsRead /\ PostsAreRows /\ Entitled
HistoryInv == AdmissionInv /\ ShownAreRows /\ OnePlace /\ SomePlace

-----------------------------------------------------------------------------
(* Rooms.                                                                  *)

\* Whatever the hub does but Join, a room only gets smaller.
LEMMA RoomsShrink ==
  ASSUME MembersServed,
         \/ \E c \in Clients : Leave(c) \/ Hear(c)
         \/ \E p \in Projects : CloseAll(p) \/ \E E : Cast(p, E)
         \/ Reset
         \/ UNCHANGED roomVars
  PROVE  /\ members' \in [Projects -> SUBSET Clients]
         /\ \A p \in Projects : members'[p] \subseteq members[p]
  BY GameAssumption
  DEF MembersServed, Leave, Hear, CloseAll, Cast, Reset, Drop, roomVars

\* CloseAll leaves nobody.
LEMMA CloseAllEmpties ==
  ASSUME MembersServed, NEW p \in Projects, CloseAll(p)
  PROVE  members'[p] = {}
  BY DEF MembersServed, CloseAll, Drop

-----------------------------------------------------------------------------
(* Types.                                                                  *)

LEMMA GameTyped ==
  ASSUME GameTypeOK, MembersServed, SessionsRead, PostsAreRows, [GameNext]_gameVars
  PROVE  GameTypeOK'
  <1> USE DEF GameTypeOK
  <1>0. \A p \in Projects : running[p] => <<p, started[p]>> \in SessionIds
    BY DEF SessionIds
  <1>1. ASSUME NEW p \in Projects, StartSession(p)
        PROVE  GameTypeOK'
    BY <1>1, GameAssumption DEF StartSession, connVars, traceVars
  <1>2. ASSUME NEW p \in Projects, StopSession(p) \/ StopCut(p)
        PROVE  GameTypeOK'
    BY <1>2, <1>0 DEF StopSession, StopCut, MarkStopped, connVars, traceVars
  <1>3. ASSUME NEW p \in Projects, NEW k \in 1 .. MaxSessions, CloseRoom(p, k)
        PROVE  GameTypeOK'
    BY <1>3 DEF CloseRoom, dbVars, connVars
  <1>4. ASSUME NEW p \in Projects, DeleteProject(p)
        PROVE  GameTypeOK'
    BY <1>4 DEF DeleteProject, connVars, traceVars
  <1>5. ASSUME NEW c \in Clients, ReadRunning(c) \/ CheckTotal(c) \/ CheckRoom(c) \/ UpgradeFails(c)
        PROVE  GameTypeOK'
    <2>1. \E to \in {"running", "counted", "sized", "refused"} :
             /\ serve' = [serve EXCEPT ![c] = to]
             /\ UNCHANGED <<dbVars, reading, posting, live, closing, traceVars>>
      BY <1>5 DEF ReadRunning, CheckTotal, CheckRoom, UpgradeFails, Advance
    <2>2. session' \in [Clients -> 0 .. MaxSessions]
      BY <1>5, GameAssumption DEF ReadRunning, CheckTotal, CheckRoom, UpgradeFails
    <2> QED  BY <2>1, <2>2 DEF dbVars, traceVars, Admitting
  <1>6. ASSUME NEW c \in Clients, Register(c)
        PROVE  GameTypeOK'
    BY <1>6 DEF Register, dbVars, traceVars
  <1>7. ASSUME NEW c \in Clients, Persist(c)
        PROVE  GameTypeOK'
    <2>1. <<ProjectOf[c], session[c]>> \in SessionIds
      <3>1. c \in reading
        BY <1>7 DEF Persist
      <3>2. session[c] \in 1 .. MaxSessions
        BY <3>1, GameAssumption DEF SessionsRead
      <3> QED  BY <3>2, GameAssumption DEF SessionIds
    <2>2. /\ inserted' \in Seq(SessionIds) /\ Len(inserted') = Len(inserted) + 1
          /\ Len(inserted') \in Messages /\ DOMAIN inserted' = 1 .. Len(inserted')
          /\ DOMAIN inserted \subseteq DOMAIN inserted'
      BY <1>7, <2>1 DEF Persist
    <2>3. Len(inserted') <= MaxMessages /\ Len(inserted') \in DOMAIN inserted'
      BY <2>2, GameAssumption DEF Messages
    <2>4. \A p \in Projects : live[p] \in Seq(DOMAIN inserted')
      BY <2>2
    <2>5. live' \in [Projects -> Seq(DOMAIN inserted')]
      BY <1>7, <2>4 DEF Persist
    <2>6. posting' \in [Clients -> 0 .. MaxMessages]
      BY <1>7, GameAssumption DEF Persist, Messages
    <2>7. stored' \subseteq DOMAIN inserted' /\ lost' \subseteq DOMAIN inserted'
      BY <1>7, <2>2, <2>3 DEF Persist, traceVars
    <2> QED  BY <1>7, <2>2, <2>3, <2>5, <2>6, <2>7 DEF Persist, traceVars
  <1>8. ASSUME NEW c \in Clients, NEW E, Broadcast(c, E)
        PROVE  GameTypeOK'
    <2>1. posting[c] \in DOMAIN inserted
      BY <1>8 DEF Broadcast, PostsAreRows
    <2>2. UNCHANGED <<exists, started, running, inserted, stored, serve, session, reading,
                      closing, cut, overtaken, lost>>
      BY <1>8 DEF Broadcast, dbVars, traceVars
    <2>3. live' \in [Projects -> Seq(DOMAIN inserted)]
      <3>1. live[ProjectOf[c]] \in Seq(DOMAIN inserted)
        BY GameAssumption
      <3>2. Append(live[ProjectOf[c]], posting[c]) \in Seq(DOMAIN inserted)
        BY <3>1, <2>1
      <3> QED  BY <1>8, <3>2 DEF Broadcast
    <2>4. posting' \in [Clients -> 0 .. MaxMessages]
      BY <1>8, GameAssumption DEF Broadcast
    <2> QED  BY <2>2, <2>3, <2>4
  <1>9. ASSUME NEW c \in Clients, RejectCard(c) \/ ReadExit(c) \/ Deliver(c)
        PROVE  GameTypeOK'
    BY <1>9 DEF RejectCard, ReadExit, Deliver, dbVars, connVars, traceVars
  <1>10. CASE Restart
    <2>1. lost' \subseteq DOMAIN inserted
      BY <1>10 DEF Restart, PostsAreRows
    <2>2. UNCHANGED <<exists, started, running, inserted, stored, session, live, cut, overtaken>>
      BY <1>10 DEF Restart, dbVars
    <2>3. /\ serve' \in [Clients -> {"idle", "refused", "joined"} \cup Admitting]
          /\ posting' \in [Clients -> 0 .. MaxMessages]
          /\ reading' = {} /\ closing' = {}
      BY <1>10, GameAssumption DEF Restart
    <2> QED  BY <2>1, <2>2, <2>3
  <1>11. CASE UNCHANGED gameVars
    BY <1>11 DEF gameVars, dbVars, connVars, traceVars
  <1> QED
    BY <1>1, <1>2, <1>3, <1>4, <1>5, <1>6, <1>7, <1>8, <1>9, <1>10, <1>11 DEF GameNext

-----------------------------------------------------------------------------
(* Who is in a room.                                                       *)

\* A step of the handlers or of the hub other than a registration, a check of Serve or
\* a restart leaves Serve where it is and lets nobody in.
LEMMA NobodyEnters ==
  ASSUME MembersServed,
         \/ \E p \in Projects : StartSession(p) \/ StopSession(p) \/ StopCut(p) \/ DeleteProject(p)
         \/ \E p \in Projects, k \in 1 .. MaxSessions : CloseRoom(p, k)
         \/ \E c \in Clients : Persist(c) \/ RejectCard(c) \/ ReadExit(c) \/ Deliver(c)
         \/ \E c \in Clients : \E E \in SUBSET members[ProjectOf[c]] : Broadcast(c, E)
         \/ UNCHANGED gameVars
  PROVE  /\ members' \in [Projects -> SUBSET Clients]
         /\ \A p \in Projects : members'[p] \subseteq members[p]
         /\ UNCHANGED <<serve, session>>
         /\ MembersServed'
  <1>1. UNCHANGED <<serve, session>>
    BY DEF StartSession, StopSession, StopCut, MarkStopped, DeleteProject, CloseRoom, Persist,
           RejectCard, ReadExit, Deliver, Broadcast, connVars, gameVars
  <1>2. /\ members' \in [Projects -> SUBSET Clients]
        /\ \A p \in Projects : members'[p] \subseteq members[p]
    <2>1. \/ \E c \in Clients : Leave(c) \/ Hear(c)
          \/ \E p \in Projects : CloseAll(p) \/ \E E : Cast(p, E)
          \/ Reset
          \/ UNCHANGED roomVars
      BY GameAssumption
      DEF StartSession, StopSession, StopCut, MarkStopped, DeleteProject, CloseRoom, Persist,
          RejectCard, ReadExit, Deliver, Broadcast, gameVars
    <2> QED  BY <2>1, RoomsShrink
  <1> QED  BY <1>1, <1>2 DEF MembersServed

\* A check of Serve lets nobody in either.
LEMMA ChecksAdmitNobody ==
  ASSUME GameTypeOK, MembersServed, NEW c \in Clients,
         ReadRunning(c) \/ CheckTotal(c) \/ CheckRoom(c) \/ UpgradeFails(c)
  PROVE  /\ serve[c] \in {"idle", "running", "counted", "sized"}
         /\ serve'[c] \in {"running", "counted", "sized", "refused"}
         /\ \A d \in Clients \ {c} : serve'[d] = serve[d] /\ session'[d] = session[d]
         /\ UNCHANGED <<roomVars, dbVars, reading, posting, live, closing, traceVars>>
         /\ MembersServed'
  <1>1. /\ serve[c] \in {"idle", "running", "counted", "sized"}
        /\ serve'[c] \in {"running", "counted", "sized", "refused"}
        /\ \A d \in Clients \ {c} : serve'[d] = serve[d]
        /\ UNCHANGED <<roomVars, dbVars, reading, posting, live, closing, traceVars>>
    BY DEF ReadRunning, CheckTotal, CheckRoom, UpgradeFails, Advance, GameTypeOK
  <1>2. \A d \in Clients \ {c} : session'[d] = session[d]
    BY DEF ReadRunning, CheckTotal, CheckRoom, UpgradeFails, GameTypeOK
  <1> QED  BY <1>1, <1>2 DEF MembersServed, roomVars

LEMMA Served ==
  ASSUME GameTypeOK, MembersServed, [GameNext]_gameVars
  PROVE  MembersServed'
  <1>1. ASSUME NEW c \in Clients, Register(c)
        PROVE  MembersServed'
    <2>1. /\ members' = [members EXCEPT ![ProjectOf[c]] = @ \cup {c}]
          /\ serve' = [serve EXCEPT ![c] = "joined"]
          /\ ProjectOf[c] \in Projects
      BY <1>1, GameAssumption DEF Register, Join
    <2>2. members' \in [Projects -> SUBSET Clients]
      BY <2>1 DEF MembersServed
    <2>3. \A p \in Projects : \A d \in members'[p] : p = ProjectOf[d] /\ serve'[d] = "joined"
      BY <2>1 DEF MembersServed, GameTypeOK
    <2> QED  BY <2>2, <2>3 DEF MembersServed
  <1>2. CASE Restart
    BY <1>2 DEF Restart, Reset, MembersServed
  <1> QED  BY <1>1, <1>2, NobodyEnters, ChecksAdmitNobody DEF GameNext

LEMMA Read ==
  ASSUME GameTypeOK, MembersServed, SessionsRead, [GameNext]_gameVars
  PROVE  SessionsRead'
  <1>1. ASSUME NEW p \in Projects,
               \/ StartSession(p) \/ StopSession(p) \/ StopCut(p) \/ DeleteProject(p)
               \/ \E k \in 1 .. MaxSessions : CloseRoom(p, k)
        PROVE  SessionsRead'
    BY <1>1 DEF StartSession, StopSession, StopCut, MarkStopped, DeleteProject, CloseRoom,
                connVars, SessionsRead
  <1>2. ASSUME NEW c \in Clients,
               ReadRunning(c) \/ CheckTotal(c) \/ CheckRoom(c) \/ UpgradeFails(c)
        PROVE  SessionsRead'
    <2>1. session'[c] # 0
      <3>1. CASE ReadRunning(c)
        <4>1. ProjectOf[c] \in Projects
          BY GameAssumption
        <4>2. started[ProjectOf[c]] \in 0 .. MaxSessions /\ started[ProjectOf[c]] > 0
          BY <3>1, <4>1 DEF ReadRunning, GameTypeOK
        <4>3. session'[c] = started[ProjectOf[c]]
          BY <3>1 DEF ReadRunning, GameTypeOK
        <4> QED  BY <4>2, <4>3, GameAssumption
      <3>2. CASE CheckTotal(c) \/ CheckRoom(c) \/ UpgradeFails(c)
        BY <3>2 DEF CheckTotal, CheckRoom, UpgradeFails, Advance, SessionsRead, Admitting
      <3> QED  BY <1>2, <3>1, <3>2
    <2> QED  BY <1>2, <2>1, ChecksAdmitNobody DEF SessionsRead
  <1>3. ASSUME NEW c \in Clients, Register(c)
        PROVE  SessionsRead'
    BY <1>3 DEF Register, SessionsRead, Admitting, GameTypeOK
  <1>4. ASSUME NEW c \in Clients, Persist(c)
        PROVE  SessionsRead'
    BY <1>4 DEF Persist, SessionsRead, GameTypeOK
  <1>5. ASSUME NEW c \in Clients, NEW E, Broadcast(c, E)
        PROVE  SessionsRead'
    BY <1>5 DEF Broadcast, SessionsRead, GameTypeOK
  <1>6. ASSUME NEW c \in Clients, RejectCard(c) \/ ReadExit(c) \/ Deliver(c)
        PROVE  SessionsRead'
    BY <1>6 DEF RejectCard, ReadExit, Deliver, connVars, SessionsRead
  <1>7. CASE Restart
    BY <1>7 DEF Restart, SessionsRead, GameTypeOK, Admitting
  <1>8. CASE UNCHANGED gameVars
    BY <1>8 DEF gameVars, connVars, SessionsRead
  <1> QED
    BY <1>1, <1>2, <1>3, <1>4, <1>5, <1>6, <1>7, <1>8 DEF GameNext

LEMMA PostsKept ==
  ASSUME GameTypeOK, SessionsRead, PostsAreRows, [GameNext]_gameVars
  PROVE  PostsAreRows'
  <1>1. ASSUME NEW p \in Projects,
               \/ StartSession(p) \/ StopSession(p) \/ StopCut(p)
               \/ \E k \in 1 .. MaxSessions : CloseRoom(p, k)
        PROVE  PostsAreRows'
    BY <1>1 DEF StartSession, StopSession, StopCut, MarkStopped, CloseRoom, connVars, dbVars,
                PostsAreRows
  <1>2. ASSUME NEW p \in Projects, DeleteProject(p)
        PROVE  PostsAreRows'
    BY <1>2, GameAssumption DEF DeleteProject, connVars, PostsAreRows, GameTypeOK
  <1>3. ASSUME NEW c \in Clients,
               \/ ReadRunning(c) \/ CheckTotal(c) \/ CheckRoom(c) \/ UpgradeFails(c)
               \/ Register(c) \/ RejectCard(c) \/ ReadExit(c) \/ Deliver(c)
        PROVE  PostsAreRows'
    BY <1>3 DEF ReadRunning, CheckTotal, CheckRoom, UpgradeFails, Advance, Register, RejectCard,
                ReadExit, Deliver, connVars, dbVars, PostsAreRows
  <1>4. ASSUME NEW c \in Clients, Persist(c)
        PROVE  PostsAreRows'
    <2> DEFINE m == Len(inserted) + 1
    <2>1. /\ inserted' = Append(inserted, <<ProjectOf[c], session[c]>>)
          /\ stored' = stored \cup {m} /\ UNCHANGED exists
          /\ posting' = [posting EXCEPT ![c] = m]
      BY <1>4 DEF Persist
    <2>2. <<ProjectOf[c], session[c]>> \in SessionIds
      <3>1. session[c] \in 1 .. MaxSessions
        BY <1>4, GameAssumption DEF Persist, SessionsRead, GameTypeOK
      <3> QED  BY <3>1, GameAssumption DEF SessionIds
    <2>3. /\ DOMAIN inserted' = DOMAIN inserted \cup {m}
          /\ inserted'[m] = <<ProjectOf[c], session[c]>>
          /\ \A i \in DOMAIN inserted : inserted'[i] = inserted[i]
      BY <2>1, <2>2 DEF GameTypeOK
    <2> HIDE DEF m
    <2>4. ASSUME NEW d \in Clients, posting'[d] # 0
          PROVE  /\ posting'[d] \in DOMAIN inserted'
                 /\ inserted'[posting'[d]][1] = ProjectOf[d]
                 /\ exists'[ProjectOf[d]] => posting'[d] \in stored'
      <3>1. CASE d = c
        BY <2>1, <2>3, <3>1 DEF GameTypeOK
      <3>2. CASE d # c
        BY <2>1, <2>3, <2>4, <3>2 DEF GameTypeOK, PostsAreRows
      <3> QED  BY <3>1, <3>2
    <2> QED  BY <2>4 DEF PostsAreRows
  <1>5. ASSUME NEW c \in Clients, NEW E, Broadcast(c, E)
        PROVE  PostsAreRows'
    BY <1>5 DEF Broadcast, dbVars, PostsAreRows, GameTypeOK
  <1>6. CASE Restart
    BY <1>6 DEF Restart, PostsAreRows
  <1>7. CASE UNCHANGED gameVars
    BY <1>7 DEF gameVars, connVars, dbVars, PostsAreRows
  <1> QED
    BY <1>1, <1>2, <1>3, <1>4, <1>5, <1>6, <1>7 DEF GameNext

\* Excused is lost only by a stop of the session, which starts the Stop, and by the Stop's
\* CloseRoom, which empties the room and marks the clients Serve is admitting.
LEMMA EntitledKept ==
  ASSUME GameTypeOK, MembersServed, SessionsRead, Entitled, [GameNext]_gameVars
  PROVE  Entitled'
  <1> SUFFICES ASSUME NEW d \in Clients,
                      exists'[ProjectOf[d]],
                      serve'[d] \in Admitting \/ d \in members'[ProjectOf[d]]
               PROVE  Excused(d)'
    BY DEF Entitled
  <1> DEFINE P == ProjectOf[d]
  <1>0. P \in Projects
    BY GameAssumption
  <1> HIDE DEF P
  <1>1. ASSUME UNCHANGED <<exists, started, running, session, serve, closing, cut, overtaken>>,
               members'[P] \subseteq members[P]
        PROVE  Excused(d)'
    BY <1>1 DEF Entitled, Excused, Current, P
  <1>2. ASSUME NEW p \in Projects, StartSession(p)
        PROVE  Excused(d)'
    <2>1. UNCHANGED <<members, exists, session, serve, closing, cut, overtaken>>
      BY <1>2 DEF StartSession, roomVars, connVars, traceVars
    <2>2. Excused(d)
      BY <2>1 DEF Entitled
    <2>3. CASE p = P
      BY <1>2, <2>1, <2>2, <2>3 DEF StartSession, Excused, Current, P
    <2>4. CASE p # P
      BY <1>0, <1>2, <2>1, <2>2, <2>4 DEF StartSession, Excused, Current, GameTypeOK, P
    <2> QED  BY <2>3, <2>4
  <1>3. ASSUME NEW p \in Projects, StopSession(p) \/ StopCut(p)
        PROVE  Excused(d)'
    <2>1. UNCHANGED <<members, exists, started, session, serve, overtaken>>
      BY <1>3 DEF StopSession, StopCut, MarkStopped, roomVars, connVars, traceVars
    <2>2. Excused(d)
      BY <2>1 DEF Entitled
    <2>3. /\ closing \cup cut \subseteq closing' \cup cut'
          /\ <<p, started[p]>> \in closing' \cup cut'
      BY <1>3 DEF StopSession, StopCut, traceVars
    <2>4. CASE p = P
      BY <2>1, <2>2, <2>3, <2>4 DEF Excused, Current, P
    <2>5. CASE p # P
      <3>1. running'[P] = running[P]
        BY <1>0, <1>3, <2>5 DEF StopSession, StopCut, MarkStopped, GameTypeOK
      <3> QED  BY <2>1, <2>2, <2>3, <3>1 DEF Excused, Current, P
    <2> QED  BY <2>4, <2>5
  <1>4. ASSUME NEW p \in Projects, NEW k \in 1 .. MaxSessions, CloseRoom(p, k)
        PROVE  Excused(d)'
    <2>1. /\ UNCHANGED <<exists, started, running, session, serve, cut>>
          /\ closing' = closing \ {<<p, k>>}
          /\ overtaken' = overtaken \cup
               {c \in Clients : ProjectOf[c] = p /\ session[c] = k /\ serve[c] \in Admitting}
          /\ CloseAll(p)
      BY <1>4 DEF CloseRoom, dbVars, connVars
    <2>2. members'[P] \subseteq members[P] /\ members'[p] = {}
      BY <1>0, <2>1, RoomsShrink, CloseAllEmpties
    <2>3. Excused(d)
      BY <2>1, <2>2 DEF Entitled, P
    <2>4. CASE <<P, session[d]>> = <<p, k>>
      <3>1. serve[d] \in Admitting
        BY <2>1, <2>2, <2>4 DEF P
      <3>2. d \in overtaken'
        BY <2>1, <2>4, <3>1 DEF P
      <3> QED  BY <3>2 DEF Excused
    <2>5. CASE <<P, session[d]>> # <<p, k>>
      BY <2>1, <2>3, <2>5 DEF Excused, Current, P
    <2> QED  BY <2>4, <2>5
  <1>5. ASSUME NEW p \in Projects, DeleteProject(p)
        PROVE  Excused(d)'
    <2>1. p # P
      BY <1>0, <1>5 DEF DeleteProject, GameTypeOK, P
    <2>2. /\ UNCHANGED <<members, started, session, serve, closing, cut, overtaken>>
          /\ exists'[P] = exists[P] /\ running'[P] = running[P]
      BY <1>0, <1>5, <2>1 DEF DeleteProject, roomVars, connVars, traceVars, GameTypeOK
    <2> QED  BY <2>2 DEF Entitled, Excused, Current, P
  <1>6. ASSUME NEW c \in Clients,
               ReadRunning(c) \/ CheckTotal(c) \/ CheckRoom(c) \/ UpgradeFails(c)
        PROVE  Excused(d)'
    <2>1. UNCHANGED <<members, exists, started, running, closing, cut, overtaken>>
      BY <1>6, ChecksAdmitNobody DEF roomVars, dbVars, traceVars
    <2>2. CASE d # c
      <3>1. serve'[d] = serve[d] /\ session'[d] = session[d]
        BY <1>6, <2>2, ChecksAdmitNobody
      <3> QED  BY <2>1, <3>1 DEF Entitled, Excused, Current
    <2>3. CASE d = c /\ ReadRunning(c)
      <3>1. session'[d] = started[P] /\ running[P]
        BY <2>3 DEF ReadRunning, GameTypeOK, P
      <3> QED  BY <2>1, <3>1 DEF Excused, Current, P
    <2>4. CASE d = c /\ (CheckTotal(c) \/ CheckRoom(c) \/ UpgradeFails(c))
      <3>1. UNCHANGED session
        BY <2>4 DEF CheckTotal, CheckRoom, UpgradeFails
      <3>2. serve[d] \in Admitting
        BY <2>4 DEF CheckTotal, CheckRoom, UpgradeFails, Advance, Admitting
      <3> QED  BY <2>1, <3>1, <3>2 DEF Entitled, Excused, Current
    <2> QED  BY <1>6, <2>2, <2>3, <2>4
  <1>7. ASSUME NEW c \in Clients, Register(c)
        PROVE  Excused(d)'
    <2>1. UNCHANGED <<exists, started, running, session, closing, cut, overtaken>>
      BY <1>7 DEF Register, dbVars, traceVars
    <2>2. serve[d] \in Admitting \/ d \in members[P]
      <3>1. CASE d = c
        BY <1>7, <3>1 DEF Register, Admitting
      <3>2. CASE d # c
        BY <1>0, <1>7, <3>2, GameAssumption DEF Register, Join, MembersServed, GameTypeOK, P
      <3> QED  BY <3>1, <3>2
    <2> QED  BY <2>1, <2>2 DEF Entitled, Excused, Current, P
  <1>8. ASSUME NEW c \in Clients,
               \/ Persist(c) \/ RejectCard(c) \/ ReadExit(c) \/ Deliver(c)
               \/ \E E \in SUBSET members[ProjectOf[c]] : Broadcast(c, E)
        PROVE  Excused(d)'
    <2>1. UNCHANGED <<exists, started, running, session, serve, closing, cut, overtaken>>
      BY <1>8 DEF Persist, RejectCard, ReadExit, Deliver, Broadcast, dbVars, connVars, traceVars
    <2>2. members'[P] \subseteq members[P]
      BY <1>0, <1>8, NobodyEnters
    <2> QED  BY <1>1, <2>1, <2>2
  <1>9. CASE Restart
    <2>1. members'[P] = {} /\ serve'[d] \notin Admitting
      BY <1>0, <1>9 DEF Restart, Reset, Admitting
    <2> QED  BY <2>1 DEF P
  <1>10. CASE UNCHANGED gameVars
    BY <1>1, <1>10 DEF gameVars, roomVars, dbVars, connVars, traceVars
  <1> QED
    BY <1>2, <1>3, <1>4, <1>5, <1>6, <1>7, <1>8, <1>9, <1>10 DEF GameNext

-----------------------------------------------------------------------------
(* Where the messages are.                                                 *)

\* Only four actions move a message.
LEMMA MessagesStay ==
  ASSUME [GameNext]_gameVars,
         ~ \E c \in Clients : Persist(c) \/ \E E \in SUBSET members[ProjectOf[c]] : Broadcast(c, E),
         ~ \E p \in Projects : DeleteProject(p),
         ~ Restart
  PROVE  UNCHANGED <<exists, inserted, stored, posting, live, lost>>
  BY DEF GameNext, StartSession, StopSession, StopCut, MarkStopped, CloseRoom, ReadRunning,
         CheckTotal, CheckRoom, UpgradeFails, Advance, Register, RejectCard, ReadExit, Deliver,
         gameVars, dbVars, connVars, traceVars

\* What Persist adds.
LEMMA NewRow ==
  ASSUME GameTypeOK, SessionsRead, NEW c \in Clients, Persist(c)
  PROVE  LET m == Len(inserted) + 1
         IN /\ m # 0 /\ m \notin DOMAIN inserted
            /\ DOMAIN inserted' = DOMAIN inserted \cup {m}
            /\ inserted'[m][1] = ProjectOf[c]
            /\ \A i \in DOMAIN inserted : inserted'[i] = inserted[i]
            /\ stored' = stored \cup {m}
            /\ posting' = [posting EXCEPT ![c] = m]
            /\ posting[c] = 0
            /\ UNCHANGED <<exists, live, lost>>
  <1>1. /\ inserted' = Append(inserted, <<ProjectOf[c], session[c]>>)
        /\ stored' = stored \cup {Len(inserted) + 1}
        /\ posting' = [posting EXCEPT ![c] = Len(inserted) + 1]
        /\ posting[c] = 0
        /\ UNCHANGED <<exists, live, lost>>
    BY DEF Persist, traceVars
  <1>2. <<ProjectOf[c], session[c]>> \in SessionIds
    <2>1. session[c] \in 1 .. MaxSessions
      BY GameAssumption DEF Persist, SessionsRead, GameTypeOK
    <2> QED  BY <2>1, GameAssumption DEF SessionIds
  <1> QED  BY <1>1, <1>2 DEF GameTypeOK

\* What Broadcast moves.
LEMMA NewShown ==
  ASSUME GameTypeOK, PostsAreRows, NEW c \in Clients, NEW E, Broadcast(c, E)
  PROVE  LET p == ProjectOf[c]
             n == Len(live[p]) + 1
         IN /\ p \in Projects /\ posting[c] \in DOMAIN inserted
            /\ n \notin DOMAIN live[p]
            /\ DOMAIN live'[p] = DOMAIN live[p] \cup {n}
            /\ live'[p][n] = posting[c]
            /\ \A i \in DOMAIN live[p] : live'[p][i] = live[p][i]
            /\ \A q \in Projects \ {p} : live'[q] = live[q]
            /\ posting' = [posting EXCEPT ![c] = 0] /\ posting[c] # 0
            /\ UNCHANGED <<exists, inserted, stored, lost>>
  <1> DEFINE p == ProjectOf[c]
  <1>1. /\ live' = [live EXCEPT ![p] = Append(@, posting[c])]
        /\ posting' = [posting EXCEPT ![c] = 0] /\ posting[c] # 0
        /\ UNCHANGED <<exists, inserted, stored, lost>>
    BY DEF Broadcast, dbVars, traceVars
  <1>2. p \in Projects /\ live[p] \in Seq(DOMAIN inserted) /\ posting[c] \in DOMAIN inserted
    BY <1>1, GameAssumption DEF GameTypeOK, PostsAreRows
  <1>3. live'[p] = Append(live[p], posting[c])
    BY <1>1, <1>2 DEF GameTypeOK
  <1>4. \A q \in Projects \ {p} : live'[q] = live[q]
    BY <1>1 DEF GameTypeOK
  <1> QED  BY <1>1, <1>2, <1>3, <1>4

LEMMA ShownKept ==
  ASSUME GameTypeOK, SessionsRead, PostsAreRows, ShownAreRows, [GameNext]_gameVars
  PROVE  ShownAreRows'
  <1>1. ASSUME NEW c \in Clients, Persist(c)
        PROVE  ShownAreRows'
    <2>1. \A p \in Projects : \A i \in DOMAIN live[p] : live[p][i] \in DOMAIN inserted
      BY DEF GameTypeOK
    <2> QED  BY <1>1, <2>1, NewRow DEF ShownAreRows
  <1>2. ASSUME NEW c \in Clients, NEW E, Broadcast(c, E)
        PROVE  ShownAreRows'
    <2>1. SUFFICES ASSUME NEW q \in Projects, NEW i \in DOMAIN live'[q]
                   PROVE  /\ inserted[live'[q][i]][1] = q
                          /\ exists[q] => live'[q][i] \in stored
      BY <1>2, NewShown DEF ShownAreRows
    <2>2. CASE q = ProjectOf[c] /\ i \notin DOMAIN live[q]
      <3>1. live'[q][i] = posting[c] /\ posting[c] # 0
        BY <1>2, <2>1, <2>2, NewShown
      <3> QED  BY <2>2, <3>1 DEF PostsAreRows
    <2>3. CASE ~(q = ProjectOf[c] /\ i \notin DOMAIN live[q])
      <3>1. i \in DOMAIN live[q] /\ live'[q][i] = live[q][i]
        BY <1>2, <2>1, <2>3, NewShown
      <3> QED  BY <3>1 DEF ShownAreRows
    <2> QED  BY <2>2, <2>3
  <1>3. ASSUME NEW p \in Projects, DeleteProject(p)
        PROVE  ShownAreRows'
    BY <1>3 DEF DeleteProject, ShownAreRows, GameTypeOK
  <1>4. CASE Restart
    BY <1>4 DEF Restart, dbVars, ShownAreRows
  <1>5. CASE UNCHANGED <<exists, inserted, stored, posting, live, lost>>
    BY <1>5 DEF ShownAreRows
  <1> QED  BY <1>1, <1>2, <1>3, <1>4, <1>5, MessagesStay

LEMMA OnePlaceKept ==
  ASSUME GameTypeOK, SessionsRead, PostsAreRows, OnePlace, [GameNext]_gameVars
  PROVE  OnePlace'
  <1>0. /\ \A p \in Projects : \A i \in DOMAIN live[p] : live[p][i] \in DOMAIN inserted
        /\ \A c \in Clients : posting[c] \in DOMAIN inserted \cup {0}
        /\ lost \subseteq DOMAIN inserted
        /\ 0 \notin DOMAIN inserted
    BY DEF GameTypeOK, PostsAreRows
  <1>1. ASSUME NEW c \in Clients, Persist(c)
        PROVE  OnePlace'
    <2> DEFINE m == Len(inserted) + 1
    <2>1. /\ m # 0 /\ m \notin DOMAIN inserted
          /\ posting' = [posting EXCEPT ![c] = m]
          /\ UNCHANGED <<live, lost>>
      BY <1>1, NewRow
    <2> HIDE DEF m
    <2>2. \A d \in Clients : posting'[d] = IF d = c THEN m ELSE posting[d]
      BY <2>1 DEF GameTypeOK
    <2>3. \A d, e \in Clients : posting'[d] # 0 /\ posting'[d] = posting'[e] => d = e
      BY <1>0, <2>1, <2>2 DEF OnePlace
    <2>4. \A p \in Projects : \A i \in DOMAIN live[p] :
             live[p][i] \notin lost /\ \A d \in Clients : posting'[d] # live[p][i]
      BY <1>0, <2>1, <2>2 DEF OnePlace
    <2>5. \A d \in Clients : posting'[d] \notin lost
      BY <1>0, <2>1, <2>2 DEF OnePlace
    <2> QED  BY <2>1, <2>3, <2>4, <2>5 DEF OnePlace
  <1>2. ASSUME NEW c \in Clients, NEW E, Broadcast(c, E)
        PROVE  OnePlace'
    <2> DEFINE P == ProjectOf[c]
               n == Len(live[P]) + 1
    <2>1. /\ P \in Projects /\ n \notin DOMAIN live[P]
          /\ DOMAIN live'[P] = DOMAIN live[P] \cup {n}
          /\ live'[P][n] = posting[c]
          /\ \A i \in DOMAIN live[P] : live'[P][i] = live[P][i]
          /\ \A q \in Projects \ {P} : live'[q] = live[q]
          /\ posting' = [posting EXCEPT ![c] = 0] /\ posting[c] # 0
          /\ UNCHANGED lost
      BY <1>2, NewShown
    <2> HIDE DEF P, n
    <2>2. \A d \in Clients : posting'[d] = IF d = c THEN 0 ELSE posting[d]
      BY <2>1 DEF GameTypeOK
    <2>3. \A q \in Projects : \A i \in DOMAIN live'[q] :
             \/ i \in DOMAIN live[q] /\ live'[q][i] = live[q][i]
             \/ q = P /\ i = n /\ live'[q][i] = posting[c]
      BY <2>1
    <2>4. \A p, q \in Projects : \A i \in DOMAIN live'[p], j \in DOMAIN live'[q] :
             live'[p][i] = live'[q][j] => p = q /\ i = j
      BY <2>3 DEF OnePlace
    <2>5. \A d, e \in Clients : posting'[d] # 0 /\ posting'[d] = posting'[e] => d = e
      BY <2>2 DEF OnePlace
    <2>6. \A p \in Projects : \A i \in DOMAIN live'[p] :
             live'[p][i] \notin lost /\ \A d \in Clients : posting'[d] # live'[p][i]
      BY <1>0, <2>1, <2>2, <2>3 DEF OnePlace
    <2>7. \A d \in Clients : posting'[d] \notin lost
      BY <1>0, <2>2 DEF OnePlace
    <2> QED  BY <2>1, <2>4, <2>5, <2>6, <2>7 DEF OnePlace
  <1>3. ASSUME NEW p \in Projects, DeleteProject(p)
        PROVE  OnePlace'
    BY <1>3 DEF DeleteProject, connVars, traceVars, OnePlace
  <1>4. CASE Restart
    <2>1. /\ \A c \in Clients : posting'[c] = 0
          /\ lost' = lost \cup {posting[c] : c \in {d \in Clients : posting[d] # 0}}
          /\ UNCHANGED live
      BY <1>4 DEF Restart
    <2>2. 0 \notin lost'
      BY <1>0, <2>1
    <2>3. \A p \in Projects : \A i \in DOMAIN live[p] : live[p][i] \notin lost' /\ live[p][i] # 0
      BY <1>0, <2>1 DEF OnePlace
    <2> QED  BY <2>1, <2>2, <2>3 DEF OnePlace
  <1>5. CASE UNCHANGED <<exists, inserted, stored, posting, live, lost>>
    BY <1>5 DEF OnePlace
  <1> QED  BY <1>1, <1>2, <1>3, <1>4, <1>5, MessagesStay

LEMMA SomePlaceKept ==
  ASSUME GameTypeOK, SessionsRead, PostsAreRows, SomePlace, [GameNext]_gameVars
  PROVE  SomePlace'
  <1>1. ASSUME NEW c \in Clients, Persist(c)
        PROVE  SomePlace'
    <2> DEFINE m == Len(inserted) + 1
    <2>1. /\ stored' = stored \cup {m}
          /\ posting[c] = 0 /\ posting' = [posting EXCEPT ![c] = m]
          /\ UNCHANGED <<live, lost>>
          /\ 0 \notin stored
      BY <1>1, NewRow DEF GameTypeOK
    <2> HIDE DEF m
    <2>2. \A d \in Clients : posting'[d] = IF d = c THEN m ELSE posting[d]
      BY <2>1 DEF GameTypeOK
    <2> QED  BY <2>1, <2>2 DEF SomePlace
  <1>2. ASSUME NEW c \in Clients, NEW E, Broadcast(c, E)
        PROVE  SomePlace'
    <2> DEFINE P == ProjectOf[c]
               n == Len(live[P]) + 1
    <2>1. /\ P \in Projects
          /\ DOMAIN live'[P] = DOMAIN live[P] \cup {n}
          /\ live'[P][n] = posting[c]
          /\ \A i \in DOMAIN live[P] : live'[P][i] = live[P][i]
          /\ \A q \in Projects \ {P} : live'[q] = live[q]
          /\ posting' = [posting EXCEPT ![c] = 0] /\ posting[c] # 0
          /\ UNCHANGED <<stored, lost>>
      BY <1>2, NewShown
    <2> HIDE DEF P, n
    <2>2. ASSUME NEW m \in stored
          PROVE  \/ \E q \in Projects : \E i \in DOMAIN live'[q] : live'[q][i] = m
                 \/ \E d \in Clients : posting'[d] = m
                 \/ m \in lost
      <3>1. CASE \E q \in Projects : \E i \in DOMAIN live[q] : live[q][i] = m
        <4>1. PICK q \in Projects : \E i \in DOMAIN live[q] : live[q][i] = m
          BY <3>1
        <4>2. PICK i \in DOMAIN live[q] : live[q][i] = m
          BY <4>1
        <4>3. i \in DOMAIN live'[q] /\ live'[q][i] = m
          BY <2>1, <4>2
        <4> QED  BY <4>3
      <3>2. CASE \E d \in Clients : posting[d] = m
        <4>1. PICK d \in Clients : posting[d] = m
          BY <3>2
        <4>2. CASE d = c
          BY <2>1, <4>1, <4>2
        <4>3. CASE d # c
          BY <2>1, <4>1, <4>3 DEF GameTypeOK
        <4> QED  BY <4>2, <4>3
      <3>3. CASE m \in lost
        BY <3>3
      <3> QED  BY <3>1, <3>2, <3>3 DEF SomePlace
    <2> QED  BY <2>1, <2>2 DEF SomePlace
  <1>3. ASSUME NEW p \in Projects, DeleteProject(p)
        PROVE  SomePlace'
    BY <1>3 DEF DeleteProject, connVars, traceVars, SomePlace
  <1>4. CASE Restart
    <2>1. /\ UNCHANGED <<stored, live>> /\ 0 \notin stored
          /\ lost' = lost \cup {posting[c] : c \in {d \in Clients : posting[d] # 0}}
      BY <1>4 DEF Restart, dbVars, GameTypeOK
    <2>2. \A m \in stored : (\E c \in Clients : posting[c] = m) => m \in lost'
      BY <2>1
    <2> QED  BY <2>1, <2>2 DEF SomePlace
  <1>5. CASE UNCHANGED <<exists, inserted, stored, posting, live, lost>>
    BY <1>5 DEF SomePlace
  <1> QED  BY <1>1, <1>2, <1>3, <1>4, <1>5, MessagesStay

\* A room was never shown more messages than there are: a place of live is a number
\* Casts counts.
LEMMA PlacesAreCounted ==
  ASSUME GameTypeOK, OnePlace, NEW p \in Projects
  PROVE  Len(live[p]) \in Nat /\ Len(live[p]) <= MaxMessages
  <1> DEFINE S == 1 .. Len(live[p])
             T == 1 .. Len(inserted)
  <1>1. /\ Len(live[p]) \in Nat /\ live[p] \in [S -> T]
        /\ Len(inserted) \in Nat /\ Len(inserted) <= MaxMessages
    BY DEF GameTypeOK
  <1>2. \A i, j \in S : live[p][i] = live[p][j] => i = j
    BY <1>1 DEF OnePlace
  <1>3. live[p] \in Injection(S, T)
    BY <1>1, <1>2 DEF Injection, IsInjective
  <1>4. /\ IsFiniteSet(T) /\ Cardinality(T) = Len(inserted)
        /\ Cardinality(S) = Len(live[p])
    <2>1. ASSUME NEW n \in Nat
          PROVE  IsFiniteSet(1 .. n) /\ Cardinality(1 .. n) = n
      <3>1. 1 \in Int /\ n \in Int
        OBVIOUS
      <3>2. /\ IsFiniteSet(1 .. n)
            /\ Cardinality(1 .. n) = IF 1 > n THEN 0 ELSE n - 1 + 1
        BY <3>1, FS_Interval
      <3> QED  BY <3>2
    <2> QED  BY <1>1, <2>1
  <1>5. Cardinality(S) <= Cardinality(T)
    BY <1>3, <1>4, FS_Injection
  <1> QED  BY <1>1, <1>4, <1>5, GameAssumption

\* The two invariants of the message half say what HistoryMatchesRoom counts.
LEMMA PlacesGiveHistory ==
  ASSUME HistoryInv
  PROVE  HistoryMatchesRoom
  <1> USE DEF HistoryInv, AdmissionInv
  <1>1. LiveIsStored
    BY DEF LiveIsStored, ShownAreRows, ToSet
  <1>2. ASSUME NEW m \in stored
        PROVE  Casts(m) + Posters(m) + (IF m \in lost THEN 1 ELSE 0) = 1
    <2> DEFINE C == CastsOf(m)
               R == {c \in Clients : posting[c] = m}
    <2>1. Cardinality({}) = 0 /\ \A x : Cardinality({x}) = 1
      BY FS_EmptySet, FS_Singleton
    <2>2. m # 0
      BY DEF GameTypeOK
    <2>3. \A w \in C : w[1] \in Projects /\ w[2] \in DOMAIN live[w[1]] /\ live[w[1]][w[2]] = m
      <3>1. ASSUME NEW w \in C
            PROVE  w[1] \in Projects /\ w[2] \in DOMAIN live[w[1]] /\ live[w[1]][w[2]] = m
        <4>1. w[1] \in Projects /\ w[2] \in Messages /\ w[2] <= Len(live[w[1]]) /\ live[w[1]][w[2]] = m
          BY DEF CastsOf
        <4>2. live[w[1]] \in Seq(DOMAIN inserted)
          BY <4>1 DEF GameTypeOK
        <4>3. DOMAIN live[w[1]] = 1 .. Len(live[w[1]]) /\ Len(live[w[1]]) \in Nat
          BY <4>2
        <4> QED  BY <4>1, <4>3, GameAssumption DEF Messages
      <3> QED  BY <3>1
    <2>4. CASE \E p \in Projects : \E i \in DOMAIN live[p] : live[p][i] = m
      <3>1. PICK p \in Projects : \E i \in DOMAIN live[p] : live[p][i] = m
        BY <2>4
      <3>2. PICK i \in DOMAIN live[p] : live[p][i] = m
        BY <3>1
      <3>3. R = {} /\ m \notin lost
        BY <3>2 DEF OnePlace
      <3>4. <<p, i>> \in C
        <4>1. live[p] \in Seq(DOMAIN inserted)
          BY DEF GameTypeOK
        <4>2. i \in 1 .. Len(live[p])
          BY <4>1
        <4>3. i \in Messages
          BY <4>2, PlacesAreCounted, GameAssumption DEF Messages
        <4> QED  BY <3>2, <4>2, <4>3 DEF CastsOf
      <3>5. \A w \in C : w = <<p, i>>
        <4>1. ASSUME NEW w \in C  PROVE w = <<p, i>>
          <5>1. w = <<w[1], w[2]>>
            BY DEF CastsOf
          <5>2. w[1] = p /\ w[2] = i
            BY <2>3, <3>2 DEF OnePlace
          <5> QED  BY <5>1, <5>2
        <4> QED  BY <4>1
      <3>6. C = {<<p, i>>}
        BY <3>4, <3>5
      <3>7. Casts(m) = 1 /\ Posters(m) = 0
        <4>1. Casts(m) = Cardinality(C) /\ Posters(m) = Cardinality(R)
          BY DEF Casts, Posters
        <4> HIDE DEF C, R
        <4> QED  BY <2>1, <3>3, <3>6, <4>1
      <3> QED  BY <3>3, <3>7
    <2>5. CASE ~ \E p \in Projects : \E i \in DOMAIN live[p] : live[p][i] = m
      <3>1. C = {}
        BY <2>3, <2>5
      <3>2. CASE \E c \in Clients : posting[c] = m
        <4>1. PICK c \in Clients : posting[c] = m
          BY <3>2
        <4>2. R = {c} /\ m \notin lost
          BY <2>2, <4>1 DEF OnePlace
        <4> QED  BY <2>1, <3>1, <4>2 DEF Casts, Posters
      <3>3. CASE ~ \E c \in Clients : posting[c] = m
        <4>1. R = {} /\ m \in lost
          BY <2>5, <3>3 DEF SomePlace
        <4> QED  BY <2>1, <3>1, <4>1 DEF Casts, Posters
      <3> QED  BY <3>2, <3>3
    <2> QED  BY <2>4, <2>5
  <1> QED  BY <1>1, <1>2 DEF HistoryMatchesRoom, StoredIsCastOnce

-----------------------------------------------------------------------------
(* The theorems.                                                           *)

LEMMA HistoryInvInit == GameInit => HistoryInv
  <1> SUFFICES ASSUME GameInit PROVE HistoryInv
    OBVIOUS
  <1> USE GameAssumption DEF GameInit, RoomInit
  <1>1. GameTypeOK
    BY DEF GameTypeOK
  <1>2. MembersServed /\ SessionsRead /\ PostsAreRows /\ Entitled
    BY DEF MembersServed, SessionsRead, PostsAreRows, Entitled, Admitting
  <1>3. ShownAreRows /\ OnePlace /\ SomePlace
    BY DEF ShownAreRows, OnePlace, SomePlace
  <1> QED  BY <1>1, <1>2, <1>3 DEF HistoryInv, AdmissionInv

LEMMA HistoryInvNext == HistoryInv /\ [GameNext]_gameVars => HistoryInv'
  BY GameTyped, Served, Read, PostsKept, EntitledKept, ShownKept, OnePlaceKept, SomePlaceKept
  DEF HistoryInv, AdmissionInv

LEMMA HistoryInvAlways == GameSpec => []HistoryInv
  BY HistoryInvInit, HistoryInvNext, PTL DEF GameSpec

\* Game Mode keeps its rows, connections and rooms in their types: a running session is
\* the last of a project that exists, and what a room was shown was inserted.
THEOREM GameIsTyped == GameSpec => []GameTypeOK
  <1>1. HistoryInv => GameTypeOK
    BY DEF HistoryInv, AdmissionInv
  <1> QED  BY <1>1, HistoryInvAlways, PTL

\* Whoever is in the room of a project without belonging to its running session is there
\* for one of three reasons: the Stop of the session has the room still to close, it was
\* cut short, or it closed the room while Serve was admitting this client
\* (chat_ws.go, game_sessions.go).
THEOREM StayersAreExplained == GameSpec => []LeftBehindOnlyByRace
  <1>1. HistoryInv => LeftBehindOnlyByRace
    <2> SUFFICES ASSUME HistoryInv, NEW p \in Projects, exists[p], NEW c \in members[p]
                 PROVE  \/ Current(c)
                        \/ <<p, session[c]>> \in closing \cup cut
                        \/ c \in overtaken
      BY DEF LeftBehindOnlyByRace
    <2>1. c \in Clients /\ p = ProjectOf[c]
      BY DEF HistoryInv, AdmissionInv, MembersServed
    <2> QED  BY <2>1 DEF HistoryInv, AdmissionInv, Entitled, Excused
  <1> QED  BY <1>1, HistoryInvAlways, PTL

\* What the room was shown is in the history a late joiner reads, and what is in the
\* history was shown exactly once, is about to be, or fell to a restart
\* (handleInbound of chat_ws.go).
THEOREM HistoryIsTheRoom == GameSpec => []HistoryMatchesRoom
  BY PlacesGiveHistory, HistoryInvAlways, PTL
=============================================================================
