---------------------------- MODULE MemberProofs ----------------------------
(***************************************************************************)
(* Who is in a room, who is a member, and whom content takes for one.      *)
(*                                                                         *)
(* The hub, for any number of projects, connections and people and any     *)
(* buffer size: first the registry (HubInv), then a removed client's       *)
(* silence, then what every queue holds (DeliveryInv), and from that the   *)
(* rosters and the refinement of RoomService.                              *)
(*                                                                         *)
(* Members, for every number of users, invites, entries, keys and          *)
(* requests, and any durations with freshTTL <= staleTolerance: what       *)
(* Projects says of a deleted project and of an invite, and what           *)
(* MembershipCache says of content's decisions.                            *)
(***************************************************************************)
EXTENDS Hub, Projects, MembershipCache, FiniteSetTheorems, TLAPS

-----------------------------------------------------------------------------
(* The hub: its registry.                                                  *)

\* No channel is closed before its client is registered: with RoomOwnsChannel
\* this makes Register start from an open channel.
NewIsOpen == \A c \in closed : stage[c] # "new"

\* The inductive invariant.
HubInv == HubTypeOK /\ TotalAgrees /\ RoomOwnsChannel /\ NewIsOpen

-----------------------------------------------------------------------------
(* Lemmas about the bodies that run under the mutex.                       *)

\* A presence frame of clients of the hub is a frame.
LEMMA PresenceIsFrame ==
    ASSUME NEW S \in SUBSET Clients
    PROVE  Presence(Roster(S)) \in Frame
  BY HubAssumption DEF Presence, Roster, Frame

\* The other frames are frames.
LEMMA OtherFrames ==
    /\ \A n \in Nat : Message(n) \in Frame
    /\ Rejected \in Frame
    /\ Ended \in Frame
  BY DEF Message, Rejected, Ended, Frame

\* Queueing a frame keeps the channels well-formed.
LEMMA OfferType ==
    ASSUME send \in [Clients -> Seq(Frame)], NEW S, NEW f \in Frame
    PROVE  Offer(S, f) \in [Clients -> Seq(Frame)]
  BY DEF Offer

\* Announcing a roster keeps the channels and the ghost well-formed.
LEMMA BroadcastPresenceType ==
    ASSUME HubTypeOK, NEW p \in Projects, NEW S \in SUBSET Clients,
           BroadcastPresenceLocked(p, S)
    PROVE  /\ send' \in [Clients -> Seq(Frame)]
           /\ missed' \subseteq Clients
<1>1. Offer(S, Presence(Roster(S))) \in [Clients -> Seq(Frame)]
  BY PresenceIsFrame, OfferType DEF HubTypeOK
<1>2. QED
  BY <1>1 DEF BroadcastPresenceLocked, HubTypeOK

\* The registered clients are finitely many.
LEMMA RegisteredFinite ==
    ASSUME HubTypeOK
    PROVE  /\ Registered \subseteq Clients
           /\ IsFiniteSet(Registered)
           /\ \A p \in Projects : IsFiniteSet(rooms[p])
<1>1. Registered \subseteq Clients
  BY DEF HubTypeOK, Registered
<1>2. \A p \in Projects : rooms[p] \subseteq Clients
  BY DEF HubTypeOK
<1>3. QED
  BY <1>1, <1>2, FS_Subset, HubAssumption

\* removeLocked takes out exactly the clients it closes, and the counter follows:
\* the heart of "closes its send channel exactly once".
LEMMA RemoveLockedKeeps ==
    ASSUME HubInv, NEW p \in Projects, NEW E, RemoveLocked(p, E)
    PROVE  /\ rooms' \in [Projects -> SUBSET Clients]
           /\ closed' \subseteq Clients
           /\ total' \in Nat
           /\ got' \in [Clients -> Nat]
           /\ seen' \in [Clients -> SUBSET People]
           /\ total' = Cardinality(Registered')
           /\ Registered' = Registered \ (E \cap rooms[p])
           /\ closed' = closed \cup (E \cap rooms[p])
           /\ \A q \in Projects : rooms'[q] \subseteq rooms[q]
<1> DEFINE out == E \cap rooms[p]
<1>1. /\ rooms' = [rooms EXCEPT ![p] = @ \ out]
      /\ closed' = closed \cup out
      /\ total' = total - Cardinality(out)
  BY DEF RemoveLocked
<1>2. out \subseteq Registered
  BY DEF Registered
<1>3. \A q \in Projects : q # p => rooms[q] \cap out = {}
  BY DEF HubInv, RoomOwnsChannel, HubTypeOK
<1>4. rooms' \in [Projects -> SUBSET Clients]
  BY <1>1 DEF HubInv, HubTypeOK
<1>5. \A q \in Projects : rooms'[q] = rooms[q] \ out
  BY <1>1, <1>3 DEF HubInv, HubTypeOK
<1>6. Registered' = Registered \ out
  BY <1>5 DEF Registered
<1>7. IsFiniteSet(Registered) /\ Registered \subseteq Clients
  BY RegisteredFinite DEF HubInv
<1>8. /\ IsFiniteSet(Registered \ out)
      /\ Cardinality(Registered \ out) = Cardinality(Registered) - Cardinality(Registered \cap out)
  BY <1>7, FS_Difference
<1>9. Registered \cap out = out
  BY <1>2
<1>10. Cardinality(Registered \ out) \in Nat
  BY <1>8, FS_CardinalityType
<1>11. total' = Cardinality(Registered')
  BY <1>1, <1>6, <1>8, <1>9 DEF HubInv, TotalAgrees
<1>12. total' \in Nat
  BY <1>6, <1>10, <1>11
<1>13. closed' \subseteq Clients
  BY <1>1, <1>2, <1>7 DEF HubInv, HubTypeOK
<1>14. got' \in [Clients -> Nat] /\ seen' \in [Clients -> SUBSET People]
  BY DEF RemoveLocked, HubInv, HubTypeOK
<1>15. QED
  BY <1>1, <1>4, <1>5, <1>6, <1>11, <1>12, <1>13, <1>14

\* Removing clients in that way keeps the map and the channels in agreement, when
\* no client's stage changes.
LEMMA RemoveLockedOwns ==
    ASSUME HubInv, NEW p \in Projects, NEW E, RemoveLocked(p, E), stage' = stage
    PROVE  TotalAgrees' /\ RoomOwnsChannel' /\ NewIsOpen'
<1>1. /\ total' = Cardinality(Registered')
      /\ Registered' = Registered \ (E \cap rooms[p])
      /\ closed' = closed \cup (E \cap rooms[p])
      /\ \A q \in Projects : rooms'[q] \subseteq rooms[q]
  BY RemoveLockedKeeps
<1>2. E \cap rooms[p] \subseteq Registered
  BY DEF Registered
<1>3. TotalAgrees'
  BY <1>1 DEF TotalAgrees
<1>4. RoomOwnsChannel'
  BY <1>1, <1>2 DEF HubInv, RoomOwnsChannel
<1>5. \A c \in E \cap rooms[p] : c \in Clients /\ stage[c] # "new"
  BY <1>2, RegisteredFinite DEF HubInv, RoomOwnsChannel
<1>6. NewIsOpen'
  BY <1>1, <1>5 DEF HubInv, NewIsOpen
<1>7. QED
  BY <1>3, <1>4, <1>6

-----------------------------------------------------------------------------
(* The inductive invariant, action by action.                              *)

LEMMA InitInv == HubInit => HubInv
<1> SUFFICES ASSUME HubInit PROVE HubInv
  OBVIOUS
<1>1. HubTypeOK
  BY DEF HubInit, HubTypeOK
<1>2. Registered = {}
  BY DEF HubInit, Registered
<1>3. TotalAgrees
  BY <1>2, FS_EmptySet DEF HubInit, TotalAgrees
<1>4. RoomOwnsChannel /\ NewIsOpen
  BY <1>2 DEF HubInit, RoomOwnsChannel, NewIsOpen
<1>5. QED
  BY <1>1, <1>3, <1>4 DEF HubInv

\* A step that leaves the registry and the stages alone keeps the invariant if it
\* keeps the types.
LEMMA RegistryUnchanged ==
    ASSUME HubInv, HubTypeOK', UNCHANGED <<rooms, total, closed, stage>>
    PROVE  HubInv'
<1>1. Registered' = Registered
  BY DEF Registered
<1>2. QED
  BY <1>1 DEF HubInv, TotalAgrees, RoomOwnsChannel, NewIsOpen

\* Serve's registration of a new connection.
LEMMA RegisterInv ==
    ASSUME HubInv, NEW c \in Clients, Register(c)
    PROVE  HubInv'
<1> DEFINE p == ProjectOf[c]
           room == rooms[p] \cup {c}
<1>0. p \in Projects
  BY HubAssumption
<1>1. /\ stage[c] = "new"
      /\ rooms' = [rooms EXCEPT ![p] = room]
      /\ total' = total + 1
      /\ BroadcastPresenceLocked(p, room)
      /\ got' = [got EXCEPT ![c] = casts[p]]
      /\ UNCHANGED <<closed, casts, seen, writing, reading>>
      /\ stage' = [stage EXCEPT ![c] = "registered"]
      /\ conn' = [conn EXCEPT ![c] = "up"]
  BY DEF Register, OpenRoomAndRegister
<1>2. room \in SUBSET Clients
  BY <1>0 DEF HubInv, HubTypeOK
<1>3. send' \in [Clients -> Seq(Frame)] /\ missed' \subseteq Clients
  BY <1>0, <1>1, <1>2, BroadcastPresenceType DEF HubInv
<1>4. c \notin Registered /\ c \notin closed
  BY <1>1 DEF HubInv, RoomOwnsChannel, NewIsOpen
<1>5. Registered' = Registered \cup {c}
  <2>1. rooms'[p] = room /\ \A q \in Projects : q # p => rooms'[q] = rooms[q]
    BY <1>0, <1>1 DEF HubInv, HubTypeOK
  <2>2. \A d : d \in Registered' <=> \E q \in Projects : d \in rooms'[q]
    BY DEF Registered
  <2>3. \A d : d \in Registered <=> \E q \in Projects : d \in rooms[q]
    BY DEF Registered
  <2>4. \A d : d \in Registered' <=> d \in Registered \/ d = c
    <3> SUFFICES ASSUME NEW d PROVE d \in Registered' <=> d \in Registered \/ d = c
      OBVIOUS
    <3>1. ASSUME NEW q \in Projects, d \in rooms'[q] PROVE d \in rooms[q] \/ d = c
      BY <3>1, <2>1
    <3>2. ASSUME NEW q \in Projects, d \in rooms[q] PROVE d \in rooms'[q]
      BY <3>2, <2>1
    <3>3. c \in rooms'[p]
      BY <2>1
    <3>4. QED
      BY <3>1, <3>2, <3>3, <2>2, <2>3, <1>0
  <2>5. QED
    BY <2>4
<1>6. IsFiniteSet(Registered) /\ Registered \subseteq Clients
  BY RegisteredFinite DEF HubInv
<1>7. Cardinality(Registered \cup {c}) = Cardinality(Registered) + 1
  BY <1>4, <1>6, FS_AddElement
<1>8. TotalAgrees'
  BY <1>1, <1>5, <1>7 DEF HubInv, TotalAgrees
<1>9. HubTypeOK'
  <2>1. /\ rooms' \in [Projects -> SUBSET Clients]
        /\ total' \in Nat
        /\ got' \in [Clients -> Nat]
    BY <1>0, <1>1, <1>2 DEF HubInv, HubTypeOK
  <2>2. /\ stage' \in [Clients -> {"new", "registered", "started"}]
        /\ conn' \in [Clients -> {"none", "up", "down"}]
    BY <1>1 DEF HubInv, HubTypeOK
  <2>3. QED
    BY <1>1, <1>3, <2>1, <2>2 DEF HubInv, HubTypeOK
<1>10. RoomOwnsChannel'
  <2> SUFFICES ASSUME NEW d \in Clients
               PROVE  /\ \A q \in Projects : d \in rooms'[q] => q = ProjectOf[d]
                      /\ d \in Registered' <=> stage'[d] # "new" /\ d \notin closed'
    BY DEF RoomOwnsChannel
  <2>1. \A q \in Projects : d \in rooms'[q] => q = ProjectOf[d]
    BY <1>1 DEF HubInv, HubTypeOK, RoomOwnsChannel
  <2>2. d \in Registered' <=> stage'[d] # "new" /\ d \notin closed'
    <3>1. CASE d = c
      BY <3>1, <1>1, <1>4, <1>5 DEF HubInv, HubTypeOK
    <3>2. CASE d # c
      BY <3>2, <1>1, <1>5 DEF HubInv, HubTypeOK, RoomOwnsChannel
    <3>3. QED
      BY <3>1, <3>2
  <2>3. QED
    BY <2>1, <2>2
<1>11. NewIsOpen'
  BY <1>1, <1>4 DEF HubInv, HubTypeOK, NewIsOpen
<1>12. QED
  BY <1>8, <1>9, <1>10, <1>11 DEF HubInv

\* readPump's exit, with the Unregister it defers.
LEMMA ReadExitInv ==
    ASSUME HubInv, NEW c \in Clients, ReadExit(c)
    PROVE  HubInv'
<1> DEFINE p == ProjectOf[c]
<1>1. p \in Projects
  BY HubAssumption
<1>2. /\ RemoveLocked(p, {c})
      /\ BroadcastPresenceLocked(p, rooms[p] \ {c})
      /\ reading' = reading \ {c}
      /\ UNCHANGED <<casts, stage, conn, writing>>
  BY DEF ReadExit, Unregister
<1>3. rooms[p] \ {c} \in SUBSET Clients
  BY <1>1 DEF HubInv, HubTypeOK
<1>4. send' \in [Clients -> Seq(Frame)] /\ missed' \subseteq Clients
  BY <1>1, <1>2, <1>3, BroadcastPresenceType DEF HubInv
<1>5. HubTypeOK'
  BY <1>1, <1>2, <1>4, RemoveLockedKeeps DEF HubInv, HubTypeOK
<1>6. QED
  BY <1>1, <1>2, <1>5, RemoveLockedOwns DEF HubInv

\* The answer to one client, which evicts it if its buffer is full.
LEMMA SendToInv ==
    ASSUME HubInv, NEW c \in Clients, SendTo(c), UNCHANGED pumpVars
    PROVE  HubInv'
<1> DEFINE p == ProjectOf[c]
<1>1. p \in Projects
  BY HubAssumption
<1>2. UNCHANGED <<casts, stage, conn, writing, reading>>
  BY DEF SendTo, pumpVars
<1>3. CASE /\ send' = Offer({c}, Rejected)
           /\ UNCHANGED <<registryVars, closed, got, seen, missed>>
  <2>1. send' \in [Clients -> Seq(Frame)]
    BY <1>3, OfferType, OtherFrames DEF HubInv, HubTypeOK
  <2>2. HubTypeOK'
    BY <1>2, <1>3, <2>1 DEF HubInv, HubTypeOK, registryVars
  <2>3. QED
    BY <1>2, <1>3, <2>2, RegistryUnchanged DEF registryVars
<1>4. CASE RemoveLocked(p, {c}) /\ BroadcastPresenceLocked(p, rooms[p] \ {c})
  <2>1. rooms[p] \ {c} \in SUBSET Clients
    BY <1>1 DEF HubInv, HubTypeOK
  <2>2. send' \in [Clients -> Seq(Frame)] /\ missed' \subseteq Clients
    BY <1>1, <1>4, <2>1, BroadcastPresenceType DEF HubInv
  <2>3. HubTypeOK'
    BY <1>1, <1>2, <1>4, <2>2, RemoveLockedKeeps DEF HubInv, HubTypeOK
  <2>4. QED
    BY <1>1, <1>2, <1>4, <2>3, RemoveLockedOwns DEF HubInv
<1>5. QED
  BY <1>3, <1>4 DEF SendTo

\* The fan-out of a message, with its evictions and the roster they cause.
LEMMA BroadcastInv ==
    ASSUME HubInv, NEW p \in Projects, Broadcast(p), UNCHANGED pumpVars
    PROVE  HubInv'
<1> DEFINE room == rooms[p]
           evicted == {c \in room : Full(c)}
           stay == room \ evicted
           roster == Presence(Roster(stay))
           tight == {c \in stay : Len(send[c]) + 1 >= SendBuf}
           queued == Offer(room, Message(casts[p] + 1))
<1>1. /\ casts' = [casts EXCEPT ![p] = @ + 1]
      /\ RemoveLocked(p, evicted)
      /\ UNCHANGED <<stage, conn, writing, reading>>
  BY DEF Broadcast, pumpVars
<1>2. \/ send' = queued /\ UNCHANGED missed
      \/ /\ send' = [c \in Clients |-> IF c \in stay \ tight
                                        THEN Append(queued[c], roster)
                                        ELSE queued[c]]
         /\ missed' = (missed \ room) \cup tight
  BY DEF Broadcast
<1>3. room \subseteq Clients /\ stay \in SUBSET Clients /\ tight \subseteq Clients
  BY DEF HubInv, HubTypeOK
<1>4. casts[p] + 1 \in Nat
  BY DEF HubInv, HubTypeOK
<1>5. queued \in [Clients -> Seq(Frame)] /\ roster \in Frame
  BY <1>3, <1>4, OfferType, OtherFrames, PresenceIsFrame DEF HubInv, HubTypeOK
<1>6. send' \in [Clients -> Seq(Frame)] /\ missed' \subseteq Clients
  <2>1. CASE send' = queued /\ UNCHANGED missed
    BY <2>1, <1>5 DEF HubInv, HubTypeOK
  <2>2. CASE /\ send' = [c \in Clients |-> IF c \in stay \ tight
                                          THEN Append(queued[c], roster)
                                          ELSE queued[c]]
             /\ missed' = (missed \ room) \cup tight
    <3>1. \A c \in Clients : queued[c] \in Seq(Frame) /\ Append(queued[c], roster) \in Seq(Frame)
      <4> HIDE DEF queued, roster
      <4>1. QED
        BY <1>5
    <3>2. missed' \subseteq Clients
      BY <2>2, <1>3 DEF HubInv, HubTypeOK
    <3>3. send' \in [Clients -> Seq(Frame)]
      <4> HIDE DEF queued, roster, stay, tight
      <4>1. QED
        BY <2>2, <3>1
    <3>4. QED
      BY <3>2, <3>3
  <2>3. QED
    BY <1>2, <2>1, <2>2
<1>7. HubTypeOK'
  BY <1>1, <1>4, <1>6, RemoveLockedKeeps DEF HubInv, HubTypeOK
<1>8. QED
  BY <1>1, <1>7, RemoveLockedOwns DEF HubInv

\* The end of a session: everybody is told, closed and taken out.
LEMMA CloseRoomInv ==
    ASSUME HubInv, NEW p \in Projects, CloseRoom(p), UNCHANGED pumpVars
    PROVE  HubInv'
<1>1. /\ send' = Offer(rooms[p], Ended)
      /\ RemoveLocked(p, rooms[p])
      /\ missed' = missed \ rooms[p]
      /\ UNCHANGED <<casts, stage, conn, writing, reading>>
  BY DEF CloseRoom, pumpVars
<1>2. send' \in [Clients -> Seq(Frame)]
  BY <1>1, OfferType, OtherFrames DEF HubInv, HubTypeOK
<1>3. HubTypeOK'
  BY <1>1, <1>2, RemoveLockedKeeps DEF HubInv, HubTypeOK
<1>4. QED
  BY <1>1, <1>3, RemoveLockedOwns DEF HubInv

\* The end of the process.
LEMMA CrashInv == ASSUME HubInv, Crash PROVE HubInv'
<1>1. HubTypeOK'
  <2>1. closed' \subseteq Clients
    BY RegisteredFinite DEF HubInv, HubTypeOK, Crash
  <2>2. send' \in [Clients -> Seq(Frame)]
    BY DEF Crash
  <2>3. QED
    BY <2>1, <2>2 DEF HubInv, HubTypeOK, Crash
<1>2. Registered' = {}
  BY DEF Crash, Registered
<1>3. TotalAgrees'
  BY <1>2, FS_EmptySet DEF Crash, TotalAgrees
<1>4. \A c \in Clients : /\ c \in closed' <=> stage[c] # "new"
                         /\ stage'[c] # "new" <=> stage[c] # "new"
  BY DEF Crash, HubInv, RoomOwnsChannel, NewIsOpen
<1>5. RoomOwnsChannel'
  BY <1>2, <1>4 DEF RoomOwnsChannel, Crash
<1>6. NewIsOpen'
  BY <1>1, <1>4 DEF NewIsOpen, HubTypeOK
<1>7. QED
  BY <1>1, <1>3, <1>5, <1>6 DEF HubInv

\* The pumps, which leave the registry alone.
LEMMA PumpsInv ==
    ASSUME HubInv, NEW c \in Clients,
           \/ WriteFrame(c) \/ WriteClose(c) \/ WriteFail(c) \/ PeerGone(c)
    PROVE  HubInv'
<1>1. UNCHANGED <<rooms, total, closed, stage, reading, casts, missed>>
  BY DEF WriteFrame, WriteClose, WriteFail, PeerGone, registryVars, channelVars,
         pumpVars, ghostVars
<1>2. writing' \subseteq Clients /\ conn' \in [Clients -> {"none", "up", "down"}]
  BY DEF HubInv, HubTypeOK, WriteFrame, WriteClose, WriteFail, PeerGone, pumpVars
<1>3. send' \in [Clients -> Seq(Frame)]
  <2>1. UNCHANGED send \/ (send[c] # <<>> /\ send' = [send EXCEPT ![c] = Tail(@)])
    BY DEF WriteFrame, WriteClose, WriteFail, PeerGone, channelVars
  <2>2. send[c] # <<>> => Tail(send[c]) \in Seq(Frame)
    BY DEF HubInv, HubTypeOK
  <2>3. QED
    BY <2>1, <2>2 DEF HubInv, HubTypeOK
<1>4. got' \in [Clients -> Nat] /\ seen' \in [Clients -> SUBSET People]
  <2>1. CASE WriteFrame(c)
    <3>1. Head(send[c]) \in Frame
      BY <2>1 DEF HubInv, HubTypeOK, WriteFrame
    <3>2. /\ Head(send[c]).type = "message" => Head(send[c]).n \in Nat
          /\ Head(send[c]).type = "presence" => Head(send[c]).users \in SUBSET People
      BY <3>1 DEF Frame
    <3>3. QED
      BY <2>1, <3>2 DEF HubInv, HubTypeOK, WriteFrame
  <2>2. CASE WriteClose(c) \/ WriteFail(c) \/ PeerGone(c)
    BY <2>2 DEF HubInv, HubTypeOK, WriteClose, WriteFail, PeerGone, ghostVars
  <2>3. QED
    BY <2>1, <2>2
<1>5. HubTypeOK'
  BY <1>1, <1>2, <1>3, <1>4 DEF HubInv, HubTypeOK
<1>6. QED
  BY <1>1, <1>5, RegistryUnchanged

\* Serve's last line.
LEMMA StartInv ==
    ASSUME HubInv, NEW c \in Clients, Start(c)
    PROVE  HubInv'
<1>1. /\ stage[c] = "registered" /\ stage' = [stage EXCEPT ![c] = "started"]
      /\ UNCHANGED <<rooms, total, send, closed, conn, casts, got, seen, missed>>
      /\ writing' = writing \cup {c} /\ reading' = reading \cup {c}
  BY DEF Start, registryVars, channelVars, ghostVars
<1>2. HubTypeOK'
  BY <1>1 DEF HubInv, HubTypeOK
<1>3. Registered' = Registered
  BY <1>1 DEF Registered
<1>4. \A d \in Clients : stage'[d] = "new" <=> stage[d] = "new"
  BY <1>1 DEF HubInv, HubTypeOK
<1>5. QED
  BY <1>1, <1>2, <1>3, <1>4 DEF HubInv, HubTypeOK, TotalAgrees, RoomOwnsChannel, NewIsOpen

LEMMA NextInv == HubInv /\ [HubNext]_hubVars => HubInv'
<1> SUFFICES ASSUME HubInv, [HubNext]_hubVars PROVE HubInv'
  OBVIOUS
<1>1. ASSUME NEW c \in Clients, Register(c) \/ Connection(c) PROVE HubInv'
  BY <1>1, RegisterInv, StartInv, PumpsInv, ReadExitInv DEF Connection
<1>2. ASSUME NEW c \in Clients, SendTo(c), UNCHANGED pumpVars PROVE HubInv'
  BY <1>2, SendToInv
<1>3. ASSUME NEW p \in Projects, Broadcast(p) \/ CloseRoom(p), UNCHANGED pumpVars
      PROVE  HubInv'
  BY <1>3, BroadcastInv, CloseRoomInv
<1>4. CASE Crash
  BY <1>4, CrashInv
<1>5. CASE UNCHANGED hubVars
  <2>1. HubTypeOK'
    BY <1>5 DEF hubVars, HubInv, HubTypeOK
  <2>2. QED
    BY <1>5, <2>1, RegistryUnchanged DEF hubVars
<1>6. QED
  BY <1>1, <1>2, <1>3, <1>4, <1>5 DEF HubNext

\* The inductive invariant holds in every behaviour of the hub.
THEOREM Invariance == HubSpec => []HubInv
  BY InitInv, NextInv, PTL DEF HubSpec

\* The hub's state is well-formed; in particular the connection counter never goes
\* below zero, however often a client is removed.
THEOREM TypeCorrect == HubSpec => []HubTypeOK
<1>1. HubInv => HubTypeOK
  BY DEF HubInv
<1>2. QED
  BY <1>1, Invariance, PTL

\* The counter behind ServerConnCap is the number of registered clients.
THEOREM CounterExact == HubSpec => []TotalAgrees
<1>1. HubInv => TotalAgrees
  BY DEF HubInv
<1>2. QED
  BY <1>1, Invariance, PTL

\* A client is in its room exactly while its channel is open, so removeLocked's
\* membership test decides whether to close it.
THEOREM ChannelOwnership == HubSpec => []RoomOwnsChannel
<1>1. HubInv => RoomOwnsChannel
  BY DEF HubInv
<1>2. QED
  BY <1>1, Invariance, PTL

-----------------------------------------------------------------------------
(* A removed client is left alone.                                         *)

\* A closed channel belongs to no room.
LEMMA ClosedIsOut ==
    ASSUME HubInv
    PROVE  \A c \in closed : /\ c \in Clients
                            /\ \A p \in Projects : c \notin rooms[p]
                            /\ Len(send[c]) \in Nat
<1>1. \A c \in closed : c \in Clients /\ c \notin Registered
  BY DEF HubInv, HubTypeOK, RoomOwnsChannel
<1>2. \A c \in Clients : send[c] \in Seq(Frame)
  BY DEF HubInv, HubTypeOK
<1>3. QED
  BY <1>1, <1>2 DEF Registered

\* Offering a frame to a set of clients leaves the channels of the others as they are.
LEMMA OfferElsewhere ==
    ASSUME NEW S, NEW f, NEW c \in Clients, c \notin S
    PROVE  Offer(S, f)[c] = send[c]
  BY DEF Offer

\* session_ended is queued by CloseRoom alone, which closes the channel.
EndCloses == \A c \in Clients : EndQueued(c) => c \in closed

\* No other frame is it, and a full buffer takes none.
LEMMA OfferEnds ==
    ASSUME HubTypeOK, NEW S, NEW f \in Frame, NEW c \in Clients,
           NEW i \in DOMAIN Offer(S, f)[c], Offer(S, f)[c][i] = Ended, f # Ended
    PROVE  EndQueued(c)
<1>1. PICK q : q = send[c]
  OBVIOUS
<1>2. q \in Seq(Frame)
  BY <1>1 DEF HubTypeOK
<1>3. Offer(S, f)[c] \in {q, Append(q, f)}
  BY <1>1 DEF Offer
<1>4. ASSUME NEW j \in DOMAIN Append(q, f), Append(q, f)[j] = Ended
      PROVE  j \in DOMAIN q /\ q[j] = Ended
  BY <1>2, <1>4
<1>5. i \in DOMAIN q /\ q[i] = Ended
  BY <1>3, <1>4
<1>6. QED
  BY <1>1, <1>5 DEF EndQueued

LEMMA PresenceIsNotEnd == \A S : Presence(S) # Ended
  BY DEF Presence, Ended

LEMMA EndCloseNext == HubInv /\ EndCloses /\ [HubNext]_hubVars => EndCloses'
<1> SUFFICES ASSUME HubInv, EndCloses, [HubNext]_hubVars, NEW c \in Clients,
                    NEW i \in DOMAIN send'[c], send'[c][i] = Ended
             PROVE  c \in closed'
  BY DEF EndCloses, EndQueued
<1>0. HubTypeOK
  BY DEF HubInv
<1>q. EndQueued(c) /\ closed \subseteq closed' => c \in closed'
  BY DEF EndCloses
<1>p. ASSUME NEW p \in Projects, NEW S \in SUBSET Clients, BroadcastPresenceLocked(p, S)
      PROVE  EndQueued(c)
  BY <1>0, <1>p, OfferEnds, PresenceIsFrame, PresenceIsNotEnd DEF BroadcastPresenceLocked
<1>1. ASSUME NEW d \in Clients, Register(d) PROVE c \in closed'
  <2>1. ProjectOf[d] \in Projects /\ rooms[ProjectOf[d]] \cup {d} \in SUBSET Clients
    BY <1>0, HubAssumption DEF HubTypeOK
  <2>2. QED
    BY <1>1, <1>p, <1>q, <2>1 DEF Register, OpenRoomAndRegister
<1>2. ASSUME NEW d \in Clients, ReadExit(d) \/ SendTo(d) PROVE c \in closed'
  <2>1. ProjectOf[d] \in Projects /\ rooms[ProjectOf[d]] \ {d} \in SUBSET Clients
    BY <1>0, HubAssumption DEF HubTypeOK
  <2>2. closed \subseteq closed'
    BY <1>2 DEF ReadExit, Unregister, SendTo, RemoveLocked
  <2>3. CASE BroadcastPresenceLocked(ProjectOf[d], rooms[ProjectOf[d]] \ {d})
    BY <1>p, <1>q, <2>1, <2>2, <2>3
  <2>4. CASE send' = Offer({d}, Rejected)
    <3>1. Rejected \in Frame /\ Rejected # Ended
      BY OtherFrames DEF Rejected, Ended
    <3>2. QED
      BY <1>0, <1>q, <2>2, <2>4, <3>1, OfferEnds
  <2>5. QED
    BY <1>2, <2>3, <2>4 DEF ReadExit, Unregister, SendTo
<1>3. ASSUME NEW p \in Projects, Broadcast(p) PROVE c \in closed'
  <2>1. PICK f : f = Message(casts[p] + 1)
    OBVIOUS
  <2>2. f \in Frame /\ f # Ended
    BY <1>0, <2>1, OtherFrames DEF HubTypeOK, Message, Ended
  <2>3. PICK qs : qs = Offer(rooms[p], f)
    OBVIOUS
  <2>4. qs \in [Clients -> Seq(Frame)]
    BY <1>0, <2>2, <2>3, OfferType DEF HubTypeOK
  <2>5. PICK r : r \in {Presence(S) : S \in SUBSET People}
                /\ send'[c] \in {qs[c], Append(qs[c], r)}
    <3> DEFINE S == rooms[p] \ {x \in rooms[p] : Full(x)}
               T == S \ {x \in S : Len(send[x]) + 1 >= SendBuf}
               roster == Presence(Roster(S))
    <3>1. \/ send' = qs
          \/ send' = [x \in Clients |-> IF x \in T THEN Append(qs[x], roster) ELSE qs[x]]
      BY <1>3, <2>1, <2>3 DEF Broadcast
    <3>2. Roster(S) \in SUBSET People
      BY <1>0, HubAssumption DEF Roster, HubTypeOK
    <3>3. PICK r : r = roster
      OBVIOUS
    <3>4. send'[c] \in {qs[c], Append(qs[c], r)}
      <4> HIDE DEF S, T, roster
      <4>1. QED
        BY <3>1, <3>3
    <3>5. QED
      BY <3>2, <3>3, <3>4
  <2>6. r # Ended
    BY <2>5, PresenceIsNotEnd
  <2>7. PICK q : q = qs[c]
    OBVIOUS
  <2>8. q \in Seq(Frame)
    BY <2>4, <2>7
  <2>9. i \in DOMAIN q /\ q[i] = Ended
    BY <2>5, <2>6, <2>7, <2>8
  <2>10. EndQueued(c)
    BY <1>0, <2>2, <2>3, <2>7, <2>9, OfferEnds
  <2>11. QED
    BY <1>3, <1>q, <2>10 DEF Broadcast, RemoveLocked
<1>4. ASSUME NEW p \in Projects, CloseRoom(p) PROVE c \in closed'
  <2>1. CASE c \in rooms[p]
    BY <1>4, <2>1 DEF CloseRoom, RemoveLocked
  <2>2. CASE c \notin rooms[p]
    <3>1. send'[c] = send[c] /\ closed \subseteq closed'
      BY <1>4, <2>2, OfferElsewhere DEF CloseRoom, RemoveLocked
    <3>2. QED
      BY <1>q, <3>1 DEF EndQueued
  <2>3. QED
    BY <2>1, <2>2
<1>5. ASSUME NEW d \in Clients, WriteFrame(d) \/ WriteFail(d) PROVE c \in closed'
  <2>1. /\ closed' = closed
        /\ send' = send \/ (send[d] # <<>> /\ send' = [send EXCEPT ![d] = Tail(@)])
    BY <1>5 DEF WriteFrame, WriteFail
  <2>2. PICK q : q = send[c]
    OBVIOUS
  <2>3. q \in Seq(Frame)
    BY <1>0, <2>2 DEF HubTypeOK
  <2>4. send'[c] = q \/ (q # <<>> /\ send'[c] = Tail(q))
    BY <1>0, <2>1, <2>2 DEF HubTypeOK
  <2>5. \E j \in DOMAIN q : q[j] = Ended
    <3>1. CASE send'[c] = q
      BY <3>1
    <3>2. CASE q # <<>> /\ send'[c] = Tail(q)
      <4>1. i + 1 \in DOMAIN q /\ q[i + 1] = Ended
        BY <2>3, <3>2
      <4>2. QED
        BY <4>1
    <3>3. QED
      BY <2>4, <3>1, <3>2
  <2>6. QED
    BY <1>q, <2>1, <2>2, <2>5 DEF EndQueued
<1>6. ASSUME NEW d \in Clients, Start(d) \/ WriteClose(d) \/ PeerGone(d) PROVE c \in closed'
  BY <1>6, <1>q DEF Start, WriteClose, PeerGone, channelVars, EndQueued
<1>7. CASE Crash
  BY <1>7 DEF Crash
<1>8. CASE UNCHANGED hubVars
  BY <1>8, <1>q DEF hubVars, EndQueued
<1>9. QED
  BY <1>1, <1>2, <1>3, <1>4, <1>5, <1>6, <1>7, <1>8 DEF HubNext, Connection

LEMMA QuietNext == HubInv /\ EndCloses /\ [HubNext]_hubVars => QuietStep
<1> SUFFICES ASSUME HubInv, [HubNext]_hubVars, NEW c \in closed
             PROVE  c \in closed' /\ Len(send'[c]) <= Len(send[c])
  BY DEF QuietStep, EndCloses
<1>0. /\ c \in Clients
      /\ \A p \in Projects : c \notin rooms[p]
      /\ Len(send[c]) \in Nat
  BY ClosedIsOut
<1> DEFINE Goal == c \in closed' /\ send'[c] = send[c]
<1>q. Goal => c \in closed' /\ Len(send'[c]) <= Len(send[c])
  BY <1>0
<1>1. ASSUME NEW d \in Clients, Register(d) PROVE Goal
  <2>1. d # c
    BY <1>1 DEF Register, HubInv, NewIsOpen
  <2>2. c \notin rooms[ProjectOf[d]] \cup {d}
    BY <2>1, <1>0, HubAssumption
  <2>3. QED
    BY <1>0, <1>1, <2>2, OfferElsewhere DEF Register, OpenRoomAndRegister, BroadcastPresenceLocked
<1>2. ASSUME NEW d \in Clients, ReadExit(d) PROVE Goal
  <2>1. c \notin rooms[ProjectOf[d]] \ {d}
    BY <1>0, HubAssumption
  <2>2. QED
    BY <1>0, <1>2, <2>1, OfferElsewhere
    DEF ReadExit, Unregister, RemoveLocked, BroadcastPresenceLocked
<1>3. ASSUME NEW d \in Clients, SendTo(d) PROVE Goal
  <2>1. c \notin rooms[ProjectOf[d]] /\ d \in rooms[ProjectOf[d]]
    BY <1>0, <1>3, HubAssumption DEF SendTo
  <2>2. c \notin {d} /\ c \notin rooms[ProjectOf[d]] \ {d}
    BY <2>1
  <2>3. QED
    BY <1>0, <1>3, <2>2, OfferElsewhere DEF SendTo, RemoveLocked, BroadcastPresenceLocked
<1>4. ASSUME NEW p \in Projects, Broadcast(p) PROVE Goal
  <2>1. Offer(rooms[p], Message(casts[p] + 1))[c] = send[c]
    BY <1>0, OfferElsewhere
  <2>2. send'[c] = send[c]
    BY <1>0, <1>4, <2>1 DEF Broadcast
  <2>3. QED
    BY <1>4, <2>2 DEF Broadcast, RemoveLocked
<1>5. ASSUME NEW p \in Projects, CloseRoom(p) PROVE Goal
  BY <1>0, <1>5, OfferElsewhere DEF CloseRoom, RemoveLocked
<1>6. ASSUME NEW d \in Clients, WriteFrame(d) \/ WriteFail(d)
      PROVE  c \in closed' /\ Len(send'[c]) <= Len(send[c])
  <2>1. /\ closed' = closed
        /\ send' = send \/ (send[d] # <<>> /\ send' = [send EXCEPT ![d] = Tail(@)])
    BY <1>6 DEF WriteFrame, WriteFail
  <2>2. send[d] \in Seq(Frame)
    BY DEF HubInv, HubTypeOK
  <2>3. send[d] # <<>> => Len(Tail(send[d])) = Len(send[d]) - 1
    BY <2>2
  <2>4. CASE send' = send
    BY <1>0, <2>1, <2>4
  <2>5. CASE send[d] # <<>> /\ send' = [send EXCEPT ![d] = Tail(@)]
    BY <1>0, <2>1, <2>3, <2>5 DEF HubInv, HubTypeOK
  <2>6. QED
    BY <2>1, <2>4, <2>5
<1>7. ASSUME NEW d \in Clients, Start(d) \/ WriteClose(d) \/ PeerGone(d) PROVE Goal
  BY <1>7 DEF Start, WriteClose, PeerGone, channelVars
<1>8. CASE Crash
  <2>1. c \in closed' /\ send'[c] = <<>>
    BY <1>0, <1>8 DEF Crash
  <2>2. QED
    BY <1>0, <2>1
<1>9. CASE UNCHANGED hubVars
  BY <1>9, <1>0 DEF hubVars
<1>10. QED
  BY <1>q, <1>1, <1>2, <1>3, <1>4, <1>5, <1>6, <1>7, <1>8, <1>9 DEF HubNext, Connection

\* No frame is ever sent on a closed channel, and none is closed twice: the two things at
\* which Go panics. And nothing follows session_ended.
THEOREM ClosedStaysQuiet == HubSpec => ClosedChannelQuiet
<1>1. HubInit => EndCloses
  BY DEF HubInit, EndCloses, EndQueued
<1>2. HubSpec => []EndCloses
  BY <1>1, EndCloseNext, Invariance, PTL DEF HubSpec
<1>3. HubInv /\ EndCloses /\ [HubNext]_hubVars => [QuietStep]_hubVars
  BY QuietNext
<1>4. QED
  BY <1>2, <1>3, Invariance, PTL DEF HubSpec, ClosedChannelQuiet

-----------------------------------------------------------------------------
(* What is queued for a client: the messages it has not been written yet,  *)
(* and the newest roster it was sent.                                      *)

\* The messages in q are those from a + 1 to b, once each and in that order.
InOrder(q, a, b) ==
    /\ \A i \in DOMAIN q : q[i].type = "message" => q[i].n \in (a + 1) .. b
    /\ \A i, j \in DOMAIN q :
          i < j /\ q[i].type = "message" /\ q[j].type = "message" => q[i].n < q[j].n
    /\ \A n \in (a + 1) .. b : \E i \in DOMAIN q : q[i].type = "message" /\ q[i].n = n

\* The newest roster sent is r: the last one in q or, with none in q, the last written.
NewestIs(q, last, r) ==
    \/ last = r /\ \A i \in DOMAIN q : q[i].type # "presence"
    \/ \E i \in DOMAIN q :
          /\ q[i].type = "presence" /\ q[i].users = r
          /\ \A j \in DOMAIN q : i < j => q[j].type # "presence"

LEMMA AppendOther ==
    ASSUME NEW q \in Seq(Frame), NEW f \in Frame, f.type # "message",
           NEW a \in Nat, NEW b \in Nat, InOrder(q, a, b)
    PROVE  InOrder(Append(q, f), a, b)
<1> DEFINE s == Append(q, f)
<1>1. /\ DOMAIN s = 1 .. Len(q) + 1 /\ DOMAIN q = 1 .. Len(q) /\ Len(q) \in Nat
      /\ \A i \in DOMAIN q : s[i] = q[i]
      /\ s[Len(q) + 1] = f
  OBVIOUS
<1> HIDE DEF s
<1>2. \A i \in DOMAIN s : s[i].type = "message" => i \in DOMAIN q /\ s[i] = q[i]
  BY <1>1
<1>3. ASSUME NEW n \in (a + 1) .. b
      PROVE  \E i \in DOMAIN s : s[i].type = "message" /\ s[i].n = n
  <2>1. PICK i \in DOMAIN q : q[i].type = "message" /\ q[i].n = n
    BY DEF InOrder
  <2>2. i \in DOMAIN s /\ s[i] = q[i]
    BY <1>1
  <2>3. QED
    BY <2>1, <2>2
<1>4. \A i \in DOMAIN s : s[i].type = "message" => s[i].n \in (a + 1) .. b
  BY <1>2 DEF InOrder
<1>5. \A i, j \in DOMAIN s :
         i < j /\ s[i].type = "message" /\ s[j].type = "message" => s[i].n < s[j].n
  BY <1>2 DEF InOrder
<1>6. QED
  BY <1>3, <1>4, <1>5 DEF InOrder, s

LEMMA AppendMessage ==
    ASSUME NEW q \in Seq(Frame), NEW a \in Nat, NEW b \in Nat, a <= b, InOrder(q, a, b)
    PROVE  InOrder(Append(q, Message(b + 1)), a, b + 1)
<1> DEFINE s == Append(q, Message(b + 1))
<1>1. /\ DOMAIN s = 1 .. Len(q) + 1 /\ DOMAIN q = 1 .. Len(q) /\ Len(q) \in Nat
      /\ \A i \in DOMAIN q : s[i] = q[i]
      /\ s[Len(q) + 1].type = "message" /\ s[Len(q) + 1].n = b + 1
  BY DEF Message
<1> HIDE DEF s
<1>2. \A i \in DOMAIN s : s[i].type = "message" => s[i].n \in (a + 1) .. (b + 1)
  BY <1>1 DEF InOrder
<1>3. ASSUME NEW i \in DOMAIN s, NEW j \in DOMAIN s, i < j, s[i].type = "message",
             s[j].type = "message"
      PROVE  s[i].n < s[j].n
  <2>1. i \in DOMAIN q /\ q[i].n \in (a + 1) .. b
    BY <1>1, <1>3 DEF InOrder
  <2>2. CASE j \in DOMAIN q
    BY <1>1, <1>3, <2>1, <2>2 DEF InOrder
  <2>3. CASE j = Len(q) + 1
    BY <1>1, <2>1, <2>3
  <2>4. QED
    BY <1>1, <2>2, <2>3
<1>4. ASSUME NEW n \in (a + 1) .. (b + 1)
      PROVE  \E i \in DOMAIN s : s[i].type = "message" /\ s[i].n = n
  <2>1. CASE n = b + 1
    BY <1>1, <2>1
  <2>2. CASE n \in (a + 1) .. b
    <3>1. PICK i \in DOMAIN q : q[i].type = "message" /\ q[i].n = n
      BY <2>2 DEF InOrder
    <3>2. QED
      BY <1>1, <3>1
  <2>3. QED
    BY <2>1, <2>2
<1>5. QED
  BY <1>2, <1>3, <1>4 DEF InOrder, s

\* The message written next is the one after the last.
LEMMA TakeFrame ==
    ASSUME NEW q \in Seq(Frame), q # <<>>, NEW a \in Nat, NEW b \in Nat, InOrder(q, a, b)
    PROVE  /\ Head(q).type = "message" => /\ Head(q).n = a + 1 /\ a < b
                                          /\ InOrder(Tail(q), a + 1, b)
           /\ Head(q).type # "message" => InOrder(Tail(q), a, b)
<1> DEFINE s == Tail(q)
<1>1. /\ Len(q) \in Nat /\ Len(q) # 0 /\ DOMAIN q = 1 .. Len(q) /\ Head(q) = q[1]
      /\ DOMAIN s = 1 .. Len(q) - 1
      /\ \A i \in DOMAIN s : i + 1 \in DOMAIN q /\ s[i] = q[i + 1]
      /\ \A i \in DOMAIN q : i = 1 \/ (i - 1 \in DOMAIN s /\ s[i - 1] = q[i])
  OBVIOUS
<1> HIDE DEF s
<1>2. \A i, j \in DOMAIN s :
         i < j /\ s[i].type = "message" /\ s[j].type = "message" => s[i].n < s[j].n
  <2> SUFFICES ASSUME NEW i \in DOMAIN s, NEW j \in DOMAIN s, i < j,
                      s[i].type = "message", s[j].type = "message"
               PROVE  s[i].n < s[j].n
    OBVIOUS
  <2>1. /\ i + 1 < j + 1 /\ i + 1 \in DOMAIN q /\ j + 1 \in DOMAIN q
        /\ s[i] = q[i + 1] /\ s[j] = q[j + 1]
    BY <1>1
  <2>2. q[i + 1].n < q[j + 1].n
    BY <2>1 DEF InOrder
  <2>3. QED
    BY <2>1, <2>2
<1>3. CASE Head(q).type = "message"
  <2>1. q[1].n \in (a + 1) .. b
    BY <1>1, <1>3 DEF InOrder
  <2>2. PICK k \in DOMAIN q : q[k].type = "message" /\ q[k].n = a + 1
    BY <2>1 DEF InOrder
  <2>3. q[1].n = a + 1
    <3>1. 1 \in DOMAIN q /\ q[1].type = "message" /\ k \in Nat /\ (k = 1 \/ 1 < k)
      BY <1>1, <1>3
    <3>2. 1 < k => q[1].n < q[k].n
      BY <2>2, <3>1 DEF InOrder
    <3>3. QED
      BY <2>1, <2>2, <3>1, <3>2
  <2>4. ASSUME NEW i \in DOMAIN s, s[i].type = "message"
        PROVE  s[i].n \in (a + 1 + 1) .. b
    <3>1. i + 1 \in DOMAIN q /\ 1 \in DOMAIN q /\ 1 < i + 1 /\ s[i] = q[i + 1]
      BY <1>1
    <3>2. q[1].n < q[i + 1].n /\ q[i + 1].n \in (a + 1) .. b
      BY <1>1, <1>3, <2>4, <3>1 DEF InOrder
    <3>3. QED
      BY <2>3, <3>1, <3>2
  <2>5. ASSUME NEW n \in (a + 1 + 1) .. b
        PROVE  \E i \in DOMAIN s : s[i].type = "message" /\ s[i].n = n
    <3>1. PICK i \in DOMAIN q : q[i].type = "message" /\ q[i].n = n
      BY DEF InOrder
    <3>2. i # 1
      BY <2>3, <3>1
    <3>3. QED
      BY <1>1, <3>1, <3>2
  <2>6. InOrder(s, a + 1, b)
    BY <1>2, <2>4, <2>5 DEF InOrder
  <2>7. QED
    BY <1>1, <1>3, <2>1, <2>3, <2>6 DEF s
<1>4. CASE Head(q).type # "message"
  <2>1. \A i \in DOMAIN s : s[i].type = "message" => s[i].n \in (a + 1) .. b
    BY <1>1 DEF InOrder
  <2>2. ASSUME NEW n \in (a + 1) .. b
        PROVE  \E i \in DOMAIN s : s[i].type = "message" /\ s[i].n = n
    <3>1. PICK i \in DOMAIN q : q[i].type = "message" /\ q[i].n = n
      BY DEF InOrder
    <3>2. i # 1
      BY <1>1, <1>4, <3>1
    <3>3. QED
      BY <1>1, <3>1, <3>2
  <2>3. QED
    BY <1>2, <1>4, <2>1, <2>2 DEF InOrder, s
<1>5. QED
  BY <1>3, <1>4

\* A frame that is no roster leaves the newest one, and a roster becomes the newest.
LEMMA AppendRoster ==
    ASSUME NEW q \in Seq(Frame), NEW f \in Frame, NEW last, NEW r
    PROVE  /\ f.type = "presence" => NewestIs(Append(q, f), last, f.users)
           /\ f.type # "presence" /\ NewestIs(q, last, r) => NewestIs(Append(q, f), last, r)
<1> DEFINE s == Append(q, f)
<1>1. /\ DOMAIN s = 1 .. Len(q) + 1 /\ DOMAIN q = 1 .. Len(q) /\ Len(q) \in Nat
      /\ \A i \in DOMAIN q : s[i] = q[i]
      /\ s[Len(q) + 1] = f
  OBVIOUS
<1> HIDE DEF s
<1>2. QED
  BY <1>1 DEF NewestIs, s

\* Writing a frame does not change which roster is the newest.
LEMMA TakeRoster ==
    ASSUME NEW q \in Seq(Frame), q # <<>>, NEW last, NEW r, NewestIs(q, last, r)
    PROVE  NewestIs(Tail(q), IF Head(q).type = "presence" THEN Head(q).users ELSE last, r)
<1> DEFINE s == Tail(q)
<1>1. /\ Len(q) \in Nat /\ Len(q) # 0 /\ DOMAIN q = 1 .. Len(q) /\ Head(q) = q[1]
      /\ DOMAIN s = 1 .. Len(q) - 1
      /\ \A i \in DOMAIN s : i + 1 \in DOMAIN q /\ s[i] = q[i + 1]
      /\ \A i \in DOMAIN q : i = 1 \/ (i - 1 \in DOMAIN s /\ s[i - 1] = q[i])
  OBVIOUS
<1> HIDE DEF s
<1>2. CASE last = r /\ \A i \in DOMAIN q : q[i].type # "presence"
  BY <1>1, <1>2 DEF NewestIs, s
<1>3. ASSUME NEW i \in DOMAIN q, q[i].type = "presence", q[i].users = r,
             \A j \in DOMAIN q : i < j => q[j].type # "presence"
      PROVE  NewestIs(s, IF Head(q).type = "presence" THEN Head(q).users ELSE last, r)
  <2>1. CASE i = 1
    <3>1. \A j \in DOMAIN s : s[j].type # "presence"
      BY <1>1, <1>3, <2>1
    <3>2. QED
      BY <1>1, <1>3, <2>1, <3>1 DEF NewestIs
  <2>2. CASE i # 1
    <3>1. i - 1 \in DOMAIN s /\ s[i - 1] = q[i]
      BY <1>1, <2>2
    <3>2. \A j \in DOMAIN s : i - 1 < j => s[j].type # "presence"
      BY <1>1, <1>3, <3>1
    <3>3. QED
      BY <1>3, <3>1, <3>2 DEF NewestIs
  <2>3. QED
    BY <2>1, <2>2
<1>4. QED
  BY <1>2, <1>3 DEF NewestIs, s

\* NewestIs says which one LastRoster chooses.
LEMMA NewestIsLast ==
    ASSUME HubTypeOK, NEW c \in Clients, NEW r, NewestIs(send[c], seen[c], r)
    PROVE  LastRoster(c) = r
<1> DEFINE q == send[c]
           at == {i \in DOMAIN q : q[i].type = "presence"}
<1>1. DOMAIN q \subseteq Int
  BY DEF HubTypeOK
<1>2. CASE seen[c] = r /\ \A i \in DOMAIN q : q[i].type # "presence"
  BY <1>2 DEF LastRoster
<1>3. ASSUME NEW i \in DOMAIN q, q[i].type = "presence", q[i].users = r,
             \A j \in DOMAIN q : i < j => q[j].type # "presence"
      PROVE  LastRoster(c) = r
  <2>1. i \in at /\ \A j \in at : j <= i
    BY <1>1, <1>3
  <2>2. i = CHOOSE k \in at : \A j \in at : j <= k
    <3>1. \A k \in at : (\A j \in at : j <= k) => k = i
      BY <1>1, <2>1
    <3>2. QED
      BY <2>1, <3>1
  <2>3. QED
    BY <1>3, <2>1, <2>2 DEF LastRoster
<1>4. QED
  BY <1>2, <1>3 DEF NewestIs

-----------------------------------------------------------------------------
(* Every queue, step by step.                                              *)

\* A connection that is not registered yet has nothing queued and no pump.
NewIsIdle ==
    \A c \in Clients : /\ stage[c] = "new" => send[c] = <<>>
                       /\ c \in writing => stage[c] = "started"

\* What is queued for c are the messages it has not been written.
Due(c) ==
    /\ got[c] <= casts[ProjectOf[c]]
    /\ Listening(c) => InOrder(send[c], got[c], casts[ProjectOf[c]])

\* The newest roster sent to c, a member of room p, is that of the room.
Told(c, p) ==
    c \notin missed /\ Listening(c) => NewestIs(send[c], seen[c], Roster(rooms[p]))

QueuesInOrder == \A c \in Registered : Due(c)
RostersQueued == \A p \in Projects : \A c \in rooms[p] : Told(c, p)

DeliveryInv == HubInv /\ NewIsIdle /\ QueuesInOrder /\ RostersQueued

\* What a registered client is, in terms of the rooms.
LEMMA Members ==
    ASSUME HubInv
    PROVE  /\ \A c \in Registered : /\ c \in Clients /\ ProjectOf[c] \in Projects
                                    /\ c \in rooms[ProjectOf[c]]
           /\ \A p \in Projects : \A c \in rooms[p] :
                 c \in Clients /\ c \in Registered /\ p = ProjectOf[c]
  BY HubAssumption DEF HubInv, HubTypeOK, RoomOwnsChannel, Registered

LEMMA OfferIs ==
    ASSUME NEW S, NEW f, send' = Offer(S, f), NEW c \in Clients
    PROVE  send'[c] = IF c \in S /\ ~Full(c) THEN Append(send[c], f) ELSE send[c]
  BY DEF Offer

\* A client that is sent no message is due what it was.
LEMMA DueKept ==
    ASSUME HubTypeOK, NEW c \in Clients, Due(c), NEW f \in Frame, f.type # "message",
           send'[c] \in {send[c], Append(send[c], f)}, got'[c] = got[c],
           casts'[ProjectOf[c]] = casts[ProjectOf[c]], Listening(c)' => Listening(c)
    PROVE  Due(c)'
<1>1. /\ send[c] \in Seq(Frame) /\ got[c] \in Nat /\ casts[ProjectOf[c]] \in Nat
  BY HubAssumption DEF HubTypeOK
<1>2. Listening(c)' => InOrder(send'[c], got[c], casts[ProjectOf[c]])
  BY <1>1, AppendOther DEF Due
<1>3. QED
  BY <1>2 DEF Due

\* A client that is sent no roster, and whose room stays, was told what it is told.
LEMMA ToldKept ==
    ASSUME HubTypeOK, NEW c \in Clients, NEW p, Told(c, p), NEW f \in Frame,
           f.type # "presence",
           send'[c] \in {send[c], Append(send[c], f)}, seen'[c] = seen[c],
           rooms'[p] = rooms[p], c \in missed => c \in missed',
           Listening(c)' => Listening(c)
    PROVE  Told(c, p)'
<1>1. send[c] \in Seq(Frame)
  BY DEF HubTypeOK
<1>2. c \notin missed' /\ Listening(c)' => NewestIs(send'[c], seen[c], Roster(rooms[p]))
  BY <1>1, AppendRoster DEF Told
<1>3. QED
  BY <1>2 DEF Told

\* A client that has just been sent the roster of its room.
LEMMA ToldNow ==
    ASSUME HubTypeOK', NEW c \in Clients, NEW p \in Projects, NEW q \in Seq(Frame),
           send'[c] = Append(q, Presence(Roster(rooms'[p])))
    PROVE  Told(c, p)'
<1> DEFINE f == Presence(Roster(rooms'[p]))
<1>1. rooms'[p] \in SUBSET Clients
  BY DEF HubTypeOK
<1>2. f \in Frame /\ f.type = "presence" /\ f.users = Roster(rooms'[p])
  BY <1>1, PresenceIsFrame DEF Presence
<1> HIDE DEF f
<1>3. NewestIs(Append(q, f), seen'[c], Roster(rooms'[p]))
  BY <1>2, AppendRoster
<1>4. QED
  BY <1>3 DEF Told, f, Roster

\* A roster goes to the clients that room p now has.
LEMMA Announced ==
    ASSUME DeliveryInv, HubInv', NEW p \in Projects, NEW S \in SUBSET Clients,
           BroadcastPresenceLocked(p, S), rooms'[p] = S,
           \A q \in Projects : q # p => rooms'[q] = rooms[q],
           UNCHANGED casts
    PROVE  /\ \A c \in Registered : got'[c] = got[c] /\ (Listening(c)' => Listening(c)) => Due(c)'
           /\ \A c \in rooms'[p] : Told(c, p)'
           /\ \A q \in Projects : q # p => \A c \in rooms'[q] :
                 seen'[c] = seen[c] /\ (Listening(c)' => Listening(c)) => Told(c, q)'
<1> DEFINE f == Presence(Roster(S))
<1>1. f \in Frame /\ f.type = "presence"
  BY PresenceIsFrame DEF Presence
<1>2. send' = Offer(S, f) /\ missed' = (missed \ rooms[p]) \cup {c \in S : Full(c)}
  BY DEF BroadcastPresenceLocked
<1> HIDE DEF f
<1>3. ASSUME NEW c \in Registered, got'[c] = got[c], Listening(c)' => Listening(c)
      PROVE  Due(c)'
  <2>1. c \in Clients /\ Due(c)
    BY Members DEF DeliveryInv, QueuesInOrder
  <2>2. send'[c] \in {send[c], Append(send[c], f)}
    BY <1>2, <2>1, OfferIs
  <2>3. QED
    BY <1>1, <1>3, <2>1, <2>2, DueKept DEF DeliveryInv, HubInv
<1>4. ASSUME NEW c \in rooms'[p]
      PROVE  Told(c, p)'
  <2>1. c \in Clients /\ c \in S /\ send[c] \in Seq(Frame)
    BY DEF DeliveryInv, HubInv, HubTypeOK
  <2>2. CASE Full(c)
    BY <1>2, <2>1, <2>2 DEF Told
  <2>3. CASE ~Full(c)
    <3>1. send'[c] = Append(send[c], Presence(Roster(rooms'[p])))
      BY <1>2, <2>1, <2>3, OfferIs DEF f
    <3>2. QED
      BY <2>1, <3>1, ToldNow DEF HubInv
  <2>4. QED
    BY <2>2, <2>3
<1>5. ASSUME NEW q \in Projects, q # p, NEW c \in rooms'[q], seen'[c] = seen[c],
             Listening(c)' => Listening(c)
      PROVE  Told(c, q)'
  <2>1. c \in rooms[q] /\ c \in Clients /\ c \notin rooms[p] /\ c \notin S /\ Told(c, q)
    BY <1>5, Members DEF DeliveryInv, HubInv, RoomOwnsChannel, RostersQueued
  <2>2. send'[c] = send[c]
    BY <1>2, <2>1, OfferIs
  <2>3. c \in missed => c \in missed'
    BY <1>2, <2>1
  <2>4. Ended \in Frame /\ Ended.type # "presence" /\ rooms'[q] = rooms[q]
    BY <1>5, OtherFrames DEF Ended
  <2>5. QED
    BY <1>5, <2>1, <2>2, <2>3, <2>4, ToldKept DEF DeliveryInv, HubInv
<1>6. QED
  BY <1>3, <1>4, <1>5

\* A client that stays registered keeps what was written to it.
LEMMA StayersKeep ==
    ASSUME HubInv, NEW p \in Projects, NEW E, RemoveLocked(p, E)
    PROVE  /\ rooms'[p] = rooms[p] \ E
           /\ \A q \in Projects : q # p => rooms'[q] = rooms[q]
           /\ \A c \in Registered' : /\ c \in Registered /\ c \notin E \cap rooms[p]
                                     /\ got'[c] = got[c] /\ seen'[c] = seen[c]
<1>1. rooms' = [rooms EXCEPT ![p] = @ \ (E \cap rooms[p])]
  BY DEF RemoveLocked
<1>2. rooms'[p] = rooms[p] \ E /\ \A q \in Projects : q # p => rooms'[q] = rooms[q]
  BY <1>1 DEF HubInv, HubTypeOK
<1>3. Registered' = Registered \ (E \cap rooms[p])
  BY RemoveLockedKeeps
<1>4. \A c \in Registered' : c \in Clients /\ c \notin E \cap rooms[p]
  BY <1>3, RegisteredFinite DEF HubInv
<1>5. QED
  BY <1>2, <1>3, <1>4 DEF RemoveLocked

LEMMA RegisterDelivers ==
    ASSUME DeliveryInv, HubInv', NEW c \in Clients, Register(c)
    PROVE  DeliveryInv'
<1> DEFINE p == ProjectOf[c]
           room == rooms[p] \cup {c}
<1>1. p \in Projects /\ rooms[p] \subseteq Clients
  BY HubAssumption DEF DeliveryInv, HubInv, HubTypeOK
<1>2. /\ stage[c] = "new"
      /\ rooms' = [rooms EXCEPT ![p] = room]
      /\ BroadcastPresenceLocked(p, room)
      /\ got' = [got EXCEPT ![c] = casts[p]]
      /\ UNCHANGED <<closed, casts, seen, writing, reading>>
      /\ stage' = [stage EXCEPT ![c] = "registered"]
  BY DEF Register, OpenRoomAndRegister
<1>3. /\ rooms'[p] = room /\ room \in SUBSET Clients
      /\ \A q \in Projects : q # p => rooms'[q] = rooms[q]
  BY <1>1, <1>2 DEF DeliveryInv, HubInv, HubTypeOK
<1>4. c \notin Registered /\ send[c] = <<>> /\ c \notin writing
  BY <1>2 DEF DeliveryInv, HubInv, RoomOwnsChannel, NewIsIdle
<1>5. \A d \in Clients : d # c => got'[d] = got[d] /\ (Listening(d)' <=> Listening(d))
  BY <1>2 DEF DeliveryInv, HubInv, HubTypeOK, Listening
<1>6. ASSUME NEW d \in Registered'
      PROVE  Due(d)'
  <2>1. d \in Clients /\ (d = c \/ d \in Registered)
    <3>1. PICK q \in Projects : d \in rooms'[q]
      BY DEF Registered
    <3>2. d \in Clients
      BY <3>1 DEF HubInv, HubTypeOK
    <3>3. d = c \/ d \in rooms[q]
      BY <1>3, <3>1
    <3>4. QED
      BY <3>2, <3>3 DEF Registered
  <2>2. CASE d = c
    <3>1. casts[p] \in Nat /\ got'[c] = casts[p]
      BY <1>1, <1>2 DEF DeliveryInv, HubInv, HubTypeOK
    <3>2. InOrder(<<>>, casts[p], casts[p])
      BY <3>1 DEF InOrder
    <3>3. Presence(Roster(room)) \in Frame /\ Presence(Roster(room)).type # "message"
      BY <1>3, PresenceIsFrame DEF Presence
    <3>4. send'[c] \in {<<>>, Append(<<>>, Presence(Roster(room)))}
      BY <1>2, <1>4, OfferIs DEF BroadcastPresenceLocked
    <3>5. InOrder(send'[c], casts[p], casts[p])
      <4>1. <<>> \in Seq(Frame)
        OBVIOUS
      <4> HIDE DEF room
      <4>2. QED
        BY <3>1, <3>2, <3>3, <3>4, <4>1, AppendOther
    <3>6. QED
      BY <1>2, <2>2, <3>1, <3>5 DEF Due
  <2>3. CASE d # c
    BY <1>1, <1>2, <1>3, <1>5, <2>1, <2>3, Announced
  <2>4. QED
    BY <2>2, <2>3
<1>7. ASSUME NEW q \in Projects, NEW d \in rooms'[q]
      PROVE  Told(d, q)'
  <2>1. CASE q = p
    BY <1>1, <1>2, <1>3, <2>1, Announced
  <2>2. CASE q # p
    <3>1. d \in Clients /\ d # c
      BY <1>3, <1>4, <2>2, Members DEF HubInv, HubTypeOK, DeliveryInv
    <3>2. QED
      BY <1>1, <1>2, <1>3, <1>5, <2>2, <3>1, Announced
  <2>3. QED
    BY <2>1, <2>2
<1>8. NewIsIdle'
  <2> SUFFICES ASSUME NEW d \in Clients
               PROVE  /\ stage'[d] = "new" => send'[d] = <<>>
                      /\ d \in writing' => stage'[d] = "started"
    BY DEF NewIsIdle
  <2>1. CASE d = c
    BY <1>2, <1>4, <2>1 DEF DeliveryInv, HubInv, HubTypeOK
  <2>2. CASE d # c
    <3>1. stage'[d] = stage[d] /\ writing' = writing
      BY <1>2, <2>2 DEF DeliveryInv, HubInv, HubTypeOK
    <3>2. stage[d] = "new" => d \notin room
      BY <1>1, <2>2, Members DEF DeliveryInv, HubInv, RoomOwnsChannel
    <3>3. d \notin room => send'[d] = send[d]
      BY <1>2, OfferIs DEF BroadcastPresenceLocked
    <3>4. QED
      BY <3>1, <3>2, <3>3 DEF DeliveryInv, NewIsIdle
  <2>3. QED
    BY <2>1, <2>2
<1>9. QED
  BY <1>6, <1>7, <1>8 DEF DeliveryInv, QueuesInOrder, RostersQueued

\* A member is taken out and the rest of its room is told: the end of readPump, or an
\* answer that does not fit.
LEMMA LeaveDelivers ==
    ASSUME DeliveryInv, HubInv', NEW c \in Clients, RemoveLocked(ProjectOf[c], {c}),
           BroadcastPresenceLocked(ProjectOf[c], rooms[ProjectOf[c]] \ {c}),
           UNCHANGED <<casts, stage, writing>>
    PROVE  DeliveryInv'
<1> DEFINE p == ProjectOf[c]
           S == rooms[p] \ {c}
<1>1. p \in Projects /\ S \in SUBSET Clients
  BY HubAssumption DEF DeliveryInv, HubInv, HubTypeOK
<1>2. /\ rooms'[p] = S /\ \A q \in Projects : q # p => rooms'[q] = rooms[q]
      /\ \A d \in Registered' : d \in Registered /\ got'[d] = got[d] /\ seen'[d] = seen[d]
  BY <1>1, StayersKeep DEF DeliveryInv
<1>3. \A d : Listening(d)' <=> Listening(d)
  BY DEF Listening
<1>4. QueuesInOrder'
  <2>1. \A d \in Registered : got'[d] = got[d] => Due(d)'
    BY <1>1, <1>2, <1>3, Announced
  <2>2. QED
    BY <1>2, <2>1 DEF QueuesInOrder
<1>5. RostersQueued'
  <2> SUFFICES ASSUME NEW q \in Projects, NEW d \in rooms'[q] PROVE Told(d, q)'
    BY DEF RostersQueued
  <2>1. d \in Registered'
    BY DEF Registered
  <2>2. CASE q = p
    BY <1>1, <1>2, <2>2, Announced
  <2>3. CASE q # p
    BY <1>1, <1>2, <1>3, <2>1, <2>3, Announced
  <2>4. QED
    BY <2>2, <2>3
<1>6. NewIsIdle'
  <2>1. \A d \in S : stage[d] # "new"
    BY <1>1, Members DEF DeliveryInv, HubInv, RoomOwnsChannel
  <2>2. \A d \in Clients : d \notin S => send'[d] = send[d]
    BY OfferIs DEF BroadcastPresenceLocked
  <2>3. QED
    BY <2>1, <2>2 DEF DeliveryInv, NewIsIdle
<1>7. QED
  BY <1>4, <1>5, <1>6 DEF DeliveryInv

\* An answer that fits.
LEMMA AnswerDelivers ==
    ASSUME DeliveryInv, HubInv', NEW c \in Registered, send' = Offer({c}, Rejected),
           UNCHANGED <<rooms, got, seen, missed, casts, stage, writing>>
    PROVE  DeliveryInv'
<1>1. Rejected \in Frame /\ Rejected.type = "error"
  BY OtherFrames DEF Rejected
<1>2. \A d \in Clients : send'[d] \in {send[d], Append(send[d], Rejected)}
  BY OfferIs
<1>3. Registered' = Registered /\ \A d : Listening(d)' <=> Listening(d)
  BY DEF Registered, Listening
<1>4. QueuesInOrder'
  BY <1>1, <1>2, <1>3, Members, DueKept DEF DeliveryInv, HubInv, QueuesInOrder
<1>5. RostersQueued'
  BY <1>1, <1>2, <1>3, Members, ToldKept DEF DeliveryInv, HubInv, RostersQueued
<1>6. NewIsIdle'
  <2>1. stage[c] # "new" /\ c \in Clients
    BY Members DEF DeliveryInv, HubInv, RoomOwnsChannel
  <2>2. \A d \in Clients : d # c => send'[d] = send[d]
    BY OfferIs
  <2>3. QED
    BY <2>1, <2>2 DEF DeliveryInv, NewIsIdle
<1>7. QED
  BY <1>4, <1>5, <1>6 DEF DeliveryInv

LEMMA BroadcastDelivers ==
    ASSUME DeliveryInv, HubInv', NEW p \in Projects, Broadcast(p), UNCHANGED pumpVars
    PROVE  DeliveryInv'
<1> DEFINE room == rooms[p]
           evicted == {c \in room : Full(c)}
           stay == room \ evicted
           roster == Presence(Roster(stay))
           tight == {c \in stay : Len(send[c]) + 1 >= SendBuf}
           m == Message(casts[p] + 1)
           queued == Offer(room, m)
<1>1. /\ casts' = [casts EXCEPT ![p] = @ + 1]
      /\ RemoveLocked(p, evicted)
      /\ UNCHANGED <<stage, writing>>
  BY DEF Broadcast, pumpVars
<1>2. \/ evicted = {} /\ send' = queued /\ UNCHANGED missed
      \/ /\ evicted # {}
         /\ send' = [c \in Clients |-> IF c \in stay \ tight
                                        THEN Append(queued[c], roster)
                                        ELSE queued[c]]
         /\ missed' = (missed \ room) \cup tight
  BY DEF Broadcast
<1>3. room \subseteq Clients /\ stay \in SUBSET Clients /\ casts[p] \in Nat
  BY DEF DeliveryInv, HubInv, HubTypeOK
<1>4. /\ m \in Frame /\ m.type = "message"
      /\ roster \in Frame /\ roster.type = "presence" /\ roster.users = Roster(stay)
  BY <1>3, OtherFrames, PresenceIsFrame DEF Message, Presence
<1>5. /\ rooms'[p] = stay /\ \A q \in Projects : q # p => rooms'[q] = rooms[q]
      /\ \A d \in Registered' : /\ d \in Registered /\ d \notin evicted
                                /\ got'[d] = got[d] /\ seen'[d] = seen[d]
  BY <1>1, StayersKeep DEF DeliveryInv
<1>6. \A d : Listening(d)' <=> Listening(d)
  BY <1>1 DEF Listening
<1>7. /\ \A d \in Clients : d \notin room => queued[d] = send[d]
      /\ \A d \in stay : queued[d] = Append(send[d], m)
  BY <1>3 DEF Offer
<1>8. \A d \in Clients : send[d] \in Seq(Frame) /\ Append(send[d], m) \in Seq(Frame)
  BY <1>4 DEF DeliveryInv, HubInv, HubTypeOK
<1>9. /\ \A d \in Clients : d \notin room => send'[d] = send[d]
      /\ \A d \in stay : send'[d] \in {Append(send[d], m), Append(Append(send[d], m), roster)}
      /\ \A d \in stay : evicted # {} /\ d \notin tight =>
                            send'[d] = Append(Append(send[d], m), roster)
      /\ \A d \in stay : evicted = {} => send'[d] = Append(send[d], m)
  <2> HIDE DEF m, queued, roster, tight
  <2>1. QED
    BY <1>2, <1>3, <1>7
<1> HIDE DEF m, queued, roster, tight, evicted
<1>10. ASSUME NEW d \in Registered'
       PROVE  Due(d)'
  <2>1. /\ d \in Clients /\ d \in Registered /\ d \notin evicted /\ got'[d] = got[d]
        /\ Due(d) /\ got[d] \in Nat /\ casts[ProjectOf[d]] \in Nat
    BY <1>5, Members DEF DeliveryInv, QueuesInOrder, HubInv, HubTypeOK
  <2>2. CASE d \in room
    <3>1. ProjectOf[d] = p /\ d \in stay
      BY <2>1, <2>2, Members DEF DeliveryInv
    <3>2. casts'[p] = casts[p] + 1
      BY <1>1 DEF DeliveryInv, HubInv, HubTypeOK
    <3>3. ASSUME Listening(d)
          PROVE  InOrder(send'[d], got[d], casts[p] + 1)
      <4>1. InOrder(send[d], got[d], casts[p])
        BY <2>1, <3>1, <3>3 DEF Due
      <4>2. InOrder(Append(send[d], m), got[d], casts[p] + 1)
        BY <1>8, <2>1, <3>1, <4>1, AppendMessage DEF Due, m
      <4>3. InOrder(Append(Append(send[d], m), roster), got[d], casts[p] + 1)
        <5> DEFINE q == Append(send[d], m)
                   b == casts[p] + 1
        <5>1. b \in Nat /\ q \in Seq(Frame) /\ roster \in Frame /\ roster.type # "message"
          BY <1>3, <1>4, <1>8, <2>1
        <5>2. InOrder(q, got[d], b)
          BY <4>2
        <5> HIDE DEF q, b
        <5>3. InOrder(Append(q, roster), got[d], b)
          BY <2>1, <5>1, <5>2, AppendOther
        <5>4. QED
          BY <5>3 DEF q, b
      <4>4. QED
        BY <1>9, <3>1, <4>2, <4>3
    <3>4. got[d] <= casts[p] + 1
      BY <1>3, <2>1, <3>1 DEF Due
    <3>5. QED
      BY <1>6, <2>1, <3>1, <3>2, <3>3, <3>4 DEF Due
  <2>3. CASE d \notin room
    <3>1. ProjectOf[d] # p /\ send'[d] = send[d]
      BY <1>9, <2>1, <2>3, Members DEF DeliveryInv
    <3>2. casts'[ProjectOf[d]] = casts[ProjectOf[d]]
      BY <1>1, <3>1, HubAssumption DEF DeliveryInv, HubInv, HubTypeOK
    <3>3. QED
      BY <1>6, <2>1, <3>1, <3>2 DEF Due
  <2>4. QED
    BY <2>2, <2>3
<1>11. ASSUME NEW q \in Projects, NEW d \in rooms'[q]
       PROVE  Told(d, q)'
  <2>1. d \in Registered'
    BY DEF Registered
  <2>2. /\ d \in Clients /\ d \in Registered /\ d \notin evicted /\ seen'[d] = seen[d]
        /\ d \in rooms[q] /\ ProjectOf[d] = q /\ Told(d, q)
    BY <1>5, <2>1, Members DEF DeliveryInv, RostersQueued
  <2>3. CASE q = p /\ evicted = {}
    <3>1. send'[d] = Append(send[d], m) /\ rooms'[q] = rooms[q] /\ missed' = missed
      BY <1>2, <1>5, <1>9, <2>2, <2>3
    <3>2. QED
      BY <1>4, <1>6, <2>2, <3>1, ToldKept DEF DeliveryInv, HubInv
  <2>4. CASE q = p /\ evicted # {}
    <3>1. CASE d \in tight
      BY <1>2, <2>4, <3>1 DEF Told
    <3>2. CASE d \notin tight
      <4>1. d \in stay /\ roster = Presence(Roster(rooms'[q]))
        BY <1>5, <2>2, <2>4 DEF roster
      <4>2. send'[d] = Append(Append(send[d], m), Presence(Roster(rooms'[q])))
        BY <1>9, <2>4, <3>2, <4>1
      <4>3. QED
        BY <1>8, <2>2, <4>2, ToldNow DEF HubInv
    <3>3. QED
      BY <3>1, <3>2
  <2>5. CASE q # p
    <3>1. d \notin room /\ send'[d] = send[d] /\ rooms'[q] = rooms[q]
      BY <1>5, <1>9, <2>2, <2>5, Members DEF DeliveryInv
    <3>2. d \in missed => d \in missed'
      BY <1>2, <3>1
    <3>3. QED
      BY <1>6, <2>2, <3>1, <3>2 DEF Told
  <2>6. QED
    BY <2>3, <2>4, <2>5
<1>12. NewIsIdle'
  <2>1. \A d \in room : d \in Clients /\ stage[d] # "new"
    BY Members DEF DeliveryInv, HubInv, RoomOwnsChannel
  <2>2. QED
    BY <1>1, <1>9, <2>1 DEF DeliveryInv, NewIsIdle
<1>13. QED
  BY <1>10, <1>11, <1>12 DEF DeliveryInv, QueuesInOrder, RostersQueued

LEMMA CloseRoomDelivers ==
    ASSUME DeliveryInv, HubInv', NEW p \in Projects, CloseRoom(p), UNCHANGED pumpVars
    PROVE  DeliveryInv'
<1>1. /\ send' = Offer(rooms[p], Ended)
      /\ RemoveLocked(p, rooms[p])
      /\ missed' = missed \ rooms[p]
      /\ UNCHANGED <<casts, stage, writing>>
  BY DEF CloseRoom, pumpVars
<1>2. /\ rooms'[p] = {} /\ \A q \in Projects : q # p => rooms'[q] = rooms[q]
      /\ \A d \in Registered' : /\ d \in Registered /\ d \notin rooms[p]
                                /\ got'[d] = got[d] /\ seen'[d] = seen[d]
  BY <1>1, StayersKeep DEF DeliveryInv
<1>3. \A d \in Clients : d \notin rooms[p] => send'[d] = send[d]
  BY <1>1, OfferIs
<1>4. \A d : Listening(d)' <=> Listening(d)
  BY <1>1 DEF Listening
<1>5. QueuesInOrder'
  BY <1>1, <1>2, <1>3, <1>4, Members DEF DeliveryInv, QueuesInOrder, Due
<1>6. RostersQueued'
  <2> SUFFICES ASSUME NEW q \in Projects, NEW d \in rooms'[q] PROVE Told(d, q)'
    BY DEF RostersQueued
  <2>1. q # p /\ rooms'[q] = rooms[q] /\ d \in Clients /\ Told(d, q)
    BY <1>2, Members DEF DeliveryInv, RostersQueued
  <2>2. d \in Registered'
    BY DEF Registered
  <2>3. d \notin rooms[p] /\ seen'[d] = seen[d] /\ send'[d] = send[d]
    BY <1>2, <1>3, <2>1, <2>2
  <2>4. QED
    BY <1>1, <1>4, <2>1, <2>3 DEF Told
<1>7. NewIsIdle'
  <2>1. \A d \in rooms[p] : stage[d] # "new"
    BY Members DEF DeliveryInv, HubInv, RoomOwnsChannel
  <2>2. QED
    BY <1>1, <1>3, <2>1 DEF DeliveryInv, NewIsIdle
<1>8. QED
  BY <1>5, <1>6, <1>7 DEF DeliveryInv

\* writePump takes a frame.
LEMMA WriteDelivers ==
    ASSUME DeliveryInv, HubInv', NEW c \in Clients, WriteFrame(c)
    PROVE  DeliveryInv'
<1> DEFINE f == Head(send[c])
<1>1. /\ send[c] # <<>> /\ send' = [send EXCEPT ![c] = Tail(@)] /\ c \in writing
      /\ got' = IF c \in Registered /\ f.type = "message" THEN [got EXCEPT ![c] = f.n] ELSE got
      /\ seen' = IF c \in Registered /\ f.type = "presence"
                 THEN [seen EXCEPT ![c] = f.users] ELSE seen
      /\ UNCHANGED <<rooms, closed, stage, writing, casts, missed>>
  BY DEF WriteFrame, registryVars, pumpVars
<1>2. /\ send[c] \in Seq(Frame) /\ send'[c] = Tail(send[c])
      /\ \A d \in Clients : d # c => send'[d] = send[d] /\ got'[d] = got[d] /\ seen'[d] = seen[d]
  BY <1>1 DEF DeliveryInv, HubInv, HubTypeOK
<1>3. Registered' = Registered /\ \A d : Listening(d)' <=> Listening(d)
  BY <1>1 DEF Registered, Listening
<1>4. ASSUME NEW d \in Registered
      PROVE  Due(d)'
  <2>1. /\ d \in Clients /\ Due(d) /\ got[d] \in Nat /\ casts[ProjectOf[d]] \in Nat
    BY Members DEF DeliveryInv, QueuesInOrder, HubInv, HubTypeOK
  <2>2. CASE d = c
    <3>1. InOrder(send[c], got[c], casts[ProjectOf[c]])
      BY <1>1, <2>1, <2>2 DEF Due, Listening
    <3>2. CASE f.type = "message"
      <4>1. /\ f.n = got[c] + 1 /\ got[c] < casts[ProjectOf[c]]
            /\ InOrder(Tail(send[c]), got[c] + 1, casts[ProjectOf[c]])
        BY <1>1, <1>2, <2>1, <2>2, <3>1, <3>2, TakeFrame
      <4>2. got'[c] = got[c] + 1
        BY <1>1, <2>2, <3>2, <4>1 DEF DeliveryInv, HubInv, HubTypeOK
      <4>3. QED
        BY <1>1, <1>2, <2>1, <2>2, <4>1, <4>2 DEF Due
    <3>3. CASE f.type # "message"
      <4>1. InOrder(Tail(send[c]), got[c], casts[ProjectOf[c]])
        BY <1>1, <1>2, <2>1, <2>2, <3>1, <3>3, TakeFrame
      <4>2. got' = got
        BY <1>1, <3>3
      <4>3. QED
        BY <1>1, <1>2, <2>1, <2>2, <4>1, <4>2 DEF Due
    <3>4. QED
      BY <3>2, <3>3
  <2>3. CASE d # c
    BY <1>1, <1>2, <1>3, <2>1, <2>3 DEF Due
  <2>4. QED
    BY <2>2, <2>3
<1>5. ASSUME NEW p \in Projects, NEW d \in rooms[p]
      PROVE  Told(d, p)'
  <2>1. d \in Clients /\ d \in Registered /\ Told(d, p)
    BY Members DEF DeliveryInv, RostersQueued
  <2>2. CASE d = c
    <3>1. seen'[c] = IF f.type = "presence" THEN f.users ELSE seen[c]
      BY <1>1, <2>1, <2>2 DEF DeliveryInv, HubInv, HubTypeOK
    <3>2. ASSUME c \notin missed
          PROVE  NewestIs(Tail(send[c]), seen'[c], Roster(rooms[p]))
      <4>1. NewestIs(send[c], seen[c], Roster(rooms[p]))
        BY <1>1, <2>1, <2>2, <3>2 DEF Told, Listening
      <4>2. QED
        BY <1>1, <1>2, <3>1, <4>1, TakeRoster
    <3>3. QED
      BY <1>1, <1>2, <2>2, <3>2 DEF Told
  <2>3. CASE d # c
    BY <1>1, <1>2, <1>3, <2>1, <2>3 DEF Told
  <2>4. QED
    BY <2>2, <2>3
<1>6. NewIsIdle'
  BY <1>1, <1>2 DEF DeliveryInv, NewIsIdle
<1>7. QED
  BY <1>1, <1>3, <1>4, <1>5, <1>6 DEF DeliveryInv, QueuesInOrder, RostersQueued

\* The other steps of the pumps queue nothing, and a writer that stops listens no more.
LEMMA OtherPumpsDeliver ==
    ASSUME DeliveryInv, HubInv', NEW c \in Clients,
           Start(c) \/ WriteClose(c) \/ WriteFail(c) \/ PeerGone(c)
    PROVE  DeliveryInv'
<1>1. UNCHANGED <<rooms, got, seen, missed, casts>>
  BY DEF Start, WriteClose, WriteFail, PeerGone, registryVars, ghostVars
<1>2. /\ \A d \in Clients : d # c => send'[d] = send[d]
      /\ Listening(c)' => Listening(c) /\ send'[c] = send[c]
      /\ \A d \in Clients : d # c => (Listening(d)' <=> Listening(d))
      /\ NewIsIdle'
  <2>1. stage \in [Clients -> {"new", "registered", "started"}] /\ NewIsIdle
    BY DEF DeliveryInv, HubInv, HubTypeOK
  <2>2. CASE Start(c)
    BY <2>1, <2>2 DEF Start, channelVars, Listening, NewIsIdle
  <2>3. CASE WriteClose(c) \/ PeerGone(c)
    BY <2>1, <2>3 DEF WriteClose, PeerGone, channelVars, Listening, NewIsIdle
  <2>4. CASE WriteFail(c)
    <3>1. /\ c \in writing /\ writing' = writing \ {c} /\ UNCHANGED stage
          /\ send' = send \/ send' = [send EXCEPT ![c] = Tail(@)]
      BY <2>4 DEF WriteFail
    <3>2. \A d \in Clients : d # c => send'[d] = send[d]
      BY <3>1 DEF DeliveryInv, HubInv, HubTypeOK
    <3>3. stage[c] = "started"
      BY <2>1, <3>1 DEF NewIsIdle
    <3>4. QED
      BY <2>1, <3>1, <3>2, <3>3 DEF Listening, NewIsIdle
  <2>5. QED
    BY <2>2, <2>3, <2>4
<1>3. Registered' = Registered
  BY <1>1 DEF Registered
<1>4. QueuesInOrder'
  BY <1>1, <1>2, <1>3, Members DEF DeliveryInv, QueuesInOrder, Due
<1>5. RostersQueued'
  BY <1>1, <1>2, Members DEF DeliveryInv, RostersQueued, Told
<1>6. QED
  BY <1>2, <1>4, <1>5 DEF DeliveryInv

LEMMA CrashDelivers == ASSUME DeliveryInv, HubInv', Crash PROVE DeliveryInv'
<1>1. Registered' = {} /\ \A p \in Projects : rooms'[p] = {}
  BY DEF Crash, Registered
<1>2. NewIsIdle'
  BY DEF Crash, NewIsIdle
<1>3. QED
  BY <1>1, <1>2 DEF DeliveryInv, QueuesInOrder, RostersQueued

LEMMA DeliveryNext == DeliveryInv /\ [HubNext]_hubVars => DeliveryInv'
<1> SUFFICES ASSUME DeliveryInv, [HubNext]_hubVars PROVE DeliveryInv'
  OBVIOUS
<1>0. HubInv /\ HubInv'
  BY NextInv DEF DeliveryInv
<1>1. ASSUME NEW c \in Clients, Register(c) PROVE DeliveryInv'
  BY <1>0, <1>1, RegisterDelivers
<1>2. ASSUME NEW c \in Clients, WriteFrame(c) PROVE DeliveryInv'
  BY <1>0, <1>2, WriteDelivers
<1>3. ASSUME NEW c \in Clients, Start(c) \/ WriteClose(c) \/ WriteFail(c) \/ PeerGone(c)
      PROVE  DeliveryInv'
  BY <1>0, <1>3, OtherPumpsDeliver
<1>4. ASSUME NEW c \in Clients, ReadExit(c) PROVE DeliveryInv'
  BY <1>0, <1>4, LeaveDelivers DEF ReadExit, Unregister
<1>5. ASSUME NEW c \in Clients, SendTo(c), UNCHANGED pumpVars PROVE DeliveryInv'
  <2>1. c \in Registered
    BY <1>5, HubAssumption DEF SendTo, Registered
  <2>2. CASE send' = Offer({c}, Rejected) /\ UNCHANGED <<registryVars, closed, got, seen, missed>>
    BY <1>0, <1>5, <2>1, <2>2, AnswerDelivers DEF SendTo, pumpVars, registryVars
  <2>3. CASE /\ RemoveLocked(ProjectOf[c], {c})
             /\ BroadcastPresenceLocked(ProjectOf[c], rooms[ProjectOf[c]] \ {c})
    BY <1>0, <1>5, <2>3, LeaveDelivers DEF SendTo, pumpVars
  <2>4. QED
    BY <1>5, <2>2, <2>3 DEF SendTo
<1>6. ASSUME NEW p \in Projects, Broadcast(p) \/ CloseRoom(p), UNCHANGED pumpVars
      PROVE  DeliveryInv'
  BY <1>0, <1>6, BroadcastDelivers, CloseRoomDelivers
<1>7. CASE Crash
  BY <1>0, <1>7, CrashDelivers
<1>8. CASE UNCHANGED hubVars
  <2>1. Registered' = Registered
    BY <1>8 DEF hubVars, Registered
  <2>2. QED
    BY <1>0, <1>8, <2>1 DEF hubVars, DeliveryInv, NewIsIdle, QueuesInOrder, RostersQueued, Due,
       Told, Listening, Roster
<1>9. QED
  BY <1>1, <1>2, <1>3, <1>4, <1>5, <1>6, <1>7, <1>8 DEF HubNext, Connection

LEMMA DeliveryStart == HubInit => DeliveryInv
<1> SUFFICES ASSUME HubInit PROVE DeliveryInv
  OBVIOUS
<1>1. HubInv
  BY InitInv
<1>2. Registered = {} /\ \A p \in Projects : rooms[p] = {}
  BY DEF HubInit, Registered
<1>3. NewIsIdle
  BY DEF HubInit, NewIsIdle
<1>4. QED
  BY <1>1, <1>2, <1>3 DEF DeliveryInv, QueuesInOrder, RostersQueued

LEMMA Delivery == HubSpec => []DeliveryInv
  BY DeliveryStart, DeliveryNext, PTL DEF HubSpec

\* A member whose writePump works and who was not skipped has been sent the roster of
\* its room, whatever Register, Unregister, Broadcast and SendTo did in the meantime.
THEOREM RosterIsCurrent == HubSpec => []RosterCurrent
<1>1. DeliveryInv => RosterCurrent
  BY Members, NewestIsLast DEF DeliveryInv, HubInv, RostersQueued, Told, RosterCurrent
<1>2. QED
  BY <1>1, Delivery, PTL

-----------------------------------------------------------------------------
(* The hub is a room service: each step is one of RoomService, or none.    *)

LEMMA RefineInit == HubInit => Service!RoomInit
  BY DEF HubInit, Service!RoomInit

\* removeLocked drops the clients it finds.
LEMMA RemoveIsDrop ==
    ASSUME HubInv, NEW p \in Projects, NEW E, RemoveLocked(p, E)
    PROVE  Service!Drop(p, E \cap rooms[p])
<1>1. rooms' = [rooms EXCEPT ![p] = @ \ (E \cap rooms[p])]
  BY DEF RemoveLocked
<1>2. QED
  BY <1>1 DEF RemoveLocked, Service!Drop

\* A client that leaves; one that was removed already leaves no trace.
LEMMA RefineLeave ==
    ASSUME HubInv, NEW c \in Clients, RemoveLocked(ProjectOf[c], {c}), UNCHANGED casts
    PROVE  [Service!RoomNext]_<<rooms, closed, casts, got>>
<1> DEFINE p == ProjectOf[c]
<1>1. p \in Projects
  BY HubAssumption
<1>2. CASE c \in rooms[p]
  <2>1. {c} \cap rooms[p] = {c}
    BY <1>2
  <2>2. Service!Leave(c)
    BY <1>1, <1>2, <2>1, RemoveIsDrop DEF Service!Leave
  <2>3. QED
    BY <2>2 DEF Service!RoomNext
<1>3. CASE c \notin rooms[p]
  <2>1. {c} \cap rooms[p] = {}
    BY <1>3
  <2>2. UNCHANGED <<rooms, closed, casts, got>>
    BY <1>1, <2>1 DEF RemoveLocked, HubInv, HubTypeOK
  <2>3. QED
    BY <2>2
<1>4. QED
  BY <1>2, <1>3

LEMMA RefineNext ==
    DeliveryInv /\ [HubNext]_hubVars => [Service!RoomNext]_<<rooms, closed, casts, got>>
<1> DEFINE Step == [Service!RoomNext]_<<rooms, closed, casts, got>>
<1> SUFFICES ASSUME DeliveryInv, [HubNext]_hubVars PROVE Step
  OBVIOUS
<1>0. HubInv
  BY DEF DeliveryInv
<1>1. ASSUME NEW c \in Clients, Register(c) PROVE Step
  <2>1. c \notin Registered /\ c \notin closed
    BY <1>1 DEF Register, DeliveryInv, HubInv, RoomOwnsChannel, NewIsOpen
  <2>2. /\ rooms' = [rooms EXCEPT ![ProjectOf[c]] = @ \cup {c}]
        /\ got' = [got EXCEPT ![c] = casts[ProjectOf[c]]]
        /\ UNCHANGED <<closed, casts>>
    BY <1>1 DEF Register, OpenRoomAndRegister
  <2>3. Service!Join(c)
    BY <2>1, <2>2 DEF Service!Join, Service!Present, Registered
  <2>4. QED
    BY <2>3 DEF Service!RoomNext
<1>2. ASSUME NEW c \in Clients, WriteFrame(c) PROVE Step
  <2>1. UNCHANGED <<rooms, closed, casts>>
    BY <1>2 DEF WriteFrame, registryVars
  <2>2. CASE c \in Registered /\ Head(send[c]).type = "message"
    <3>1. /\ Due(c) /\ Listening(c) /\ send[c] # <<>> /\ got[c] \in Nat
          /\ casts[ProjectOf[c]] \in Nat /\ send[c] \in Seq(Frame)
      BY <1>2, <2>2, HubAssumption
      DEF WriteFrame, Listening, DeliveryInv, QueuesInOrder, HubInv, HubTypeOK
    <3>2. Head(send[c]).n = got[c] + 1 /\ got[c] < casts[ProjectOf[c]]
      BY <2>2, <3>1, TakeFrame DEF Due
    <3>3. got' = [got EXCEPT ![c] = @ + 1]
      BY <1>2, <2>2, <3>2 DEF WriteFrame
    <3>4. Service!Hear(c)
      BY <2>1, <2>2, <3>2, <3>3 DEF Service!Hear, Service!Present, Registered
    <3>5. QED
      BY <3>4 DEF Service!RoomNext
  <2>3. CASE ~(c \in Registered /\ Head(send[c]).type = "message")
    BY <1>2, <2>1, <2>3 DEF WriteFrame
  <2>4. QED
    BY <2>2, <2>3
<1>3. ASSUME NEW c \in Clients, Start(c) \/ WriteClose(c) \/ WriteFail(c) \/ PeerGone(c)
      PROVE  Step
  BY <1>3 DEF Start, WriteClose, WriteFail, PeerGone, registryVars, channelVars, ghostVars
<1>4. ASSUME NEW c \in Clients, ReadExit(c) PROVE Step
  BY <1>0, <1>4, RefineLeave DEF ReadExit, Unregister
<1>5. ASSUME NEW c \in Clients, SendTo(c) PROVE Step
  <2>1. CASE UNCHANGED <<registryVars, closed, got, seen, missed>>
    BY <1>5, <2>1 DEF SendTo, registryVars
  <2>2. CASE RemoveLocked(ProjectOf[c], {c})
    BY <1>0, <1>5, <2>2, RefineLeave DEF SendTo
  <2>3. QED
    BY <1>5, <2>1, <2>2 DEF SendTo
<1>6. ASSUME NEW p \in Projects, Broadcast(p) PROVE Step
  <2> DEFINE evicted == {c \in rooms[p] : Full(c)}
  <2>1. /\ casts[p] < MaxCasts /\ casts' = [casts EXCEPT ![p] = @ + 1]
        /\ RemoveLocked(p, evicted)
    BY <1>6 DEF Broadcast
  <2>2. evicted \cap rooms[p] = evicted /\ evicted \in SUBSET rooms[p]
    OBVIOUS
  <2> HIDE DEF evicted
  <2>3. Service!Cast(p, evicted)
    BY <1>0, <2>1, <2>2, RemoveIsDrop DEF Service!Cast
  <2>4. QED
    BY <2>2, <2>3 DEF Service!RoomNext
<1>7. ASSUME NEW p \in Projects, CloseRoom(p) PROVE Step
  <2>1. RemoveLocked(p, rooms[p]) /\ UNCHANGED casts /\ rooms[p] \cap rooms[p] = rooms[p]
    BY <1>7 DEF CloseRoom
  <2>2. Service!CloseAll(p)
    BY <1>0, <2>1, RemoveIsDrop DEF Service!CloseAll
  <2>3. QED
    BY <2>2 DEF Service!RoomNext
<1>8. CASE Crash
  <2>1. Service!Reset
    BY <1>8 DEF Crash, Service!Reset, Service!Present, Registered
  <2>2. QED
    BY <2>1 DEF Service!RoomNext
<1>9. CASE UNCHANGED hubVars
  BY <1>9 DEF hubVars
<1>10. QED
  BY <1>1, <1>2, <1>3, <1>4, <1>5, <1>6, <1>7, <1>8, <1>9 DEF HubNext, Connection

\* Queues, evictions, pumps and crashes together implement the room service that
\* GameSession builds on: a member hears every message of its room once, in order, from
\* the moment OpenRoomAndRegister returns until it is removed.
THEOREM HubIsRoomService == HubSpec => ImplementsRoomService
<1>1. HubInit => Service!RoomInit
  BY RefineInit
<1>2. DeliveryInv /\ [HubNext]_hubVars => [Service!RoomNext]_Service!roomVars
  BY RefineNext DEF Service!roomVars
<1>3. QED
  BY <1>1, <1>2, Delivery, PTL DEF HubSpec, ImplementsRoomService, Service!RoomSpec

-----------------------------------------------------------------------------
(* Projects and invites.  Every handler checks and then writes, so the     *)
(* invariant holds what a check leaves behind for the write that comes     *)
(* later: a request to join has looked at an invite nobody had joined      *)
(* with, and a notification follows a deletion.                            *)

\* Until an invite is used, nobody has joined with it.
UnusedIsFresh ==
    \A i \in Invites : invite[i].row \in {"none", "open"} => joined[i] = {}

\* What a check of CheckJoin and of Delete leaves behind.
RequestsAreBacked ==
    \A w \in Handlers :
        /\ req[w].op = "join" => req[w].before = {} /\ invite[req[w].invite].row # "none"
        /\ req[w].op = "notify" => project = "gone"

ToldIsGone == told => project = "gone"

ProjectsInv ==
    /\ ProjectsTypeOK /\ UnusedIsFresh /\ RequestsAreBacked /\ ToldIsGone
    /\ DeletedIsEmpty /\ ToldIsOrphaned

-----------------------------------------------------------------------------
(* Requests.                                                               *)

Adding == [op : {"add"}, user : Users, role : Roles]
Removing == [op : {"remove"}, user : Users]
Issuing == [op : {"issue"}, role : Roles]
Revoking == [op : {"revoke"}, invite : Invites]
Joining == [op : {"join"}, user : Users, invite : Invites, role : Roles,
            before : SUBSET Users]
Others == [op : {"delete", "notify", "write"}]

\* The name of the operation tells which fields a request has.
LEMMA PendingKinds ==
  ASSUME NEW r \in Pending
  PROVE  /\ r.op = "add" => r \in Adding
         /\ r.op = "remove" => r \in Removing
         /\ r.op = "issue" => r \in Issuing
         /\ r.op = "revoke" => r \in Revoking
         /\ r.op = "join" => r \in Joining
  <1>1. Pending = {Unasked} \cup Adding \cup Removing \cup Issuing \cup Revoking
                   \cup Joining \cup Others
    BY DEF Pending, Adding, Removing, Issuing, Revoking, Joining, Others
  <1>2. CASE r = Unasked
    BY <1>2 DEF Unasked
  <1>3. CASE r \in Adding
    BY <1>3 DEF Adding
  <1>4. CASE r \in Removing
    BY <1>4 DEF Removing
  <1>5. CASE r \in Issuing
    BY <1>5 DEF Issuing
  <1>6. CASE r \in Revoking
    BY <1>6 DEF Revoking
  <1>7. CASE r \in Joining
    BY <1>7 DEF Joining
  <1>8. CASE r \in Others
    BY <1>8 DEF Others
  <1> QED  BY <1>1, <1>2, <1>3, <1>4, <1>5, <1>6, <1>7, <1>8

LEMMA UnaskedPending == Unasked \in Pending /\ Unasked.op = "idle"
  BY DEF Unasked, Pending

-----------------------------------------------------------------------------
(* Steps that touch requests only.                                         *)

\* A check that passes adds one request; the rest of the invariant does not notice.
LEMMA ProceedKeeps ==
  ASSUME ProjectsInv, NEW w \in Handlers, NEW r \in Pending, Proceed(w, r),
         r.op = "join" => r.before = {} /\ invite[r.invite].row # "none",
         r.op # "notify"
  PROVE  ProjectsInv'
  <1> USE DEF ProjectsInv
  <1>1. ProjectsTypeOK'
    BY DEF Proceed, ProjectsTypeOK
  <1>2. RequestsAreBacked'
    BY DEF Proceed, ProjectsTypeOK, RequestsAreBacked
  <1> QED
    BY <1>1, <1>2 DEF Proceed, UnusedIsFresh, ToldIsGone, DeletedIsEmpty, ToldIsOrphaned

\* A request that ends leaves the others as they are.
LEMMA FinishKeeps ==
  ASSUME ProjectsTypeOK, NEW w \in Handlers, Finish(w)
  PROVE  /\ req' \in [Handlers -> Pending]
         /\ \A v \in Handlers : req'[v] = req[v] \/ req'[v].op = "idle"
  BY UnaskedPending DEF Finish, ProjectsTypeOK

-----------------------------------------------------------------------------
(* One step per action.                                                    *)

LEMMA ChecksKeep ==
  ASSUME ProjectsInv, NEW w \in Handlers, NEW u \in Users,
         \/ CheckAdd(w, u) \/ CheckRemove(w, u) \/ CheckIssue(w, u) \/ CheckRevoke(w, u)
         \/ CheckJoin(w, u) \/ CheckWrite(w, u)
  PROVE  ProjectsInv'
  <1>1. CASE CheckAdd(w, u)
    <2>1. PICK m \in Users, r \in Roles : Proceed(w, [op |-> "add", user |-> m, role |-> r])
      BY <1>1 DEF CheckAdd
    <2> DEFINE q == [op |-> "add", user |-> m, role |-> r]
    <2>2. q \in Pending /\ q.op = "add"
      BY DEF Pending
    <2> QED  BY <2>1, <2>2, ProceedKeeps
  <1>2. CASE CheckRemove(w, u)
    <2>1. PICK m \in Users : Proceed(w, [op |-> "remove", user |-> m])
      BY <1>2 DEF CheckRemove
    <2> DEFINE q == [op |-> "remove", user |-> m]
    <2>2. q \in Pending /\ q.op = "remove"
      BY DEF Pending
    <2> QED  BY <2>1, <2>2, ProceedKeeps
  <1>3. CASE CheckIssue(w, u)
    <2>1. PICK r \in Roles : Proceed(w, [op |-> "issue", role |-> r])
      BY <1>3 DEF CheckIssue
    <2> DEFINE q == [op |-> "issue", role |-> r]
    <2>2. q \in Pending /\ q.op = "issue"
      BY DEF Pending
    <2> QED  BY <2>1, <2>2, ProceedKeeps
  <1>4. CASE CheckRevoke(w, u)
    <2>1. PICK i \in Invites : Proceed(w, [op |-> "revoke", invite |-> i])
      BY <1>4 DEF CheckRevoke
    <2> DEFINE q == [op |-> "revoke", invite |-> i]
    <2>2. q \in Pending /\ q.op = "revoke"
      BY DEF Pending
    <2> QED  BY <2>1, <2>2, ProceedKeeps
  <1>5. CASE CheckJoin(w, u)
    <2>1. PICK i \in Invites :
            /\ invite[i].row = "open"
            /\ Proceed(w, [op |-> "join", user |-> u, invite |-> i,
                           role |-> invite[i].role, before |-> joined[i]])
      BY <1>5 DEF CheckJoin
    <2> DEFINE q == [op |-> "join", user |-> u, invite |-> i,
                     role |-> invite[i].role, before |-> joined[i]]
    <2>2. invite[i].role \in Roles /\ joined[i] \in SUBSET Users /\ joined[i] = {}
      BY <2>1 DEF ProjectsInv, ProjectsTypeOK, UnusedIsFresh
    <2>3. q \in Pending /\ q.op = "join" /\ q.before = {} /\ q.invite = i
      BY <2>2 DEF Pending
    <2> QED  BY <2>1, <2>3, ProceedKeeps
  <1>6. CASE CheckWrite(w, u)
    <2> DEFINE q == [op |-> "write"]
    <2>1. q \in Pending /\ q.op = "write"
      BY DEF Pending
    <2> QED  BY <1>6, <2>1, ProceedKeeps DEF CheckWrite
  <1> QED  BY <1>1, <1>2, <1>3, <1>4, <1>5, <1>6

LEMMA ProjectsStep ==
  ASSUME ProjectsInv, [ProjectsNext]_projectsVars
  PROVE  ProjectsInv'
  <1> USE DEF ProjectsInv
  <1> USE DEF UnusedIsFresh, RequestsAreBacked, ToldIsGone, DeletedIsEmpty, ToldIsOrphaned
  <1>1. CASE Create
    BY <1>1, ProjectsAssumption DEF Create, ProjectsTypeOK, Roles
  <1>2. ASSUME NEW i \in Invites, Expire(i)
        PROVE  ProjectsInv'
    <2>1. invite' = [invite EXCEPT ![i] = [invite[i] EXCEPT !.expired = TRUE]]
      BY <1>2 DEF Expire
    <2>2. invite' \in [Invites -> [row : {"none", "open", "used", "gone"}, role : Roles,
                                   expired : BOOLEAN]]
          /\ \A j \in Invites : invite'[j].row = invite[j].row
      BY <2>1 DEF ProjectsTypeOK
    <2> QED  BY <1>2, <2>2, PendingKinds DEF Expire, ProjectsTypeOK, Joining
  <1>3. ASSUME NEW u \in Users, Learn(u) \/ Forget(u)
        PROVE  ProjectsInv'
    BY <1>3 DEF Learn, Forget, ProjectsTypeOK
  <1>4. ASSUME NEW w \in Handlers, NEW u \in Users,
               \/ CheckAdd(w, u) \/ CheckRemove(w, u) \/ CheckIssue(w, u)
               \/ CheckRevoke(w, u) \/ CheckJoin(w, u) \/ CheckWrite(w, u)
        PROVE  ProjectsInv'
    BY <1>4, ChecksKeep
  <1>5. ASSUME NEW w \in Handlers, CheckDelete(w)
        PROVE  ProjectsInv'
    <2> DEFINE q == [op |-> "delete"]
    <2>1. q \in Pending /\ q.op = "delete"
      BY DEF Pending
    <2> QED  BY <1>5, <2>1, ProceedKeeps DEF CheckDelete
  <1>6. ASSUME NEW w \in Handlers, Delete(w)
        PROVE  ProjectsInv'
    <2> DEFINE q == [op |-> "notify"]
    <2>1. q \in Pending /\ q.op = "notify"
      BY DEF Pending
    <2>2. \A i \in Invites : invite[i] \in [row : {"none", "open", "used", "gone"},
                                           role : Roles, expired : BOOLEAN]
      BY DEF ProjectsTypeOK
    <2>3. \A i \in Invites :
            /\ [invite[i] EXCEPT !.row = "gone"] \in
                  [row : {"none", "open", "used", "gone"}, role : Roles, expired : BOOLEAN]
            /\ [invite[i] EXCEPT !.row = "gone"].row = "gone"
      BY <2>2
    <2>4. /\ invite' \in [Invites -> [row : {"none", "open", "used", "gone"}, role : Roles,
                                      expired : BOOLEAN]]
          /\ \A i \in Invites : invite'[i].row = IF invite[i].row = "none" THEN "none" ELSE "gone"
      BY <1>6, <2>2, <2>3 DEF Delete
    <2>5. role' \in [Users -> Roles \cup {"none"}] /\ \A u \in Users : role'[u] = "none"
      BY <1>6 DEF Delete
    <2>6. /\ req' \in [Handlers -> Pending]
          /\ \A v \in Handlers : req'[v] = req[v] \/ req'[v].op = "notify"
      BY <1>6, <2>1 DEF Delete, ProjectsTypeOK
    <2>7. project' = "gone" /\ UNCHANGED <<entry, known, joined, told, late>>
      BY <1>6 DEF Delete
    <2>8. ProjectsTypeOK'
      BY <2>4, <2>5, <2>6, <2>7 DEF ProjectsTypeOK
    <2>9. RequestsAreBacked'
      <3> SUFFICES ASSUME NEW v \in Handlers, req'[v].op = "join"
                   PROVE  req'[v].before = {} /\ invite'[req'[v].invite].row # "none"
        BY <2>7
      <3>1. req'[v] = req[v] /\ req[v] \in Joining
        BY <2>6, PendingKinds DEF ProjectsTypeOK
      <3> QED  BY <3>1, <2>4 DEF Joining
    <2> QED  BY <2>4, <2>5, <2>7, <2>8, <2>9
  <1>7. ASSUME NEW w \in Handlers, Notify(w)
        PROVE  ProjectsInv'
    BY <1>7, FinishKeeps DEF Notify, ProjectsTypeOK
  <1>8. ASSUME NEW w \in Handlers, AddMember(w)
        PROVE  ProjectsInv'
    <2>1. req[w] \in Adding
      BY <1>8, PendingKinds DEF AddMember, ProjectsTypeOK
    <2>2. role' \in [Users -> Roles \cup {"none"}]
      BY <1>8, <2>1 DEF AddMember, ProjectsTypeOK, Adding
    <2> QED  BY <1>8, <2>2, FinishKeeps DEF AddMember, ProjectsTypeOK
  <1>9. ASSUME NEW w \in Handlers, RemoveMember(w)
        PROVE  ProjectsInv'
    <2>1. /\ role' \in [Users -> Roles \cup {"none"}]
          /\ \A u \in Users : role'[u] = role[u] \/ role'[u] = "none"
      BY <1>9 DEF RemoveMember, ProjectsTypeOK
    <2> QED  BY <1>9, <2>1, FinishKeeps DEF RemoveMember, ProjectsTypeOK
  <1>10. ASSUME NEW w \in Handlers, CreateInvite(w)
         PROVE  ProjectsInv'
    <2>1. req[w] \in Issuing
      BY <1>10, PendingKinds DEF CreateInvite, ProjectsTypeOK
    <2>2. PICK i \in Invites :
            /\ invite[i].row = "none"
            /\ invite' = [invite EXCEPT ![i] =
                  [row |-> "open", role |-> req[w].role, expired |-> FALSE]]
      BY <1>10 DEF CreateInvite
    <2>3. /\ invite' \in [Invites -> [row : {"none", "open", "used", "gone"}, role : Roles,
                                      expired : BOOLEAN]]
          /\ \A j \in Invites : \/ invite'[j].row = invite[j].row
                                \/ invite[j].row = "none" /\ invite'[j].row = "open"
      BY <2>1, <2>2 DEF ProjectsTypeOK, Issuing
    <2>4. ProjectsTypeOK'
      BY <1>10, <2>3, FinishKeeps DEF CreateInvite, ProjectsTypeOK
    <2>5. RequestsAreBacked'
      <3> SUFFICES ASSUME NEW v \in Handlers
                   PROVE  /\ req'[v].op = "join" =>
                               req'[v].before = {} /\ invite'[req'[v].invite].row # "none"
                          /\ req'[v].op = "notify" => project' = "gone"
        OBVIOUS
      <3>1. req'[v] = req[v] \/ req'[v].op = "idle"
        BY <1>10, FinishKeeps DEF CreateInvite
      <3>2. req[v].op = "join" => req[v].invite \in Invites
        BY PendingKinds DEF ProjectsTypeOK, Joining
      <3> QED  BY <1>10, <2>3, <3>1, <3>2 DEF CreateInvite
    <2> QED  BY <1>10, <2>3, <2>4, <2>5 DEF CreateInvite
  <1>11. ASSUME NEW w \in Handlers, RevokeInvite(w)
         PROVE  ProjectsInv'
    <2> DEFINE i == req[w].invite
    <2>1. i \in Invites
      BY <1>11, PendingKinds DEF RevokeInvite, ProjectsTypeOK, Revoking
    <2>2. invite' = [invite EXCEPT ![i] = [invite[i] EXCEPT !.row = "gone"]]
      BY <1>11 DEF RevokeInvite
    <2>3. /\ invite' \in [Invites -> [row : {"none", "open", "used", "gone"}, role : Roles,
                                      expired : BOOLEAN]]
          /\ \A j \in Invites : invite'[j].row \in {invite[j].row, "gone"}
      BY <2>1, <2>2 DEF ProjectsTypeOK
    <2>4. ProjectsTypeOK'
      BY <1>11, <2>3, FinishKeeps DEF RevokeInvite, ProjectsTypeOK
    <2>5. RequestsAreBacked'
      <3> SUFFICES ASSUME NEW v \in Handlers
                   PROVE  /\ req'[v].op = "join" =>
                               req'[v].before = {} /\ invite'[req'[v].invite].row # "none"
                          /\ req'[v].op = "notify" => project' = "gone"
        OBVIOUS
      <3>1. req'[v] = req[v] \/ req'[v].op = "idle"
        BY <1>11, FinishKeeps DEF RevokeInvite
      <3>2. req[v].op = "join" => req[v].invite \in Invites
        BY PendingKinds DEF ProjectsTypeOK, Joining
      <3> QED  BY <1>11, <2>3, <3>1, <3>2 DEF RevokeInvite
    <2> QED  BY <1>11, <2>3, <2>4, <2>5 DEF RevokeInvite
  <1>12. ASSUME NEW w \in Handlers, Join(w)
         PROVE  ProjectsInv'
    <2> DEFINE u == req[w].user
               i == req[w].invite
    <2>1. u \in Users /\ i \in Invites /\ req[w].role \in Roles
      BY <1>12, PendingKinds DEF Join, ProjectsTypeOK, Joining
    <2>2. /\ role' = [role EXCEPT ![u] = IF @ = "none" THEN req[w].role ELSE @]
          /\ invite' = [invite EXCEPT ![i] =
                [invite[i] EXCEPT !.row = IF @ = "open" THEN "used" ELSE @]]
          /\ joined' = [joined EXCEPT ![i] = @ \cup {u}]
      BY <1>12 DEF Join
    <2>3. /\ invite' \in [Invites -> [row : {"none", "open", "used", "gone"}, role : Roles,
                                      expired : BOOLEAN]]
          /\ \A j \in Invites \ {i} : invite'[j] = invite[j] /\ joined'[j] = joined[j]
          /\ invite'[i].row = IF invite[i].row = "open" THEN "used" ELSE invite[i].row
      <3> DEFINE InviteRow == [row : {"none", "open", "used", "gone"}, role : Roles,
                               expired : BOOLEAN]
                 x == [invite[i] EXCEPT !.row = IF @ = "open" THEN "used" ELSE @]
      <3>1. invite \in [Invites -> InviteRow] /\ joined \in [Invites -> SUBSET Users]
        BY DEF ProjectsTypeOK
      <3>2. invite[i] \in InviteRow
        BY <2>1, <3>1
      <3>3. x \in InviteRow
        BY <3>2
      <3>4. x.row = IF invite[i].row = "open" THEN "used" ELSE invite[i].row
        BY <3>2
      <3>5. invite' = [invite EXCEPT ![i] = x]
        BY <2>2
      <3> HIDE DEF InviteRow, x
      <3>6. invite' \in [Invites -> InviteRow] /\ invite'[i] = x
            /\ \A j \in Invites \ {i} : invite'[j] = invite[j]
        BY <2>1, <3>1, <3>3, <3>5
      <3>7. \A j \in Invites \ {i} : joined'[j] = joined[j]
        BY <2>1, <2>2, <3>1
      <3> QED  BY <3>4, <3>6, <3>7 DEF InviteRow
    <2>4. /\ joined' \in [Invites -> SUBSET Users] /\ joined'[i] # {}
          /\ role' \in [Users -> Roles \cup {"none"}]
      BY <2>1, <2>2 DEF ProjectsTypeOK
    <2>5. invite[i].row \notin {"none"}
      BY <1>12 DEF Join
    <2>6. ProjectsTypeOK'
      <3>1. req' \in [Handlers -> Pending]
        BY <1>12, FinishKeeps DEF Join
      <3>2. UNCHANGED <<project, entry, known, told, late>>
        BY <1>12 DEF Join
      <3> QED  BY <2>3, <2>4, <3>1, <3>2 DEF ProjectsTypeOK
    <2>7. UnusedIsFresh'
      BY <2>3, <2>5 DEF ProjectsTypeOK
    <2>8. RequestsAreBacked'
      <3> SUFFICES ASSUME NEW v \in Handlers
                   PROVE  /\ req'[v].op = "join" =>
                               req'[v].before = {} /\ invite'[req'[v].invite].row # "none"
                          /\ req'[v].op = "notify" => project' = "gone"
        OBVIOUS
      <3>1. req'[v] = req[v] \/ req'[v].op = "idle"
        BY <1>12, FinishKeeps DEF Join
      <3>2. req[v].op = "join" => req[v].invite \in Invites
        BY PendingKinds DEF ProjectsTypeOK, Joining
      <3>3. \A j \in Invites : invite[j].row # "none" => invite'[j].row # "none"
        BY <2>3, <2>5
      <3>4. project' = project
        BY <1>12 DEF Join
      <3> QED  BY <3>1, <3>2, <3>3, <3>4
    <2> QED  BY <1>12, <2>6, <2>7, <2>8 DEF Join
  <1>13. ASSUME NEW w \in Handlers, WriteEntry(w)
         PROVE  ProjectsInv'
    <2>1. PICK e \in Entries : /\ entry[e] = "none"
                               /\ entry' = [entry EXCEPT ![e] = "live"]
                               /\ late' = IF project = "gone" THEN late \cup {e} ELSE late
      BY <1>13 DEF WriteEntry
    <2> QED  BY <1>13, <2>1, FinishKeeps DEF WriteEntry, ProjectsTypeOK
  <1>14. ASSUME NEW w \in Handlers, GiveUp(w)
         PROVE  ProjectsInv'
    BY <1>14, FinishKeeps DEF GiveUp, ProjectsTypeOK
  <1>15. CASE UNCHANGED projectsVars
    BY <1>15 DEF projectsVars, ProjectsTypeOK
  <1> QED
    BY <1>1, <1>2, <1>3, <1>4, <1>5, <1>6, <1>7, <1>8, <1>9, <1>10, <1>11, <1>12, <1>13,
       <1>14, <1>15 DEF ProjectsNext

LEMMA ProjectsStart == ProjectsInit => ProjectsInv
  <1> SUFFICES ASSUME ProjectsInit
               PROVE  ProjectsInv
    OBVIOUS
  <1>1. invite \in [Invites -> [row : {"none", "open", "used", "gone"}, role : Roles,
                                expired : BOOLEAN]]
        /\ \A i \in Invites : invite[i].row = "none"
    BY DEF ProjectsInit, Roles
  <1>2. req \in [Handlers -> Pending] /\ \A w \in Handlers : req[w].op = "idle"
    BY UnaskedPending DEF ProjectsInit
  <1>3. ProjectsTypeOK
    BY <1>1, <1>2 DEF ProjectsInit, ProjectsTypeOK
  <1> QED
    BY <1>1, <1>2, <1>3 DEF ProjectsInit, ProjectsInv, UnusedIsFresh, RequestsAreBacked,
       ToldIsGone, DeletedIsEmpty, ToldIsOrphaned

LEMMA ProjectsAlways == ProjectsSpec => []ProjectsInv
  BY ProjectsStart, ProjectsStep, PTL DEF ProjectsSpec

-----------------------------------------------------------------------------
\* The tables stay well-formed: a role is one the code knows, an invite that is used
\* was used by somebody, and a request holds what its handler read (handler/projects.go).
THEOREM ProjectsTyped == ProjectsSpec => []ProjectsTypeOK
  <1>1. ProjectsInv => ProjectsTypeOK
    BY DEF ProjectsInv
  <1> QED  BY <1>1, ProjectsAlways, PTL

\* A deleted project keeps no member and no invite that leads into it, however many
\* requests to add, join or invite had passed their checks when Delete ran.
THEOREM NobodyIsLeft == ProjectsSpec => []DeletedIsEmpty
  <1>1. ProjectsInv => DeletedIsEmpty
    BY DEF ProjectsInv
  <1> QED  BY <1>1, ProjectsAlways, PTL

\* After content has been told, what is live of the project was written late
\* (the notification that ends Delete of svc, ProjectDeleted of content).
THEOREM NotifiedIsOrphaned == ProjectsSpec => []ToldIsOrphaned
  <1>1. ProjectsInv => ToldIsOrphaned
    BY DEF ProjectsInv
  <1> QED  BY <1>1, ProjectsAlways, PTL

\* Whoever joins with an invite had looked at it before anybody joined with it, so
\* Join lets two users in only when their requests overlap.
THEOREM InvitesAreSharedByOverlap == ProjectsSpec => InviteSharedOnlyByOverlap
  <1> DEFINE Step == \A i \in Invites : \A u \in joined'[i] \ joined[i] :
                       \E w \in Handlers :
                          /\ req[w].op = "join" /\ req[w].user = u /\ req[w].invite = i
                          /\ req[w].before = {}
  <1>1. ProjectsInv /\ [ProjectsNext]_projectsVars => [Step]_projectsVars
    <2> SUFFICES ASSUME ProjectsInv, ProjectsNext
                 PROVE  Step
      OBVIOUS
    <2>1. ASSUME NEW w \in Handlers, Join(w)
          PROVE  Step
      <3>1. req[w].before = {} /\ joined \in [Invites -> SUBSET Users]
        BY <2>1 DEF Join, ProjectsInv, ProjectsTypeOK, RequestsAreBacked
      <3> QED  BY <2>1, <3>1 DEF Join
    <2>2. joined' = joined \/ \E w \in Handlers : Join(w)
      BY DEF ProjectsNext, Create, Expire, Learn, Forget, CheckAdd, CheckRemove, CheckIssue,
         CheckRevoke, CheckJoin, CheckWrite, CheckDelete, Proceed, Delete, Notify,
         AddMember, RemoveMember, CreateInvite, RevokeInvite, WriteEntry, GiveUp
    <2> QED  BY <2>1, <2>2
  <1> QED  BY <1>1, ProjectsAlways, PTL DEF ProjectsSpec, InviteSharedOnlyByOverlap

-----------------------------------------------------------------------------
(* The membership cache.  An answer of svc is dated by the request that    *)
(* fetched it: the invariant says that it was so during that request.      *)

\* The membership of the key is b, or stopped being b at t or later.
HeldSince(k, b, t) ==
    \/ b = (k \in members)
    \/ \E u \in changed[k] : u >= t

\* The cache is a map.
OneEntry == \A e, f \in cache : e.key = f.key => e = f

\* A request under way is no older than the client's timeout.
InTime ==
    \A w \in Workers :
        InFlight(w) => call[w].since <= now /\ now - call[w].since <= HttpTimeout

\* What svc answered was so during the request.
ReplyHeld ==
    \A w \in Workers :
        call[w].pc = "answered" => HeldSince(call[w].key, call[w].reply, call[w].since)

\* What the cache says was so at most a timeout before it was stored.
EntryHeld == \A e \in cache : HeldSince(e.key, e.member, e.checkedAt - HttpTimeout)

\* No yes is left for a refused key.
RefusedOut ==
    \A k \in refused :
        /\ k \notin members
        /\ \A e \in cache : e.key = k => ~e.member
        /\ \A w \in Workers :
             call[w].pc = "answered" /\ call[w].key = k => ~call[w].reply

\* The last answer about a key is there for as long as it is tolerated.
HeardKept ==
    \A k \in Keys : \A t \in heard[k] :
        now - t <= StaleTolerance => \E e \in cache : e.key = k /\ e.checkedAt >= t

\* The inductive invariant.
MembershipInv ==
    /\ MembershipTypeOK /\ OneEntry /\ InTime /\ ReplyHeld /\ EntryHeld
    /\ RefusedOut /\ HeardKept

-----------------------------------------------------------------------------
(* Lemmas.                                                                 *)

\* What a request carries, by its stage.
LEMMA CallFields ==
    ASSUME MembershipTypeOK, NEW w \in Workers
    PROVE  /\ call[w].pc \in {"idle", "asked", "answered", "done"}
           /\ InFlight(w) => call[w].key \in Keys /\ call[w].since \in Nat
           /\ call[w].pc = "answered" => call[w].reply \in BOOLEAN
  BY DEF MembershipTypeOK, Idle, Asked, Answered, Done, InFlight

\* An action that changes one request leaves the others alone.
LEMMA OneCall ==
    ASSUME MembershipTypeOK, NEW w \in Workers, NEW c,
           call' = [call EXCEPT ![w] = c]
    PROVE  /\ call'[w] = c
           /\ \A v \in Workers : v # w => call'[v] = call[v]
  BY DEF MembershipTypeOK

\* A request that moves on keeps the type of its record.
LEMMA CallType ==
    ASSUME MembershipTypeOK, NEW w \in Workers,
           NEW c \in {Idle} \cup Asked \cup Answered \cup Done
    PROVE  [call EXCEPT ![w] = c] \in [Workers -> {Idle} \cup Asked \cup Answered \cup Done]
  BY DEF MembershipTypeOK

\* A decision is a well-formed record.
LEMMA DecisionType ==
    ASSUME NEW k \in Keys, NEW b \in BOOLEAN, NEW via \in Via
    PROVE  [pc |-> "done", key |-> k, member |-> b, via |-> via] \in Done
  BY DEF Done

\* What was so since t was so since anything earlier.
LEMMA HeldEarlier ==
    ASSUME MembershipTypeOK, NEW k \in Keys, NEW b \in BOOLEAN,
           NEW t \in Int, NEW u \in Int, u <= t, HeldSince(k, b, t)
    PROVE  HeldSince(k, b, u)
  BY DEF HeldSince, MembershipTypeOK

\* What the cache hands out is an entry of the key, and its only one.
LEMMA GetCachedEntry ==
    ASSUME MembershipTypeOK, NEW k, NEW a \in Nat, NEW e \in GetCached(k, a)
    PROVE  /\ e \in cache /\ e.key = k /\ now - e.checkedAt <= a
           /\ e.member \in BOOLEAN /\ e.checkedAt \in Nat /\ e.key \in Keys
  BY DEF GetCached, MembershipTypeOK, CacheEntry

-----------------------------------------------------------------------------
(* Every step keeps the invariant: first svc and the clock, then content.  *)

LEMMA InitHolds == Init => MembershipInv
<1> SUFFICES ASSUME Init PROVE MembershipInv
  OBVIOUS
<1>1. MembershipTypeOK
  BY DEF Init, MembershipTypeOK
<1>2. \A w \in Workers : call[w].pc = "idle"
  BY DEF Init, Idle
<1>3. QED
  BY <1>1, <1>2 DEF Init, MembershipInv, OneEntry, InTime, InFlight, ReplyHeld, EntryHeld,
     RefusedOut, HeardKept

\* A change of membership is a change now, later than whatever was read.
LEMMA SvcSteps ==
    ASSUME MembershipInv, NEW k \in Keys, Joins(k) \/ Leave(k)
    PROVE  MembershipInv'
<1>1. /\ changed' = [changed EXCEPT ![k] = {now}]
      /\ now' = now /\ cache' = cache /\ call' = call /\ heard' = heard
      /\ members' \in SUBSET Keys
      /\ \A j \in Keys : j # k => (j \in members' <=> j \in members)
      /\ refused' \subseteq refused
      /\ k \in refused' => k \notin members'
  BY DEF Joins, Leave, MembershipInv, MembershipTypeOK
<1>2. MembershipTypeOK'
  BY <1>1 DEF MembershipInv, MembershipTypeOK
<1>3. /\ changed'[k] = {now}
      /\ \A j \in Keys : j # k => changed'[j] = changed[j]
  BY <1>1 DEF MembershipInv, MembershipTypeOK
<1>4. \A j \in Keys, b \in BOOLEAN, t \in Int :
         t <= now /\ HeldSince(j, b, t) => HeldSince(j, b, t)'
  BY <1>1, <1>3 DEF HeldSince, MembershipInv, MembershipTypeOK
<1>5. ReplyHeld'
  <2> SUFFICES ASSUME NEW w \in Workers, call[w].pc = "answered"
               PROVE  HeldSince(call[w].key, call[w].reply, call[w].since)'
    BY <1>1 DEF ReplyHeld
  <2>1. /\ call[w].key \in Keys /\ call[w].reply \in BOOLEAN
        /\ call[w].since \in Int /\ call[w].since <= now
        /\ HeldSince(call[w].key, call[w].reply, call[w].since)
    BY CallFields DEF MembershipInv, InTime, InFlight, ReplyHeld
  <2>2. HeldSince(call[w].key, call[w].reply, call[w].since)
          => HeldSince(call[w].key, call[w].reply, call[w].since)'
    BY <2>1, <1>1, <1>4 DEF HeldSince
  <2>3. QED
    BY <2>1, <2>2
<1>6. EntryHeld'
  <2> SUFFICES ASSUME NEW e \in cache
               PROVE  HeldSince(e.key, e.member, e.checkedAt - HttpTimeout)'
    BY <1>1 DEF EntryHeld
  <2>1. /\ e.key \in Keys /\ e.member \in BOOLEAN
        /\ e.checkedAt - HttpTimeout \in Int /\ e.checkedAt - HttpTimeout <= now
        /\ HeldSince(e.key, e.member, e.checkedAt - HttpTimeout)
    BY MembershipAssumption DEF MembershipInv, EntryHeld, MembershipTypeOK, CacheEntry
  <2>2. QED
    BY <2>1, <1>4
<1>7. RefusedOut'
  BY <1>1 DEF MembershipInv, RefusedOut, MembershipTypeOK
<1>8. OneEntry' /\ InTime' /\ HeardKept'
  BY <1>1 DEF MembershipInv, OneEntry, InTime, InFlight, HeardKept
<1>9. QED
  BY <1>2, <1>5, <1>6, <1>7, <1>8 DEF MembershipInv

\* svc reads what is so at this instant, which is not before the request began.
LEMMA SvcReadsKeeps ==
    ASSUME MembershipInv, NEW w \in Workers, SvcReads(w)
    PROVE  MembershipInv'
<1> DEFINE c == [pc |-> "answered", key |-> call[w].key, since |-> call[w].since,
                 reply |-> call[w].key \in members]
<1>1. /\ call' = [call EXCEPT ![w] = c]
      /\ now' = now /\ members' = members /\ cache' = cache /\ changed' = changed
      /\ heard' = heard /\ refused' = refused /\ call[w].pc = "asked"
  BY DEF SvcReads
<1>2. /\ call[w].key \in Keys /\ call[w].since \in Nat
      /\ call[w].since <= now /\ now - call[w].since <= HttpTimeout
  BY <1>1, CallFields DEF MembershipInv, InTime, InFlight
<1>3. c \in Answered
  BY <1>2 DEF Answered
<1>4. MembershipTypeOK'
  BY <1>1, <1>3, CallType DEF MembershipInv, MembershipTypeOK
<1>5. call'[w] = c /\ \A v \in Workers : v # w => call'[v] = call[v]
  BY <1>1, OneCall DEF MembershipInv
<1>6. /\ c.pc = "answered" /\ c.key = call[w].key /\ c.since = call[w].since
      /\ c.reply = (call[w].key \in members)
      /\ call[w].key \notin members => ~c.reply
  OBVIOUS
<1> HIDE DEF c
<1>7. InTime'
  BY <1>1, <1>2, <1>5, <1>6 DEF MembershipInv, InTime, InFlight
<1>8. ReplyHeld'
  BY <1>1, <1>5, <1>6 DEF MembershipInv, ReplyHeld, HeldSince
<1>9. RefusedOut'
  <2> SUFFICES ASSUME NEW k \in refused, NEW v \in Workers,
                      call'[v].pc = "answered", call'[v].key = k
               PROVE  ~call'[v].reply
    BY <1>1 DEF MembershipInv, RefusedOut
  <2>1. CASE v = w
    BY <2>1, <1>5, <1>6 DEF MembershipInv, RefusedOut
  <2>2. CASE v # w
    BY <2>2, <1>5 DEF MembershipInv, RefusedOut
  <2>3. QED
    BY <2>1, <2>2
<1>10. OneEntry' /\ EntryHeld' /\ HeardKept'
  BY <1>1 DEF MembershipInv, OneEntry, EntryHeld, HeldSince, HeardKept
<1>11. QED
  BY <1>4, <1>7, <1>8, <1>9, <1>10 DEF MembershipInv

\* Time does not outrun a request, and only makes entries older.
LEMMA TickKeeps ==
    ASSUME MembershipInv, Tick
    PROVE  MembershipInv'
<1>1. /\ now' = now + 1 /\ now \in Nat
      /\ members' = members /\ cache' = cache /\ call' = call /\ changed' = changed
      /\ heard' = heard /\ refused' = refused
      /\ \A w \in Workers : InFlight(w) => now - call[w].since < HttpTimeout
  BY DEF Tick, MembershipInv, MembershipTypeOK
<1>2. MembershipTypeOK'
  <2>1. \A k \in Keys : changed[k] \subseteq 0 .. now + 1 /\ heard[k] \subseteq 0 .. now + 1
    BY <1>1 DEF MembershipInv, MembershipTypeOK
  <2>2. \A e \in cache : e.checkedAt <= now + 1
    BY <1>1 DEF MembershipInv, MembershipTypeOK, CacheEntry
  <2>3. QED
    BY <1>1, <2>1, <2>2 DEF MembershipInv, MembershipTypeOK
<1>3. InTime'
  <2> SUFFICES ASSUME NEW w \in Workers, InFlight(w)
               PROVE  call[w].since <= now' /\ now' - call[w].since <= HttpTimeout
    BY <1>1 DEF InTime, InFlight
  <2>1. call[w].since \in Nat /\ call[w].since <= now
    BY CallFields DEF MembershipInv, InTime
  <2>2. QED
    BY <1>1, <2>1, MembershipAssumption
<1>4. HeardKept'
  <2> SUFFICES ASSUME NEW k \in Keys, NEW t \in heard[k], now' - t <= StaleTolerance
               PROVE  \E e \in cache : e.key = k /\ e.checkedAt >= t
    BY <1>1 DEF HeardKept
  <2>1. t \in Nat
    BY DEF MembershipInv, MembershipTypeOK
  <2>2. now - t <= StaleTolerance
    BY <1>1, <2>1, MembershipAssumption
  <2>3. QED
    BY <2>2 DEF MembershipInv, HeardKept
<1>5. OneEntry' /\ ReplyHeld' /\ EntryHeld' /\ RefusedOut'
  BY <1>1 DEF MembershipInv, OneEntry, ReplyHeld, EntryHeld, HeldSince, RefusedOut
<1>6. QED
  BY <1>2, <1>3, <1>4, <1>5 DEF MembershipInv

\* Asking touches neither the cache nor what is known of other requests.
LEMMA AskSvcKeeps ==
    ASSUME MembershipInv, NEW w \in Workers, NEW k \in Keys, AskSvc(w, k)
    PROVE  MembershipInv'
<1> DEFINE c == [pc |-> "asked", key |-> k, since |-> now]
<1>1. /\ call' = [call EXCEPT ![w] = c]
      /\ now' = now /\ members' = members /\ cache' = cache /\ changed' = changed
      /\ heard' = heard /\ refused' = refused
  BY DEF AskSvc
<1>2. now \in Nat /\ now <= now /\ now - now <= HttpTimeout
  BY MembershipAssumption DEF MembershipInv, MembershipTypeOK
<1>3. c \in Asked /\ c.pc = "asked" /\ c.since = now
  BY <1>2 DEF Asked
<1>4. MembershipTypeOK'
  BY <1>1, <1>3, CallType DEF MembershipInv, MembershipTypeOK
<1>5. call'[w] = c /\ \A v \in Workers : v # w => call'[v] = call[v]
  BY <1>1, OneCall DEF MembershipInv
<1> HIDE DEF c
<1>6. InTime'
  BY <1>1, <1>2, <1>3, <1>5 DEF MembershipInv, InTime, InFlight
<1>7. ReplyHeld' /\ RefusedOut'
  BY <1>1, <1>3, <1>5 DEF MembershipInv, ReplyHeld, RefusedOut, HeldSince
<1>8. OneEntry' /\ EntryHeld' /\ HeardKept'
  BY <1>1 DEF MembershipInv, OneEntry, EntryHeld, HeldSince, HeardKept
<1>9. QED
  BY <1>4, <1>6, <1>7, <1>8 DEF MembershipInv

\* A request that ends, with or without a decision, leaves no obligation behind.
LEMMA EndKeeps ==
    ASSUME MembershipInv, NEW w \in Workers, NEW c \in {Idle} \cup Done,
           call' = [call EXCEPT ![w] = c],
           UNCHANGED <<now, members, cache, changed, heard>>,
           refused' \in SUBSET Keys,
           \A k \in refused' \ refused :
               /\ k \notin members
               /\ \A e \in cache : e.key = k => ~e.member
               /\ \A v \in Workers \ {w} :
                    call[v].pc = "answered" /\ call[v].key = k => ~call[v].reply
    PROVE  MembershipInv'
<1>1. ~(c.pc \in {"asked", "answered"})
  BY DEF Idle, Done
<1>2. MembershipTypeOK'
  BY CallType DEF MembershipInv, MembershipTypeOK
<1>3. call'[w] = c /\ \A v \in Workers : v # w => call'[v] = call[v]
  BY OneCall DEF MembershipInv
<1>4. InTime' /\ ReplyHeld'
  BY <1>1, <1>3 DEF MembershipInv, InTime, InFlight, ReplyHeld, HeldSince
<1>5. RefusedOut'
  <2> SUFFICES ASSUME NEW k \in refused'
               PROVE  /\ k \notin members
                      /\ \A e \in cache : e.key = k => ~e.member
                      /\ \A v \in Workers : call'[v].pc = "answered" /\ call'[v].key = k
                                              => ~call'[v].reply
    BY DEF RefusedOut
  <2>1. CASE k \in refused
    BY <2>1, <1>1, <1>3 DEF MembershipInv, RefusedOut
  <2>2. CASE k \notin refused
    BY <2>2, <1>1, <1>3
  <2>3. QED
    BY <2>1, <2>2
<1>6. OneEntry' /\ EntryHeld' /\ HeardKept'
  BY DEF MembershipInv, OneEntry, EntryHeld, HeldSince, HeardKept
<1>7. QED
  BY <1>2, <1>4, <1>5, <1>6 DEF MembershipInv

\* A decision taken from the cache: the no it may note is the cache's only entry.
LEMMA CachedDecisionKeeps ==
    ASSUME MembershipInv, NEW w \in Workers, NEW k \in Keys, NEW via \in Via,
           NEW e \in cache, e.key = k,
           Decide(w, k, e.member, via), NoteRefusal(w, k, e.member),
           UNCHANGED <<now, members, cache, changed, heard>>
    PROVE  MembershipInv'
<1>1. e.member \in BOOLEAN
  BY DEF MembershipInv, MembershipTypeOK, CacheEntry
<1>2. [pc |-> "done", key |-> k, member |-> e.member, via |-> via] \in Done
  BY <1>1, DecisionType
<1>3. refused' \in SUBSET Keys
  BY DEF NoteRefusal, MembershipInv, MembershipTypeOK
<1>4. \A j \in refused' \ refused : j = k /\ ~e.member /\ k \notin members /\ ~Outrun(w, k)
  BY DEF NoteRefusal
<1>5. \A f \in cache : f.key = k => f = e
  BY DEF MembershipInv, OneEntry
<1>6. \A j \in refused' \ refused :
         /\ j \notin members
         /\ \A f \in cache : f.key = j => ~f.member
         /\ \A v \in Workers \ {w} :
              call[v].pc = "answered" /\ call[v].key = j => ~call[v].reply
  BY <1>4, <1>5 DEF Outrun
<1>7. QED
  BY <1>2, <1>3, <1>6, EndKeeps DEF Decide

LEMMA AnswerFreshKeeps ==
    ASSUME MembershipInv, NEW w \in Workers, NEW k \in Keys, AnswerFresh(w, k)
    PROVE  MembershipInv'
<1>1. PICK e \in GetCached(k, FreshTTL) :
         Decide(w, k, e.member, "fresh") /\ NoteRefusal(w, k, e.member)
  BY DEF AnswerFresh
<1>2. e \in cache /\ e.key = k
  BY DEF GetCached
<1>3. UNCHANGED <<now, members, cache, changed, heard>> /\ "fresh" \in Via
  BY DEF AnswerFresh, Via
<1>4. QED
  BY <1>1, <1>2, <1>3, CachedDecisionKeeps

LEMMA FailsOverKeeps ==
    ASSUME MembershipInv, NEW w \in Workers, FailsOver(w)
    PROVE  MembershipInv'
<1>1. call[w].key \in Keys
  BY CallFields DEF MembershipInv, FailsOver
<1>2. PICK e \in GetCached(call[w].key, StaleTolerance) :
         Decide(w, call[w].key, e.member, "stale") /\ NoteRefusal(w, call[w].key, e.member)
  BY DEF FailsOver
<1>3. e \in cache /\ e.key = call[w].key
  BY DEF GetCached
<1>4. UNCHANGED <<now, members, cache, changed, heard>> /\ "stale" \in Via
  BY DEF FailsOver, Via
<1>5. QED
  BY <1>1, <1>2, <1>3, <1>4, CachedDecisionKeeps

\* 503 and Return note nothing.
LEMMA QuietEndKeeps ==
    ASSUME MembershipInv, NEW w \in Workers, FailsOutright(w) \/ Return(w)
    PROVE  MembershipInv'
<1>1. CASE FailsOutright(w)
  <2>1. call[w].key \in Keys
    BY <1>1, CallFields DEF MembershipInv, FailsOutright
  <2>2. [pc |-> "done", key |-> call[w].key, member |-> FALSE, via |-> "unavailable"] \in Done
    BY <2>1, DecisionType DEF Via
  <2>3. refused' = refused /\ refused \in SUBSET Keys
    BY <1>1 DEF FailsOutright, MembershipInv, MembershipTypeOK
  <2>4. UNCHANGED <<now, members, cache, changed, heard>>
    BY <1>1 DEF FailsOutright
  <2>5. QED
    BY <1>1, <2>2, <2>3, <2>4, EndKeeps DEF FailsOutright, Decide
<1>2. CASE Return(w)
  <2>1. refused' = refused /\ refused \in SUBSET Keys
    BY <1>2 DEF Return, MembershipInv, MembershipTypeOK
  <2>2. UNCHANGED <<now, members, cache, changed, heard>> /\ call' = [call EXCEPT ![w] = Idle]
    BY <1>2 DEF Return
  <2>3. QED
    BY <2>1, <2>2, EndKeeps
<1>3. QED
  BY <1>1, <1>2

\* An answer that arrives replaces the entry of its key, and is as recent as the
\* request is short. What the sweep takes out of the other entries is not needed.
LEMMA ArrivesKeeps ==
    ASSUME MembershipInv, NEW w \in Workers, Arrives(w)
    PROVE  MembershipInv'
<1> DEFINE k == call[w].key
           b == call[w].reply
           new == [key |-> k, member |-> b, checkedAt |-> now]
           kept == {e \in cache : e.key # k /\ now - e.checkedAt <= StaleTolerance}
           c == [pc |-> "done", key |-> k, member |-> b, via |-> "svc"]
<1>1. /\ cache' = kept \cup {new} /\ call' = [call EXCEPT ![w] = c]
      /\ heard' = [heard EXCEPT ![k] = {now}] /\ NoteRefusal(w, k, b)
      /\ now' = now /\ members' = members /\ changed' = changed
      /\ call[w].pc = "answered"
  BY DEF Arrives, SetCached, Decide
<1>2. /\ k \in Keys /\ b \in BOOLEAN /\ call[w].since \in Nat /\ now \in Nat
      /\ call[w].since <= now /\ now - call[w].since <= HttpTimeout
      /\ HeldSince(k, b, call[w].since)
  BY <1>1, CallFields DEF MembershipInv, MembershipTypeOK, InTime, InFlight, ReplyHeld
<1>3. /\ new \in CacheEntry /\ new.key = k /\ new.member = b /\ new.checkedAt = now
      /\ c \in Done /\ c.pc = "done"
  BY <1>2, DecisionType DEF CacheEntry, Via
<1>4. /\ call'[w] = c
      /\ \A v \in Workers : v # w => call'[v] = call[v]
  BY <1>1, OneCall DEF MembershipInv
<1>5. kept \subseteq cache /\ \A e \in kept : e.key # k
  OBVIOUS
<1>6. /\ heard'[k] = {now}
      /\ \A j \in Keys : j # k => heard'[j] = heard[j]
  BY <1>1, <1>2 DEF MembershipInv, MembershipTypeOK
<1>7. \A j \in refused' \ refused :
         j = k /\ ~b /\ k \notin members /\ ~Outrun(w, k)
  BY <1>1 DEF NoteRefusal
<1>8. refused' \in SUBSET Keys
  BY <1>1, <1>2 DEF NoteRefusal, MembershipInv, MembershipTypeOK
<1>9. k \in refused => ~b
  BY <1>1 DEF MembershipInv, RefusedOut
<1>10. \A e \in kept : now - e.checkedAt <= StaleTolerance
  OBVIOUS
<1>11. \A e \in cache : e.key # k /\ now - e.checkedAt <= StaleTolerance => e \in kept
  OBVIOUS
<1> HIDE DEF k, b, new, kept, c
<1>12. MembershipTypeOK'
  <2>1. call' \in [Workers -> {Idle} \cup Asked \cup Answered \cup Done]
    BY <1>1, <1>3, CallType DEF MembershipInv
  <2>2. cache' \subseteq CacheEntry /\ \A e \in cache' : e.checkedAt <= now
    BY <1>1, <1>2, <1>3, <1>5 DEF MembershipInv, MembershipTypeOK
  <2>3. heard' \in [Keys -> SUBSET (0 .. now)]
    BY <1>1, <1>2 DEF MembershipInv, MembershipTypeOK
  <2>4. QED
    BY <1>1, <1>8, <2>1, <2>2, <2>3 DEF MembershipInv, MembershipTypeOK
<1>13. OneEntry'
  BY <1>1, <1>3, <1>5 DEF MembershipInv, OneEntry
<1>14. InTime' /\ ReplyHeld'
  BY <1>1, <1>3, <1>4 DEF MembershipInv, InTime, InFlight, ReplyHeld, HeldSince
<1>15. EntryHeld'
  <2>1. HeldSince(k, b, now - HttpTimeout)
    <3>1. now - HttpTimeout \in Int /\ now - HttpTimeout <= call[w].since
      BY <1>2, MembershipAssumption
    <3>2. QED
      BY <3>1, <1>2, HeldEarlier DEF MembershipInv
  <2>2. \A e \in cache' : HeldSince(e.key, e.member, e.checkedAt - HttpTimeout)
    BY <1>1, <1>3, <1>5, <2>1 DEF MembershipInv, EntryHeld
  <2>3. QED
    BY <1>1, <2>2 DEF EntryHeld, HeldSince
<1>16. RefusedOut'
  <2> SUFFICES ASSUME NEW j \in refused'
               PROVE  /\ j \notin members
                      /\ \A e \in cache' : e.key = j => ~e.member
                      /\ \A v \in Workers : call'[v].pc = "answered" /\ call'[v].key = j
                                              => ~call'[v].reply
    BY <1>1 DEF RefusedOut
  <2>1. CASE j \in refused
    <3>1. j = k => ~b
      BY <2>1, <1>9
    <3>2. QED
      BY <2>1, <3>1, <1>1, <1>3, <1>4, <1>5 DEF MembershipInv, RefusedOut
  <2>2. CASE j \notin refused
    <3>1. j = k /\ ~b /\ k \notin members /\ ~Outrun(w, k)
      BY <2>2, <1>7
    <3>2. \A e \in cache' : e.key = j => ~e.member
      BY <3>1, <1>1, <1>3, <1>5
    <3>3. \A v \in Workers : call'[v].pc = "answered" /\ call'[v].key = j => ~call'[v].reply
      BY <3>1, <1>3, <1>4 DEF Outrun
    <3>4. QED
      BY <3>1, <3>2, <3>3
  <2>3. QED
    BY <2>1, <2>2
<1>17. HeardKept'
  <2> SUFFICES ASSUME NEW j \in Keys, NEW t \in heard'[j], now - t <= StaleTolerance
               PROVE  \E e \in cache' : e.key = j /\ e.checkedAt >= t
    BY <1>1 DEF HeardKept
  <2>1. CASE j = k
    <3>1. t = now /\ now >= t
      BY <2>1, <1>2, <1>6
    <3>2. new \in cache' /\ new.key = j /\ new.checkedAt >= t
      BY <2>1, <3>1, <1>1, <1>3
    <3>3. QED
      BY <3>2
  <2>2. CASE j # k
    <3>1. PICK e \in cache : e.key = j /\ e.checkedAt >= t
      BY <2>2, <1>6 DEF MembershipInv, HeardKept
    <3>2. t \in Int /\ e.checkedAt \in Int
      BY <2>2, <1>6 DEF MembershipInv, MembershipTypeOK, CacheEntry
    <3>3. now - e.checkedAt <= StaleTolerance
      BY <3>1, <3>2, <1>2, MembershipAssumption
    <3>4. e \in cache'
      BY <3>1, <3>3, <2>2, <1>1, <1>11
    <3>5. QED
      BY <3>1, <3>4
  <2>3. QED
    BY <2>1, <2>2
<1>18. QED
  BY <1>12, <1>13, <1>14, <1>15, <1>16, <1>17 DEF MembershipInv

LEMMA StepKeeps == MembershipInv /\ [Next]_vars => MembershipInv'
<1> SUFFICES ASSUME MembershipInv, [Next]_vars PROVE MembershipInv'
  OBVIOUS
<1>1. CASE UNCHANGED vars
  BY <1>1 DEF vars, MembershipInv, MembershipTypeOK, OneEntry, InTime, InFlight, ReplyHeld,
     EntryHeld, HeldSince, RefusedOut, HeardKept
<1>2. ASSUME NEW k \in Keys, Joins(k) \/ Leave(k) PROVE MembershipInv'
  BY <1>2, SvcSteps
<1>3. ASSUME NEW w \in Workers, NEW k \in Keys, AnswerFresh(w, k) \/ AskSvc(w, k)
      PROVE  MembershipInv'
  BY <1>3, AnswerFreshKeeps, AskSvcKeeps
<1>4. ASSUME NEW w \in Workers,
             SvcReads(w) \/ Arrives(w) \/ FailsOver(w) \/ FailsOutright(w) \/ Return(w)
      PROVE  MembershipInv'
  BY <1>4, SvcReadsKeeps, ArrivesKeeps, FailsOverKeeps, QuietEndKeeps
<1>5. CASE Tick
  BY <1>5, TickKeeps
<1>6. QED
  BY <1>1, <1>2, <1>3, <1>4, <1>5 DEF Next

-----------------------------------------------------------------------------
(* Theorems.                                                               *)

\* The invariant holds in every reachable state.
THEOREM MembershipInvariance == MembershipSpec => []MembershipInv
  BY InitHolds, StepKeeps, PTL DEF MembershipSpec

\* The state of SvcChecker stays well-formed, and no entry is dated in the future.
THEOREM MembershipTypeCorrect == MembershipSpec => []MembershipTypeOK
<1>1. MembershipInv => MembershipTypeOK
  BY DEF MembershipInv
<1>2. QED
  BY <1>1, MembershipInvariance, PTL

\* A request is decided by its own steps only.
LEMMA DecidedBy ==
    ASSUME MembershipInv, Next, NEW w \in Workers, Decides(w)
    PROVE  (\E k \in Keys : AnswerFresh(w, k)) \/ Arrives(w) \/ FailsOver(w) \/ FailsOutright(w)
<1>1. \A v \in Workers : \A c : call' = [call EXCEPT ![v] = c] => v = w /\ call'[w] = c
  BY DEF Decides, MembershipInv, MembershipTypeOK
<1>2. ~(call' = call)
  BY DEF Decides
<1>3. ASSUME NEW k \in Keys, Joins(k) \/ Leave(k) PROVE FALSE
  BY <1>2, <1>3 DEF Joins, Leave
<1>4. ~Tick
  BY <1>2 DEF Tick
<1>5. ASSUME NEW v \in Workers, NEW k \in Keys, AskSvc(v, k) PROVE FALSE
  BY <1>1, <1>5 DEF AskSvc, Decides
<1>6. ASSUME NEW v \in Workers, SvcReads(v) PROVE FALSE
  BY <1>1, <1>6 DEF SvcReads, Decides
<1>7. ASSUME NEW v \in Workers, Return(v) PROVE FALSE
  BY <1>1, <1>7 DEF Return, Decides, Idle
<1>8. ASSUME NEW v \in Workers, NEW k \in Keys, AnswerFresh(v, k) PROVE v = w
  BY <1>1, <1>8 DEF AnswerFresh, Decide
<1>9. ASSUME NEW v \in Workers, Arrives(v) \/ FailsOver(v) \/ FailsOutright(v) PROVE v = w
  BY <1>1, <1>9 DEF Arrives, FailsOver, FailsOutright, Decide
<1>10. QED
  BY <1>3, <1>4, <1>5, <1>6, <1>7, <1>8, <1>9 DEF Next

\* What a decision taken from the cache says comes from an entry of its key.
LEMMA DecidedFromEntry ==
    ASSUME MembershipInv, NEW w \in Workers, NEW k \in Keys, NEW a \in Nat, NEW via,
           \E e \in GetCached(k, a) : Decide(w, k, e.member, via)
    PROVE  \E e \in cache :
              /\ e.key = k /\ now - e.checkedAt <= a
              /\ call'[w].key = k /\ call'[w].member = e.member /\ call'[w].via = via
<1>1. PICK e \in GetCached(k, a) : Decide(w, k, e.member, via)
  OBVIOUS
<1>2. call'[w] = [pc |-> "done", key |-> k, member |-> e.member, via |-> via]
  BY <1>1, OneCall DEF Decide, MembershipInv
<1>3. e \in cache /\ e.key = k /\ now - e.checkedAt <= a
  BY <1>1, GetCachedEntry DEF MembershipInv
<1>4. QED
  BY <1>2, <1>3

\* The four ways to decide, and what they say.
LEMMA FreshDecision ==
    ASSUME MembershipInv, NEW w \in Workers, NEW k \in Keys, AnswerFresh(w, k)
    PROVE  \E e \in cache :
              /\ e.key = k /\ now - e.checkedAt <= FreshTTL
              /\ call'[w].key = k /\ call'[w].member = e.member /\ call'[w].via = "fresh"
<1>1. \E e \in GetCached(k, FreshTTL) : Decide(w, k, e.member, "fresh")
  BY DEF AnswerFresh
<1>2. FreshTTL \in Nat
  BY MembershipAssumption
<1>3. QED
  BY <1>1, <1>2, DecidedFromEntry

LEMMA StaleDecision ==
    ASSUME MembershipInv, NEW w \in Workers, FailsOver(w)
    PROVE  \E e \in cache :
              /\ e.key = call[w].key /\ now - e.checkedAt <= StaleTolerance
              /\ call'[w].key = call[w].key /\ call'[w].member = e.member
              /\ call'[w].via = "stale"
<1>1. \E e \in GetCached(call[w].key, StaleTolerance) : Decide(w, call[w].key, e.member, "stale")
  BY DEF FailsOver
<1>2. StaleTolerance \in Nat /\ call[w].key \in Keys
  BY MembershipAssumption, CallFields DEF MembershipInv, FailsOver
<1>3. QED
  BY <1>1, <1>2, DecidedFromEntry

LEMMA SvcDecision ==
    ASSUME MembershipInv, NEW w \in Workers, Arrives(w)
    PROVE  /\ call'[w].key = call[w].key /\ call'[w].member = call[w].reply
           /\ call'[w].via = "svc"
<1>1. call'[w] = [pc |-> "done", key |-> call[w].key, member |-> call[w].reply, via |-> "svc"]
  BY OneCall DEF Arrives, Decide, MembershipInv
<1>2. QED
  BY <1>1

LEMMA NoDecision ==
    ASSUME MembershipInv, NEW w \in Workers, FailsOutright(w)
    PROVE  /\ call'[w].key = call[w].key /\ ~call'[w].member
           /\ call'[w].via = "unavailable"
<1> DEFINE c == [pc |-> "done", key |-> call[w].key, member |-> FALSE, via |-> "unavailable"]
<1>1. call' = [call EXCEPT ![w] = c]
  BY DEF FailsOutright, Decide
<1>2. c.key = call[w].key /\ ~c.member /\ c.via = "unavailable"
  OBVIOUS
<1> HIDE DEF c
<1>3. call'[w] = c
  BY <1>1, OneCall DEF MembershipInv
<1>4. QED
  BY <1>2, <1>3

\* An entry no older than a tells what was so within a + HttpTimeout.
LEMMA EntryIsRecent ==
    ASSUME MembershipInv, NEW e \in cache, NEW a \in Nat, now - e.checkedAt <= a
    PROVE  Recently(e.key, e.member, a + HttpTimeout)
<1>1. /\ e.key \in Keys /\ e.checkedAt \in Nat /\ now \in Nat
      /\ changed[e.key] \subseteq Int
      /\ HeldSince(e.key, e.member, e.checkedAt - HttpTimeout)
  BY DEF MembershipInv, MembershipTypeOK, CacheEntry, EntryHeld
<1>2. \A u \in Int : u >= e.checkedAt - HttpTimeout => now - u <= a + HttpTimeout
  BY <1>1, MembershipAssumption
<1>3. QED
  BY <1>1, <1>2 DEF HeldSince, Recently

\* How old a decision may be.
LEMMA GraceOf ==
    /\ Grace("fresh") = FreshTTL + HttpTimeout
    /\ Grace("svc") = HttpTimeout
    /\ Grace("stale") = StaleTolerance + HttpTimeout
  BY DEF Grace

LEMMA DecisionIsRecent ==
    ASSUME MembershipInv, Next, NEW w \in Workers, Decides(w),
           call'[w].via # "unavailable"
    PROVE  Recently(call'[w].key, call'[w].member, Grace(call'[w].via))
<1>1. ASSUME NEW k \in Keys, AnswerFresh(w, k)
      PROVE  Recently(call'[w].key, call'[w].member, Grace(call'[w].via))
  BY <1>1, FreshDecision, EntryIsRecent, GraceOf, MembershipAssumption
<1>2. CASE Arrives(w)
  <2>1. /\ call[w].key \in Keys /\ call[w].since \in Nat /\ now \in Nat
        /\ now - call[w].since <= HttpTimeout
        /\ HeldSince(call[w].key, call[w].reply, call[w].since)
        /\ changed[call[w].key] \subseteq Int
    BY <1>2, CallFields DEF Arrives, MembershipInv, MembershipTypeOK, InTime, InFlight, ReplyHeld
  <2>2. \A u \in Int : u >= call[w].since => now - u <= HttpTimeout
    BY <2>1, MembershipAssumption
  <2>3. Recently(call[w].key, call[w].reply, HttpTimeout)
    BY <2>1, <2>2 DEF HeldSince, Recently
  <2>4. QED
    BY <1>2, <2>3, SvcDecision, GraceOf
<1>3. CASE FailsOver(w)
  BY <1>3, StaleDecision, EntryIsRecent, GraceOf, MembershipAssumption
<1>4. ~FailsOutright(w)
  BY NoDecision
<1>5. QED
  BY <1>1, <1>2, <1>3, <1>4, DecidedBy

LEMMA DecisionStands ==
    ASSUME MembershipInv, Next, NEW w \in Workers, Decides(w),
           call'[w].key \in refused
    PROVE  ~call'[w].member
<1>1. \A e \in cache : e.key \in refused => ~e.member
  BY DEF MembershipInv, RefusedOut
<1>2. ASSUME NEW k \in Keys, AnswerFresh(w, k) PROVE ~call'[w].member
  BY <1>1, <1>2, FreshDecision
<1>3. CASE Arrives(w)
  BY <1>3, SvcDecision DEF Arrives, MembershipInv, RefusedOut
<1>4. CASE FailsOver(w)
  BY <1>1, <1>4, StaleDecision
<1>5. CASE FailsOutright(w)
  BY <1>5, NoDecision
<1>6. QED
  BY <1>2, <1>3, <1>4, <1>5, DecidedBy

LEMMA DecisionTolerates ==
    ASSUME MembershipInv, Next, NEW w \in Workers, Decides(w),
           call'[w].via = "unavailable"
    PROVE  \A t \in heard[call'[w].key] : now - t > StaleTolerance
<1>1. \A k \in Keys : ~AnswerFresh(w, k)
  BY FreshDecision
<1>2. ~Arrives(w) /\ ~FailsOver(w)
  BY SvcDecision, StaleDecision
<1>3. FailsOutright(w)
  BY <1>1, <1>2, DecidedBy
<1>4. /\ call[w].key \in Keys /\ call'[w].key = call[w].key
      /\ GetCached(call[w].key, StaleTolerance) = {}
  BY <1>3, CallFields, NoDecision DEF FailsOutright, MembershipInv
<1>5. \A t \in heard[call[w].key] : t \in Int /\ now \in Int
  BY <1>4 DEF MembershipInv, MembershipTypeOK
<1>6. SUFFICES ASSUME NEW t \in heard[call[w].key], now - t <= StaleTolerance PROVE FALSE
  BY <1>4, <1>5, MembershipAssumption
<1>7. PICK e \in cache : e.key = call[w].key /\ e.checkedAt >= t
  BY <1>4, <1>6 DEF MembershipInv, HeardKept
<1>8. t \in Int /\ e.checkedAt \in Int /\ now \in Int
  <2>1. e \in CacheEntry
    BY DEF MembershipInv, MembershipTypeOK
  <2>2. e.checkedAt \in Int
    BY <2>1 DEF CacheEntry
  <2> QED  BY <1>5, <2>2
<1>9. e \in GetCached(call[w].key, StaleTolerance)
  BY <1>6, <1>7, <1>8, MembershipAssumption DEF GetCached
<1>10. QED
  BY <1>4, <1>9

\* A decision says what was so at most freshTTL + httpTimeout before it, or
\* staleTolerance + httpTimeout while svc does not answer.
THEOREM DecisionsAreRecent == MembershipSpec => AnswerIsRecent
<1>1. MembershipInv /\ [Next]_vars
        => [\A w \in Workers :
              Decides(w) /\ call'[w].via # "unavailable"
                => Recently(call'[w].key, call'[w].member, Grace(call'[w].via))]_vars
  BY DecisionIsRecent
<1>2. QED
  BY <1>1, MembershipInvariance, PTL DEF MembershipSpec, AnswerIsRecent

\* A refusal that no earlier yes can undo stands until the key joins.
THEOREM RefusalsStand == MembershipSpec => RefusalStands
<1>1. MembershipInv /\ [Next]_vars
        => [\A w \in Workers : Decides(w) /\ call'[w].key \in refused => ~call'[w].member]_vars
  BY DecisionStands
<1>2. QED
  BY <1>1, MembershipInvariance, PTL DEF MembershipSpec, RefusalStands

\* Whoever svc answered about within staleTolerance is not turned away with 503.
THEOREM OutagesAreTolerated == MembershipSpec => OutageTolerated
<1>1. MembershipInv /\ [Next]_vars
        => [\A w \in Workers :
              Decides(w) /\ call'[w].via = "unavailable"
                => \A t \in heard[call'[w].key] : now - t > StaleTolerance]_vars
  BY DecisionTolerates
<1>2. QED
  BY <1>1, MembershipInvariance, PTL DEF MembershipSpec, OutageTolerated
=============================================================================
