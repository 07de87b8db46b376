--------------------------- MODULE AccountProofs ----------------------------
(***************************************************************************)
(* For every number of accounts, sessions, requests and reset links, every *)
(* lifetime of a JWT, of an answer and of a link, and every longest        *)
(* request: what AuthSession says of who is let in, and what PasswordReset *)
(* says of the links.                                                      *)
(***************************************************************************)
EXTENDS AuthSession, PasswordReset, TLAPS

-----------------------------------------------------------------------------
(* Who is let in.  An answer is older than what it is used for: the        *)
(* invariant dates it by a moment before which it was certainly not asked  *)
(* for, the start of the request that fetched it or MaxTrip before it was  *)
(* cached, and says that what it vouches for was so at that moment or      *)
(* later.                                                                  *)

\* The account is as b says, or was at some time from s on.
HeldSince(a, b, s) == (account[a] = "active") = b \/ \E t \in changed[a] : s <= t

\* An answer b about j that was asked for no earlier than s has a reason that is no older.
Grounded(j, b, s) ==
    /\ b => HeldSince(j.sub, TRUE, s) /\ s < j.exp
    /\ ~b => \/ HeldSince(j.sub, FALSE, s)
             \/ ~Unexpired(j)
             \/ \E t \in faulted : s <= t

\* No request is older than MaxTrip.
TripsAreShort ==
    \A w \in Workers :
        req[w] # Idle => req[w].since <= now /\ now - req[w].since <= MaxTrip

AnswersAreGrounded ==
    \A w \in Workers :
        req[w].pc = "answered" => Grounded(req[w].jwt, req[w].reply, req[w].since)

CacheIsGrounded ==
    \A e \in cache : Grounded(e.jwt, e.active, e.checkedAt - MaxTrip)

AuthInv == AuthTypeOK /\ TripsAreShort /\ AnswersAreGrounded /\ CacheIsGrounded

-----------------------------------------------------------------------------
(* Requests and rows.                                                      *)

Credited == [pc : {"credited"}, sub : Accounts, since : Nat]
Asked == [pc : {"asked"}, jwt : Jwt, since : Nat]
Answered == [pc : {"answered"}, jwt : Jwt, since : Nat, reply : BOOLEAN]

\* How far a request is tells which fields it has.
LEMMA TripKinds ==
  ASSUME NEW r \in Requests
  PROVE  /\ r.pc = "credited" => r \in Credited
         /\ r.pc = "asked" => r \in Asked
         /\ r.pc = "answered" => r \in Answered
         /\ r # Idle => r.pc \in {"credited", "asked", "answered"}
                        /\ r.since \in Nat /\ "since" \in DOMAIN r
         /\ r = Idle => r.pc = "idle"
  <1>1. Requests = {Idle} \cup Credited \cup Asked \cup Answered
    BY DEF Requests, Credited, Asked, Answered
  <1>2. CASE r = Idle
    BY <1>2 DEF Idle
  <1>3. CASE r \in Credited
    BY <1>3 DEF Credited, Idle
  <1>4. CASE r \in Asked
    BY <1>4 DEF Asked, Idle
  <1>5. CASE r \in Answered
    BY <1>5 DEF Answered, Idle
  <1> QED  BY <1>1, <1>2, <1>3, <1>4, <1>5

\* The row of a session holds a JWT.
LEMMA RowHoldsJwt ==
  ASSUME AuthTypeOK, NEW s \in Sessions, HasRow(s)
  PROVE  session[s].jwt \in Jwt
  BY DEF AuthTypeOK, HasRow, Rows, Unused, Ended

-----------------------------------------------------------------------------
(* What keeps an answer grounded.                                          *)

\* An account is dated when it becomes what it was not.
LEMMA BecomesDates ==
  ASSUME AuthTypeOK, NEW a \in Accounts, NEW st \in {"active", "disabled", "deleted"},
         Becomes(a, st), now' = now
  PROVE  /\ account' \in [Accounts -> {"new", "active", "disabled", "deleted"}]
         /\ changed' \in [Accounts -> SUBSET (0 .. now)]
         /\ \A b \in Accounts : \A v \in BOOLEAN : \A s \in Int :
                s <= now /\ HeldSince(b, v, s) => HeldSince(b, v, s)'
  <1>1. account' \in [Accounts -> {"new", "active", "disabled", "deleted"}]
    BY DEF AuthTypeOK, Becomes
  <1>2. now \in 0 .. now
    BY DEF AuthTypeOK
  <1>3. changed' \in [Accounts -> SUBSET (0 .. now)]
    BY <1>2 DEF AuthTypeOK, Becomes
  <1>4. ASSUME NEW b \in Accounts, NEW v \in BOOLEAN, NEW s \in Int,
               s <= now, HeldSince(b, v, s)
        PROVE  HeldSince(b, v, s)'
    <2>1. CASE (st = "active") = (account[a] = "active")
      <3>1. changed' = changed /\ (account'[b] = "active") = (account[b] = "active")
        BY <2>1 DEF Becomes, AuthTypeOK
      <3> QED  BY <1>4, <3>1 DEF HeldSince
    <2>2. CASE (st = "active") # (account[a] = "active")
      <3>1. CASE b = a
        <4>1. changed'[b] = {now}
          BY <2>2, <3>1 DEF Becomes, AuthTypeOK
        <4> QED  BY <4>1, <1>4 DEF HeldSince
      <3>2. CASE b # a
        <4>1. changed'[b] = changed[b] /\ account'[b] = account[b]
          BY <2>2, <3>2 DEF Becomes, AuthTypeOK
        <4> QED  BY <4>1, <1>4 DEF HeldSince
      <3> QED  BY <3>1, <3>2
    <2> QED  BY <2>1, <2>2
  <1> QED  BY <1>1, <1>3, <1>4

\* A step that takes back no reason keeps what is grounded so.
LEMMA GroundsKept ==
  ASSUME NEW j \in Jwt, NEW b \in BOOLEAN, NEW s \in Int, Grounded(j, b, s),
         now \in Nat, now' \in Nat, now <= now',
         \A v \in BOOLEAN : HeldSince(j.sub, v, s) => HeldSince(j.sub, v, s)',
         \A t \in faulted : s <= t => t \in faulted'
  PROVE  Grounded(j, b, s)'
  <1> DEFINE held(v) == HeldSince(j.sub, v, s)
  <1>0. j.exp \in Nat
    BY DEF Jwt
  <1>1. held(TRUE) => held(TRUE)'
    OBVIOUS
  <1>2. held(FALSE) => held(FALSE)'
    OBVIOUS
  <1>3. CASE b
    BY <1>1, <1>3 DEF Grounded
  <1>4. CASE ~b
    <2>1. CASE held(FALSE)
      BY <2>1, <1>2, <1>4 DEF Grounded
    <2>2. CASE ~Unexpired(j)
      <3>1. ~Unexpired(j)'
        BY <1>0, <2>2 DEF Unexpired
      <3> QED  BY <3>1, <1>4 DEF Grounded
    <2>3. CASE \E t \in faulted : s <= t
      <3>1. \E t \in faulted' : s <= t
        BY <2>3
      <3> QED  BY <3>1, <1>4 DEF Grounded
    <2> QED  BY <1>4, <2>1, <2>2, <2>3 DEF Grounded
  <1> QED  BY <1>3, <1>4

\* What was grounded later is grounded earlier.
LEMMA GroundedEarlier ==
  ASSUME AuthTypeOK, NEW j \in Jwt, NEW b \in BOOLEAN, NEW s \in Int, NEW r \in Int,
         r <= s, Grounded(j, b, s)
  PROVE  Grounded(j, b, r)
  <1>1. j.exp \in Nat /\ j.sub \in Accounts
    BY DEF Jwt
  <1>2. changed[j.sub] \subseteq Nat /\ faulted \subseteq Nat
    BY <1>1 DEF AuthTypeOK
  <1>3. \A v \in BOOLEAN : HeldSince(j.sub, v, s) => HeldSince(j.sub, v, r)
    BY <1>2 DEF HeldSince
  <1>4. ASSUME NEW t \in faulted, s <= t
        PROVE  r <= t
    <2>1. t \in Nat
      BY <1>2
    <2> QED  BY <2>1, <1>4
  <1>5. CASE b
    <2>1. HeldSince(j.sub, TRUE, s) /\ s < j.exp
      BY <1>5 DEF Grounded
    <2>2. HeldSince(j.sub, TRUE, r)
      BY <2>1, <1>3
    <2>3. r < j.exp
      BY <2>1, <1>1
    <2> QED  BY <2>2, <2>3, <1>5 DEF Grounded
  <1>6. CASE ~b
    BY <1>3, <1>4, <1>6 DEF Grounded
  <1> QED  BY <1>5, <1>6

-----------------------------------------------------------------------------
(* One step of each kind.                                                  *)

\* The clock and the ghosts stand still: what is grounded stays so.
LEMMA StillGrounded ==
  ASSUME AuthTypeOK, UNCHANGED <<now, account, changed>>, faulted \subseteq faulted'
  PROVE  \A j \in Jwt : \A b \in BOOLEAN : \A s \in Int :
            Grounded(j, b, s) => Grounded(j, b, s)'
  <1> SUFFICES ASSUME NEW j \in Jwt, NEW b \in BOOLEAN, NEW s \in Int, Grounded(j, b, s)
               PROVE  Grounded(j, b, s)'
    OBVIOUS
  <1>1. now \in Nat /\ now' \in Nat /\ now <= now'
    BY DEF AuthTypeOK
  <1>2. \A v \in BOOLEAN : HeldSince(j.sub, v, s) => HeldSince(j.sub, v, s)'
    BY DEF HeldSince
  <1> QED  BY <1>1, <1>2, GroundsKept

\* A request moves on to r, and nothing else happens that a ground rests on.
LEMMA StepOfOne ==
  ASSUME AuthInv, NEW w \in Workers, NEW r \in Requests, Goto(w, r),
         UNCHANGED <<now, account, changed>>, faulted \subseteq faulted',
         r # Idle => r.since <= now /\ now - r.since <= MaxTrip,
         r.pc = "answered" => Grounded(r.jwt, r.reply, r.since)'
  PROVE  req' \in [Workers -> Requests] /\ TripsAreShort' /\ AnswersAreGrounded'
  <1>1. req \in [Workers -> Requests]
    BY DEF AuthInv, AuthTypeOK
  <1>2. req' \in [Workers -> Requests]
    BY <1>1 DEF Goto
  <1>3. req'[w] = r /\ \A v \in Workers : v # w => req'[v] = req[v]
    BY <1>1 DEF Goto
  <1>4. TripsAreShort'
    BY <1>3 DEF AuthInv, TripsAreShort
  <1>5. ASSUME NEW v \in Workers, req'[v].pc = "answered"
        PROVE  Grounded(req[v].jwt, req[v].reply, req[v].since)'
    <2>1. CASE v = w
      BY <2>1, <1>3, <1>5
    <2>2. CASE v # w
      <3>1. req[v] \in Answered
        BY <2>2, <1>1, <1>3, <1>5, TripKinds
      <3>2. req[v].jwt \in Jwt /\ req[v].reply \in BOOLEAN /\ req[v].since \in Int
        BY <3>1 DEF Answered
      <3>3. Grounded(req[v].jwt, req[v].reply, req[v].since)
        BY <2>2, <1>3, <1>5 DEF AuthInv, AnswersAreGrounded
      <3> DEFINE x == req[v]
      <3>4. Grounded(x.jwt, x.reply, x.since) => \A y : y = x => Grounded(y.jwt, y.reply, y.since)
        OBVIOUS
      <3>5. \A j \in Jwt : \A b \in BOOLEAN : \A s \in Int :
               Grounded(j, b, s) => Grounded(j, b, s)'
        BY StillGrounded DEF AuthInv
      <3>6. req'[v] = req[v]
        BY <2>2, <1>3
      <3>7. PICK j \in Jwt : j = req[v].jwt
        BY <3>2
      <3>8. PICK b \in BOOLEAN : b = req[v].reply
        BY <3>2
      <3>9. PICK s \in Int : s = req[v].since
        BY <3>2
      <3>10. Grounded(j, b, s)'
        BY <3>3, <3>5, <3>7, <3>8, <3>9
      <3>11. req'[v].jwt = j /\ req'[v].reply = b /\ req'[v].since = s
        BY <3>6, <3>7, <3>8, <3>9
      <3> QED  BY <3>10, <3>11
    <2> QED  BY <2>1, <2>2
  <1> QED  BY <1>2, <1>4, <1>5 DEF AnswersAreGrounded

\* The cache holds no answer that it did not hold, and nothing happens that a ground rests on.
LEMMA CacheStays ==
  ASSUME AuthInv, UNCHANGED <<now, account, changed>>, faulted \subseteq faulted',
         cache' \subseteq cache
  PROVE  CacheIsGrounded'
  <1> SUFFICES ASSUME NEW e \in cache
               PROVE  Grounded(e.jwt, e.active, e.checkedAt - MaxTrip)'
    BY DEF CacheIsGrounded
  <1>1. e \in CacheEntry
    BY DEF AuthInv, AuthTypeOK
  <1>2. e.jwt \in Jwt /\ e.active \in BOOLEAN /\ e.checkedAt - MaxTrip \in Int
    BY <1>1, AuthAssumption DEF CacheEntry
  <1>3. Grounded(e.jwt, e.active, e.checkedAt - MaxTrip)
    BY DEF AuthInv, CacheIsGrounded
  <1> QED  BY <1>2, <1>3, StillGrounded DEF AuthInv

\* The same for an administrator's step.
LEMMA AccountStep ==
  ASSUME AuthInv, NEW a \in Accounts, NEW st \in {"active", "disabled", "deleted"},
         Becomes(a, st), Operated, UNCHANGED <<now, session, cache, req, faulted>>
  PROVE  AuthInv'
  <1>1. /\ account' \in [Accounts -> {"new", "active", "disabled", "deleted"}]
        /\ changed' \in [Accounts -> SUBSET (0 .. now)]
        /\ \A b \in Accounts : \A v \in BOOLEAN : \A s \in Int :
               s <= now /\ HeldSince(b, v, s) => HeldSince(b, v, s)'
    BY BecomesDates DEF AuthInv
  <1>2. AuthTypeOK'
    BY <1>1, AuthAssumption DEF AuthInv, AuthTypeOK, Operated
  <1>3. ASSUME NEW j \in Jwt, NEW b \in BOOLEAN, NEW s \in Int, s <= now, Grounded(j, b, s)
        PROVE  Grounded(j, b, s)'
    <2>1. now \in Nat /\ now' \in Nat /\ now <= now'
      BY DEF AuthInv, AuthTypeOK
    <2>2. \A v \in BOOLEAN : HeldSince(j.sub, v, s) => HeldSince(j.sub, v, s)'
      BY <1>1, <1>3 DEF Jwt
    <2> QED  BY <1>3, <2>1, <2>2, GroundsKept
  <1>4. TripsAreShort'
    BY DEF AuthInv, TripsAreShort
  <1>5. ASSUME NEW w \in Workers, req[w].pc = "answered"
        PROVE  Grounded(req[w].jwt, req[w].reply, req[w].since)'
    <2>1. req[w] \in Requests
      BY DEF AuthInv, AuthTypeOK
    <2>2. req[w] \in Answered /\ req[w] # Idle
      BY <2>1, <1>5, TripKinds
    <2>3. req[w].jwt \in Jwt /\ req[w].reply \in BOOLEAN /\ req[w].since \in Int
      BY <2>2 DEF Answered
    <2>4. req[w].since <= now
      BY <2>2 DEF AuthInv, TripsAreShort
    <2>5. Grounded(req[w].jwt, req[w].reply, req[w].since)
      BY <1>5 DEF AuthInv, AnswersAreGrounded
    <2> QED  BY <1>3, <2>3, <2>4, <2>5
  <1>6. ASSUME NEW e \in cache
        PROVE  Grounded(e.jwt, e.active, e.checkedAt - MaxTrip)'
    <2>1. e \in CacheEntry /\ e.checkedAt <= now /\ now \in Nat
      BY DEF AuthInv, AuthTypeOK
    <2>2. /\ e.jwt \in Jwt /\ e.active \in BOOLEAN
          /\ e.checkedAt - MaxTrip \in Int /\ e.checkedAt - MaxTrip <= now
      BY <2>1, AuthAssumption DEF CacheEntry
    <2>3. Grounded(e.jwt, e.active, e.checkedAt - MaxTrip)
      BY DEF AuthInv, CacheIsGrounded
    <2> QED  BY <1>3, <2>2, <2>3
  <1> QED  BY <1>2, <1>4, <1>5, <1>6 DEF AuthInv, AnswersAreGrounded, CacheIsGrounded

-----------------------------------------------------------------------------
(* The actions.                                                            *)

LEMMA AuthInitially ==
  ASSUME Init
  PROVE  AuthInv
  <1>1. Idle \in Requests
    BY DEF Requests
  <1>2. Idle.pc # "answered"
    BY DEF Idle
  <1>3. AuthTypeOK
    BY <1>1, AuthAssumption DEF Init, AuthTypeOK
  <1> QED
    BY <1>2, <1>3
    DEF Init, AuthInv, TripsAreShort, AnswersAreGrounded, CacheIsGrounded

\* A login begins: a request that has the account's password.
LEMMA CreditedIsTyped ==
  ASSUME AuthInv, NEW a \in Accounts
  PROVE  /\ [pc |-> "credited", sub |-> a, since |-> now] \in Requests
         /\ now <= now /\ now - now <= MaxTrip
  <1>1. now \in Nat
    BY DEF AuthInv, AuthTypeOK
  <1> QED  BY <1>1, AuthAssumption DEF Requests

LEMMA RegisterKeeps ==
  ASSUME AuthInv, NEW w \in Workers, NEW a \in Accounts, Register(w, a)
  PROVE  AuthInv'
  <1> DEFINE r == [pc |-> "credited", sub |-> a, since |-> now]
  <1> USE DEF Register
  <1>1. r \in Requests /\ r.since <= now /\ now - r.since <= MaxTrip /\ r.pc # "answered"
    BY CreditedIsTyped
  <1>2. /\ account' \in [Accounts -> {"new", "active", "disabled", "deleted"}]
        /\ changed' \in [Accounts -> SUBSET (0 .. now)]
        /\ \A b \in Accounts : \A v \in BOOLEAN : \A s \in Int :
               s <= now /\ HeldSince(b, v, s) => HeldSince(b, v, s)'
    BY BecomesDates DEF AuthInv
  <1>3. req \in [Workers -> Requests] /\ now \in Nat
    BY DEF AuthInv, AuthTypeOK
  <1>4. req' \in [Workers -> Requests] /\ req'[w] = r
        /\ \A v \in Workers : v # w => req'[v] = req[v]
    BY <1>1, <1>3 DEF Goto
  <1>5. AuthTypeOK'
    BY <1>2, <1>4 DEF AuthInv, AuthTypeOK
  <1>6. TripsAreShort'
    BY <1>1, <1>4 DEF AuthInv, TripsAreShort
  <1>7. ASSUME NEW j \in Jwt, NEW b \in BOOLEAN, NEW s \in Int, s <= now, Grounded(j, b, s)
        PROVE  Grounded(j, b, s)'
    <2>1. now' \in Nat /\ now <= now'
      BY <1>3
    <2>2. \A v \in BOOLEAN : HeldSince(j.sub, v, s) => HeldSince(j.sub, v, s)'
      BY <1>2, <1>7 DEF Jwt
    <2> QED  BY <1>3, <1>7, <2>1, <2>2, GroundsKept
  <1>8. ASSUME NEW v \in Workers, req'[v].pc = "answered"
        PROVE  Grounded(req[v].jwt, req[v].reply, req[v].since)'
    <2>1. v # w /\ req'[v] = req[v]
      BY <1>1, <1>4, <1>8
    <2>2. req[v] \in Answered /\ req[v] # Idle
      BY <1>3, <1>8, <2>1, TripKinds
    <2>3. req[v].jwt \in Jwt /\ req[v].reply \in BOOLEAN /\ req[v].since \in Int
      BY <2>2 DEF Answered
    <2>4. req[v].since <= now
      BY <2>2 DEF AuthInv, TripsAreShort
    <2>5. Grounded(req[v].jwt, req[v].reply, req[v].since)
      BY <1>8, <2>1 DEF AuthInv, AnswersAreGrounded
    <2>6. PICK j \in Jwt : j = req[v].jwt
      BY <2>3
    <2>7. PICK b \in BOOLEAN : b = req[v].reply
      BY <2>3
    <2>8. PICK s \in Int : s = req[v].since
      BY <2>3
    <2>9. Grounded(j, b, s)'
      BY <1>7, <2>4, <2>5, <2>6, <2>7, <2>8
    <2> QED  BY <2>1, <2>6, <2>7, <2>8, <2>9
  <1>9. ASSUME NEW e \in cache
        PROVE  Grounded(e.jwt, e.active, e.checkedAt - MaxTrip)'
    <2>1. e \in CacheEntry /\ e.checkedAt <= now
      BY DEF AuthInv, AuthTypeOK
    <2>2. /\ e.jwt \in Jwt /\ e.active \in BOOLEAN
          /\ e.checkedAt - MaxTrip \in Int /\ e.checkedAt - MaxTrip <= now
      BY <1>3, <2>1, AuthAssumption DEF CacheEntry
    <2>3. Grounded(e.jwt, e.active, e.checkedAt - MaxTrip)
      BY DEF AuthInv, CacheIsGrounded
    <2> QED  BY <1>7, <2>2, <2>3
  <1> QED  BY <1>5, <1>6, <1>8, <1>9 DEF AuthInv, AnswersAreGrounded, CacheIsGrounded

LEMMA LoginKeeps ==
  ASSUME AuthInv, NEW w \in Workers, NEW a \in Accounts, Login(w, a)
  PROVE  AuthInv'
  <1> DEFINE r == [pc |-> "credited", sub |-> a, since |-> now]
  <1>1. r \in Requests /\ r.since <= now /\ now - r.since <= MaxTrip /\ r.pc # "answered"
    BY CreditedIsTyped
  <1>2. Goto(w, r) /\ UNCHANGED <<now, account, session, cache, changed, faulted, ops>>
    BY DEF Login
  <1> HIDE DEF r
  <1>3. req' \in [Workers -> Requests] /\ TripsAreShort' /\ AnswersAreGrounded'
    BY <1>1, <1>2, StepOfOne
  <1>4. CacheIsGrounded'
    BY <1>2, CacheStays
  <1>5. AuthTypeOK'
    BY <1>2, <1>3 DEF AuthInv, AuthTypeOK
  <1> QED  BY <1>3, <1>4, <1>5 DEF AuthInv

\* A request that ends without an answer to store.
LEMMA EndKeeps ==
  ASSUME AuthInv, NEW w \in Workers, Goto(w, Idle),
         UNCHANGED <<now, account, cache, changed, faulted, ops>>,
         session' \in [Sessions -> {Unused, Ended} \cup Rows]
  PROVE  AuthInv'
  <1>1. Idle \in Requests /\ Idle.pc # "answered"
    BY DEF Requests, Idle
  <1>2. req' \in [Workers -> Requests] /\ TripsAreShort' /\ AnswersAreGrounded'
    BY <1>1, StepOfOne
  <1>3. CacheIsGrounded'
    BY CacheStays
  <1>4. AuthTypeOK'
    BY <1>2 DEF AuthInv, AuthTypeOK
  <1> QED  BY <1>2, <1>3, <1>4 DEF AuthInv

LEMMA CreateSessionKeeps ==
  ASSUME AuthInv, NEW w \in Workers, NEW s \in Sessions, CreateSession(w, s)
  PROVE  AuthInv'
  <1> USE DEF CreateSession
  <1>1. req[w] \in Credited
    BY TripKinds DEF AuthInv, AuthTypeOK
  <1>2. [sub |-> req[w].sub, exp |-> now + JwtTTL] \in Jwt
    BY <1>1, AuthAssumption DEF Credited, Jwt, AuthInv, AuthTypeOK
  <1>3. session' \in [Sessions -> {Unused, Ended} \cup Rows]
    BY <1>2 DEF Rows, AuthInv, AuthTypeOK
  <1> QED  BY <1>3, EndKeeps

LEMMA LogoutKeeps ==
  ASSUME AuthInv, NEW s \in Sessions, Logout(s)
  PROVE  AuthInv'
  <1> USE DEF Logout
  <1>1. AuthTypeOK'
    BY DEF AuthInv, AuthTypeOK
  <1>2. TripsAreShort'
    BY DEF AuthInv, TripsAreShort
  <1>3. AnswersAreGrounded'
    BY DEF AuthInv, AnswersAreGrounded, Grounded, HeldSince, Unexpired
  <1>4. CacheIsGrounded'
    BY CacheStays
  <1> QED  BY <1>1, <1>2, <1>3, <1>4 DEF AuthInv

LEMMA EnterKeeps ==
  ASSUME AuthInv, NEW w \in Workers, NEW s \in Sessions, EnterAndAsk(w, s)
  PROVE  AuthInv'
  <1> DEFINE r == [pc |-> "asked", jwt |-> session[s].jwt, since |-> now]
  <1>1. now \in Nat /\ session[s].jwt \in Jwt
    BY RowHoldsJwt DEF AuthInv, AuthTypeOK, EnterAndAsk
  <1>2. r \in Requests /\ r.since <= now /\ now - r.since <= MaxTrip /\ r.pc # "answered"
    BY <1>1, AuthAssumption DEF Requests
  <1>3. Goto(w, r) /\ UNCHANGED <<now, account, session, cache, changed, faulted, ops>>
    BY DEF EnterAndAsk
  <1> HIDE DEF r
  <1>4. req' \in [Workers -> Requests] /\ TripsAreShort' /\ AnswersAreGrounded'
    BY <1>2, <1>3, StepOfOne
  <1>5. CacheIsGrounded'
    BY <1>3, CacheStays
  <1>6. AuthTypeOK'
    BY <1>3, <1>4 DEF AuthInv, AuthTypeOK
  <1> QED  BY <1>4, <1>5, <1>6 DEF AuthInv

\* auth answers b, for a reason that is no older than the request.
LEMMA AnswerKeeps ==
  ASSUME AuthInv, NEW w \in Workers, NEW b \in BOOLEAN, req[w].pc = "asked", Answer(w, b),
         UNCHANGED <<now, account, session, cache, changed, ops>>,
         faulted \subseteq faulted', faulted' \in SUBSET (0 .. now),
         \A j \in Jwt : \A s \in Int :
             j = req[w].jwt /\ s = req[w].since => Grounded(j, b, s)'
  PROVE  AuthInv'
  <1>1. req[w] \in Asked /\ req[w] # Idle
    BY TripKinds DEF AuthInv, AuthTypeOK
  <1>2. req[w].jwt \in Jwt /\ req[w].since \in Nat
    BY <1>1 DEF Asked
  <1>3. PICK j \in Jwt : j = req[w].jwt
    BY <1>2
  <1>4. PICK s \in Nat : s = req[w].since
    BY <1>2
  <1> DEFINE r == [pc |-> "answered", jwt |-> j, since |-> s, reply |-> b]
  <1>5. r \in Requests
    BY DEF Requests
  <1>6. s <= now /\ now - s <= MaxTrip
    BY <1>1, <1>4 DEF AuthInv, TripsAreShort
  <1>7. r.jwt = j /\ r.since = s /\ r.reply = b
    OBVIOUS
  <1>8. Grounded(j, b, s)'
    BY <1>3, <1>4
  <1>9. Goto(w, r)
    BY <1>3, <1>4 DEF Answer
  <1> HIDE DEF r
  <1>10. r.since <= now /\ now - r.since <= MaxTrip
    BY <1>6, <1>7
  <1>11. Grounded(r.jwt, r.reply, r.since)'
    BY <1>7, <1>8
  <1>12. req' \in [Workers -> Requests] /\ TripsAreShort' /\ AnswersAreGrounded'
    BY <1>5, <1>9, <1>10, <1>11, StepOfOne
  <1>13. CacheIsGrounded'
    BY CacheStays
  <1>14. AuthTypeOK'
    BY <1>12 DEF AuthInv, AuthTypeOK
  <1> QED  BY <1>12, <1>13, <1>14 DEF AuthInv

LEMMA VerifyKeeps ==
  ASSUME AuthInv, NEW w \in Workers, Verify(w)
  PROVE  AuthInv'
  <1>1. req[w].pc = "asked" /\ UNCHANGED <<now, account, session, cache, changed, faulted, ops>>
    BY DEF Verify
  <1>2. req[w] \in Asked /\ req[w] # Idle
    BY <1>1, TripKinds DEF AuthInv, AuthTypeOK
  <1>3. req[w].jwt \in Jwt /\ req[w].since \in Nat /\ req[w].since <= now /\ now \in Nat
    BY <1>2 DEF Asked, AuthInv, AuthTypeOK, TripsAreShort
  <1>4. PICK v \in BOOLEAN : v = (Unexpired(req[w].jwt) /\ account[req[w].jwt.sub] = "active")
    OBVIOUS
  <1>5. Answer(w, v)
    BY <1>4 DEF Verify
  <1>6. faulted \subseteq faulted' /\ faulted' \in SUBSET (0 .. now)
    BY <1>1 DEF AuthInv, AuthTypeOK
  <1>7. ASSUME NEW j \in Jwt, NEW s \in Int, j = req[w].jwt, s = req[w].since
        PROVE  Grounded(j, v, s)'
    <2>1. j.exp \in Nat /\ now' = now /\ account' = account
      BY <1>1 DEF Jwt
    <2>2. v <=> now < j.exp /\ account[j.sub] = "active"
      BY <1>4, <1>7 DEF Unexpired
    <2>3. CASE v
      <3>1. s < j.exp
        BY <1>3, <1>7, <2>1, <2>2, <2>3
      <3>2. HeldSince(j.sub, TRUE, s)'
        BY <2>1, <2>2, <2>3 DEF HeldSince
      <3> QED  BY <2>3, <3>1, <3>2 DEF Grounded
    <2>4. CASE ~v
      <3>1. ~Unexpired(j)' \/ HeldSince(j.sub, FALSE, s)'
        BY <2>1, <2>2, <2>4 DEF HeldSince, Unexpired
      <3> QED  BY <2>4, <3>1 DEF Grounded
    <2> QED  BY <2>3, <2>4
  <1> QED  BY <1>1, <1>5, <1>6, <1>7, AnswerKeeps

LEMMA VerifyFailsKeeps ==
  ASSUME AuthInv, NEW w \in Workers, VerifyFails(w)
  PROVE  AuthInv'
  <1> USE DEF VerifyFails
  <1>1. req[w] \in Asked /\ req[w] # Idle
    BY TripKinds DEF AuthInv, AuthTypeOK
  <1>2. req[w].since <= now /\ now \in Nat
    BY <1>1 DEF Asked, AuthInv, AuthTypeOK, TripsAreShort
  <1>3. faulted \subseteq faulted' /\ faulted' \in SUBSET (0 .. now)
    BY <1>2
  <1>4. ASSUME NEW j \in Jwt, NEW s \in Int, j = req[w].jwt, s = req[w].since
        PROVE  Grounded(j, FALSE, s)'
    BY <1>2, <1>4 DEF Grounded
  <1> QED  BY <1>3, <1>4, AnswerKeeps

LEMMA ArrivesKeeps ==
  ASSUME AuthInv, NEW w \in Workers, Arrives(w)
  PROVE  AuthInv'
  <1> DEFINE new == [jwt |-> req[w].jwt, active |-> req[w].reply, checkedAt |-> now]
  <1> USE DEF Arrives
  <1>1. req[w] \in Answered /\ req[w] # Idle
    BY TripKinds DEF AuthInv, AuthTypeOK
  <1>2. req[w].jwt \in Jwt /\ req[w].since \in Nat /\ req[w].reply \in BOOLEAN
    BY <1>1 DEF Answered
  <1>3. now \in Nat /\ now - req[w].since <= MaxTrip
    BY <1>1 DEF AuthInv, AuthTypeOK, TripsAreShort
  <1>4. \A e \in cache' : e \in cache \/ e = new
    BY DEF CacheSet
  <1>5. Idle \in Requests /\ Idle.pc # "answered"
    BY DEF Requests, Idle
  <1>6. req' \in [Workers -> Requests] /\ TripsAreShort' /\ AnswersAreGrounded'
    BY <1>5, StepOfOne
  <1>7. new \in CacheEntry /\ new.checkedAt <= now
    BY <1>2, <1>3 DEF CacheEntry
  <1>8. AuthTypeOK'
    BY <1>4, <1>6, <1>7 DEF AuthInv, AuthTypeOK
  <1>9. ASSUME NEW e \in cache'
        PROVE  Grounded(e.jwt, e.active, e.checkedAt - MaxTrip)'
    <2>1. e \in CacheEntry
      BY <1>8 DEF AuthTypeOK
    <2>2. e.jwt \in Jwt /\ e.active \in BOOLEAN /\ e.checkedAt - MaxTrip \in Int
      BY <2>1, AuthAssumption DEF CacheEntry
    <2>3. Grounded(e.jwt, e.active, e.checkedAt - MaxTrip)
      <3>1. CASE e \in cache
        BY <3>1 DEF AuthInv, CacheIsGrounded
      <3>2. CASE e = new
        <4>1. e.jwt = req[w].jwt /\ e.active = req[w].reply /\ e.checkedAt = now
          BY <3>2
        <4>2. Grounded(req[w].jwt, req[w].reply, req[w].since)
          BY DEF AuthInv, AnswersAreGrounded
        <4>3. Grounded(e.jwt, e.active, req[w].since)
          BY <4>1, <4>2
        <4>4. e.checkedAt - MaxTrip <= req[w].since
          BY <1>2, <1>3, <4>1, AuthAssumption
        <4>5. AuthTypeOK /\ req[w].since \in Int
          BY <1>2 DEF AuthInv
        <4> QED  BY <2>2, <4>3, <4>4, <4>5, GroundedEarlier
      <3> QED  BY <1>4, <3>1, <3>2
    <2>4. UNCHANGED <<now, account, changed>> /\ faulted \subseteq faulted' /\ AuthTypeOK
      BY DEF AuthInv
    <2> QED  BY <2>2, <2>3, <2>4, StillGrounded
  <1> QED  BY <1>6, <1>8, <1>9 DEF AuthInv, CacheIsGrounded

LEMMA RestartKeeps ==
  ASSUME AuthInv, SvcRestarts
  PROVE  AuthInv'
  <1> USE DEF SvcRestarts
  <1>1. Idle \in Requests /\ Idle.pc # "answered"
    BY DEF Requests, Idle
  <1>2. AuthTypeOK'
    BY <1>1 DEF AuthInv, AuthTypeOK
  <1> QED
    BY <1>1, <1>2 DEF AuthInv, TripsAreShort, AnswersAreGrounded, CacheIsGrounded

\* The ghosts forget only what is older than the grounds in use.
LEMMA TickKeepsGrounds ==
  ASSUME AuthInv, Tick, NEW j \in Jwt, NEW b \in BOOLEAN, NEW s \in Int, now - s < Grace,
         Grounded(j, b, s)
  PROVE  Grounded(j, b, s)'
  <1>1. now \in Nat /\ now' = now + 1 /\ account' = account /\ Grace \in Nat
    BY AuthAssumption DEF AuthInv, AuthTypeOK, Tick, Grace
  <1>2. j.sub \in Accounts
    BY DEF Jwt
  <1>3. changed[j.sub] \subseteq Nat /\ faulted \subseteq Nat
    BY <1>1, <1>2 DEF AuthInv, AuthTypeOK
  <1>4. changed'[j.sub] = {t \in changed[j.sub] : now - t < Grace}
        /\ faulted' = {t \in faulted : now - t < Grace}
    BY <1>2 DEF Tick
  <1>5. \A t \in Nat : s <= t => now - t < Grace
    BY <1>1
  <1>6. \A t \in changed[j.sub] : s <= t => t \in changed'[j.sub]
    BY <1>3, <1>4, <1>5
  <1>7. \A t \in faulted : s <= t => t \in faulted'
    BY <1>3, <1>4, <1>5
  <1>8. \A v \in BOOLEAN : HeldSince(j.sub, v, s) => HeldSince(j.sub, v, s)'
    BY <1>1, <1>6 DEF HeldSince
  <1>9. now' \in Nat /\ now <= now'
    BY <1>1
  <1> QED  BY <1>1, <1>7, <1>8, <1>9, GroundsKept

LEMMA TickKeeps ==
  ASSUME AuthInv, Tick
  PROVE  AuthInv'
  <1>1. now \in Nat /\ now' = now + 1 /\ req' = req
    BY DEF AuthInv, AuthTypeOK, Tick
  <1>2. 0 .. now \subseteq 0 .. now'
    BY <1>1
  <1>3. AuthTypeOK'
    <2>1. changed' \in [Accounts -> SUBSET (0 .. now')]
      BY <1>2 DEF AuthInv, AuthTypeOK, Tick
    <2>2. faulted' \in SUBSET (0 .. now')
      BY <1>2 DEF AuthInv, AuthTypeOK, Tick
    <2>3. cache' \subseteq CacheEntry /\ \A e \in cache' : e.checkedAt <= now'
      BY <1>1 DEF AuthInv, AuthTypeOK, Tick, CacheEntry
    <2> QED  BY <1>1, <2>1, <2>2, <2>3 DEF AuthInv, AuthTypeOK, Tick
  <1>4. ASSUME NEW w \in Workers, req[w] # Idle
        PROVE  /\ req[w].since \in Nat /\ req[w].since <= now
               /\ now - req[w].since < MaxTrip
    <2>1. req[w] \in Requests
      BY DEF AuthInv, AuthTypeOK
    <2>2. req[w].since \in Nat /\ "since" \in DOMAIN req[w]
      BY <1>4, <2>1, TripKinds
    <2> QED  BY <1>4, <2>2 DEF Tick, AuthInv, TripsAreShort
  <1>5. TripsAreShort'
    BY <1>1, <1>4, AuthAssumption DEF TripsAreShort
  <1>6. ASSUME NEW w \in Workers, req[w].pc = "answered"
        PROVE  Grounded(req[w].jwt, req[w].reply, req[w].since)'
    <2>1. req[w] \in Requests
      BY DEF AuthInv, AuthTypeOK
    <2>2. req[w] \in Answered /\ req[w] # Idle
      BY <1>6, <2>1, TripKinds
    <2>3. req[w].jwt \in Jwt /\ req[w].reply \in BOOLEAN /\ req[w].since \in Int
      BY <2>2 DEF Answered
    <2>4. now - req[w].since < Grace
      BY <1>1, <1>4, <2>2, AuthAssumption DEF Grace
    <2>5. Grounded(req[w].jwt, req[w].reply, req[w].since)
      BY <1>6 DEF AuthInv, AnswersAreGrounded
    <2>6. PICK j \in Jwt : j = req[w].jwt
      BY <2>3
    <2>7. PICK b \in BOOLEAN : b = req[w].reply
      BY <2>3
    <2>8. PICK s \in Int : s = req[w].since
      BY <2>3
    <2>9. Grounded(j, b, s)'
      BY <2>4, <2>5, <2>6, <2>7, <2>8, TickKeepsGrounds
    <2> QED  BY <1>1, <2>6, <2>7, <2>8, <2>9
  <1>7. ASSUME NEW e \in cache'
        PROVE  Grounded(e.jwt, e.active, e.checkedAt - MaxTrip)'
    <2>1. e \in cache /\ now - e.checkedAt < RevalidateTTL
      BY DEF Tick
    <2>2. e \in CacheEntry
      BY <2>1 DEF AuthInv, AuthTypeOK
    <2>3. e.jwt \in Jwt /\ e.active \in BOOLEAN /\ e.checkedAt \in Nat
      BY <2>2 DEF CacheEntry
    <2>4. e.checkedAt - MaxTrip \in Int /\ now - (e.checkedAt - MaxTrip) < Grace
      BY <1>1, <2>1, <2>3, AuthAssumption DEF Grace
    <2>5. Grounded(e.jwt, e.active, e.checkedAt - MaxTrip)
      BY <2>1 DEF AuthInv, CacheIsGrounded
    <2> QED  BY <2>3, <2>4, <2>5, TickKeepsGrounds
  <1> QED  BY <1>1, <1>3, <1>5, <1>6, <1>7 DEF AuthInv, AnswersAreGrounded, CacheIsGrounded

LEMMA AuthSteps ==
  ASSUME AuthInv, [Next]_vars
  PROVE  AuthInv'
  <1>1. CASE \E w \in Workers, a \in Accounts : Register(w, a) \/ Login(w, a)
    BY <1>1, RegisterKeeps, LoginKeeps
  <1>2. CASE \E w \in Workers, s \in Sessions : CreateSession(w, s) \/ EnterAndAsk(w, s)
    BY <1>2, CreateSessionKeeps, EnterKeeps
  <1>3. CASE \E w \in Workers : LoginFails(w) \/ Lost(w)
    <2>1. PICK w \in Workers : LoginFails(w) \/ Lost(w)
      BY <1>3
    <2>2. session' \in [Sessions -> {Unused, Ended} \cup Rows]
      BY <2>1 DEF LoginFails, Lost, AuthInv, AuthTypeOK
    <2> QED  BY <2>1, <2>2, EndKeeps DEF LoginFails, Lost
  <1>4. CASE \E w \in Workers : Verify(w) \/ VerifyFails(w) \/ Arrives(w)
    BY <1>4, VerifyKeeps, VerifyFailsKeeps, ArrivesKeeps
  <1>5. CASE \E s \in Sessions : Logout(s)
    BY <1>5, LogoutKeeps
  <1>6. CASE \E a \in Accounts :
               DeleteUser(a) \/ \E s \in {"active", "disabled"} : UpdateUser(a, s)
    BY <1>6, AccountStep DEF DeleteUser, UpdateUser
  <1>7. CASE SvcRestarts
    BY <1>7, RestartKeeps
  <1>8. CASE Tick
    BY <1>8, TickKeeps
  <1>9. CASE UNCHANGED vars
    <2> USE <1>9 DEF vars
    <2>1. AuthTypeOK'
      BY DEF AuthInv, AuthTypeOK
    <2>2. TripsAreShort'
      BY DEF AuthInv, TripsAreShort
    <2>3. AnswersAreGrounded'
      BY DEF AuthInv, AnswersAreGrounded, Grounded, HeldSince, Unexpired
    <2>4. CacheIsGrounded'
      BY CacheStays
    <2> QED  BY <2>1, <2>2, <2>3, <2>4 DEF AuthInv
  <1> QED
    BY <1>1, <1>2, <1>3, <1>4, <1>5, <1>6, <1>7, <1>8, <1>9 DEF Next

LEMMA AuthInvariance == AuthSpec => []AuthInv
  <1>1. Init => AuthInv
    BY AuthInitially
  <1>2. AuthInv /\ [Next]_vars => AuthInv'
    BY AuthSteps
  <1> QED  BY <1>1, <1>2, PTL DEF AuthSpec

\* What the invariant says of whoever would be let in or turned away now.
LEMMA SaidForCause ==
  ASSUME AuthInv, NEW j \in KnownJwts, NEW b \in BOOLEAN, Says(j, b)
  PROVE  /\ j \in Jwt
         /\ Grounded(j, b, now - Grace)
  <1>1. now \in Nat /\ Grace \in Nat /\ now - Grace \in Int /\ AuthTypeOK
    BY AuthAssumption DEF AuthInv, AuthTypeOK, Grace
  <1>2. CASE \E e \in CacheGet(j) : e.active = b
    <2>1. PICK e \in cache : e.jwt = j /\ now - e.checkedAt <= RevalidateTTL /\ e.active = b
      BY <1>2 DEF CacheGet
    <2>2. e \in CacheEntry
      BY DEF AuthInv, AuthTypeOK
    <2>3. e.jwt \in Jwt /\ e.checkedAt \in Nat
      BY <2>2 DEF CacheEntry
    <2>4. e.checkedAt - MaxTrip \in Int /\ now - Grace <= e.checkedAt - MaxTrip
      BY <1>1, <2>1, <2>3, AuthAssumption DEF Grace
    <2>5. Grounded(j, b, e.checkedAt - MaxTrip)
      BY <2>1 DEF AuthInv, CacheIsGrounded
    <2>6. j \in Jwt
      BY <2>1, <2>3
    <2> QED  BY <1>1, <2>4, <2>5, <2>6, GroundedEarlier
  <1>3. CASE \E w \in Workers : req[w].pc = "answered" /\ req[w].jwt = j /\ req[w].reply = b
    <2>1. PICK w \in Workers : req[w].pc = "answered" /\ req[w].jwt = j /\ req[w].reply = b
      BY <1>3
    <2>2. req[w] \in Requests
      BY DEF AuthInv, AuthTypeOK
    <2>3. req[w] \in Answered /\ req[w] # Idle
      BY <2>1, <2>2, TripKinds
    <2>4. req[w].jwt \in Jwt /\ req[w].since \in Int
      BY <2>3 DEF Answered
    <2>5. now - req[w].since <= MaxTrip
      BY <2>3 DEF AuthInv, TripsAreShort
    <2>6. now - Grace <= req[w].since
      BY <1>1, <2>4, <2>5, AuthAssumption DEF Grace
    <2>7. Grounded(j, b, req[w].since)
      BY <2>1 DEF AuthInv, AnswersAreGrounded
    <2>8. j \in Jwt
      BY <2>1, <2>4
    <2> QED  BY <1>1, <2>4, <2>6, <2>7, <2>8, GroundedEarlier
  <1> QED  BY <1>2, <1>3 DEF Says

\* What is dated from now - Grace on is within Grace.
LEMMA SinceIsWithin ==
  ASSUME AuthInv, NEW times \in SUBSET (0 .. now), \E t \in times : now - Grace <= t
  PROVE  Within(times, Grace)
  <1>1. PICK t \in times : now - Grace <= t
    OBVIOUS
  <1>2. now \in Nat /\ Grace \in Nat /\ t \in Nat
    BY <1>1, AuthAssumption DEF AuthInv, AuthTypeOK, Grace
  <1>3. now - t <= Grace
    BY <1>1, <1>2
  <1> QED  BY <1>1, <1>3 DEF Within

LEMMA HeldIsRecent ==
  ASSUME AuthInv, NEW a \in Accounts, NEW b \in BOOLEAN, HeldSince(a, b, now - Grace)
  PROVE  Recently(a, b, Grace)
  <1>1. changed[a] \in SUBSET (0 .. now)
    BY DEF AuthInv, AuthTypeOK
  <1> QED  BY <1>1, SinceIsWithin DEF HeldSince, Recently

-----------------------------------------------------------------------------
(* What is proved of the specification.                                    *)

\* auth's accounts, svc's sessions, its cache and its requests stay well-formed, and no
\* answer is dated in the future.
THEOREM AuthTyped == AuthSpec => []AuthTypeOK
  <1>1. AuthInv => AuthTypeOK
    BY DEF AuthInv
  <1> QED  BY <1>1, AuthInvariance, PTL

\* RequireSession and its activity cache: whoever is let in had an active account and a
\* JWT that was good within revalidateTTL and the longest request.
THEOREM OutIsOut == AuthSpec => []DisabledIsOut
  <1>1. AuthInv => DisabledIsOut
    <2> SUFFICES ASSUME AuthInv, NEW j \in KnownJwts, Says(j, TRUE)
                 PROVE  Recently(j.sub, TRUE, Grace) /\ now < j.exp + Grace
      BY DEF DisabledIsOut
    <2>1. j \in Jwt /\ Grounded(j, TRUE, now - Grace)
      BY SaidForCause
    <2>2. HeldSince(j.sub, TRUE, now - Grace) /\ now - Grace < j.exp
      BY <2>1 DEF Grounded
    <2>3. j.sub \in Accounts /\ j.exp \in Nat
      BY <2>1 DEF Jwt
    <2>4. now \in Nat /\ Grace \in Nat
      BY AuthAssumption DEF AuthInv, AuthTypeOK, Grace
    <2>5. now < j.exp + Grace
      BY <2>2, <2>3, <2>4
    <2> QED  BY <2>2, <2>3, <2>5, HeldIsRecent
  <1> QED  BY <1>1, AuthInvariance, PTL

\* And whoever is turned away as disabled was not active then, holds an expired JWT, or met
\* a failure of auth itself.
THEOREM RefusalsHaveCause == AuthSpec => []RefusedForCause
  <1>1. AuthInv => RefusedForCause
    <2> SUFFICES ASSUME AuthInv, NEW j \in KnownJwts, Says(j, FALSE)
                 PROVE  \/ Recently(j.sub, FALSE, Grace)
                        \/ ~Unexpired(j)
                        \/ Within(faulted, Grace)
      BY DEF RefusedForCause
    <2>1. j \in Jwt /\ Grounded(j, FALSE, now - Grace)
      BY SaidForCause
    <2>2. j.sub \in Accounts /\ faulted \in SUBSET (0 .. now)
      BY <2>1 DEF Jwt, AuthInv, AuthTypeOK
    <2>3. \/ HeldSince(j.sub, FALSE, now - Grace)
          \/ ~Unexpired(j)
          \/ \E t \in faulted : now - Grace <= t
      BY <2>1 DEF Grounded
    <2> QED  BY <2>2, <2>3, HeldIsRecent, SinceIsWithin
  <1> QED  BY <1>1, AuthInvariance, PTL

-----------------------------------------------------------------------------
(* Reset links.  A redemption hashes a password between its check and its  *)
(* transaction, so the invariant says what may have become of a link that  *)
(* a request has checked: it is still as it was, or it was closed after    *)
(* the check.                                                              *)

\* Tokens are stored in the order they are drawn.
DrawnInOrder ==
    \A j, k \in Tokens : j < k /\ token[k] # None => token[j] # None

\* NewestIsOpen without the clock: an unredeemed token is the last one of its user.
UnredeemedIsLast ==
    \A j, k \in Tokens :
        IsStored(j) /\ IsStored(k) /\ ~token[k].used /\ token[j].user = token[k].user => j <= k

\* A token is dated when it is used or deleted, not before.
OpenIsNotClosed ==
    \A k \in Tokens : token[k] = None \/ (IsStored(k) /\ ~token[k].used) => closed[k] = {}

\* No request is older than MaxWait.
RequestsAreRecent ==
    \A w \in Handlers :
        asked[w] # Unasked => asked[w].since <= clock /\ clock - asked[w].since <= MaxWait

\* As r found the token, or closed since.
StillAsChecked(r) ==
    \/ IsStored(r.token) /\ ~token[r.token].used /\ r.since < token[r.token].expiresAt
    \/ \E t \in closed[r.token] : r.since <= t

RequestsAreBacked ==
    \A w \in Handlers :
        /\ asked[w].pc = "stored" => token[asked[w].token] # None
        /\ asked[w].pc = "checked" => StillAsChecked(asked[w])

ResetInv ==
    /\ ResetTypeOK /\ DrawnInOrder /\ UnredeemedIsLast /\ OpenIsNotClosed
    /\ RequestsAreRecent /\ RequestsAreBacked

-----------------------------------------------------------------------------
(* Rows and requests.                                                      *)

Found == [pc : {"found"}, user : Users, since : Nat]
Stored == [pc : {"stored"}, token : Tokens, since : Nat]
Checked == [pc : {"checked"}, token : Tokens, user : Users, since : Nat]

\* How far a request is tells which fields it has.
LEMMA RequestKinds ==
  ASSUME NEW r \in ResetRequests
  PROVE  /\ r.pc = "found" => r \in Found
         /\ r.pc = "stored" => r \in Stored
         /\ r.pc = "checked" => r \in Checked
         /\ r # Unasked => r.pc \in {"found", "stored", "checked"} /\ r.since \in Nat
         /\ r = Unasked => r.pc = "idle"
  <1>1. ResetRequests = {Unasked} \cup Found \cup Stored \cup Checked
    BY DEF ResetRequests, Found, Stored, Checked
  <1>2. CASE r = Unasked
    BY <1>2 DEF Unasked
  <1>3. CASE r \in Found
    BY <1>3 DEF Found, Unasked
  <1>4. CASE r \in Stored
    BY <1>4 DEF Stored, Unasked
  <1>5. CASE r \in Checked
    BY <1>5 DEF Checked, Unasked
  <1> QED  BY <1>1, <1>2, <1>3, <1>4, <1>5

\* A row that is there has all its columns.
LEMMA RowKinds ==
  ASSUME ResetTypeOK, NEW k \in Tokens
  PROVE  /\ IsStored(k) <=> token[k] \in TokenRows
         /\ ~IsStored(k) => token[k] \in {None, Gone}
         /\ None # Gone /\ None \notin TokenRows /\ Gone \notin TokenRows
  BY DEF ResetTypeOK, IsStored, TokenRows, None, Gone

\* Closing a token dates it now.
LEMMA CloseDates ==
  ASSUME ResetTypeOK, NEW K \in SUBSET Tokens, Close(K)
  PROVE  /\ closed' \in [Tokens -> SUBSET (0 .. clock)]
         /\ \A k \in K : closed'[k] = {clock}
         /\ \A k \in Tokens \ K : closed'[k] = closed[k]
  BY DEF Close, ResetTypeOK

-----------------------------------------------------------------------------
(* Steps.                                                                  *)

\* Most steps leave the rows and their dates: what is left to show is what they do to
\* one request.
LEMMA RequestSteps ==
  ASSUME ResetInv, NEW w \in Handlers, NEW r \in ResetRequests, Proceed(w, r),
         UNCHANGED <<clock, users, token, closed>>,
         mailed' \subseteq {k \in Tokens : token[k] # None}, sets' \in [Tokens -> Nat],
         r # Unasked => r.since <= clock /\ clock - r.since <= MaxWait,
         r.pc = "stored" => token[r.token] # None,
         r.pc = "checked" => StillAsChecked(r)
  PROVE  ResetInv'
  <1> USE DEF ResetInv
  <1>1. asked' \in [Handlers -> ResetRequests]
        /\ asked'[w] = r /\ \A v \in Handlers \ {w} : asked'[v] = asked[v]
    BY DEF Proceed, ResetTypeOK
  <1>2. ResetTypeOK'
    BY <1>1 DEF ResetTypeOK, IsStored
  <1>3. RequestsAreRecent' /\ RequestsAreBacked'
    <2> SUFFICES ASSUME NEW v \in Handlers
                 PROVE  /\ asked'[v] # Unasked => /\ asked'[v].since <= clock'
                                                  /\ clock' - asked'[v].since <= MaxWait
                        /\ asked'[v].pc = "stored" => token'[asked'[v].token] # None
                        /\ asked'[v].pc = "checked" => StillAsChecked(asked[v])'
      BY DEF RequestsAreRecent, RequestsAreBacked
    <2>1. CASE v = w
      BY <2>1, <1>1 DEF StillAsChecked, IsStored
    <2>2. CASE v # w
      BY <2>2, <1>1 DEF StillAsChecked, IsStored, RequestsAreRecent, RequestsAreBacked
    <2> QED  BY <2>1, <2>2
  <1>4. DrawnInOrder' /\ UnredeemedIsLast' /\ OpenIsNotClosed'
    BY DEF DrawnInOrder, UnredeemedIsLast, OpenIsNotClosed, IsStored
  <1> QED  BY <1>2, <1>3, <1>4

\* A check that was under way when a row went is backed by the date of its end.
LEMMA ChecksSurvive ==
  ASSUME ResetInv, UNCHANGED clock, NEW K \in SUBSET Tokens, Close(K),
         \A k \in Tokens \ K : \/ token'[k] = token[k]
                               \/ ~(IsStored(k) /\ ~token[k].used),
         NEW w \in Handlers, asked[w].pc = "checked", asked'[w] = asked[w]
  PROVE  StillAsChecked(asked[w])'
  <1>1. asked[w] \in Checked /\ asked[w].since <= clock
    BY RequestKinds DEF ResetInv, ResetTypeOK, RequestsAreRecent, Unasked
  <1>2. asked[w].token \in Tokens
    BY <1>1 DEF Checked
  <1>3. StillAsChecked(asked[w])
    BY DEF ResetInv, RequestsAreBacked
  <1>4. CASE asked[w].token \in K
    BY <1>1, <1>4, CloseDates DEF ResetInv, StillAsChecked
  <1>5. CASE asked[w].token \notin K
    BY <1>1, <1>2, <1>3, <1>5, CloseDates DEF ResetInv, StillAsChecked, IsStored
  <1> QED  BY <1>4, <1>5

\* Rows are used or deleted, those of K while nobody had redeemed them, and requests
\* end: nothing else happens when a password is set or an account is deleted.
LEMMA RowsEnd ==
  ASSUME ResetInv, NEW K \in SUBSET Tokens, Close(K), UNCHANGED <<clock, mailed>>,
         \A j \in K : token[j] # None,
         token' \in [Tokens -> {None, Gone} \cup TokenRows],
         \A j \in Tokens : token'[j] = None <=> token[j] = None,
         \A j \in Tokens : IsStored(j)' =>
            /\ IsStored(j) /\ token'[j].user = token[j].user /\ token'[j].user \in users'
            /\ ~token'[j].used => token'[j] = token[j] /\ j \notin K,
         \A j \in Tokens \ K : token'[j] = token[j] \/ ~(IsStored(j) /\ ~token[j].used),
         users' \subseteq Users, sets' \in [Tokens -> Nat],
         asked' \in [Handlers -> ResetRequests],
         \A v \in Handlers : asked'[v] \in {asked[v], Unasked}
  PROVE  ResetInv'
  <1> USE DEF ResetInv
  <1>1. /\ closed' \in [Tokens -> SUBSET (0 .. clock)]
        /\ \A j \in Tokens \ K : closed'[j] = closed[j]
    BY CloseDates
  <1>2. ResetTypeOK'
    BY <1>1 DEF ResetTypeOK
  <1>3. DrawnInOrder' /\ UnredeemedIsLast'
    BY DEF DrawnInOrder, UnredeemedIsLast
  <1>4. OpenIsNotClosed'
    BY <1>1 DEF OpenIsNotClosed
  <1>5. RequestsAreRecent'
    BY DEF RequestsAreRecent
  <1>6. RequestsAreBacked'
    <2> SUFFICES ASSUME NEW v \in Handlers
                 PROVE  /\ asked'[v].pc = "stored" => token'[asked'[v].token] # None
                        /\ asked'[v].pc = "checked" => StillAsChecked(asked[v])'
      BY DEF RequestsAreBacked
    <2>1. CASE asked'[v] = Unasked
      BY <2>1 DEF Unasked
    <2>2. CASE asked'[v] = asked[v]
      <3>1. asked[v].pc = "stored" => asked[v].token \in Tokens
        BY RequestKinds DEF ResetTypeOK, Stored
      <3>2. asked[v].pc = "checked" => StillAsChecked(asked[v])'
        BY <2>2, ChecksSurvive
      <3> QED  BY <2>2, <3>1, <3>2 DEF RequestsAreBacked
    <2> QED  BY <2>1, <2>2
  <1> QED  BY <1>2, <1>3, <1>4, <1>5, <1>6

LEMMA ResetStep ==
  ASSUME ResetInv, [ResetNext]_resetVars
  PROVE  ResetInv'
  <1> USE DEF ResetInv
  <1>idle. Unasked \in ResetRequests /\ Unasked.pc = "idle"
    BY DEF Unasked, ResetRequests
  <1>wait. MaxWait \in Nat /\ clock \in Nat /\ ResetTTL \in Nat
    BY ResetAssumption DEF ResetTypeOK
  <1>1. ASSUME NEW w \in Handlers, NEW u \in Users, Forgot(w, u)
        PROVE  ResetInv'
    <2> DEFINE r == [pc |-> "found", user |-> u, since |-> clock]
    <2>1. r \in ResetRequests /\ r.pc = "found" /\ r.since = clock
      BY <1>wait DEF ResetRequests
    <2> HIDE DEF r
    <2>2. Proceed(w, r)
      BY <1>1 DEF Forgot, r
    <2> QED  BY <1>1, <2>1, <2>2, <1>wait, RequestSteps DEF Forgot, ResetTypeOK
  <1>2. ASSUME NEW w \in Handlers, NEW k \in Tokens, CheckToken(w, k)
        PROVE  ResetInv'
    <2> DEFINE r == [pc |-> "checked", token |-> k, user |-> token[k].user, since |-> clock]
    <2>1. token[k] \in TokenRows /\ ~token[k].used /\ clock < token[k].expiresAt
      BY <1>2, RowKinds DEF CheckToken, Open
    <2>2. r \in ResetRequests /\ r.pc = "checked" /\ r.since = clock /\ r.token = k
      BY <1>wait, <2>1 DEF ResetRequests, TokenRows
    <2> HIDE DEF r
    <2>3. Proceed(w, r) /\ IsStored(k)
      BY <1>2 DEF CheckToken, Open, r
    <2>4. StillAsChecked(r)
      BY <2>1, <2>2, <2>3 DEF StillAsChecked
    <2> QED  BY <1>2, <2>2, <2>3, <2>4, <1>wait, RequestSteps DEF CheckToken, ResetTypeOK
  <1>3. ASSUME NEW w \in Handlers, SendResetEmail(w)
        PROVE  ResetInv'
    <2>1. asked[w] \in Stored /\ token[asked[w].token] # None
      BY <1>3, RequestKinds DEF SendResetEmail, ResetTypeOK, RequestsAreBacked
    <2>2. mailed' \subseteq {k \in Tokens : token[k] # None}
      BY <1>3, <2>1 DEF SendResetEmail, Deliver, ResetTypeOK, Stored
    <2> QED  BY <1>3, <1>idle, <2>2, RequestSteps DEF SendResetEmail, ResetTypeOK
  <1>4. ASSUME NEW w \in Handlers, GiveUp(w)
        PROVE  ResetInv'
    BY <1>4, <1>idle, RequestSteps DEF GiveUp, ResetTypeOK
  <1>5. CASE ClockTicks
    <2>1. ResetTypeOK'
      BY <1>5, <1>wait DEF ClockTicks, ResetTypeOK, IsStored
    <2>2. RequestsAreRecent'
      BY <1>5, <1>wait, RequestKinds DEF ClockTicks, RequestsAreRecent, ResetTypeOK
    <2>3. RequestsAreBacked'
      BY <1>5 DEF ClockTicks, RequestsAreBacked, StillAsChecked, IsStored
    <2> QED
      BY <1>5, <2>1, <2>2, <2>3
      DEF ClockTicks, DrawnInOrder, UnredeemedIsLast, OpenIsNotClosed, IsStored
  <1>6. ASSUME NEW w \in Handlers, NEW k \in Tokens, StoreResetToken(w, k)
        PROVE  ResetInv'
    <2> DEFINE u == asked[w].user
               new == [row |-> "there", user |-> u, expiresAt |-> asked[w].since + ResetTTL,
                       used |-> FALSE]
               r == [pc |-> "stored", token |-> k, since |-> asked[w].since]
    <2>1. /\ asked[w] \in Found /\ u \in users /\ asked[w].since \in Nat
          /\ asked[w].since <= clock /\ clock - asked[w].since <= MaxWait
      BY <1>6, RequestKinds DEF StoreResetToken, ResetTypeOK, RequestsAreRecent, Found, Unasked
    <2>2. new \in TokenRows /\ new.row = "there" /\ new.user = u /\ ~new.used
      BY <1>wait, <2>1 DEF TokenRows, ResetTypeOK
    <2>3. r \in ResetRequests /\ r.pc = "stored" /\ r.token = k /\ r.since = asked[w].since
      BY <2>1 DEF ResetRequests
    <2>4. NextToken(k) /\ token[k] = None /\ k \notin Unredeemed(u)
      BY <1>6 DEF StoreResetToken, NextToken, Unredeemed, IsStored, None
    <2> HIDE DEF new, r
    <2>5. /\ token' = [j \in Tokens |-> IF j = k THEN new
                                        ELSE IF j \in Unredeemed(u) THEN Gone ELSE token[j]]
          /\ Close(Unredeemed(u)) /\ Proceed(w, r)
          /\ UNCHANGED <<clock, users, mailed, sets>>
      BY <1>6 DEF StoreResetToken, new, r
    <2>6. Unredeemed(u) \in SUBSET Tokens
      BY DEF Unredeemed
    <2>7. /\ closed' \in [Tokens -> SUBSET (0 .. clock)]
          /\ \A j \in Tokens \ Unredeemed(u) : closed'[j] = closed[j]
      BY <2>5, <2>6, CloseDates
    <2>8. /\ asked' \in [Handlers -> ResetRequests]
          /\ asked'[w] = r /\ \A v \in Handlers \ {w} : asked'[v] = asked[v]
      BY <2>3, <2>5 DEF Proceed, ResetTypeOK
    <2>9. /\ token'[k] = new
          /\ \A j \in Unredeemed(u) : token'[j] = Gone
          /\ \A j \in Tokens \ Unredeemed(u) : j # k => token'[j] = token[j]
      BY <2>4, <2>5, <2>6
    <2>10. \A j \in Tokens : token[j] # None => token'[j] # None /\ j # k
      BY <2>4, <2>9 DEF Gone, None
    <2>11. \A j \in Tokens : IsStored(j)' =>
              j = k \/ (j \notin Unredeemed(u) /\ IsStored(j) /\ token'[j] = token[j])
      BY <2>9 DEF IsStored, Gone
    <2>12. ResetTypeOK'
      <3>1. token' \in [Tokens -> {None, Gone} \cup TokenRows]
        BY <2>2, <2>5 DEF ResetTypeOK
      <3>2. \A j \in Tokens : IsStored(j)' => token'[j].user \in users'
        BY <2>1, <2>2, <2>5, <2>9, <2>11 DEF ResetTypeOK
      <3>3. mailed' \subseteq {j \in Tokens : token'[j] # None}
        BY <2>5, <2>10 DEF ResetTypeOK
      <3> QED  BY <2>5, <2>7, <2>8, <3>1, <3>2, <3>3 DEF ResetTypeOK
    <2>13. DrawnInOrder'
      <3>1. \A j \in Tokens : token'[j] # None => j = k \/ token[j] # None
        BY <2>9 DEF Unredeemed, IsStored, None
      <3> QED  BY <2>4, <2>10, <3>1 DEF DrawnInOrder, NextToken
    <2>14. UnredeemedIsLast'
      <3> SUFFICES ASSUME NEW i \in Tokens, NEW j \in Tokens, IsStored(i)', IsStored(j)',
                          ~token'[j].used, token'[i].user = token'[j].user
                   PROVE  i <= j
        BY DEF UnredeemedIsLast
      <3>1. i \in Nat /\ j \in Nat /\ k \in Nat
        BY ResetAssumption
      <3>2. CASE j = k
        <4>1. i = k \/ token[i] # None
          BY <2>11 DEF IsStored, None
        <4> QED  BY <3>1, <3>2, <4>1, <2>4 DEF DrawnInOrder
      <3>3. CASE j # k
        <4>1. IsStored(j) /\ token'[j] = token[j] /\ j \notin Unredeemed(u)
          BY <3>3, <2>11
        <4>2. token[j].user # u
          BY <4>1 DEF Unredeemed
        <4>3. i # k
          BY <2>2, <2>9, <4>1, <4>2
        <4> QED  BY <2>11, <4>1, <4>3 DEF UnredeemedIsLast
      <3> QED  BY <3>2, <3>3
    <2>15. OpenIsNotClosed'
      <3> SUFFICES ASSUME NEW j \in Tokens,
                          token'[j] = None \/ (IsStored(j)' /\ ~token'[j].used)
                   PROVE  closed'[j] = {}
        BY DEF OpenIsNotClosed
      <3>1. j \notin Unredeemed(u)
        BY <2>9 DEF IsStored, Gone, None
      <3>2. j = k \/ token'[j] = token[j]
        BY <3>1, <2>9
      <3> QED  BY <3>1, <3>2, <2>4, <2>7 DEF OpenIsNotClosed, IsStored
    <2>16. RequestsAreRecent'
      BY <2>1, <2>3, <2>5, <2>8 DEF RequestsAreRecent
    <2>17. RequestsAreBacked'
      <3> SUFFICES ASSUME NEW v \in Handlers
                   PROVE  /\ asked'[v].pc = "stored" => token'[asked'[v].token] # None
                          /\ asked'[v].pc = "checked" => StillAsChecked(asked[v])'
        BY DEF RequestsAreBacked
      <3>1. CASE v = w
        BY <3>1, <2>2, <2>3, <2>8, <2>9 DEF TokenRows, None
      <3>2. CASE v # w
        <4>1. asked'[v] = asked[v]
          BY <3>2, <2>8
        <4>2. asked[v].pc = "stored" => asked[v].token \in Tokens
          BY RequestKinds DEF ResetTypeOK, Stored
        <4>3. \A j \in Tokens \ Unredeemed(u) :
                 token'[j] = token[j] \/ ~(IsStored(j) /\ ~token[j].used)
          BY <2>4, <2>9 DEF IsStored, None
        <4>4. asked[v].pc = "checked" => StillAsChecked(asked[v])'
          BY <4>1, <4>3, <2>5, <2>6, ChecksSurvive
        <4> QED  BY <4>1, <4>2, <4>4, <2>10 DEF RequestsAreBacked
      <3> QED  BY <3>1, <3>2
    <2> QED  BY <2>12, <2>13, <2>14, <2>15, <2>16, <2>17
  <1>7. ASSUME NEW w \in Handlers, SetPassword(w)
        PROVE  ResetInv'
    <2> DEFINE k == asked[w].token
               K == IF IsStored(k) /\ ~token[k].used THEN {k} ELSE {}
    <2>1. k \in Tokens
      BY <1>7, RequestKinds DEF SetPassword, ResetTypeOK, Checked
    <2>2. /\ IF IsStored(k) THEN token' = [token EXCEPT ![k] = [token[k] EXCEPT !.used = TRUE]]
                            ELSE token' = token
          /\ Close(K) /\ UNCHANGED <<clock, users, mailed>>
      BY <1>7 DEF SetPassword
    <2>3. K \in SUBSET Tokens /\ \A j \in K : token[j] # None
      BY <2>1 DEF IsStored, None
    <2>4. sets' \in [Tokens -> Nat]
      BY <1>7, <2>1 DEF SetPassword, ResetTypeOK
    <2>5. /\ asked' \in [Handlers -> ResetRequests]
          /\ \A v \in Handlers : asked'[v] \in {asked[v], Unasked}
      BY <1>7, <1>idle DEF SetPassword, Proceed, ResetTypeOK
    <2>6. CASE IsStored(k)
      <3> DEFINE row == [token[k] EXCEPT !.used = TRUE]
      <3>1. /\ row \in TokenRows /\ row.used /\ row.user = token[k].user
            /\ row # None /\ token[k] # None
        BY <2>1, <2>6, RowKinds DEF TokenRows, None
      <3> HIDE DEF row
      <3>2. token' = [token EXCEPT ![k] = row]
        BY <2>2, <2>6 DEF row
      <3>3. /\ token' \in [Tokens -> {None, Gone} \cup TokenRows]
            /\ token'[k] = row /\ \A j \in Tokens \ {k} : token'[j] = token[j]
        BY <2>1, <3>1, <3>2 DEF ResetTypeOK
      <3>4. \A j \in Tokens \ K : token'[j] = token[j] \/ ~(IsStored(j) /\ ~token[j].used)
        BY <2>6, <3>3
      <3>5. \A j \in Tokens : IsStored(j)' =>
              /\ IsStored(j) /\ token'[j].user = token[j].user /\ token'[j].user \in users'
              /\ ~token'[j].used => token'[j] = token[j] /\ j \notin K
        BY <2>1, <2>2, <2>6, <3>1, <3>3 DEF ResetTypeOK, IsStored
      <3>6. \A j \in Tokens : token'[j] = None <=> token[j] = None
        BY <3>1, <3>3
      <3> HIDE DEF K
      <3> QED
        BY <2>2, <2>3, <2>4, <2>5, <3>3, <3>4, <3>5, <3>6, RowsEnd DEF ResetTypeOK
    <2>7. CASE ~IsStored(k)
      <3>1. token' = token /\ K = {}
        BY <2>2, <2>7
      <3>2. \A j \in Tokens : IsStored(j)' =>
              IsStored(j) /\ token'[j].user = token[j].user /\ token'[j].user \in users'
        BY <2>2, <3>1 DEF ResetTypeOK, IsStored
      <3> HIDE DEF K
      <3> QED
        BY <2>2, <2>3, <2>4, <2>5, <3>1, <3>2, RowsEnd DEF ResetTypeOK
    <2> QED  BY <2>6, <2>7
  <1>8. ASSUME NEW u \in Users, DeleteUserRow(u)
        PROVE  ResetInv'
    <2> DEFINE own == {k \in Tokens : IsStored(k) /\ token[k].user = u}
               K == {k \in own : ~token[k].used}
    <2>1. /\ token' = [k \in Tokens |-> IF k \in own THEN Gone ELSE token[k]]
          /\ users' = users \ {u} /\ Close(K) /\ UNCHANGED <<clock, mailed, asked, sets>>
      BY <1>8 DEF DeleteUserRow
    <2>2. K \in SUBSET Tokens /\ \A j \in own : token[j] # None
      BY DEF IsStored, None
    <2>3. token' \in [Tokens -> {None, Gone} \cup TokenRows]
      BY <2>1 DEF ResetTypeOK
    <2>4. \A j \in Tokens : token'[j] = None <=> token[j] = None
      BY <2>1, <2>2 DEF None, Gone
    <2>5. \A j \in Tokens : IsStored(j)' =>
            /\ IsStored(j) /\ token'[j].user = token[j].user /\ token'[j].user \in users'
            /\ ~token'[j].used => token'[j] = token[j] /\ j \notin K
      BY <2>1 DEF IsStored, Gone, ResetTypeOK
    <2>6. \A j \in Tokens \ K : token'[j] = token[j] \/ ~(IsStored(j) /\ ~token[j].used)
      BY <2>1
    <2>7. /\ users' \subseteq Users /\ sets' \in [Tokens -> Nat]
          /\ asked' \in [Handlers -> ResetRequests]
          /\ \A v \in Handlers : asked'[v] \in {asked[v], Unasked}
      BY <2>1 DEF ResetTypeOK
    <2>8. \A j \in K : token[j] # None
      BY <2>2
    <2> HIDE DEF K
    <2> QED  BY <2>1, <2>2, <2>3, <2>4, <2>5, <2>6, <2>7, <2>8, RowsEnd
  <1>9. CASE UNCHANGED resetVars
    BY <1>9 DEF resetVars, ResetTypeOK, DrawnInOrder, UnredeemedIsLast, OpenIsNotClosed,
       RequestsAreRecent, RequestsAreBacked, StillAsChecked, IsStored
  <1> QED  BY <1>1, <1>2, <1>3, <1>4, <1>5, <1>6, <1>7, <1>8, <1>9 DEF ResetNext

LEMMA ResetStart == ResetInit => ResetInv
  <1> SUFFICES ASSUME ResetInit
               PROVE  ResetInv
    OBVIOUS
  <1>1. asked \in [Handlers -> ResetRequests] /\ \A w \in Handlers : asked[w] = Unasked
    BY DEF ResetInit, ResetRequests
  <1>2. \A k \in Tokens : token[k] = None /\ ~IsStored(k) /\ closed[k] = {}
    BY DEF ResetInit, IsStored, None
  <1>3. ResetTypeOK
    BY <1>1, <1>2 DEF ResetInit, ResetTypeOK
  <1> QED
    BY <1>1, <1>2, <1>3 DEF ResetInv, DrawnInOrder, UnredeemedIsLast, OpenIsNotClosed,
       RequestsAreRecent, RequestsAreBacked, Unasked

LEMMA ResetAlways == ResetSpec => []ResetInv
  BY ResetStart, ResetStep, PTL DEF ResetSpec

-----------------------------------------------------------------------------
\* The rows stay well-formed: a token belongs to an account that has a row, and only a
\* stored token is mailed (handler/password_reset.go).
THEOREM ResetTyped == ResetSpec => []ResetTypeOK
  <1>1. ResetInv => ResetTypeOK
    BY DEF ResetInv
  <1> QED  BY <1>1, ResetAlways, PTL

\* The link that works is the last one the user asked for (storeResetToken deletes the
\* unredeemed ones before it inserts).
THEOREM LastLinkWorks == ResetSpec => []NewestIsOpen
  <1>1. ResetInv => NewestIsOpen
    BY DEF ResetInv, UnredeemedIsLast, NewestIsOpen, Open
  <1> QED  BY <1>1, ResetAlways, PTL

\* ResetPassword looks at the row once, before it hashes: a token that is shut by then
\* was shut for no longer than one request takes.
THEOREM ShutIsShut == ResetSpec => ClosedTokenIsShut
  <1> DEFINE Step == \A k \in Tokens : sets'[k] # sets[k] =>
                       \/ Open(k)
                       \/ \E t \in closed[k] : clock - t <= MaxWait
                       \/ closed[k] = {} /\ clock - token[k].expiresAt < MaxWait
  <1>1. ResetInv /\ [ResetNext]_resetVars => [Step]_resetVars
    <2> SUFFICES ASSUME ResetInv, ResetNext, NEW k \in Tokens, sets'[k] # sets[k]
                 PROVE  \/ Open(k)
                        \/ \E t \in closed[k] : clock - t <= MaxWait
                        \/ closed[k] = {} /\ clock - token[k].expiresAt < MaxWait
      OBVIOUS
    <2>1. PICK w \in Handlers : SetPassword(w)
      BY DEF ResetNext, Forgot, StoreResetToken, CheckToken, SendResetEmail, GiveUp,
         DeleteUserRow, ClockTicks
    <2>2. k = asked[w].token /\ asked[w] \in Checked
      BY <2>1, RequestKinds DEF SetPassword, ResetInv, ResetTypeOK
    <2>3. StillAsChecked(asked[w]) /\ asked[w].since \in Nat /\ clock \in Nat
      BY <2>1, <2>2 DEF SetPassword, ResetInv, ResetTypeOK, RequestsAreBacked, Checked
    <2>4. clock - asked[w].since <= MaxWait /\ MaxWait \in Nat
      BY <2>2, ResetAssumption DEF ResetInv, RequestsAreRecent, Checked, Unasked
    <2>5. CASE /\ IsStored(k) /\ ~token[k].used
               /\ asked[w].since < token[k].expiresAt
      <3>1. token[k].expiresAt \in Nat
        BY <2>5, RowKinds DEF ResetInv, TokenRows
      <3>2. closed[k] = {}
        BY <2>5 DEF ResetInv, OpenIsNotClosed
      <3> QED  BY <2>3, <2>4, <2>5, <3>1, <3>2 DEF Open
    <2>6. ASSUME NEW t \in closed[k], asked[w].since <= t
          PROVE  clock - t <= MaxWait
      BY <2>3, <2>4, <2>6 DEF ResetInv, ResetTypeOK
    <2> QED  BY <2>2, <2>3, <2>5, <2>6 DEF StillAsChecked
  <1> QED  BY <1>1, ResetAlways, PTL DEF ResetSpec, ClosedTokenIsShut
=============================================================================
