---------------------------- MODULE AuthSession -----------------------------
(* Who is let in (auth/internal/handler/auth.go, svc/internal/session,     *)
(* svc/internal/middleware). auth owns the accounts and signs a JWT at     *)
(* login; svc keeps the JWT in a session row behind a cookie, and lets a   *)
(* request in when auth has said of its JWT, at most RevalidateTTL ago,    *)
(* that the account is active. Requests overlap, and the cache of auth's   *)
(* answers is unlocked while one of them is asked.                         *)
(*                                                                         *)
(* Both processes run on one machine and read one clock. The code sets no  *)
(* timeout on its calls to auth: MaxTrip, how long a request takes at most,*)
(* is an assumption about the deployment.                                  *)
EXTENDS Integers

CONSTANTS
    Accounts,       \* account ids; newID never gives one twice
    EmailOf,        \* the email an account is registered with
    Sessions,       \* session ids
    Workers,        \* requests handled at once
    JwtTTL,         \* issueToken, 15 min
    RevalidateTTL,  \* revalidateTTL, 60 s
    MaxTrip,        \* assumption: the longest request
    LoginBy,        \* bound: no login starts later
    MaxOps,         \* bound: operations of administrators
    MaxTime         \* bound: the clock stops here

ASSUME AuthAssumption ==
    /\ JwtTTL \in Nat /\ RevalidateTTL \in Nat /\ MaxTrip \in Nat
    /\ MaxOps \in Nat

VARIABLES
    now,       \* time.Now, in both services
    account,   \* users: not yet there, active, disabled or deleted
    session,   \* sessions: the row of a session id, the JWT it holds
    cache,     \* activityCache of RequireSession
    req,       \* what each request is doing
    ops,       \* bound: operations of administrators so far
    changed,   \* ghost: when the account last became active or ceased to be
    faulted    \* ghost: when auth answered with an error

vars == <<now, account, session, cache, req, ops, changed, faulted>>

\* A JWT: issuing it again for the same account in the same second gives the
\* same string.
Jwt == [sub : Accounts, exp : Nat]
CacheEntry == [jwt : Jwt, active : BOOLEAN, checkedAt : Nat]

\* A session id is random and used once. Its row is there, and not expired, or no more.
Unused == [row |-> "unused"]
Ended == [row |-> "ended"]
Rows == [row : {"there"}, jwt : Jwt]
HasRow(s) == session[s].row = "there"

Idle == [pc |-> "idle"]
Requests ==
    {Idle} \cup [pc : {"credited"}, sub : Accounts, since : Nat]
           \cup [pc : {"asked"}, jwt : Jwt, since : Nat]
           \cup [pc : {"answered"}, jwt : Jwt, since : Nat, reply : BOOLEAN]

Live(a) == account[a] \in {"active", "disabled"}

\* jwt.Parse, in parseToken, RequireAdmin and Me: the expiry is exclusive.
Unexpired(j) == now < j.exp

Becomes(a, s) ==
    /\ account' = [account EXCEPT ![a] = s]
    /\ changed' = IF (s = "active") = (account[a] = "active") THEN changed
                  ELSE [changed EXCEPT ![a] = {now}]

\* How old auth's answer may be when it decides: revalidateTTL in the cache, and the
\* trip of the request that fetched it.
Grace == RevalidateTTL + MaxTrip

Goto(w, r) == req' = [req EXCEPT ![w] = r]

-----------------------------------------------------------------------------
(* Logging in: auth's answer, then the session row in svc.                 *)

\* Bound: no more logins than session ids, and none after LoginBy.
LoginsLeft == now <= LoginBy /\ \E s \in Sessions : session[s] = Unused

\* UNIQUE on users.email; a username conflicts in the same way.
EmailFree(a) == \A b \in Accounts : EmailOf[b] = EmailOf[a] => ~Live(b)

\* Register, the INSERT.
Register(w, a) ==
    /\ req[w] = Idle /\ LoginsLeft
    /\ account[a] = "new" /\ EmailFree(a)
    /\ Becomes(a, "active")
    /\ Goto(w, [pc |-> "credited", sub |-> a, since |-> now])
    /\ UNCHANGED <<now, session, cache, faulted, ops>>

\* Login: the row says active and the password matches.
Login(w, a) ==
    /\ req[w] = Idle /\ LoginsLeft
    /\ account[a] = "active"
    /\ Goto(w, [pc |-> "credited", sub |-> a, since |-> now])
    /\ UNCHANGED <<now, account, session, cache, changed, faulted, ops>>

\* issueToken, after the password has been hashed and without reading the row again,
\* and loginOrRegister's sessions.Create. If either fails, the login leaves nothing.
CreateSession(w, s) ==
    /\ req[w].pc = "credited"
    /\ session[s] = Unused
    /\ session' = [session EXCEPT ![s] =
           [row |-> "there", jwt |-> [sub |-> req[w].sub, exp |-> now + JwtTTL]]]
    /\ Goto(w, Idle)
    /\ UNCHANGED <<now, account, cache, changed, faulted, ops>>

\* Logout: the row goes, what the cache holds about the JWT stays. Seven days after
\* its creation a row is as good as gone, to store.Get.
Logout(s) ==
    /\ HasRow(s)
    /\ session' = [session EXCEPT ![s] = Ended]
    /\ UNCHANGED <<now, account, cache, req, changed, faulted, ops>>

-----------------------------------------------------------------------------
(* RequireSession.                                                         *)

\* activityCache.get
CacheGet(j) == {e \in cache : e.jwt = j /\ now - e.checkedAt <= RevalidateTTL}

\* activityCache.set: sweeps what is expired, then stores the answer as of now.
CacheSet(j, b) ==
    cache' = {e \in cache : e.jwt # j /\ now - e.checkedAt <= RevalidateTTL}
             \cup {[jwt |-> j, active |-> b, checkedAt |-> now]}

\* store.Get finds the row of the cookie, whatever the expiry of its JWT, and the cache
\* has no fresh answer: verifyActive sends the JWT to /auth/verify.
EnterAndAsk(w, s) ==
    /\ req[w] = Idle /\ HasRow(s)
    /\ CacheGet(session[s].jwt) = {}
    /\ Goto(w, [pc |-> "asked", jwt |-> session[s].jwt, since |-> now])
    /\ UNCHANGED <<now, account, session, cache, changed, faulted, ops>>

Answer(w, b) ==
    Goto(w, [pc |-> "answered", jwt |-> req[w].jwt, since |-> req[w].since, reply |-> b])

\* Slip: auth vouches for the claims of the JWT and does not read the row.
VerifyClaims(w) ==
    /\ req[w].pc = "asked"
    /\ Answer(w, Unexpired(req[w].jwt))
    /\ UNCHANGED <<now, account, session, cache, changed, faulted, ops>>

\* Verify: a JWT that parses, then the row of its subject.
Verify(w) ==
    /\ req[w].pc = "asked"
    /\ Answer(w, Unexpired(req[w].jwt) /\ account[req[w].jwt.sub] = "active")
    /\ UNCHANGED <<now, account, session, cache, changed, faulted, ops>>

\* Verify cannot read the row and answers 500: to verifyActive, any status but
\* 200 is an inactive account. Bound: one failure in Grace.
VerifyFails(w) ==
    /\ req[w].pc = "asked"
    /\ Unexpired(req[w].jwt)
    /\ faulted = {}
    /\ Answer(w, FALSE)
    /\ faulted' = {now}
    /\ UNCHANGED <<now, account, session, cache, changed, ops>>

\* The answer is stored, over whatever was stored meanwhile, and decides.
Arrives(w) ==
    /\ req[w].pc = "answered"
    /\ CacheSet(req[w].jwt, req[w].reply)
    /\ Goto(w, Idle)
    /\ UNCHANGED <<now, account, session, changed, faulted, ops>>

\* Slip: a call that fails is stored like a refusal.
LostIsStored(w) ==
    /\ req[w].pc \in {"asked", "answered"}
    /\ CacheSet(req[w].jwt, FALSE)
    /\ Goto(w, Idle)
    /\ UNCHANGED <<now, account, session, changed, faulted, ops>>

\* auth cannot be reached or its answer is lost: 503, and nothing is stored.
Lost(w) ==
    /\ req[w].pc \in {"asked", "answered"}
    /\ Goto(w, Idle)
    /\ UNCHANGED <<now, account, session, cache, changed, faulted, ops>>

\* A login ends without a session: wrong password, an error, a caller who is gone.
LoginFails(w) ==
    /\ req[w].pc = "credited"
    /\ Goto(w, Idle)
    /\ UNCHANGED <<now, account, session, cache, changed, faulted, ops>>

-----------------------------------------------------------------------------
(* Administration, and restarts.                                           *)

Operated == ops < MaxOps /\ ops' = ops + 1

\* UpdateUser: an administrator disables or enables an account.
UpdateUser(a, s) ==
    /\ Live(a) /\ s \in {"active", "disabled"}
    /\ Becomes(a, s)
    /\ Operated
    /\ UNCHANGED <<now, session, cache, req, faulted>>

\* DeleteUser. svc keeps the sessions of the account.
DeleteUser(a) ==
    /\ Live(a)
    /\ Becomes(a, "deleted")
    /\ Operated
    /\ UNCHANGED <<now, session, cache, req, faulted>>

\* svc restarts: requests and cache are gone, sessions are not.
SvcRestarts ==
    /\ cache' = {}
    /\ req' = [w \in Workers |-> Idle]
    /\ UNCHANGED <<now, account, session, changed, faulted, ops>>

\* Time passes. An entry that is no longer fresh is dropped here, not by the next
\* set: get sees it in neither case. The ghosts forget what no property looks back to.
Tick ==
    /\ now < MaxTime
    /\ \A w \in Workers : "since" \in DOMAIN req[w] => now - req[w].since < MaxTrip
    /\ now' = now + 1
    /\ changed' = [a \in Accounts |-> {t \in changed[a] : now - t < Grace}]
    /\ faulted' = {t \in faulted : now - t < Grace}
    /\ cache' = {e \in cache : now - e.checkedAt < RevalidateTTL}
    /\ UNCHANGED <<account, session, req, ops>>

-----------------------------------------------------------------------------
Init ==
    /\ now = 0
    /\ account = [a \in Accounts |-> "new"]
    /\ session = [s \in Sessions |-> Unused]
    /\ cache = {}
    /\ req = [w \in Workers |-> Idle]
    /\ ops = 0
    /\ changed = [a \in Accounts |-> {}]
    /\ faulted = {}

Next ==
    \/ \E w \in Workers, a \in Accounts : Register(w, a) \/ Login(w, a)
    \/ \E w \in Workers, s \in Sessions : CreateSession(w, s) \/ EnterAndAsk(w, s)
    \/ \E w \in Workers :
         LoginFails(w) \/ Verify(w) \/ VerifyFails(w) \/ Arrives(w) \/ Lost(w)
    \/ \E s \in Sessions : Logout(s)
    \/ \E a \in Accounts :
         DeleteUser(a) \/ \E s \in {"active", "disabled"} : UpdateUser(a, s)
    \/ SvcRestarts
    \/ Tick

AuthSpec == Init /\ [][Next]_vars

-----------------------------------------------------------------------------
(* Properties.                                                             *)

\* The state is well-formed, and nothing is dated in the future.
AuthTypeOK ==
    /\ now \in Nat
    /\ account \in [Accounts -> {"new", "active", "disabled", "deleted"}]
    /\ session \in [Sessions -> {Unused, Ended} \cup Rows]
    /\ cache \subseteq CacheEntry
    /\ req \in [Workers -> Requests]
    /\ ops \in 0 .. MaxOps
    /\ changed \in [Accounts -> SUBSET (0 .. now)]
    /\ faulted \in SUBSET (0 .. now)
    /\ \A e \in cache : e.checkedAt <= now

Within(times, d) == \E t \in times : now - t <= d

\* The account is active (b) or not, or was so at most d ago.
Recently(a, b, d) == (account[a] = "active") = b \/ Within(changed[a], d)

\* RequireSession would let a request with this JWT in, or turn it away as "account
\* disabled": the cache says so, or an answer that is about to be stored.
Says(j, b) ==
    \/ \E e \in CacheGet(j) : e.active = b
    \/ \E w \in Workers : req[w].pc = "answered" /\ req[w].jwt = j /\ req[w].reply = b

KnownJwts ==
    {e.jwt : e \in cache} \cup {req[w].jwt : w \in {v \in Workers : req[v].pc = "answered"}}

\* A disabled or deleted account is out for good after Grace, whatever answers overlap
\* and overwrite one another and whoever registers its email again; and so is a JWT that
\* has expired. This is what the comment on revalidateTTL promises (middleware/auth.go:57).
DisabledIsOut ==
    \A j \in KnownJwts :
       Says(j, TRUE) => Recently(j.sub, TRUE, Grace) /\ now < j.exp + Grace

\* A request is turned away as disabled only for cause: within Grace the account was not
\* active, or its JWT is expired, or auth itself failed. A call that was lost is no cause.
RefusedForCause ==
    \A j \in KnownJwts :
       Says(j, FALSE) => \/ Recently(j.sub, FALSE, Grace)
                        \/ ~Unexpired(j)
                        \/ Within(faulted, Grace)

\* "JWT expiry is intentionally not enforced here - session TTL (7 days) governs
\* access" (middleware/auth.go:128): an active account with a session is let in.
SessionTTLGoverns ==
    \A s \in Sessions : HasRow(s) /\ Says(session[s].jwt, FALSE) =>
       Recently(session[s].jwt.sub, FALSE, Grace) \/ Within(faulted, Grace)
=============================================================================
