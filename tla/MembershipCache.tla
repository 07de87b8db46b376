-------------------------- MODULE MembershipCache ---------------------------
(* How content answers "does this user belong to this project?"            *)
(* (content/internal/authz): svc owns the answer, SvcChecker asks it over  *)
(* HTTP and caches what it says. An answer is served from the cache for    *)
(* FreshTTL, and for StaleTolerance when svc does not answer. Several      *)
(* requests ask about the same pair at once, and the cache is unlocked     *)
(* while a request waits for svc.                                          *)
(*                                                                         *)
(* A key is a (user, project) pair. Time is the clock of content's process *)
(* in units; a request may take any time up to HttpTimeout, and a          *)
(* goroutine that holds an answer stores it within that time.              *)
EXTENDS Integers

CONSTANTS
    Keys,            \* (user, project) pairs
    Workers,         \* requests content handles at once
    FreshTTL,        \* freshTTL, 30 s
    StaleTolerance,  \* staleTolerance, 5 min
    HttpTimeout,     \* httpTimeout, 3 s
    MaxTime          \* bound: the clock stops here

ASSUME MembershipAssumption ==
    /\ FreshTTL \in Nat /\ StaleTolerance \in Nat /\ HttpTimeout \in Nat
    /\ FreshTTL <= StaleTolerance

VARIABLES
    now,       \* time.Now
    members,   \* project_members in svc: the keys that are members
    cache,     \* SvcChecker.cache
    call,      \* what each request is doing in requireProjectMember
    changed,   \* ghost: when the membership of a key last changed, if ever
    heard,     \* ghost: when svc's last answer about a key was received, if ever
    refused    \* ghost: keys refused since they last joined, see NoteRefusal

vars == <<now, members, cache, call, changed, heard, refused>>

CacheEntry == [key : Keys, member : BOOLEAN, checkedAt : Nat]

\* Where an answer comes from: a fresh entry, svc itself, a stale entry in place
\* of svc, or nowhere (503).
Via == {"fresh", "svc", "stale", "unavailable"}

Idle == [pc |-> "idle"]
Asked == [pc : {"asked"}, key : Keys, since : Nat]
Answered == [pc : {"answered"}, key : Keys, since : Nat, reply : BOOLEAN]
Done == [pc : {"done"}, key : Keys, member : BOOLEAN, via : Via]

InFlight(w) == call[w].pc \in {"asked", "answered"}

-----------------------------------------------------------------------------
(* The cache.                                                              *)

\* getCached: the entry of the key, if it is not older than maxAge.
GetCached(k, maxAge) == {e \in cache : e.key = k /\ now - e.checkedAt <= maxAge}

\* Slip: an answer does not replace an entry that is there.
SetCachedIfAbsent(k, b) ==
    LET kept == {e \in cache : now - e.checkedAt <= StaleTolerance} IN
    cache' = IF \E e \in kept : e.key = k THEN kept
             ELSE kept \cup {[key |-> k, member |-> b, checkedAt |-> now]}

\* Slip: the sweep drops what is no longer fresh.
SetCachedSweepingFresh(k, b) ==
    cache' = {e \in cache : e.key # k /\ now - e.checkedAt <= FreshTTL}
             \cup {[key |-> k, member |-> b, checkedAt |-> now]}

\* setCached: sweeps what is past staleTolerance, then stores the answer as of
\* now, whatever was stored while the request was under way.
SetCached(k, b) ==
    cache' = {e \in cache : e.key # k /\ now - e.checkedAt <= StaleTolerance}
             \cup {[key |-> k, member |-> b, checkedAt |-> now]}

\* IsMember returns to requireProjectMember.
Decide(w, k, b, via) ==
    call' = [call EXCEPT ![w] = [pc |-> "done", key |-> k, member |-> b, via |-> via]]

\* Another request holds a yes that svc gave it earlier and has not stored yet.
Outrun(w, k) ==
    \E v \in Workers \ {w} :
        call[v].pc = "answered" /\ call[v].key = k /\ call[v].reply

\* Ghost: a key that is not a member was refused, and no yes is under way that
\* could replace the no in the cache.
NoteRefusal(w, k, b) ==
    refused' = IF ~b /\ k \notin members /\ ~Outrun(w, k) THEN refused \cup {k}
               ELSE refused

-----------------------------------------------------------------------------
(* svc.                                                                    *)

\* Join or AddMember.
Joins(k) ==
    /\ k \notin members
    /\ members' = members \cup {k}
    /\ changed' = [changed EXCEPT ![k] = {now}]
    /\ refused' = refused \ {k}
    /\ UNCHANGED <<now, cache, call, heard>>

\* RemoveMember, or the cascade of a deleted project.
Leave(k) ==
    /\ k \in members
    /\ members' = members \ {k}
    /\ changed' = [changed EXCEPT ![k] = {now}]
    /\ UNCHANGED <<now, cache, call, heard, refused>>

\* InternalMembership: 200 or 404, read at some instant of the request.
SvcReads(w) ==
    /\ call[w].pc = "asked"
    /\ call' = [call EXCEPT ![w] =
            [pc |-> "answered", key |-> call[w].key, since |-> call[w].since,
             reply |-> call[w].key \in members]]
    /\ UNCHANGED <<now, members, cache, changed, heard, refused>>

-----------------------------------------------------------------------------
(* content: SvcChecker.IsMember.                                           *)

\* A fresh entry answers at once.
AnswerFresh(w, k) ==
    /\ call[w].pc = "idle"
    /\ \E e \in GetCached(k, FreshTTL) :
         /\ Decide(w, k, e.member, "fresh")
         /\ NoteRefusal(w, k, e.member)
    /\ UNCHANGED <<now, members, cache, changed, heard>>

\* No fresh entry: the lock is released and svc is asked.
AskSvc(w, k) ==
    /\ call[w].pc = "idle"
    /\ GetCached(k, FreshTTL) = {}
    /\ call' = [call EXCEPT ![w] = [pc |-> "asked", key |-> k, since |-> now]]
    /\ UNCHANGED <<now, members, cache, changed, heard, refused>>

\* svc's answer is stored and returned.
Arrives(w) ==
    /\ call[w].pc = "answered"
    /\ SetCached(call[w].key, call[w].reply)
    /\ Decide(w, call[w].key, call[w].reply, "svc")
    /\ heard' = [heard EXCEPT ![call[w].key] = {now}]
    /\ NoteRefusal(w, call[w].key, call[w].reply)
    /\ UNCHANGED <<now, members, changed>>

\* Slip: the fallback stores what it falls back on, which makes it fresh again.
FailsOverRenewing(w) ==
    /\ InFlight(w)
    /\ \E e \in GetCached(call[w].key, StaleTolerance) :
         /\ SetCached(e.key, e.member)
         /\ Decide(w, e.key, e.member, "stale")
         /\ NoteRefusal(w, e.key, e.member)
    /\ UNCHANGED <<now, members, changed, heard>>

\* svc cannot be reached, answers something else, or its answer is lost or too
\* late; an entry within staleTolerance answers in its place.
FailsOver(w) ==
    /\ InFlight(w)
    /\ \E e \in GetCached(call[w].key, StaleTolerance) :
         /\ Decide(w, call[w].key, e.member, "stale")
         /\ NoteRefusal(w, call[w].key, e.member)
    /\ UNCHANGED <<now, members, cache, changed, heard>>

\* The same without such an entry: 503.
FailsOutright(w) ==
    /\ InFlight(w)
    /\ GetCached(call[w].key, StaleTolerance) = {}
    /\ Decide(w, call[w].key, FALSE, "unavailable")
    /\ UNCHANGED <<now, members, cache, changed, heard, refused>>

\* requireProjectMember goes on or answers 403 or 503.
Return(w) ==
    /\ call[w].pc = "done"
    /\ call' = [call EXCEPT ![w] = Idle]
    /\ UNCHANGED <<now, members, cache, changed, heard, refused>>

\* Time passes; no request to svc outlives the client's timeout.
Tick ==
    /\ now < MaxTime
    /\ \A w \in Workers : InFlight(w) => now - call[w].since < HttpTimeout
    /\ now' = now + 1
    /\ UNCHANGED <<members, cache, call, changed, heard, refused>>

-----------------------------------------------------------------------------
Init ==
    /\ now = 0
    /\ members \in SUBSET Keys
    /\ cache = {}
    /\ call = [w \in Workers |-> Idle]
    /\ changed = [k \in Keys |-> {}]
    /\ heard = [k \in Keys |-> {}]
    /\ refused = {}

Next ==
    \/ \E k \in Keys : Joins(k) \/ Leave(k)
    \/ \E w \in Workers, k \in Keys : AnswerFresh(w, k) \/ AskSvc(w, k)
    \/ \E w \in Workers :
         SvcReads(w) \/ Arrives(w) \/ FailsOver(w) \/ FailsOutright(w) \/ Return(w)
    \/ Tick

MembershipSpec == Init /\ [][Next]_vars

-----------------------------------------------------------------------------
(* Properties.                                                             *)

\* The state is well-formed, and nothing is dated in the future.
MembershipTypeOK ==
    /\ now \in Nat
    /\ members \in SUBSET Keys
    /\ cache \subseteq CacheEntry
    /\ call \in [Workers -> {Idle} \cup Asked \cup Answered \cup Done]
    /\ changed \in [Keys -> SUBSET (0 .. now)]
    /\ heard \in [Keys -> SUBSET (0 .. now)]
    /\ refused \in SUBSET Keys
    /\ \A e \in cache : e.checkedAt <= now

\* The membership of the key is b, or stopped being b at most d ago.
Recently(k, b, d) ==
    \/ b = (k \in members)
    \/ \E t \in changed[k] : now - t <= d

\* How old an answer may be by the time it is given.
Grace(via) ==
    CASE via = "fresh" -> FreshTTL + HttpTimeout
      [] via = "svc"   -> HttpTimeout
      [] OTHER         -> StaleTolerance + HttpTimeout

Decides(w) == call[w].pc # "done" /\ call'[w].pc = "done"

\* What IsMember says was so when it was asked or a bounded time before it: the
\* three durations of authz.go add up as its comments say, however requests overlap,
\* fail and overwrite one another's answers. A removed member is out after
\* freshTTL + httpTimeout while svc answers, and staleTolerance + httpTimeout at worst.
AnswerIsRecent ==
    [][\A w \in Workers :
          Decides(w) /\ call'[w].via # "unavailable"
            => Recently(call'[w].key, call'[w].member, Grace(call'[w].via))]_vars

\* Once a key that is not a member has been refused with no earlier yes under
\* way, it stays refused until it joins: no outage and no sweep brings the old yes back.
RefusalStands ==
    [][\A w \in Workers :
          Decides(w) /\ call'[w].key \in refused => ~call'[w].member]_vars

\* A request is turned away with 503 only if svc has said nothing about its key for
\* longer than staleTolerance: requests for other keys, whose writes sweep the cache, do
\* not take the fallback away.
OutageTolerated ==
    [][\A w \in Workers :
          Decides(w) /\ call'[w].via = "unavailable"
            => \A t \in heard[call'[w].key] : now - t > StaleTolerance]_vars
=============================================================================
