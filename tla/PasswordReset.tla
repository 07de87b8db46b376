--------------------------- MODULE PasswordReset ----------------------------
(* Reset links (auth/internal/handler/password_reset.go): a token is       *)
(* stored and mailed, and later redeemed for a new password. Either        *)
(* handler reads first and writes in a transaction afterwards; between the *)
(* two a password is hashed or another request runs. As in AuthSession,    *)
(* MaxWait bounds how long a request takes, which the code does not.       *)
EXTENDS Integers

CONSTANTS
    Users,     \* accounts
    Tokens,    \* tokens, in the order they are drawn: 1, 2, ...; 32 random bytes in the code
    Handlers,  \* requests handled at once
    ResetTTL,  \* the hour after which a token expires
    MaxWait,   \* assumption: the longest request
    LastTime   \* bound: the clock stops here

ASSUME ResetAssumption ==
    /\ Tokens \subseteq Nat
    /\ ResetTTL \in Nat /\ MaxWait \in Nat

VARIABLES
    clock,    \* time.Now
    users,    \* users: the ids that have a row
    token,    \* password_reset_tokens: the row of a token
    mailed,   \* tokens whose mail reached its reader
    asked,    \* what each request is doing
    closed,   \* ghost: when the row of a token was used or deleted, if ever
    sets      \* ghost: how many passwords a token has set

resetVars == <<clock, users, token, mailed, asked, closed, sets>>

None == [row |-> "none"]
Gone == [row |-> "gone"]
TokenRows == [row : {"there"}, user : Users, expiresAt : Nat, used : BOOLEAN]
IsStored(k) == token[k].row = "there"

Unasked == [pc |-> "idle"]
ResetRequests ==
    {Unasked} \cup [pc : {"found"}, user : Users, since : Nat]
           \cup [pc : {"stored"}, token : Tokens, since : Nat]
           \cup [pc : {"checked"}, token : Tokens, user : Users, since : Nat]

Proceed(w, r) == asked' = [asked EXCEPT ![w] = r]

\* What the SELECT of ResetPassword accepts.
Open(k) == IsStored(k) /\ ~token[k].used /\ clock < token[k].expiresAt

Close(K) == closed' = [k \in Tokens |-> IF k \in K THEN {clock} ELSE closed[k]]

-----------------------------------------------------------------------------
(* ForgotPassword.                                                         *)

\* The email has an account.
Forgot(w, u) ==
    /\ asked[w] = Unasked
    /\ u \in users
    /\ Proceed(w, [pc |-> "found", user |-> u, since |-> clock])
    /\ UNCHANGED <<clock, users, token, mailed, closed, sets>>

\* Tokens of the user that nobody has redeemed, expired ones too.
Unredeemed(u) == {k \in Tokens : IsStored(k) /\ token[k].user = u /\ ~token[k].used}

NextToken(k) == token[k] = None /\ \A j \in Tokens : j < k => token[j] # None

\* Slip: earlier tokens are left as they are.
StoreBeside(w, k) ==
    /\ asked[w].pc = "found" /\ asked[w].user \in users
    /\ NextToken(k)
    /\ token' = [token EXCEPT ![k] =
           [row |-> "there", user |-> asked[w].user, expiresAt |-> asked[w].since + ResetTTL, used |-> FALSE]]
    /\ Proceed(w, [pc |-> "stored", token |-> k, since |-> asked[w].since])
    /\ UNCHANGED <<clock, users, mailed, closed, sets>>

\* storeResetToken, one transaction: the user's unredeemed tokens go, and the new
\* one, fresh from the generator, is inserted; its hour began when the user was found.
\* The row of the user must still be there.
StoreResetToken(w, k) ==
    /\ asked[w].pc = "found" /\ asked[w].user \in users
    /\ NextToken(k)
    /\ LET old == Unredeemed(asked[w].user) IN
         /\ token' = [j \in Tokens |->
                IF j = k THEN [row |-> "there", user |-> asked[w].user,
                               expiresAt |-> asked[w].since + ResetTTL, used |-> FALSE]
                ELSE IF j \in old THEN Gone ELSE token[j]]
         /\ Close(old)
    /\ Proceed(w, [pc |-> "stored", token |-> k, since |-> asked[w].since])
    /\ UNCHANGED <<clock, users, mailed, sets>>

\* The messaging service hands the mail to its SMTP server.
Deliver(k) == mailed' = mailed \cup {k}

\* sendResetEmail, which may fail: the answer is 200 all the same.
SendResetEmail(w) ==
    /\ asked[w].pc = "stored"
    /\ Deliver(asked[w].token)
    /\ Proceed(w, Unasked)
    /\ UNCHANGED <<clock, users, token, closed, sets>>

-----------------------------------------------------------------------------
(* ResetPassword.                                                          *)

\* Slip: a used token is accepted.
CheckAnyUse(w, k) ==
    /\ asked[w] = Unasked
    /\ k \in mailed /\ IsStored(k) /\ clock < token[k].expiresAt
    /\ Proceed(w, [pc |-> "checked", token |-> k, user |-> token[k].user, since |-> clock])
    /\ UNCHANGED <<clock, users, token, mailed, closed, sets>>

\* The row of the token is there, unused and not expired.
CheckToken(w, k) ==
    /\ asked[w] = Unasked
    /\ k \in mailed /\ Open(k)
    /\ Proceed(w, [pc |-> "checked", token |-> k, user |-> token[k].user, since |-> clock])
    /\ UNCHANGED <<clock, users, token, mailed, closed, sets>>

\* The new password has been hashed: one transaction sets it and marks the row, if
\* they are still there. Neither is looked at again.
SetPassword(w) ==
    /\ asked[w].pc = "checked"
    /\ LET k == asked[w].token IN
         /\ sets' = IF asked[w].user \in users THEN [sets EXCEPT ![k] = @ + 1] ELSE sets
         /\ IF IsStored(k) THEN token' = [token EXCEPT ![k].used = TRUE] ELSE UNCHANGED token
         /\ Close(IF IsStored(k) /\ ~token[k].used THEN {k} ELSE {})
    /\ Proceed(w, Unasked)
    /\ UNCHANGED <<clock, users, mailed>>

-----------------------------------------------------------------------------
\* A request is cut short: nothing is half done, but a mail may not be sent.
GiveUp(w) ==
    /\ asked[w] # Unasked
    /\ Proceed(w, Unasked)
    /\ UNCHANGED <<clock, users, token, mailed, closed, sets>>

\* DeleteUserRow, by an administrator: the user's tokens go with the row.
DeleteUserRow(u) ==
    /\ u \in users
    /\ users' = users \ {u}
    /\ LET own == {k \in Tokens : IsStored(k) /\ token[k].user = u} IN
         /\ token' = [k \in Tokens |-> IF k \in own THEN Gone ELSE token[k]]
         /\ Close({k \in own : ~token[k].used})
    /\ UNCHANGED <<clock, mailed, asked, sets>>

ClockTicks ==
    /\ clock < LastTime
    /\ \A w \in Handlers : asked[w] # Unasked => clock - asked[w].since < MaxWait
    /\ clock' = clock + 1
    /\ UNCHANGED <<users, token, mailed, asked, closed, sets>>

ResetInit ==
    /\ clock = 0
    /\ users = Users
    /\ token = [k \in Tokens |-> None]
    /\ mailed = {}
    /\ asked = [w \in Handlers |-> Unasked]
    /\ closed = [k \in Tokens |-> {}]
    /\ sets = [k \in Tokens |-> 0]

ResetNext ==
    \/ \E w \in Handlers, u \in Users : Forgot(w, u)
    \/ \E w \in Handlers, k \in Tokens : StoreResetToken(w, k) \/ CheckToken(w, k)
    \/ \E w \in Handlers : SendResetEmail(w) \/ SetPassword(w) \/ GiveUp(w)
    \/ \E u \in Users : DeleteUserRow(u)
    \/ ClockTicks

ResetSpec == ResetInit /\ [][ResetNext]_resetVars

-----------------------------------------------------------------------------
(* Properties.                                                             *)

\* The state is well-formed: a token belongs to a row of users, and is mailed once stored.
ResetTypeOK ==
    /\ clock \in Nat
    /\ users \subseteq Users
    /\ token \in [Tokens -> {None, Gone} \cup TokenRows]
    /\ \A k \in Tokens : IsStored(k) => token[k].user \in users
    /\ mailed \subseteq {k \in Tokens : token[k] # None}
    /\ asked \in [Handlers -> ResetRequests]
    /\ closed \in [Tokens -> SUBSET (0 .. clock)]
    /\ sets \in [Tokens -> Nat]

\* The link that works is the last one asked for: while a token of a user is open, the
\* user has no other row that was stored later, used or not, however requests for links
\* and redemptions overlap ("invalidates any prior unused reset tokens",
\* password_reset.go:86).
NewestIsOpen ==
    \A k \in Tokens : Open(k) =>
       \A j \in Tokens : IsStored(j) /\ token[j].user = token[k].user => j <= k

\* A token sets a password while it is open or, by requests that were under way, for
\* MaxWait after it was used, superseded or deleted, or expired; of a deleted account,
\* never.
ClosedTokenIsShut ==
    [][\A k \in Tokens : sets'[k] # sets[k] =>
          \/ Open(k)
          \/ \E t \in closed[k] : clock - t <= MaxWait
          \/ closed[k] = {} /\ clock - token[k].expiresAt < MaxWait]_resetVars

=============================================================================
