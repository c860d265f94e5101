---------------------------- MODULE AuthSessions ----------------------------
(***************************************************************************)
(* The api service's logins, sessions and changes of a user's authority    *)
(* (services/api/src/auth/service.ts and session.ts).                      *)
(*                                                                         *)
(* Users are Postgres rows, sessions Redis entries.  A change of a role,   *)
(* a status or a password raises the user's authority_version in one       *)
(* transaction and then deletes the user's sessions with a SCAN; a login   *)
(* reads the row, creates its session and reads the row again.  Requests   *)
(* run concurrently and every await is a step.                             *)
(*                                                                         *)
(* The token of a session is the login that created it.  Passwords, TOTP   *)
(* codes, the rate limiter, the CSRF token, the audit rows (written in the *)
(* change's own transaction) and who asks for a change are left out.  The  *)
(* roles analyst and viewer are one.  A login with wrong credentials       *)
(* changes nothing here.                                                   *)
(***************************************************************************)
EXTENDS Integers, FiniteSets

CONSTANTS
    User,           \* user ids, in Postgres's order
    Login,          \* the login requests of a behaviour
    Change,         \* the change requests of a behaviour
    Request,        \* other requests with a session, each used repeatedly
    None,           \* no owner of a row lock
    MaxFaults       \* bound: store failures in a behaviour

ASSUME AuthAssumption ==
    /\ User \subseteq Nat /\ IsFiniteSet(User) /\ User # {}
    /\ None \notin Change
    /\ MaxFaults \in Nat

VARIABLES
    users,          \* the rows: role, status, authority_version
    locks,          \* per row, the transaction that holds its lock
    login,          \* per login, where it is and what it read
    change,         \* per change, where it is and what it has
    request,        \* per request, the entry resolveSession read, if any
    sessions,       \* the Redis entries
    delivered,      \* history: the tokens clients were given
    revoked,        \* history: the tokens that were deleted
    answered,       \* history: per user, the last version answered as changed
    faults

vars == <<users, locks, login, change, request, sessions, delivered, revoked,
          answered, faults>>

Role == {"admin", "viewer"}
Status == {"active", "disabled"}
Row == [role : Role, status : Status, version : Nat]
Session == [token : Login, user : User, version : Nat]

ActiveAdmin(row) == row.role = "admin" /\ row.status = "active"

Tokens == {s.token : s \in sessions}

SessionsOf(u) == {s \in sessions : s.user = u}

TokensOf(u) == {s.token : s \in SessionsOf(u)}

NoUser == CHOOSE u \in User : TRUE

NoLogin(at) == [pc |-> at, user |-> NoUser, version |-> 0]

NoChange(at) == [pc |-> at, target |-> NoUser, role |-> {}, status |-> {},
                 todo |-> {}, admins |-> {}, version |-> 0]

Init ==
    /\ users \in [User -> [role : Role, status : Status, version : {0}]]
    /\ \E u \in User : ActiveAdmin(users[u])
    /\ locks = [u \in User |-> None]
    /\ login = [l \in Login |-> NoLogin("start")]
    /\ change = [c \in Change |-> NoChange("start")]
    /\ request = [r \in Request |-> {}]
    /\ sessions = {} /\ delivered = {} /\ revoked = {}
    /\ answered = [u \in User |-> 0]
    /\ faults = 0

Fault == faults < MaxFaults /\ faults' = faults + 1

(***************************************************************************)
(* A request that ended keeps nothing.                                     *)
(***************************************************************************)
EndLogin(l) == login' = [login EXCEPT ![l] = NoLogin("ended")]

EndChange(c) == change' = [change EXCEPT ![c] = NoChange("ended")]

(***************************************************************************)
(* DEL of session entries.                                                 *)
(***************************************************************************)
Delete(S) ==
    /\ sessions' = sessions \ S
    /\ revoked' = revoked \cup {s.token : s \in S}

-----------------------------------------------------------------------------
(***************************************************************************)
(* Login: the row is read and the credentials are right.                   *)
(***************************************************************************)
LoginRead(l) ==
    /\ login[l].pc = "start"
    /\ \E u \in User :
         /\ users[u].status = "active"
         /\ login' = [login EXCEPT ![l] =
              [pc |-> "verified", user |-> u, version |-> users[u].version]]
    /\ UNCHANGED <<users, locks, change, request, sessions, delivered, revoked,
                   answered, faults>>

CreateSession(l) ==
    /\ login[l].pc = "verified"
    /\ sessions' = sessions \cup
         {[token |-> l, user |-> login[l].user, version |-> login[l].version]}
    /\ login' = [login EXCEPT ![l].pc = "created"]
    /\ UNCHANGED <<users, locks, change, request, delivered, revoked, answered,
                   faults>>

(***************************************************************************)
(* The row again: a change that committed since the first read ends the    *)
(* login.  A defect, RecheckStatus: only the status is compared.           *)
(***************************************************************************)
RecheckStatus(l) ==
    /\ login[l].pc = "created"
    /\ login' = [login EXCEPT ![l].pc =
         IF users[login[l].user].status = "active" THEN "kept" ELSE "stale"]
    /\ UNCHANGED <<users, locks, change, request, sessions, delivered, revoked,
                   answered, faults>>

Recheck(l) ==
    LET row == users[login[l].user]
    IN  /\ login[l].pc = "created"
        /\ login' = [login EXCEPT ![l].pc =
             IF row.version = login[l].version /\ row.status = "active"
             THEN "kept" ELSE "stale"]
        /\ UNCHANGED <<users, locks, change, request, sessions, delivered,
                       revoked, answered, faults>>

RevokeStale(l) ==
    /\ login[l].pc = "stale"
    /\ Delete({s \in sessions : s.token = l})
    /\ EndLogin(l)
    /\ UNCHANGED <<users, locks, change, request, delivered, answered, faults>>

(***************************************************************************)
(* The answer, with the session's cookie.  (The UPDATE of last_login_at    *)
(* before it may wait for a change's row lock; here it may also not.)      *)
(***************************************************************************)
LoginReturn(l) ==
    /\ login[l].pc = "kept"
    /\ delivered' = delivered \cup {l}
    /\ EndLogin(l)
    /\ UNCHANGED <<users, locks, change, request, sessions, revoked, answered,
                   faults>>

(***************************************************************************)
(* A store fails on the way: a session that was created stays in Redis,    *)
(* and its token is given to nobody.                                       *)
(***************************************************************************)
LoginFails(l) ==
    /\ login[l].pc \in {"verified", "created", "stale", "kept"}
    /\ Fault
    /\ EndLogin(l)
    /\ UNCHANGED <<users, locks, change, request, sessions, delivered, revoked,
                   answered>>

-----------------------------------------------------------------------------
(***************************************************************************)
(* A change of role or status selects the org's active admins and the      *)
(* target FOR UPDATE; a password change only locks its target.  role and   *)
(* status hold the new value, or nothing when it stays.                    *)
(***************************************************************************)
Selected(target) == {u \in User : ActiveAdmin(users[u]) \/ u = target}

StartChange(c, target, role, status, rows) ==
    /\ change[c].pc = "start"
    /\ change' = [change EXCEPT ![c] =
         [pc |-> "locking", target |-> target, role |-> role, status |-> status,
          todo |-> rows, admins |-> {}, version |-> 0]]
    /\ UNCHANGED <<users, locks, login, request, sessions, delivered, revoked,
                   answered, faults>>

ChangeUser(c) ==
    \E target \in User :
        \/ \E role \in Role : StartChange(c, target, {role}, {}, Selected(target))
        \/ \E status \in Status :
             StartChange(c, target, {}, {status}, Selected(target))

ChangePassword(c) ==
    \E target \in User : StartChange(c, target, {}, {}, {target})

(***************************************************************************)
(* The rows are locked in user-id order; each is read when its lock is     *)
(* had, so one that changed meanwhile is seen as it now is.  Defects:      *)
(* AnyRow has no ORDER BY, ReadRow no FOR UPDATE.                          *)
(***************************************************************************)
AnyRow(rows) == rows

NextRow(rows) == {u \in rows : \A v \in rows : u <= v}

AfterRow(c, u) ==
    [change EXCEPT ![c].todo = @ \ {u},
                   ![c].admins = IF ActiveAdmin(users[u]) THEN @ \cup {u} ELSE @]

ReadRow(c) ==
    /\ change[c].pc = "locking"
    /\ \E u \in change[c].todo : change' = AfterRow(c, u)
    /\ UNCHANGED <<users, locks, login, request, sessions, delivered, revoked,
                   answered, faults>>

LockRow(c) ==
    /\ change[c].pc = "locking"
    /\ \E u \in NextRow(change[c].todo) :
         /\ locks[u] = None
         /\ locks' = [locks EXCEPT ![u] = c]
         /\ change' = AfterRow(c, u)
    /\ UNCHANGED <<users, login, request, sessions, delivered, revoked, answered,
                   faults>>

(***************************************************************************)
(* The end of a transaction releases its locks.                            *)
(***************************************************************************)
Unlocked(c) == [u \in User |-> IF locks[u] = c THEN None ELSE locks[u]]

Changed(c) ==
    LET row == users[change[c].target]
    IN  [role    |-> IF change[c].role = {} THEN row.role
                     ELSE CHOOSE r \in change[c].role : TRUE,
         status  |-> IF change[c].status = {} THEN row.status
                     ELSE CHOOSE s \in change[c].status : TRUE,
         version |-> row.version + 1]

Decided(c) == change[c].pc = "locking" /\ change[c].todo = {}

(***************************************************************************)
(* The last active admin is kept (409).                                    *)
(***************************************************************************)
RemovesLastAdmin(c) ==
    /\ change[c].target \in change[c].admins
    /\ ~ActiveAdmin(Changed(c))
    /\ Cardinality(change[c].admins) <= 1

Refuse(c) ==
    /\ Decided(c)
    /\ RemovesLastAdmin(c)
    /\ locks' = Unlocked(c)
    /\ EndChange(c)
    /\ UNCHANGED <<users, login, request, sessions, delivered, revoked, answered,
                   faults>>

(***************************************************************************)
(* COMMIT.  Then the SCAN starts: it is sure to return the entries that    *)
(* are there now and stay.  Those of other users are read and left.        *)
(***************************************************************************)
Write(c) ==
    /\ users' = [users EXCEPT ![change[c].target] = Changed(c)]
    /\ locks' = Unlocked(c)

Commit(c) ==
    /\ Decided(c)
    /\ ~RemovesLastAdmin(c)
    /\ Write(c)
    /\ change' = [change EXCEPT ![c].pc = "deleting",
                                ![c].todo = TokensOf(change[c].target),
                                ![c].version = Changed(c).version]
    /\ UNCHANGED <<login, request, sessions, delivered, revoked, answered, faults>>

(***************************************************************************)
(* The transaction fails and is rolled back.  Or the COMMIT got no answer: *)
(* the deletion is tried, the request fails either way, and the server may *)
(* commit later.                                                           *)
(***************************************************************************)
RollBack(c) ==
    /\ change[c].pc = "locking"
    /\ Fault
    /\ locks' = Unlocked(c)
    /\ EndChange(c)
    /\ UNCHANGED <<users, login, request, sessions, delivered, revoked, answered>>

CommitUnanswered(c) ==
    /\ Decided(c)
    /\ ~RemovesLastAdmin(c)
    /\ Fault
    /\ change' = [change EXCEPT ![c].pc = "uncertain"]
    /\ UNCHANGED <<users, locks, login, request, sessions, delivered, revoked,
                   answered>>

DeleteUncertain(c) ==
    /\ change[c].pc = "uncertain"
    /\ \E S \in SUBSET SessionsOf(change[c].target) : S # {} /\ Delete(S)
    /\ UNCHANGED <<users, locks, login, change, request, delivered, answered,
                   faults>>

SettleUncertain(c) ==
    /\ change[c].pc = "uncertain"
    /\ \/ Write(c)
       \/ locks' = Unlocked(c) /\ UNCHANGED users
    /\ EndChange(c)
    /\ UNCHANGED <<login, request, sessions, delivered, revoked, answered, faults>>

(***************************************************************************)
(* revokeAllForUser: an entry the SCAN returned is read and deleted if it  *)
(* is the user's.  An entry created during the SCAN may be returned.       *)
(***************************************************************************)
DeleteNext(c) ==
    /\ change[c].pc = "deleting"
    /\ \E s \in SessionsOf(change[c].target) :
         /\ Delete({s})
         /\ change' = [change EXCEPT ![c].todo = @ \ {s.token}]
    /\ UNCHANGED <<users, locks, login, request, delivered, answered, faults>>

DeleteDone(c) ==
    LET u == change[c].target
    IN  /\ change[c].pc = "deleting"
        /\ change[c].todo \cap Tokens = {}
        /\ answered' = [answered EXCEPT ![u] =
             IF @ >= change[c].version THEN @ ELSE change[c].version]
        /\ EndChange(c)
        /\ UNCHANGED <<users, locks, login, request, sessions, delivered, revoked,
                       faults>>

DeleteFails(c) ==
    /\ change[c].pc = "deleting"
    /\ Fault
    /\ EndChange(c)
    /\ UNCHANGED <<users, locks, login, request, sessions, delivered, revoked,
                   answered>>

-----------------------------------------------------------------------------
(***************************************************************************)
(* resolveSession: GET, then SET ... XX of the entry with its new          *)
(* last_seen.  A defect, TouchAnyway: SET without XX.                      *)
(***************************************************************************)
ResolveGet(r) ==
    /\ request[r] = {}
    /\ \E s \in sessions :
         /\ s.token \in delivered
         /\ request' = [request EXCEPT ![r] = {s}]
    /\ UNCHANGED <<users, locks, login, change, sessions, delivered, revoked,
                   answered, faults>>

TouchAnyway(r) ==
    /\ request[r] # {}
    /\ sessions' = sessions \cup request[r]
    /\ request' = [request EXCEPT ![r] = {}]
    /\ UNCHANGED <<users, locks, login, change, delivered, revoked, answered,
                   faults>>

ResolveTouch(r) ==
    /\ request[r] # {}
    /\ sessions' = {s \in sessions : \A e \in request[r] : s.token # e.token}
                   \cup {e \in request[r] : e.token \in Tokens}
    /\ request' = [request EXCEPT ![r] = {}]
    /\ UNCHANGED <<users, locks, login, change, delivered, revoked, answered,
                   faults>>

(***************************************************************************)
(* A logout, an idle session, or one past its cap.                         *)
(***************************************************************************)
SessionEnds ==
    /\ \E s \in sessions : Delete({s})
    /\ UNCHANGED <<users, locks, login, change, request, delivered, answered,
                   faults>>

-----------------------------------------------------------------------------
LoginStep(l) ==
    LoginRead(l) \/ CreateSession(l) \/ Recheck(l) \/ RevokeStale(l) \/ LoginReturn(l)

ChangeStep(c) ==
    \/ LockRow(c) \/ Refuse(c) \/ Commit(c) \/ SettleUncertain(c)
    \/ DeleteNext(c) \/ DeleteDone(c)

ChangeFault(c) ==
    RollBack(c) \/ CommitUnanswered(c) \/ DeleteUncertain(c) \/ DeleteFails(c)

AllEnded ==
    /\ \A l \in Login : login[l].pc = "ended"
    /\ \A c \in Change : change[c].pc = "ended"
    /\ UNCHANGED vars

Next ==
    \/ \E l \in Login : LoginStep(l) \/ LoginFails(l)
    \/ \E c \in Change :
         ChangeUser(c) \/ ChangePassword(c) \/ ChangeStep(c) \/ ChangeFault(c)
    \/ \E r \in Request : ResolveGet(r) \/ ResolveTouch(r)
    \/ SessionEnds
    \/ AllEnded

(***************************************************************************)
(* A change that was started runs to its end.                              *)
(***************************************************************************)
Fairness == \A c \in Change : WF_vars(ChangeStep(c))

Spec == Init /\ [][Next]_vars /\ Fairness

-----------------------------------------------------------------------------
(***************************************************************************)
(* Types, and that a row's lock is held by a transaction that is open,     *)
(* whose todo are rows (inTransaction of service.ts).                      *)
(***************************************************************************)
TypeOK ==
    /\ users \in [User -> Row]
    /\ locks \in [User -> Change \cup {None}]
    /\ \A u \in User : locks[u] # None =>
         change[locks[u]].pc \in {"locking", "uncertain"}
    /\ \A c \in Change : change[c].pc \in {"locking", "uncertain"} =>
         change[c].todo \subseteq User
    /\ login \in [Login -> [pc : {"start", "verified", "created", "kept", "stale",
                                  "ended"},
                             user : User, version : Nat]]
    /\ change \in [Change -> [pc : {"start", "locking", "uncertain", "deleting",
                                    "ended"},
                               target : User, role : SUBSET Role,
                               status : SUBSET Status, todo : SUBSET (User \cup Login),
                               admins : SUBSET User, version : Nat]]
    /\ request \in [Request -> SUBSET Session]
    /\ sessions \subseteq Session
    /\ delivered \subseteq Login /\ revoked \subseteq Login
    /\ answered \in [User -> Nat]
    /\ faults \in 0..MaxFaults

(***************************************************************************)
(* The strengthenings the proofs need.  LockInv: a change that is deciding *)
(* holds the lock of every admin it counted, so they still are, and the    *)
(* target is counted if it is one.  SessionInv: a token names one entry,   *)
(* made by its own login, and a request holds the entry as it is.          *)
(* StaleInv: a session older than a change that was answered, or that is   *)
(* being deleted and will not meet it, is not given to its client.         *)
(***************************************************************************)
LockOf(c) ==
    change[c].pc \in {"locking", "uncertain"} =>
        /\ change[c].target \in change[c].todo \/ locks[change[c].target] = c
        /\ change[c].pc = "uncertain" =>
             change[c].todo = {} /\ ~RemovesLastAdmin(c)
        /\ \A u \in change[c].admins : locks[u] = c /\ ActiveAdmin(users[u])
        /\ ActiveAdmin(users[change[c].target]) =>
             change[c].target \in change[c].todo \cup change[c].admins

LockInv == \A c \in Change : LockOf(c)

SessionInv ==
    /\ \A s, t \in sessions : s.token = t.token => s = t
    /\ \A l \in Login : login[l].pc \in {"start", "verified"} =>
         l \notin Tokens \cup revoked \cup delivered
    /\ \A l \in delivered : login[l].pc = "ended"
    /\ \A s \in sessions : login[s.token].pc # "ended" =>
         s.user = login[s.token].user /\ s.version = login[s.token].version
    /\ \A r \in Request : \A e \in request[r] :
         /\ request[r] = {e} /\ e.token \in delivered
         /\ \A s \in sessions : s.token = e.token => s = e

Unkept(s) == s.token \notin delivered /\ login[s.token].pc # "kept"

StaleInv ==
    /\ \A u \in User : answered[u] <= users[u].version
    /\ \A c \in Change : change[c].pc = "deleting" =>
         /\ change[c].version <= users[change[c].target].version
         /\ \A s \in sessions :
              s.user = change[c].target /\ s.version < change[c].version =>
                  s.token \in change[c].todo \/ Unkept(s)
    /\ \A s \in sessions : s.version < answered[s.user] => Unkept(s)

(***************************************************************************)
(* An org always has an active admin, however role and status changes      *)
(* interleave (service.ts changeUser, its FOR UPDATE and its 409).         *)
(***************************************************************************)
LastAdmin == \E u \in User : ActiveAdmin(users[u])

(***************************************************************************)
(* When a change of a user was answered, no client holds a session that    *)
(* was granted before it: neither one the SCAN missed because its login    *)
(* was under way, nor one of a login that read the row before              *)
(* (service.ts authorityChange and the second read of login).              *)
(***************************************************************************)
NoStaleSession ==
    \A s \in sessions : s.token \in delivered => s.version >= answered[s.user]

(***************************************************************************)
(* "a revocation that deletes the entry between the read and the rewrite   *)
(* stays done" (session.ts:73).                                            *)
(***************************************************************************)
RevokedStaysRevoked == Tokens \cap revoked = {}

(***************************************************************************)
(* A change that was started ends: changes never wait for each other's row *)
(* locks in a circle.                                                      *)
(***************************************************************************)
ChangesEnd ==
    \A c \in Change : (change[c].pc # "start") ~> (change[c].pc = "ended")
=============================================================================
