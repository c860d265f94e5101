------------------------- MODULE AuthSessionsProofs -------------------------
(***************************************************************************)
(* Proofs about AuthSessions, for every set of users, logins, changes and  *)
(* requests.                                                               *)
(***************************************************************************)
EXTENDS AuthSessions, FiniteSetTheorems, TLAPS

(***************************************************************************)
(* The records a login and a change start from.                            *)
(***************************************************************************)
LoginRecord == [pc : {"start", "verified", "created", "kept", "stale", "ended"},
                user : User, version : Nat]

ChangeRecord == [pc : {"start", "locking", "uncertain", "deleting", "ended"},
                 target : User, role : SUBSET Role, status : SUBSET Status,
                 todo : SUBSET (User \cup Login), admins : SUBSET User,
                 version : Nat]

(***************************************************************************)
(* The empty records are records.                                          *)
(***************************************************************************)
LEMMA RecordsLemma ==
    /\ NoUser \in User
    /\ NoLogin("start") \in LoginRecord /\ NoLogin("ended") \in LoginRecord
    /\ NoChange("start") \in ChangeRecord /\ NoChange("ended") \in ChangeRecord
<1>1. NoUser \in User
  BY AuthAssumption DEF NoUser
<1>. QED
  BY <1>1 DEF NoLogin, NoChange, LoginRecord, ChangeRecord

(***************************************************************************)
(* What the UPDATE of a change writes: a row, with the next version.       *)
(***************************************************************************)
LEMMA ChangedLemma ==
    ASSUME TypeOK, NEW c \in Change
    PROVE  /\ change[c].target \in User
           /\ Changed(c) \in Row
           /\ Changed(c).version = users[change[c].target].version + 1
<1>. DEFINE row == users[change[c].target]
            role == IF change[c].role = {} THEN row.role
                    ELSE CHOOSE r \in change[c].role : TRUE
            status == IF change[c].status = {} THEN row.status
                      ELSE CHOOSE s \in change[c].status : TRUE
<1>1. change[c] \in ChangeRecord /\ users \in [User -> Row]
  BY DEF TypeOK, ChangeRecord
<1>2. change[c].target \in User /\ change[c].role \subseteq Role
      /\ change[c].status \subseteq Status
  BY <1>1 DEF ChangeRecord
<1>3. row \in Row
  BY <1>1, <1>2
<1>4. role \in Role
  <2>1. CASE change[c].role = {}
    BY <2>1, <1>3 DEF Row
  <2>2. CASE change[c].role # {}
    <3>1. (CHOOSE r \in change[c].role : TRUE) \in change[c].role
      BY <2>2, Zenon
    <3>. QED
      BY <3>1, <2>2, <1>2
  <2>. QED
    BY <2>1, <2>2
<1>5. status \in Status
  <2>1. CASE change[c].status = {}
    BY <2>1, <1>3 DEF Row
  <2>2. CASE change[c].status # {}
    <3>1. (CHOOSE s \in change[c].status : TRUE) \in change[c].status
      BY <2>2, Zenon
    <3>. QED
      BY <3>1, <2>2, <1>2
  <2>. QED
    BY <2>1, <2>2
<1>6. Changed(c) = [role |-> role, status |-> status, version |-> row.version + 1]
  BY DEF Changed
<1>7. row.version + 1 \in Nat
  BY <1>3 DEF Row
<1>. HIDE DEF role, status
<1>. QED
  BY <1>2, <1>4, <1>5, <1>6, <1>7 DEF Row

(***************************************************************************)
(* Deleting entries keeps the types.                                       *)
(***************************************************************************)
LEMMA DeleteLemma ==
    ASSUME TypeOK, NEW S \in SUBSET sessions, Delete(S)
    PROVE  sessions' \subseteq Session /\ revoked' \subseteq Login
<1>1. \A s \in S : s.token \in Login
  BY DEF TypeOK, Session
<1>. QED
  BY <1>1 DEF TypeOK, Delete

(***************************************************************************)
(* The end of a change's transaction: its row locks, and no other, go.     *)
(***************************************************************************)
LEMMA UnlockedLemma ==
    ASSUME TypeOK, NEW c \in Change
    PROVE  /\ Unlocked(c) \in [User -> Change \cup {None}]
           /\ \A u \in User : /\ Unlocked(c)[u] # c
                              /\ locks[u] # c => Unlocked(c)[u] = locks[u]
                              /\ Unlocked(c)[u] \in {locks[u], None}
  BY AuthAssumption DEF TypeOK, Unlocked

(***************************************************************************)
(* Every step of a login keeps the types (service.ts login).               *)
(***************************************************************************)
LEMMA LoginTypes ==
    ASSUME TypeOK, NEW l \in Login, LoginStep(l) \/ LoginFails(l)
    PROVE  TypeOK'
<1>. USE RecordsLemma
<1>a. login \in [Login -> LoginRecord] /\ login[l] \in LoginRecord
      /\ users \in [User -> Row]
  BY DEF TypeOK, LoginRecord
<1>1. CASE LoginRead(l)
  <2>1. login' \in [Login -> LoginRecord]
    BY <1>1, <1>a DEF LoginRead, LoginRecord, Row
  <2>. QED
    BY <1>1, <2>1 DEF LoginRead, TypeOK, LoginRecord
<1>2. CASE CreateSession(l)
  <2>1. login' \in [Login -> LoginRecord]
    BY <1>2, <1>a DEF CreateSession, LoginRecord
  <2>2. sessions' \subseteq Session
    BY <1>2, <1>a DEF CreateSession, LoginRecord, Session, TypeOK
  <2>. QED
    BY <1>2, <2>1, <2>2 DEF CreateSession, TypeOK, LoginRecord
<1>3. CASE Recheck(l)
  <2>1. login' \in [Login -> LoginRecord]
    BY <1>3, <1>a DEF Recheck, LoginRecord
  <2>. QED
    BY <1>3, <2>1 DEF Recheck, TypeOK, LoginRecord
<1>4. CASE RevokeStale(l)
  <2>1. login' \in [Login -> LoginRecord]
    BY <1>4, <1>a DEF RevokeStale, EndLogin
  <2>2. sessions' \subseteq Session /\ revoked' \subseteq Login
    BY <1>4, DeleteLemma DEF RevokeStale
  <2>. QED
    BY <1>4, <2>1, <2>2 DEF RevokeStale, TypeOK, LoginRecord
<1>5. CASE LoginReturn(l)
  <2>1. login' \in [Login -> LoginRecord]
    BY <1>5, <1>a DEF LoginReturn, EndLogin
  <2>. QED
    BY <1>5, <2>1 DEF LoginReturn, TypeOK, LoginRecord
<1>6. CASE LoginFails(l)
  <2>1. login' \in [Login -> LoginRecord]
    BY <1>6, <1>a DEF LoginFails, EndLogin
  <2>. QED
    BY <1>6, <2>1, AuthAssumption DEF LoginFails, Fault, TypeOK, LoginRecord
<1>. QED
  BY <1>1, <1>2, <1>3, <1>4, <1>5, <1>6 DEF LoginStep

(***************************************************************************)
(* The types again, in the form the steps of a change need: what holds a   *)
(* lock is an open transaction, and its todo are rows.                     *)
(***************************************************************************)
LockHolders ==
    /\ \A u \in User : locks[u] # None =>
         change[locks[u]].pc \in {"locking", "uncertain"}
    /\ \A c \in Change : change[c].pc \in {"locking", "uncertain"} =>
         change[c].todo \subseteq User

(***************************************************************************)
(* A change that ends its transaction, or that holds no lock, may leave    *)
(* it: nothing is locked in its name afterwards.                           *)
(***************************************************************************)
LEMMA HoldersLemma ==
    ASSUME TypeOK, NEW c \in Change, NEW rec \in ChangeRecord,
           change' = [change EXCEPT ![c] = rec],
           rec.pc \in {"locking", "uncertain"} => rec.todo \subseteq User,
           \/ locks' = Unlocked(c)
           \/ locks' = locks /\ rec.pc \in {"locking", "uncertain"}
           \/ locks' = locks /\ change[c].pc \notin {"locking", "uncertain"}
    PROVE  /\ change' \in [Change -> ChangeRecord]
           /\ locks' \in [User -> Change \cup {None}]
           /\ LockHolders'
<1>1. change' \in [Change -> ChangeRecord] /\ change'[c] = rec
      /\ \A d \in Change : d # c => change'[d] = change[d]
  BY DEF TypeOK, ChangeRecord
<1>2. locks' \in [User -> Change \cup {None}]
  BY UnlockedLemma DEF TypeOK
<1>3. ASSUME NEW u \in User, locks'[u] # None
      PROVE  change'[locks'[u]].pc \in {"locking", "uncertain"}
  <2>1. CASE locks' = Unlocked(c)
    <3>1. locks'[u] = locks[u] /\ locks[u] # c /\ locks[u] \in Change
      BY <2>1, <1>3, UnlockedLemma DEF TypeOK
    <3>. QED
      BY <3>1, <1>1, <1>3 DEF TypeOK
  <2>2. CASE locks' = locks
    <3>1. locks[u] \in Change /\ change[locks[u]].pc \in {"locking", "uncertain"}
      BY <2>2, <1>3 DEF TypeOK
    <3>2. CASE locks[u] = c
      BY <3>2, <3>1, <2>2, <1>1, UnlockedLemma
    <3>3. CASE locks[u] # c
      BY <3>3, <3>1, <2>2, <1>1
    <3>. QED
      BY <3>2, <3>3
  <2>. QED
    BY <2>1, <2>2
<1>4. ASSUME NEW d \in Change, change'[d].pc \in {"locking", "uncertain"}
      PROVE  change'[d].todo \subseteq User
  BY <1>1, <1>4 DEF TypeOK
<1>. QED
  BY <1>1, <1>2, <1>3, <1>4 DEF LockHolders

(***************************************************************************)
(* Every step of a change keeps the types (service.ts changeUser,          *)
(* changePassword, authorityChange).                                       *)
(***************************************************************************)
LEMMA ChangeTypes ==
    ASSUME TypeOK, NEW c \in Change,
           ChangeUser(c) \/ ChangePassword(c) \/ ChangeStep(c) \/ ChangeFault(c)
    PROVE  TypeOK'
<1>. USE RecordsLemma
<1>a. change \in [Change -> ChangeRecord] /\ change[c] \in ChangeRecord
  BY DEF TypeOK, ChangeRecord
<1>1. CASE ChangeUser(c) \/ ChangePassword(c)
  <2>1. PICK target \in User, role \in SUBSET Role, status \in SUBSET Status,
             rows \in SUBSET User : StartChange(c, target, role, status, rows)
    BY <1>1 DEF ChangeUser, ChangePassword, Selected
  <2>. DEFINE rec == [pc |-> "locking", target |-> target, role |-> role,
                      status |-> status, todo |-> rows, admins |-> {}, version |-> 0]
  <2>2. rec \in ChangeRecord /\ change' = [change EXCEPT ![c] = rec]
        /\ rec.pc = "locking" /\ rec.todo \subseteq User /\ locks' = locks
    BY <2>1 DEF StartChange, ChangeRecord
  <2>3. change' \in [Change -> ChangeRecord] /\ LockHolders'
    BY <2>2, HoldersLemma
  <2>. QED
    BY <2>1, <2>3 DEF StartChange, TypeOK, ChangeRecord, LockHolders
<1>2. CASE LockRow(c)
  <2>1. PICK u \in change[c].todo : locks[u] = None
              /\ locks' = [locks EXCEPT ![u] = c] /\ change' = AfterRow(c, u)
    BY <1>2 DEF LockRow, NextRow
  <2>2. change[c].pc = "locking" /\ u \in User
    BY <1>2, <2>1 DEF LockRow, TypeOK
  <2>. DEFINE rec == [change[c] EXCEPT !.todo = @ \ {u},
                        !.admins = IF ActiveAdmin(users[u]) THEN @ \cup {u} ELSE @]
  <2>3. change' = [change EXCEPT ![c] = rec]
    BY <2>1, <1>a DEF AfterRow, ChangeRecord
  <2>4. rec \in ChangeRecord /\ rec.pc = "locking" /\ rec.todo \subseteq User
    BY <2>2, <1>a DEF ChangeRecord, TypeOK
  <2>. HIDE DEF rec
  <2>5. change' \in [Change -> ChangeRecord] /\ change'[c] = rec
        /\ \A d \in Change : d # c => change'[d] = change[d]
    BY <2>3, <2>4, <1>a
  <2>6. locks' \in [User -> Change \cup {None}]
    BY <2>1, <2>2 DEF TypeOK
  <2>7. LockHolders'
    <3>1. ASSUME NEW v \in User, locks'[v] # None
          PROVE  change'[locks'[v]].pc \in {"locking", "uncertain"}
      <4>1. CASE locks'[v] = c
        BY <4>1, <2>4, <2>5
      <4>2. CASE locks'[v] # c
        <5>1. locks'[v] = locks[v] /\ locks[v] \in Change
          BY <4>2, <3>1, <2>1, <2>2 DEF TypeOK
        <5>. QED
          BY <5>1, <4>2, <3>1, <2>5 DEF TypeOK
      <4>. QED
        BY <4>1, <4>2
    <3>2. ASSUME NEW d \in Change, change'[d].pc \in {"locking", "uncertain"}
          PROVE  change'[d].todo \subseteq User
      BY <3>2, <2>4, <2>5 DEF TypeOK
    <3>. QED
      BY <3>1, <3>2 DEF LockHolders
  <2>. QED
    BY <1>2, <2>5, <2>6, <2>7 DEF LockRow, TypeOK, ChangeRecord, LockHolders
<1>3. CASE Refuse(c) \/ RollBack(c)
  <2>1. change' \in [Change -> ChangeRecord] /\ LockHolders'
        /\ locks' \in [User -> Change \cup {None}]
    BY <1>3, HoldersLemma DEF Refuse, RollBack, EndChange, NoChange
  <2>. QED
    BY <1>3, <2>1, AuthAssumption
    DEF Refuse, RollBack, Fault, TypeOK, ChangeRecord, LockHolders
<1>4. CASE Commit(c)
  <2>. DEFINE rec == [change[c] EXCEPT !.pc = "deleting",
                        !.todo = TokensOf(change[c].target),
                        !.version = Changed(c).version]
  <2>1. TokensOf(change[c].target) \subseteq Login /\ Changed(c).version \in Nat
    BY ChangedLemma DEF TokensOf, SessionsOf, TypeOK, Session, Row
  <2>2. rec \in ChangeRecord /\ rec.pc = "deleting"
    BY <2>1, <1>a DEF ChangeRecord
  <2>3. change' = [change EXCEPT ![c] = rec]
    BY <1>4, <1>a DEF Commit, ChangeRecord
  <2>. HIDE DEF rec
  <2>4. change' \in [Change -> ChangeRecord] /\ LockHolders'
        /\ locks' \in [User -> Change \cup {None}]
    BY <1>4, <2>2, <2>3, HoldersLemma DEF Commit, Write
  <2>5. users' \in [User -> Row]
    BY <1>4, ChangedLemma DEF Commit, Write, TypeOK
  <2>. QED
    BY <1>4, <2>4, <2>5 DEF Commit, TypeOK, ChangeRecord, LockHolders
<1>5. CASE CommitUnanswered(c)
  <2>. DEFINE rec == [change[c] EXCEPT !.pc = "uncertain"]
  <2>1. rec \in ChangeRecord /\ rec.pc = "uncertain" /\ rec.todo \subseteq User
    BY <1>5, <1>a DEF ChangeRecord, CommitUnanswered, Decided
  <2>2. change' = [change EXCEPT ![c] = rec]
    BY <1>5, <1>a DEF CommitUnanswered, ChangeRecord
  <2>. HIDE DEF rec
  <2>3. change' \in [Change -> ChangeRecord] /\ LockHolders'
    BY <1>5, <2>1, <2>2, HoldersLemma DEF CommitUnanswered
  <2>. QED
    BY <1>5, <2>3, AuthAssumption
    DEF CommitUnanswered, Fault, TypeOK, ChangeRecord, LockHolders
<1>6. CASE DeleteUncertain(c)
  <2>1. PICK S \in SUBSET SessionsOf(change[c].target) : Delete(S)
    BY <1>6 DEF DeleteUncertain
  <2>2. sessions' \subseteq Session /\ revoked' \subseteq Login
    BY <2>1, DeleteLemma DEF SessionsOf
  <2>. QED
    BY <1>6, <2>2 DEF DeleteUncertain, TypeOK
<1>7. CASE SettleUncertain(c)
  <2>1. locks' = Unlocked(c) /\ users' \in [User -> Row]
    BY <1>7, ChangedLemma DEF SettleUncertain, Write, TypeOK
  <2>2. change' \in [Change -> ChangeRecord] /\ LockHolders'
        /\ locks' \in [User -> Change \cup {None}]
    BY <1>7, <2>1, HoldersLemma DEF SettleUncertain, EndChange, NoChange
  <2>. QED
    BY <1>7, <2>1, <2>2 DEF SettleUncertain, TypeOK, ChangeRecord, LockHolders
<1>8. CASE DeleteNext(c)
  <2>1. PICK s \in SessionsOf(change[c].target) : Delete({s})
              /\ change' = [change EXCEPT ![c].todo = @ \ {s.token}]
    BY <1>8 DEF DeleteNext
  <2>. DEFINE rec == [change[c] EXCEPT !.todo = @ \ {s.token}]
  <2>2. rec \in ChangeRecord /\ rec.pc = "deleting"
    BY <1>8, <1>a DEF ChangeRecord, DeleteNext
  <2>3. change' = [change EXCEPT ![c] = rec]
    BY <2>1, <1>a DEF ChangeRecord
  <2>. HIDE DEF rec
  <2>4. change' \in [Change -> ChangeRecord] /\ LockHolders'
    BY <1>8, <2>2, <2>3, HoldersLemma DEF DeleteNext
  <2>5. sessions' \subseteq Session /\ revoked' \subseteq Login
    BY <2>1, DeleteLemma DEF SessionsOf
  <2>. QED
    BY <1>8, <2>4, <2>5 DEF DeleteNext, TypeOK, ChangeRecord, LockHolders
<1>9. CASE DeleteDone(c) \/ DeleteFails(c)
  <2>1. change' \in [Change -> ChangeRecord] /\ LockHolders'
    BY <1>9, HoldersLemma DEF DeleteDone, DeleteFails, EndChange, NoChange
  <2>2. answered' \in [User -> Nat]
    BY <1>9, <1>a DEF DeleteDone, DeleteFails, TypeOK, ChangeRecord
  <2>. QED
    BY <1>9, <2>1, <2>2, AuthAssumption
    DEF DeleteDone, DeleteFails, Fault, TypeOK, ChangeRecord, LockHolders
<1>. QED
  BY <1>1, <1>2, <1>3, <1>4, <1>5, <1>6, <1>7, <1>8, <1>9
  DEF ChangeStep, ChangeFault

(***************************************************************************)
(* The type invariant, for every set of users and of requests (service.ts  *)
(* and session.ts): in particular no row stays locked by a transaction     *)
(* that is over.                                                           *)
(***************************************************************************)
THEOREM AuthTypeCorrect == Spec => []TypeOK
<1>1. Init => TypeOK
  <2>. SUFFICES ASSUME Init PROVE TypeOK
    OBVIOUS
  <2>1. users \in [User -> Row]
    BY DEF Init, Row
  <2>2. login \in [Login -> LoginRecord] /\ change \in [Change -> ChangeRecord]
    BY RecordsLemma DEF Init
  <2>3. \A c \in Change : change[c].pc = "start"
    BY DEF Init, NoChange
  <2>. QED
    BY <2>1, <2>2, <2>3, AuthAssumption DEF Init, TypeOK, LoginRecord, ChangeRecord
<1>2. TypeOK /\ [Next]_vars => TypeOK'
  <2>. SUFFICES ASSUME TypeOK, [Next]_vars PROVE TypeOK'
    OBVIOUS
  <2>1. CASE \E l \in Login : LoginStep(l) \/ LoginFails(l)
    BY <2>1, LoginTypes
  <2>2. CASE \E c \in Change :
               ChangeUser(c) \/ ChangePassword(c) \/ ChangeStep(c) \/ ChangeFault(c)
    BY <2>2, ChangeTypes
  <2>3. CASE \E r \in Request : ResolveGet(r)
    BY <2>3 DEF ResolveGet, TypeOK
  <2>4. CASE \E r \in Request : ResolveTouch(r)
    <3>1. PICK r \in Request : ResolveTouch(r)
      BY <2>4
    <3>2. request' \in [Request -> SUBSET Session] /\ sessions' \subseteq Session
      BY <3>1 DEF ResolveTouch, TypeOK
    <3>. QED
      BY <3>1, <3>2 DEF ResolveTouch, TypeOK
  <2>5. CASE SessionEnds
    <3>1. PICK s \in sessions : Delete({s})
      BY <2>5 DEF SessionEnds
    <3>2. sessions' \subseteq Session /\ revoked' \subseteq Login
      BY <3>1, DeleteLemma
    <3>. QED
      BY <2>5, <3>2 DEF SessionEnds, TypeOK
  <2>6. CASE AllEnded \/ UNCHANGED vars
    BY <2>6 DEF AllEnded, vars, TypeOK
  <2>. QED
    BY <2>1, <2>2, <2>3, <2>4, <2>5, <2>6 DEF Next
<1>. QED
  BY <1>1, <1>2, PTL DEF Spec

-----------------------------------------------------------------------------
(***************************************************************************)
(* A step keeps what a change it does not move relies on, if it leaves the *)
(* rows that change has locked.                                            *)
(***************************************************************************)
LEMMA LockFrame ==
    ASSUME TypeOK, NEW d \in Change, LockOf(d), change'[d] = change[d],
           \A u \in User : locks[u] = d => locks'[u] = d /\ users'[u] = users[u]
    PROVE  LockOf(d)'
<1>. SUFFICES ASSUME change[d].pc \in {"locking", "uncertain"}
              PROVE  LockOf(d)'
  BY DEF LockOf
<1>1. change[d].target \in User /\ change[d].admins \subseteq User
  BY DEF TypeOK
<1>2. \A u \in change[d].admins : locks'[u] = d /\ ActiveAdmin(users'[u])
  BY <1>1 DEF LockOf
<1>3. CASE change[d].target \in change[d].todo
  BY <1>2, <1>3 DEF LockOf
<1>4. CASE locks[change[d].target] = d
  <2>1. locks'[change[d].target] = d
        /\ users'[change[d].target] = users[change[d].target]
    BY <1>1, <1>4
  <2>2. RemovesLastAdmin(d)' <=> RemovesLastAdmin(d)
    BY <2>1 DEF RemovesLastAdmin, Changed
  <2>. QED
    BY <1>2, <2>1, <2>2 DEF LockOf
<1>. QED
  BY <1>3, <1>4 DEF LockOf

(***************************************************************************)
(* The 409 of changeUser suffices: a change that is not refused writes one *)
(* row, and an active admin remains.                                       *)
(***************************************************************************)
LEMMA WriteKeepsAdmin ==
    ASSUME TypeOK, LastAdmin, NEW c \in Change, LockOf(c),
           change[c].pc \in {"locking", "uncertain"}, change[c].todo = {},
           ~RemovesLastAdmin(c),
           users' = [users EXCEPT ![change[c].target] = Changed(c)]
    PROVE  LastAdmin'
<1>. DEFINE t == change[c].target
<1>1. t \in User /\ change[c].admins \subseteq User
  BY DEF TypeOK
<1>2. users'[t] = Changed(c) /\ \A u \in User : u # t => users'[u] = users[u]
  BY <1>1 DEF TypeOK
<1>3. CASE ActiveAdmin(Changed(c))
  BY <1>1, <1>2, <1>3 DEF LastAdmin
<1>4. CASE t \notin change[c].admins
  <2>1. ~ActiveAdmin(users[t])
    BY <1>4 DEF LockOf
  <2>2. PICK u \in User : ActiveAdmin(users[u])
    BY DEF LastAdmin
  <2>. QED
    BY <1>2, <2>1, <2>2 DEF LastAdmin
<1>5. CASE t \in change[c].admins /\ ~(Cardinality(change[c].admins) <= 1)
  <2>1. change[c].admins # {t}
    <3>1. Cardinality({t}) = 1
      BY FS_Singleton
    <3>. QED
      BY <3>1, <1>5
  <2>2. PICK u \in change[c].admins : u # t
    BY <2>1, <1>5
  <2>3. u \in User /\ ActiveAdmin(users[u])
    BY <2>2, <1>1 DEF LockOf
  <2>. QED
    BY <1>2, <2>2, <2>3 DEF LastAdmin
<1>. QED
  BY <1>3, <1>4, <1>5 DEF RemovesLastAdmin

(***************************************************************************)
(* Every step of a change keeps LockInv, its own part first, and leaves an *)
(* active admin.                                                           *)
(***************************************************************************)
LEMMA LockStep ==
    ASSUME TypeOK, LockInv, LastAdmin, NEW c \in Change,
           ChangeUser(c) \/ ChangePassword(c) \/ ChangeStep(c) \/ ChangeFault(c)
    PROVE  LockInv' /\ LastAdmin'
<1>a. change \in [Change -> ChangeRecord] /\ change[c] \in ChangeRecord
      /\ users \in [User -> Row] /\ LockOf(c)
  BY DEF TypeOK, ChangeRecord, LockInv
<1>b. change[c].target \in User /\ change[c].admins \subseteq User
  BY <1>a DEF ChangeRecord
<1>1. CASE ChangeUser(c) \/ ChangePassword(c)
  <2>1. PICK target \in User, role \in SUBSET Role, status \in SUBSET Status,
             rows \in SUBSET User :
               target \in rows /\ StartChange(c, target, role, status, rows)
    BY <1>1 DEF ChangeUser, ChangePassword, Selected
  <2>2. LockOf(c)'
    BY <2>1, <1>a DEF StartChange, LockOf
  <2>3. ASSUME NEW d \in Change, d # c PROVE LockOf(d)'
    BY <2>1, <2>3, <1>a, LockFrame DEF StartChange, LockInv
  <2>. QED
    BY <2>1, <2>2, <2>3 DEF LockInv, LastAdmin, StartChange
<1>2. CASE LockRow(c)
  <2>1. PICK u \in change[c].todo : locks[u] = None
              /\ locks' = [locks EXCEPT ![u] = c] /\ change' = AfterRow(c, u)
    BY <1>2 DEF LockRow, NextRow
  <2>2. change[c].pc = "locking" /\ u \in User /\ users' = users
    BY <1>2, <2>1 DEF LockRow, TypeOK
  <2>3. /\ change'[c].pc = "locking" /\ change'[c].target = change[c].target
        /\ change'[c].todo = change[c].todo \ {u}
        /\ change'[c].admins = IF ActiveAdmin(users[u])
                               THEN change[c].admins \cup {u} ELSE change[c].admins
        /\ \A d \in Change : d # c => change'[d] = change[d]
    <3>. DEFINE rec == [change[c] EXCEPT !.todo = @ \ {u},
                          !.admins = IF ActiveAdmin(users[u]) THEN @ \cup {u} ELSE @]
    <3>1. change' = [change EXCEPT ![c] = rec]
      BY <2>1, <1>a DEF AfterRow, ChangeRecord
    <3>2. /\ rec.pc = "locking" /\ rec.target = change[c].target
          /\ rec.todo = change[c].todo \ {u}
          /\ rec.admins = IF ActiveAdmin(users[u])
                          THEN change[c].admins \cup {u} ELSE change[c].admins
      BY <2>2, <1>a DEF ChangeRecord
    <3>. HIDE DEF rec
    <3>3. change'[c] = rec /\ \A d \in Change : d # c => change'[d] = change[d]
      BY <3>1, <1>a
    <3>. QED
      BY <3>2, <3>3
  <2>4. locks'[u] = c /\ \A v \in User : v # u => locks'[v] = locks[v]
    BY <2>1, <2>2 DEF TypeOK
  <2>5. LockOf(c)'
    <3>1. \A v \in change'[c].admins : locks'[v] = c /\ ActiveAdmin(users'[v])
      BY <1>a, <1>b, <2>2, <2>3, <2>4 DEF LockOf
    <3>2. change'[c].target \in change'[c].todo \/ locks'[change'[c].target] = c
      BY <1>a, <1>b, <2>2, <2>3, <2>4 DEF LockOf
    <3>3. ActiveAdmin(users'[change'[c].target]) =>
            change'[c].target \in change'[c].todo \cup change'[c].admins
      BY <1>a, <1>b, <2>2, <2>3 DEF LockOf
    <3>. QED
      BY <3>1, <3>2, <3>3, <2>3 DEF LockOf
  <2>6. ASSUME NEW d \in Change, d # c PROVE LockOf(d)'
    <3>1. \A v \in User : locks[v] = d => locks'[v] = d /\ users'[v] = users[v]
      BY <2>1, <2>2, <2>4, AuthAssumption
    <3>. QED
      BY <3>1, <2>3, <2>6, LockFrame DEF LockInv
  <2>. QED
    BY <2>2, <2>5, <2>6 DEF LockInv, LastAdmin
<1>3. ASSUME locks' = Unlocked(c), change'[c].pc \notin {"locking", "uncertain"},
             \A d \in Change : d # c => change'[d] = change[d],
             \A u \in User : locks[u] # c => users'[u] = users[u]
      PROVE  LockInv'
  <2>1. LockOf(c)'
    BY <1>3 DEF LockOf
  <2>2. ASSUME NEW d \in Change, d # c PROVE LockOf(d)'
    <3>1. \A v \in User : locks[v] = d => locks'[v] = d /\ users'[v] = users[v]
      BY <1>3, <2>2, UnlockedLemma
    <3>. QED
      BY <1>3, <2>2, <3>1, LockFrame DEF LockInv
  <2>. QED
    BY <2>1, <2>2 DEF LockInv
<1>4. CASE Refuse(c) \/ RollBack(c)
  <2>1. users' = users /\ locks' = Unlocked(c) /\ change'[c].pc = "ended"
        /\ \A d \in Change : d # c => change'[d] = change[d]
    BY <1>4, <1>a DEF Refuse, RollBack, EndChange, NoChange
  <2>. QED
    BY <2>1, <1>3 DEF LastAdmin
<1>5. CASE Commit(c) \/ SettleUncertain(c)
  <2>1. /\ locks' = Unlocked(c) /\ change'[c].pc \in {"deleting", "ended"}
        /\ \A d \in Change : d # c => change'[d] = change[d]
        /\ Write(c) \/ users' = users
    <3>1. CASE Commit(c)
      <4>1. change'[c].pc = "deleting"
        BY <3>1, <1>a DEF Commit, ChangeRecord
      <4>2. \A d \in Change : d # c => change'[d] = change[d]
        BY <3>1, <1>a DEF Commit
      <4>. QED
        BY <3>1, <4>1, <4>2 DEF Commit, Write
    <3>2. CASE SettleUncertain(c)
      BY <3>2, <1>a DEF SettleUncertain, Write, EndChange, NoChange
    <3>. QED
      BY <1>5, <3>1, <3>2
  <2>2. /\ change[c].pc \in {"locking", "uncertain"} /\ change[c].todo = {}
        /\ ~RemovesLastAdmin(c) /\ locks[change[c].target] = c
    BY <1>5, <1>a DEF Commit, SettleUncertain, Decided, LockOf
  <2>3. LastAdmin'
    BY <2>1, <2>2, <1>a, WriteKeepsAdmin DEF Write, LastAdmin
  <2>4. \A u \in User : locks[u] # c => users'[u] = users[u]
    BY <2>1, <2>2, <1>a, <1>b DEF Write
  <2>. QED
    BY <2>1, <2>3, <2>4, <1>3
<1>6. CASE CommitUnanswered(c)
  <2>1. /\ change[c].pc = "locking" /\ change[c].todo = {} /\ ~RemovesLastAdmin(c)
        /\ users' = users /\ locks' = locks
        /\ change'[c] = [change[c] EXCEPT !.pc = "uncertain"]
        /\ \A d \in Change : d # c => change'[d] = change[d]
    BY <1>6, <1>a DEF CommitUnanswered, Decided
  <2>2. change'[c].pc = "uncertain" /\ change'[c].target = change[c].target
        /\ change'[c].todo = {} /\ change'[c].admins = change[c].admins
        /\ change'[c].role = change[c].role /\ change'[c].status = change[c].status
    BY <2>1, <1>a DEF ChangeRecord
  <2>3. ~RemovesLastAdmin(c)'
    BY <2>1, <2>2 DEF RemovesLastAdmin, Changed
  <2>4. LockOf(c)'
    BY <2>1, <2>2, <2>3, <1>a DEF LockOf
  <2>5. ASSUME NEW d \in Change, d # c PROVE LockOf(d)'
    BY <2>1, <2>5, LockFrame DEF LockInv
  <2>. QED
    BY <2>1, <2>4, <2>5 DEF LockInv, LastAdmin
<1>7. CASE DeleteUncertain(c)
  <2>1. \A d \in Change : LockOf(d)'
    BY <1>7, LockFrame DEF DeleteUncertain, LockInv
  <2>. QED
    BY <1>7, <2>1 DEF DeleteUncertain, LockInv, LastAdmin
<1>8. CASE DeleteNext(c) \/ DeleteDone(c) \/ DeleteFails(c)
  <2>1. /\ users' = users /\ locks' = locks /\ change'[c].pc \in {"deleting", "ended"}
        /\ \A d \in Change : d # c => change'[d] = change[d]
    <3>1. CASE DeleteNext(c)
      BY <3>1, <1>a DEF DeleteNext, ChangeRecord
    <3>2. CASE DeleteDone(c) \/ DeleteFails(c)
      BY <3>2, <1>a DEF DeleteDone, DeleteFails, EndChange, NoChange
    <3>. QED
      BY <1>8, <3>1, <3>2
  <2>2. LockOf(c)'
    BY <2>1 DEF LockOf
  <2>3. ASSUME NEW d \in Change, d # c PROVE LockOf(d)'
    BY <2>1, <2>3, LockFrame DEF LockInv
  <2>. QED
    BY <2>1, <2>2, <2>3 DEF LockInv, LastAdmin
<1>. QED
  BY <1>1, <1>2, <1>4, <1>5, <1>6, <1>7, <1>8 DEF ChangeStep, ChangeFault

(***************************************************************************)
(* An org always has an active admin, for any number of users and of       *)
(* concurrent changes (service.ts changeUser: FOR UPDATE and the 409).     *)
(***************************************************************************)
THEOREM AdminRemains == Spec => []LastAdmin
<1>1. Init => LockInv /\ LastAdmin
  BY DEF Init, NoChange, LockInv, LockOf, LastAdmin
<1>2. TypeOK /\ LockInv /\ LastAdmin /\ [Next]_vars => LockInv' /\ LastAdmin'
  <2>. SUFFICES ASSUME TypeOK, LockInv, LastAdmin, [Next]_vars
                PROVE  LockInv' /\ LastAdmin'
    OBVIOUS
  <2>1. CASE \E c \in Change :
               ChangeUser(c) \/ ChangePassword(c) \/ ChangeStep(c) \/ ChangeFault(c)
    BY <2>1, LockStep
  <2>2. CASE UNCHANGED <<users, locks, change>>
    <3>1. \A d \in Change : LockOf(d)'
      BY <2>2, LockFrame DEF LockInv
    <3>. QED
      BY <2>2, <3>1 DEF LockInv, LastAdmin
  <2>. QED
    BY <2>1, <2>2
    DEF Next, vars, LoginStep, LoginRead, CreateSession, Recheck, RevokeStale,
        LoginReturn, LoginFails, ResolveGet, ResolveTouch, SessionEnds, AllEnded
<1>. QED
  BY <1>1, <1>2, AuthTypeCorrect, PTL DEF Spec

-----------------------------------------------------------------------------

(***************************************************************************)
(* What the two theorems hold of the sessions, together.                   *)
(***************************************************************************)
RevocationInv == SessionInv /\ RevokedStaysRevoked

(***************************************************************************)
(* The SET ... XX of resolveSession writes the entry that is there, or     *)
(* nothing (session.ts resolveSession).                                    *)
(***************************************************************************)
LEMMA TouchKeepsSessions ==
    ASSUME TypeOK, SessionInv, NEW r \in Request, ResolveTouch(r)
    PROVE  sessions' = sessions
<1>1. PICK e \in request[r] : request[r] = {e}
  BY DEF ResolveTouch, SessionInv
<1>2. \A s \in sessions : s.token = e.token => s = e
  BY <1>1 DEF SessionInv
<1>3. sessions' = {s \in sessions : s.token # e.token}
                  \cup {x \in {e} : x.token \in Tokens}
  BY <1>1 DEF ResolveTouch
<1>4. e.token \in Tokens <=> e \in sessions
  BY <1>2 DEF Tokens
<1>. QED
  BY <1>2, <1>3, <1>4

(***************************************************************************)
(* A step that only deletes entries, and may end a login, keeps what the   *)
(* tokens name, and the tokens it deletes are gone.                        *)
(***************************************************************************)
LEMMA DeleteKeeps ==
    ASSUME TypeOK, RevocationInv, NEW S \in SUBSET sessions, Delete(S),
           UNCHANGED <<delivered, request>>,
           \A l \in Login : login'[l] = login[l] \/ login'[l].pc = "ended"
    PROVE  RevocationInv'
<1>1. sessions' \subseteq sessions /\ Tokens' \subseteq Tokens
  BY DEF Delete, Tokens
<1>2. revoked' \subseteq revoked \cup Tokens /\ sessions \subseteq Session
  BY DEF Delete, Tokens, TypeOK
<1>3. \A s, t \in sessions : s.token = t.token => s = t
  BY DEF RevocationInv, SessionInv
<1>4. \A l \in Login : login'[l].pc \in {"start", "verified"} =>
        l \notin Tokens' \cup revoked' \cup delivered'
  BY <1>1, <1>2 DEF RevocationInv, SessionInv
<1>5. \A l \in delivered' : login'[l].pc = "ended"
  BY DEF RevocationInv, SessionInv, TypeOK
<1>6. \A s \in sessions' : login'[s.token].pc # "ended" =>
        s.user = login'[s.token].user /\ s.version = login'[s.token].version
  BY <1>1, <1>2 DEF RevocationInv, SessionInv, Session
<1>7. \A r \in Request : \A e \in request'[r] :
        /\ request'[r] = {e} /\ e.token \in delivered'
        /\ \A s \in sessions' : s.token = e.token => s = e
  BY <1>1 DEF RevocationInv, SessionInv
<1>8. Tokens' \cap revoked' = {}
  <2>. SUFFICES ASSUME NEW s \in sessions', s.token \in revoked' PROVE FALSE
    BY DEF Tokens
  <2>1. s \in sessions /\ s \notin S
    BY DEF Delete
  <2>2. CASE s.token \in revoked
    BY <2>1, <2>2 DEF RevocationInv, RevokedStaysRevoked, Tokens
  <2>3. CASE s.token \in {t.token : t \in S}
    BY <2>1, <2>3, <1>3
  <2>. QED
    BY <2>2, <2>3 DEF Delete
<1>. QED
  BY <1>1, <1>3, <1>4, <1>5, <1>6, <1>7, <1>8
  DEF RevocationInv, SessionInv, RevokedStaysRevoked

(***************************************************************************)
(* Every step of a login keeps it (service.ts login).                      *)
(***************************************************************************)
LEMMA LoginRevocation ==
    ASSUME TypeOK, RevocationInv, NEW l \in Login, LoginStep(l) \/ LoginFails(l)
    PROVE  RevocationInv'
<1>. USE DEF RevocationInv
<1>a. login \in [Login -> LoginRecord] /\ login[l] \in LoginRecord
      /\ sessions \subseteq Session /\ \A s \in sessions : s.token \in Login
  BY DEF TypeOK, LoginRecord, Session
<1>b. \A s \in sessions : s.token \in Tokens
  BY DEF Tokens
<1>1. CASE LoginRead(l)
  <2>1. login'[l].pc = "verified" /\ login[l].pc = "start"
        /\ \A k \in Login : k # l => login'[k] = login[k]
    BY <1>1, <1>a DEF LoginRead
  <2>2. UNCHANGED <<sessions, revoked, delivered, request, Tokens>>
    BY <1>1 DEF LoginRead, Tokens
  <2>3. l \notin Tokens \cup revoked \cup delivered
    BY <2>1 DEF SessionInv
  <2>4. \A s \in sessions : s.token # l
    BY <2>3, <1>b
  <2>5. \A k \in Login : login'[k].pc \in {"start", "verified"} =>
          k \notin Tokens' \cup revoked' \cup delivered'
    BY <2>1, <2>2, <2>3 DEF SessionInv
  <2>6. \A k \in delivered' : login'[k].pc = "ended"
    BY <2>1, <2>2, <2>3 DEF SessionInv, TypeOK
  <2>7. \A s \in sessions' : login'[s.token].pc # "ended" =>
          s.user = login'[s.token].user /\ s.version = login'[s.token].version
    BY <2>1, <2>2, <2>4, <1>a DEF SessionInv
  <2>. QED
    BY <2>2, <2>5, <2>6, <2>7 DEF SessionInv, RevokedStaysRevoked
<1>2. CASE CreateSession(l)
  <2>. DEFINE s0 == [token |-> l, user |-> login[l].user,
                     version |-> login[l].version]
  <2>1. login'[l] = [login[l] EXCEPT !.pc = "created"] /\ login[l].pc = "verified"
        /\ \A k \in Login : k # l => login'[k] = login[k]
    BY <1>2, <1>a DEF CreateSession
  <2>2. login'[l].pc = "created" /\ login'[l].user = login[l].user
        /\ login'[l].version = login[l].version
    BY <2>1, <1>a DEF LoginRecord
  <2>3. sessions' = sessions \cup {s0} /\ UNCHANGED <<revoked, delivered, request>>
    BY <1>2 DEF CreateSession
  <2>4. s0.token = l /\ s0.user = login[l].user /\ s0.version = login[l].version
    OBVIOUS
  <2>. HIDE DEF s0
  <2>5. Tokens' = Tokens \cup {l}
    BY <2>3, <2>4 DEF Tokens
  <2>6. l \notin Tokens \cup revoked \cup delivered
    BY <2>1 DEF SessionInv
  <2>7. \A s \in sessions : s.token # l
    BY <2>6, <1>b
  <2>8. \A s, t \in sessions' : s.token = t.token => s = t
    BY <2>3, <2>4, <2>7 DEF SessionInv
  <2>9. \A k \in Login : login'[k].pc \in {"start", "verified"} =>
          k \notin Tokens' \cup revoked' \cup delivered'
    BY <2>1, <2>2, <2>3, <2>5 DEF SessionInv
  <2>10. \A k \in delivered' : login'[k].pc = "ended"
    BY <2>1, <2>3, <2>6 DEF SessionInv, TypeOK
  <2>11. \A s \in sessions' : login'[s.token].pc # "ended" =>
          s.user = login'[s.token].user /\ s.version = login'[s.token].version
    <3>1. \A s \in sessions : login'[s.token] = login[s.token]
      BY <2>1, <2>7, <1>a
    <3>. QED
      BY <3>1, <2>2, <2>3, <2>4 DEF SessionInv
  <2>12. \A r \in Request : \A e \in request'[r] :
          /\ request'[r] = {e} /\ e.token \in delivered'
          /\ \A s \in sessions' : s.token = e.token => s = e
    BY <2>3, <2>4, <2>6 DEF SessionInv
  <2>. QED
    BY <2>3, <2>5, <2>6, <2>8, <2>9, <2>10, <2>11, <2>12
    DEF SessionInv, RevokedStaysRevoked
<1>3. CASE Recheck(l)
  <2>1. /\ login[l].pc = "created" /\ login'[l].pc \in {"kept", "stale"}
        /\ login'[l].user = login[l].user /\ login'[l].version = login[l].version
        /\ \A k \in Login : k # l => login'[k] = login[k]
    <3>1. PICK at \in {"kept", "stale"} : login' = [login EXCEPT ![l].pc = at]
      BY <1>3 DEF Recheck
    <3>2. login'[l] = [login[l] EXCEPT !.pc = at]
          /\ \A k \in Login : k # l => login'[k] = login[k]
      BY <3>1, <1>a
    <3>. QED
      BY <3>2, <1>3, <1>a DEF LoginRecord, Recheck
  <2>2. UNCHANGED <<sessions, revoked, delivered, request, Tokens>>
    BY <1>3 DEF Recheck, Tokens
  <2>3. \A k \in delivered' : login'[k].pc = "ended"
    BY <2>1, <2>2 DEF SessionInv, TypeOK
  <2>4. \A s \in sessions' : login'[s.token].pc # "ended" =>
          s.user = login'[s.token].user /\ s.version = login'[s.token].version
    BY <2>1, <2>2, <1>a DEF SessionInv
  <2>5. \A k \in Login : login'[k].pc \in {"start", "verified"} =>
          k \notin Tokens' \cup revoked' \cup delivered'
    BY <2>1, <2>2 DEF SessionInv
  <2>. QED
    BY <2>2, <2>3, <2>4, <2>5 DEF SessionInv, RevokedStaysRevoked
<1>4. CASE RevokeStale(l)
  <2>1. \A k \in Login : login'[k] = login[k] \/ login'[k].pc = "ended"
    BY <1>4, <1>a DEF RevokeStale, EndLogin, NoLogin
  <2>. QED
    BY <1>4, <2>1, DeleteKeeps DEF RevokeStale
<1>5. CASE LoginReturn(l) \/ LoginFails(l)
  <2>1. /\ login[l].pc \notin {"start", "ended"} /\ login'[l].pc = "ended"
        /\ \A k \in Login : k # l => login'[k] = login[k]
    BY <1>5, <1>a DEF LoginReturn, LoginFails, EndLogin, NoLogin
  <2>2. UNCHANGED <<sessions, revoked, request, Tokens>>
        /\ delivered \subseteq delivered' /\ delivered' \subseteq delivered \cup {l}
    BY <1>5 DEF LoginReturn, LoginFails, Tokens
  <2>3. \A k \in delivered' : login'[k].pc = "ended"
    BY <2>1, <2>2 DEF SessionInv, TypeOK
  <2>4. \A s \in sessions' : login'[s.token].pc # "ended" =>
          s.user = login'[s.token].user /\ s.version = login'[s.token].version
    BY <2>1, <2>2, <1>a DEF SessionInv
  <2>5. \A k \in Login : login'[k].pc \in {"start", "verified"} =>
          k \notin Tokens' \cup revoked' \cup delivered'
    BY <2>1, <2>2 DEF SessionInv
  <2>6. \A r \in Request : \A e \in request'[r] :
          /\ request'[r] = {e} /\ e.token \in delivered'
          /\ \A s \in sessions' : s.token = e.token => s = e
    BY <2>2 DEF SessionInv
  <2>. QED
    BY <2>2, <2>3, <2>4, <2>5, <2>6 DEF SessionInv, RevokedStaysRevoked
<1>. QED
  BY <1>1, <1>2, <1>3, <1>4, <1>5 DEF LoginStep

(***************************************************************************)
(* So does every step (session.ts revokeAllForUser, resolveSession).       *)
(***************************************************************************)
LEMMA RevocationStep ==
    ASSUME TypeOK, RevocationInv, [Next]_vars
    PROVE  RevocationInv'
<1>1. CASE \E l \in Login : LoginStep(l) \/ LoginFails(l)
  BY <1>1, LoginRevocation
<1>2. CASE \E c \in Change : DeleteNext(c)
  BY <1>2, DeleteKeeps DEF DeleteNext, SessionsOf
<1>3. CASE \E c \in Change : DeleteUncertain(c)
  BY <1>3, DeleteKeeps DEF DeleteUncertain, SessionsOf
<1>4. CASE SessionEnds
  BY <1>4, DeleteKeeps DEF SessionEnds
<1>5. CASE \E r \in Request : ResolveGet(r)
  <2>1. PICK r \in Request, s \in sessions :
              s.token \in delivered /\ request' = [request EXCEPT ![r] = {s}]
    BY <1>5 DEF ResolveGet
  <2>2. UNCHANGED <<login, sessions, revoked, delivered, Tokens>>
    BY <1>5 DEF ResolveGet, Tokens
  <2>3. \A q \in Request : \A e \in request'[q] :
          /\ request'[q] = {e} /\ e.token \in delivered
          /\ \A t \in sessions : t.token = e.token => t = e
    BY <2>1 DEF TypeOK, RevocationInv, SessionInv
  <2>. QED
    BY <2>2, <2>3 DEF RevocationInv, SessionInv, RevokedStaysRevoked
<1>6. CASE \E r \in Request : ResolveTouch(r)
  <2>1. PICK r \in Request : ResolveTouch(r)
    BY <1>6
  <2>2. sessions' = sessions
    BY <2>1, TouchKeepsSessions DEF RevocationInv
  <2>3. \A q \in Request : request'[q] \subseteq request[q]
    BY <2>1 DEF ResolveTouch, TypeOK
  <2>4. UNCHANGED <<login, revoked, delivered, Tokens>>
    BY <2>1, <2>2 DEF ResolveTouch, Tokens
  <2>5. \A q \in Request : \A e \in request'[q] : request'[q] = {e}
    BY <2>3 DEF RevocationInv, SessionInv
  <2>. QED
    BY <2>2, <2>3, <2>4, <2>5 DEF RevocationInv, SessionInv, RevokedStaysRevoked
<1>7. CASE UNCHANGED <<login, request, sessions, delivered, revoked>>
  <2>1. UNCHANGED Tokens
    BY <1>7 DEF Tokens
  <2>. QED
    BY <1>7, <2>1 DEF RevocationInv, SessionInv, RevokedStaysRevoked
<1>. QED
  BY <1>1, <1>2, <1>3, <1>4, <1>5, <1>6, <1>7
  DEF Next, vars, AllEnded, ChangeUser, ChangePassword, ChangeStep, ChangeFault,
      StartChange, LockRow, Refuse, Commit, SettleUncertain, DeleteDone, RollBack,
      CommitUnanswered, DeleteFails

(***************************************************************************)
(* A token that was revoked names no entry ever again, whatever requests   *)
(* are being resolved and whatever logins are under way (session.ts        *)
(* resolveSession, its SET ... XX).                                        *)
(***************************************************************************)
THEOREM RevocationFinal == Spec => [](SessionInv /\ RevokedStaysRevoked)
<1>1. Init => RevocationInv
  BY DEF Init, NoLogin, RevocationInv, SessionInv, RevokedStaysRevoked, Tokens
<1>2. TypeOK /\ RevocationInv /\ [Next]_vars => RevocationInv'
  BY RevocationStep
<1>3. RevocationInv <=> SessionInv /\ RevokedStaysRevoked
  BY DEF RevocationInv
<1>. QED
  BY <1>1, <1>2, <1>3, AuthTypeCorrect, PTL DEF Spec

-----------------------------------------------------------------------------
(***************************************************************************)
(* Sessions that leave, logins that end and rows whose version rises keep  *)
(* StaleInv, as long as no login is kept, no token is given away and no    *)
(* change is moved.                                                        *)
(***************************************************************************)
LEMMA StaleFrame ==
    ASSUME TypeOK, StaleInv, users' \in [User -> Row], sessions' \subseteq sessions,
           \A u \in User : users[u].version <= users'[u].version,
           answered' = answered, delivered' = delivered,
           \A l \in Login : login'[l] = login[l] \/ login'[l].pc # "kept",
           \A c \in Change : change'[c] = change[c] \/ change'[c].pc # "deleting"
    PROVE  StaleInv'
<1>1. \A s \in sessions : s.token \in Login /\ s.user \in User /\ s.version \in Nat
  BY DEF TypeOK, Session
<1>2. \A s \in sessions : Unkept(s) => Unkept(s)'
  BY <1>1 DEF Unkept
<1>3. \A u \in User : users[u].version \in Nat /\ users'[u].version \in Nat
                      /\ answered[u] \in Nat
  BY DEF TypeOK, Row
<1>4. \A u \in User : answered'[u] <= users'[u].version
  BY <1>3 DEF StaleInv
<1>5. ASSUME NEW c \in Change, change'[c].pc = "deleting"
      PROVE  /\ change'[c].version <= users'[change'[c].target].version
             /\ \A s \in sessions' :
                  s.user = change'[c].target /\ s.version < change'[c].version =>
                      s.token \in change'[c].todo \/ Unkept(s)'
  <2>1. change'[c] = change[c] /\ change[c].target \in User
        /\ change[c].version \in Nat
    BY <1>5 DEF TypeOK
  <2>2. change[c].version <= users[change[c].target].version
    BY <1>5, <2>1 DEF StaleInv
  <2>3. \A s \in sessions :
          s.user = change[c].target /\ s.version < change[c].version =>
              s.token \in change[c].todo \/ Unkept(s)
    BY <1>5, <2>1 DEF StaleInv
  <2>. QED
    BY <2>1, <2>2, <2>3, <1>2, <1>3
<1>6. \A s \in sessions' : s.version < answered'[s.user] => Unkept(s)'
  BY <1>2 DEF StaleInv
<1>. QED
  BY <1>4, <1>5, <1>6 DEF StaleInv

(***************************************************************************)
(* A login's second read keeps only a session that is as new as the row    *)
(* (service.ts login): what it keeps is stale for no change.               *)
(***************************************************************************)
LEMMA LoginStale ==
    ASSUME TypeOK, SessionInv, StaleInv, NEW l \in Login,
           LoginStep(l) \/ LoginFails(l)
    PROVE  StaleInv'
<1>a. login \in [Login -> LoginRecord] /\ login[l] \in LoginRecord
      /\ users \in [User -> Row] /\ change \in [Change -> ChangeRecord]
      /\ \A s \in sessions : s.token \in Login /\ s.user \in User /\ s.version \in Nat
  BY DEF TypeOK, LoginRecord, ChangeRecord, Session
<1>b. \A u \in User : users[u].version \in Nat /\ answered[u] \in Nat
                      /\ answered[u] <= users[u].version
  BY DEF TypeOK, Row, StaleInv
<1>c. UNCHANGED <<users, change, answered>>
  BY DEF LoginStep, LoginRead, CreateSession, Recheck, RevokeStale, LoginReturn,
         LoginFails
<1>d. \A c \in Change : change[c].target \in User /\ change[c].version \in Nat
  BY <1>a DEF ChangeRecord
<1>1. CASE LoginRead(l) \/ RevokeStale(l) \/ LoginFails(l)
  <2>1. \A k \in Login : login'[k] = login[k] \/ login'[k].pc # "kept"
    BY <1>1, <1>a
    DEF LoginRead, RevokeStale, LoginFails, EndLogin, NoLogin
  <2>2. sessions' \subseteq sessions /\ delivered' = delivered
    BY <1>1 DEF LoginRead, RevokeStale, LoginFails, Delete
  <2>. QED
    BY <2>1, <2>2, <1>a, <1>b, <1>c, StaleFrame
<1>2. CASE CreateSession(l) \/ Recheck(l) \/ LoginReturn(l)
  <2>1. ASSUME NEW s \in sessions'
        PROVE  \/ s \in sessions /\ (Unkept(s) => Unkept(s)')
               \/ Unkept(s)'
               \/ s.user \in User /\ s.version \in Nat
                  /\ s.version >= users[s.user].version
    <3>1. CASE CreateSession(l)
      <4>1. login'[l] = [login[l] EXCEPT !.pc = "created"]
            /\ (\A k \in Login : k # l => login'[k] = login[k])
            /\ delivered' = delivered
            /\ (s \in sessions \/ s.token = l)
        BY <3>1, <1>a DEF CreateSession
      <4>2. login'[l].pc = "created"
        BY <4>1, <1>a DEF LoginRecord
      <4>3. l \notin delivered
        BY <3>1 DEF SessionInv, CreateSession
      <4>4. CASE s.token = l
        BY <4>1, <4>2, <4>3, <4>4 DEF Unkept
      <4>5. CASE s \in sessions /\ s.token # l
        BY <4>1, <4>5, <1>a DEF Unkept
      <4>. QED
        BY <4>1, <4>4, <4>5
    <3>2. CASE Recheck(l)
      <4>1. PICK at \in {"kept", "stale"} :
              /\ login' = [login EXCEPT ![l].pc = at]
              /\ at = "kept" => users[login[l].user].version = login[l].version
        BY <3>2 DEF Recheck
      <4>2. login'[l] = [login[l] EXCEPT !.pc = at]
            /\ \A k \in Login : k # l => login'[k] = login[k]
        BY <4>1, <1>a
      <4>3. login'[l].pc = at
        BY <4>2, <1>a DEF LoginRecord
      <4>4. s \in sessions /\ delivered' = delivered /\ login[l].pc = "created"
        BY <3>2 DEF Recheck
      <4>5. l \notin delivered
        BY <4>4 DEF SessionInv
      <4>6. CASE s.token # l
        BY <4>2, <4>4, <4>6, <1>a DEF Unkept
      <4>7. CASE s.token = l /\ at = "stale"
        BY <4>3, <4>4, <4>5, <4>7 DEF Unkept
      <4>8. CASE s.token = l /\ at = "kept"
        <5>1. s.user = login[l].user /\ s.version = login[l].version
          BY <4>4, <4>8 DEF SessionInv
        <5>. QED
          BY <5>1, <4>1, <4>4, <4>8, <1>a, <1>b
      <4>. QED
        BY <4>6, <4>7, <4>8
    <3>3. CASE LoginReturn(l)
      <4>1. login[l].pc = "kept" /\ delivered' = delivered \cup {l} /\ s \in sessions
            /\ \A k \in Login : k # l => login'[k] = login[k]
        BY <3>3, <1>a DEF LoginReturn, EndLogin
      <4>. QED
        BY <4>1, <1>a DEF Unkept
    <3>. QED
      BY <1>2, <3>1, <3>2, <3>3
  <2>2. ASSUME NEW c \in Change, change[c].pc = "deleting", NEW s \in sessions',
               s.user = change[c].target, s.version < change[c].version
        PROVE  s.token \in change[c].todo \/ Unkept(s)'
    <3>1. change[c].version <= users[change[c].target].version
      BY <2>2 DEF StaleInv
    <3>2. ~(s.version \in Nat /\ s.version >= users[s.user].version)
      BY <3>1, <2>2, <1>b, <1>d
    <3>3. s \in sessions => s.token \in change[c].todo \/ Unkept(s)
      BY <2>2 DEF StaleInv
    <3>. QED
      BY <3>2, <3>3, <2>1
  <2>3. ASSUME NEW s \in sessions', s.version < answered[s.user]
        PROVE  Unkept(s)'
    <3>1. s \in sessions => Unkept(s)
      BY <2>3 DEF StaleInv
    <3>2. ~(s.user \in User /\ s.version \in Nat /\ s.version >= users[s.user].version)
      BY <2>3, <1>b
    <3>. QED
      BY <3>1, <3>2, <2>1
  <2>. QED
    BY <2>2, <2>3, <1>c DEF StaleInv
<1>. QED
  BY <1>1, <1>2 DEF LoginStep

(***************************************************************************)
(* A change deletes the sessions that were there when it committed, before *)
(* it is answered (service.ts authorityChange).                            *)
(***************************************************************************)
LEMMA ChangeStale ==
    ASSUME TypeOK, TypeOK', SessionInv, StaleInv, NEW c \in Change,
           ChangeUser(c) \/ ChangePassword(c) \/ ChangeStep(c) \/ ChangeFault(c)
    PROVE  StaleInv'
<1>a. change \in [Change -> ChangeRecord] /\ change[c] \in ChangeRecord
      /\ users \in [User -> Row] /\ users' \in [User -> Row]
      /\ \A s \in sessions : s.token \in Login /\ s.user \in User /\ s.version \in Nat
  BY DEF TypeOK, ChangeRecord, Session
<1>b. \A u \in User : users[u].version \in Nat /\ users'[u].version \in Nat
                      /\ answered[u] \in Nat /\ answered[u] <= users[u].version
  BY DEF TypeOK, Row, StaleInv
<1>c. \A d \in Change : change[d].target \in User /\ change[d].version \in Nat
  BY <1>a DEF ChangeRecord
<1>d. login' = login /\ delivered' = delivered /\ sessions' \subseteq sessions
      /\ \A s \in sessions : Unkept(s)' = Unkept(s)
  BY DEF ChangeUser, ChangePassword, StartChange, ChangeStep, ChangeFault, LockRow,
         Refuse, Commit, SettleUncertain, DeleteNext, DeleteDone, RollBack,
         CommitUnanswered, DeleteUncertain, DeleteFails, Delete, Unkept
<1>e. \A u \in User : users[u].version <= users'[u].version
  <2>1. CASE Write(c)
    <3>1. Changed(c).version = users[change[c].target].version + 1
          /\ change[c].target \in User
      BY ChangedLemma
    <3>2. users'[change[c].target] = Changed(c)
          /\ \A u \in User : u # change[c].target => users'[u] = users[u]
      BY <2>1, <3>1, <1>a DEF Write
    <3>. QED
      BY <3>1, <3>2, <1>b
  <2>2. CASE users' = users
    BY <2>2, <1>b
  <2>. QED
    BY <2>1, <2>2
    DEF ChangeUser, ChangePassword, StartChange, ChangeStep, ChangeFault, LockRow,
        Refuse, Commit, SettleUncertain, DeleteNext, DeleteDone, RollBack,
        CommitUnanswered, DeleteUncertain, DeleteFails
<1>1. CASE answered' = answered
           /\ \A d \in Change : change'[d] = change[d] \/ change'[d].pc # "deleting"
  BY <1>1, <1>a, <1>d, <1>e, StaleFrame
<1>2. ASSUME answered' = answered, \A d \in Change : d # c => change'[d] = change[d],
             change'[c].target = change[c].target, change'[c].version \in Nat,
             change'[c].version <= users'[change[c].target].version,
             \A s \in sessions' :
               s.user = change[c].target /\ s.version < change'[c].version =>
                   s.token \in change'[c].todo \/ Unkept(s)
      PROVE  StaleInv'
  <2>1. \A u \in User : answered'[u] <= users'[u].version
    BY <1>2, <1>b, <1>e
  <2>2. ASSUME NEW d \in Change, change'[d].pc = "deleting"
        PROVE  /\ change'[d].version <= users'[change'[d].target].version
               /\ \A s \in sessions' :
                    s.user = change'[d].target /\ s.version < change'[d].version =>
                        s.token \in change'[d].todo \/ Unkept(s)'
    <3>1. CASE d = c
      BY <3>1, <1>2, <1>d
    <3>2. CASE d # c
      <4>1. change'[d] = change[d]
        BY <3>2, <1>2
      <4>2. change[d].version <= users[change[d].target].version
            /\ \A s \in sessions :
                 s.user = change[d].target /\ s.version < change[d].version =>
                     s.token \in change[d].todo \/ Unkept(s)
        BY <4>1, <2>2 DEF StaleInv
      <4>. QED
        BY <4>1, <4>2, <1>b, <1>c, <1>d, <1>e
    <3>. QED
      BY <3>1, <3>2
  <2>3. \A s \in sessions' : s.version < answered'[s.user] => Unkept(s)'
    BY <1>2, <1>d DEF StaleInv
  <2>. QED
    BY <2>1, <2>2, <2>3 DEF StaleInv
<1>3. CASE Commit(c)
  <2>. DEFINE rec == [change[c] EXCEPT !.pc = "deleting",
                        !.todo = TokensOf(change[c].target),
                        !.version = Changed(c).version]
  <2>1. change' = [change EXCEPT ![c] = rec]
    BY <1>3, <1>a DEF Commit, ChangeRecord
  <2>2. rec.target = change[c].target /\ rec.todo = TokensOf(change[c].target)
        /\ rec.version = Changed(c).version
    BY <1>a DEF ChangeRecord
  <2>. HIDE DEF rec
  <2>3. change'[c] = rec /\ \A d \in Change : d # c => change'[d] = change[d]
    BY <2>1, <1>a
  <2>4. users'[change[c].target] = Changed(c) /\ answered' = answered
    BY <1>3, <1>a, <1>c DEF Commit, Write
  <2>5. \A s \in sessions : s.user = change[c].target =>
          s.token \in TokensOf(change[c].target)
    BY DEF TokensOf, SessionsOf
  <2>6. change'[c].version = users'[change[c].target].version
        /\ change'[c].version \in Nat
    BY <2>2, <2>3, <2>4, <1>b, <1>c
  <2>7. change'[c].version <= users'[change[c].target].version
    BY <2>6
  <2>8. \A s \in sessions' :
          s.user = change[c].target /\ s.version < change'[c].version =>
              s.token \in change'[c].todo \/ Unkept(s)
    BY <2>2, <2>3, <2>5, <1>d
  <2>. QED
    BY <2>2, <2>3, <2>4, <2>6, <2>7, <2>8, <1>2
<1>4. CASE DeleteNext(c)
  <2>1. PICK s0 \in SessionsOf(change[c].target) : Delete({s0})
              /\ change' = [change EXCEPT ![c].todo = @ \ {s0.token}]
    BY <1>4 DEF DeleteNext
  <2>2. change'[c] = [change[c] EXCEPT !.todo = @ \ {s0.token}]
        /\ \A d \in Change : d # c => change'[d] = change[d]
    BY <2>1, <1>a
  <2>3. change'[c].target = change[c].target /\ change'[c].version = change[c].version
        /\ change'[c].todo = change[c].todo \ {s0.token}
    BY <2>2, <1>a DEF ChangeRecord
  <2>4. sessions' = sessions \ {s0} /\ s0 \in sessions
        /\ change[c].pc = "deleting" /\ answered' = answered /\ users' = users
    BY <1>4, <2>1 DEF DeleteNext, Delete, SessionsOf
  <2>5. \A s \in sessions' : s.token # s0.token
    BY <2>4 DEF SessionInv
  <2>6. change[c].version <= users[change[c].target].version
        /\ \A s \in sessions :
             s.user = change[c].target /\ s.version < change[c].version =>
                 s.token \in change[c].todo \/ Unkept(s)
    BY <2>4 DEF StaleInv
  <2>. QED
    BY <2>2, <2>3, <2>4, <2>5, <2>6, <1>2, <1>c
<1>5. CASE DeleteDone(c)
  <2>. DEFINE u == change[c].target
  <2>1. /\ change[c].pc = "deleting" /\ change[c].todo \cap Tokens = {}
        /\ users' = users /\ sessions' = sessions /\ change'[c].pc = "ended"
        /\ \A d \in Change : d # c => change'[d] = change[d]
    BY <1>5, <1>a DEF DeleteDone, EndChange, NoChange
  <2>2. u \in User /\ \A v \in User : v # u => answered'[v] = answered[v]
    BY <1>5, <1>c DEF DeleteDone, TypeOK
  <2>3. answered'[u] = answered[u] \/ answered'[u] = change[c].version
    BY <1>5, <2>2 DEF DeleteDone, TypeOK
  <2>4. change[c].version <= users[u].version
        /\ \A s \in sessions : s.user = u /\ s.version < change[c].version =>
             s.token \in change[c].todo \/ Unkept(s)
    BY <2>1 DEF StaleInv
  <2>5. \A s \in sessions : s.token \notin change[c].todo
    BY <2>1 DEF Tokens
  <2>6. \A v \in User : answered'[v] <= users'[v].version
    BY <2>1, <2>2, <2>3, <2>4, <1>b
  <2>7. ASSUME NEW s \in sessions', s.version < answered'[s.user] PROVE Unkept(s)'
    <3>1. Unkept(s)
      BY <2>1, <2>2, <2>3, <2>4, <2>5, <2>7, <1>a DEF StaleInv
    <3>. QED
      BY <3>1, <2>1, <1>d
  <2>8. ASSUME NEW d \in Change, change'[d].pc = "deleting"
        PROVE  /\ change'[d].version <= users'[change'[d].target].version
               /\ \A s \in sessions' :
                    s.user = change'[d].target /\ s.version < change'[d].version =>
                        s.token \in change'[d].todo \/ Unkept(s)'
    <3>1. change'[d] = change[d]
      BY <2>1, <2>8
    <3>2. change[d].version <= users[change[d].target].version
          /\ \A s \in sessions :
               s.user = change[d].target /\ s.version < change[d].version =>
                   s.token \in change[d].todo \/ Unkept(s)
      BY <3>1, <2>8 DEF StaleInv
    <3>. QED
      BY <3>1, <3>2, <2>1, <1>d
  <2>. QED
    BY <2>6, <2>7, <2>8 DEF StaleInv
<1>6. CASE LockRow(c) \/ CommitUnanswered(c)
  <2>1. \A d \in Change : d # c => change'[d] = change[d]
    BY <1>6, <1>a DEF LockRow, CommitUnanswered, AfterRow
  <2>2. change'[c].pc # "deleting"
    <3>1. CASE CommitUnanswered(c)
      BY <3>1, <1>a DEF CommitUnanswered, ChangeRecord
    <3>2. CASE LockRow(c)
      <4>1. PICK u \in User : change' = AfterRow(c, u)
        BY <3>2 DEF LockRow, NextRow, TypeOK
      <4>2. change' = [change EXCEPT ![c] =
                 [change[c] EXCEPT !.todo = @ \ {u},
                    !.admins = IF ActiveAdmin(users[u]) THEN @ \cup {u} ELSE @]]
        BY <4>1, <1>a DEF AfterRow, ChangeRecord
      <4>3. change'[c] =
                 [change[c] EXCEPT !.todo = @ \ {u},
                    !.admins = IF ActiveAdmin(users[u]) THEN @ \cup {u} ELSE @]
        BY <4>2, <1>a
      <4>4. change'[c].pc = change[c].pc
        BY <4>3, <1>a DEF ChangeRecord
      <4>. QED
        BY <4>4, <3>2 DEF LockRow
    <3>. QED
      BY <1>6, <3>1, <3>2
  <2>3. answered' = answered
    BY <1>6 DEF LockRow, CommitUnanswered
  <2>. QED
    BY <2>1, <2>2, <2>3, <1>1
<1>7. CASE ChangeUser(c) \/ ChangePassword(c)
  <2>1. PICK target \in User, role \in SUBSET Role, status \in SUBSET Status,
             rows \in SUBSET User : StartChange(c, target, role, status, rows)
    BY <1>7 DEF ChangeUser, ChangePassword, Selected
  <2>2. answered' = answered /\ change'[c].pc = "locking"
        /\ \A d \in Change : d # c => change'[d] = change[d]
    BY <2>1, <1>a DEF StartChange
  <2>. QED
    BY <2>2, <1>1
<1>8. CASE Refuse(c) \/ RollBack(c) \/ SettleUncertain(c) \/ DeleteFails(c)
  BY <1>8, <1>1, <1>a
  DEF Refuse, RollBack, SettleUncertain, DeleteFails, EndChange, NoChange
<1>9. CASE DeleteUncertain(c)
  BY <1>9, <1>1 DEF DeleteUncertain
<1>. QED
  BY <1>3, <1>4, <1>5, <1>6, <1>7, <1>8, <1>9 DEF ChangeStep, ChangeFault

(***************************************************************************)
(* After a change of a user was answered no client holds a session granted *)
(* before it, for any number of concurrent logins, changes and requests    *)
(* (service.ts login and authorityChange, session.ts).                     *)
(***************************************************************************)
THEOREM NoStaleSessionStays == Spec => []NoStaleSession
<1>1. Init => StaleInv
  BY DEF Init, NoChange, StaleInv
<1>2. TypeOK /\ TypeOK' /\ SessionInv /\ StaleInv /\ [Next]_vars => StaleInv'
  <2>. SUFFICES ASSUME TypeOK, TypeOK', SessionInv, StaleInv, [Next]_vars
                PROVE  StaleInv'
    OBVIOUS
  <2>1. CASE \E l \in Login : LoginStep(l) \/ LoginFails(l)
    BY <2>1, LoginStale
  <2>2. CASE \E c \in Change :
               ChangeUser(c) \/ ChangePassword(c) \/ ChangeStep(c) \/ ChangeFault(c)
    BY <2>2, ChangeStale
  <2>3. CASE UNCHANGED <<users, login, change, delivered, answered>>
             /\ sessions' \subseteq sessions
    <3>1. users' \in [User -> Row] /\ \A u \in User : users[u].version \in Nat
      BY DEF TypeOK, Row
    <3>2. \A u \in User : users[u].version <= users'[u].version
      BY <3>1, <2>3
    <3>. QED
      BY <2>3, <3>1, <3>2, StaleFrame
  <2>4. CASE \E r \in Request : ResolveGet(r) \/ ResolveTouch(r)
    <3>1. PICK r \in Request : ResolveGet(r) \/ ResolveTouch(r)
      BY <2>4
    <3>2. sessions' \subseteq sessions
      BY <3>1, TouchKeepsSessions DEF ResolveGet
    <3>. QED
      BY <3>1, <3>2, <2>3 DEF ResolveGet, ResolveTouch
  <2>5. CASE SessionEnds
    BY <2>5, <2>3 DEF SessionEnds, Delete
  <2>6. CASE AllEnded \/ UNCHANGED vars
    BY <2>6, <2>3 DEF AllEnded, vars
  <2>. QED
    BY <2>1, <2>2, <2>4, <2>5, <2>6 DEF Next
<1>3. TypeOK /\ SessionInv /\ StaleInv => NoStaleSession
  <2>. SUFFICES ASSUME TypeOK, StaleInv, NEW s \in sessions, s.token \in delivered
                PROVE  s.version >= answered[s.user]
    BY DEF NoStaleSession
  <2>1. s.version \in Nat /\ s.user \in User /\ answered[s.user] \in Nat
    BY DEF TypeOK, Session
  <2>2. ~(s.version < answered[s.user])
    BY DEF StaleInv, Unkept
  <2>. QED
    BY <2>1, <2>2
<1>. QED
  BY <1>1, <1>2, <1>3, AuthTypeCorrect, RevocationFinal, PTL DEF Spec
=============================================================================
