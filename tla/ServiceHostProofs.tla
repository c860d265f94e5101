--------------------------- MODULE ServiceHostProofs ---------------------------
(***************************************************************************)
(* Proofs about module ServiceHost, for every number of processes, faults  *)
(* and log records: no start, stop, watchdog, crash or detached teardown   *)
(* takes a live capture's session from a process that holds the lock       *)
(* (SessionKept), and a service that reported STOPPED left no run, no      *)
(* teardown and no session behind except where its code says so            *)
(* (StopIsComplete); and the service's log loses and reorders no record    *)
(* (LogKept).                                                              *)
(*                                                                         *)
(* The argument follows the lock: while a run that acquired it is under    *)
(* way the lock is its own, so two runs that may stop the session by name  *)
(* are never both under way; what outlives a run is its teardown, and then *)
(* the run's code is the deadline's.  For the log it follows a rotation    *)
(* rename by rename: each goes to the next older name, which is free.      *)
(***************************************************************************)
EXTENDS ServiceHost, FiniteSetTheorems, WellFoundedInduction, TLAPS

(* Where a run is between its lock and its end.                            *)
UnderWay == {"log", "opening", "identity", "reclaim", "session", "logons", "capture", "teardown",
             "undo"}
Places == UnderWay \cup {"off", "start", "ended", "gone"}

ScmStates == {"STOPPED", "START_PENDING", "RUNNING", "STOP_PENDING"}
ScmRecords == [proc : {NoProc} \cup Procs, state : ScmStates, code : Int]

Typed ==
    /\ kind \in [Procs -> Kinds \cup {"none"}]
    /\ at \in [Procs -> Places]
    /\ holds \in [Procs -> BOOLEAN]
    /\ teardown \in [Procs -> {"none", "logons", "session", "done"}]
    /\ main \in [Procs -> {"run", "aborted", "end"}]
    /\ exit \in [Procs -> Int]
    /\ lock \in {NoProc} \cup Procs /\ session \in {NoProc} \cup Procs
    /\ scm \in ScmRecords

(* The lock is the run's that holds it, from its acquisition to its end.   *)
LockHeld ==
    \A p \in Procs :
        /\ lock = p => at[p] \in UnderWay /\ holds[p]
        /\ holds[p] /\ at[p] \in UnderWay => lock = p
        /\ at[p] \in {"off", "start"} => ~holds[p]

(* A run without the lock is an ordinary user's, and reclaims nothing.     *)
Privileges ==
    \A p \in Procs :
        /\ holds[p] => kind[p] \in {"service", "admin"}
        /\ at[p] \in UnderWay /\ ~holds[p] => kind[p] = "user"
        /\ at[p] = "reclaim" => holds[p]

(* The watchdog's code is the deadline's; a run that was joined has ended. *)
Supervised ==
    \A p \in Procs :
        /\ main[p] = "aborted" => exit[p] = DEADLINE
        /\ main[p] = "end" => at[p] = "ended"
        /\ scm.proc = p => at[p] # "off" /\ kind[p] = "service"
        /\ scm.proc = p /\ scm.state = "STOPPED" /\ Alive(p) =>
               main[p] \in {"aborted", "end"} /\ scm.code = exit[p]

(* A teardown outlives its run only past the deadline.                     *)
TeardownHeld ==
    \A p \in Procs : teardown[p] \in {"logons", "session"} =>
        at[p] = "teardown" \/ (at[p] = "ended" /\ exit[p] = DEADLINE)

(* A live process whose session lives is on the way to stop it, unless it  *)
(* was refused, or an ordinary user's start failed and left it.            *)
SessionOwned ==
    \A p \in Procs : session = p =>
        /\ at[p] # "off"
        /\ \/ p \in refused \/ ~Alive(p)
           \/ at[p] \in {"logons", "capture", "undo"}
           \/ teardown[p] \in {"logons", "session"}
           \/ at[p] = "ended" /\ kind[p] = "user"

HostInv == Typed /\ LockHeld /\ Privileges /\ Supervised /\ TeardownHeld /\ SessionOwned

-----------------------------------------------------------------------------
(* The shapes of a step: what happens to the process that takes it.        *)

(* The host starts in the invariant, with no process.                      *)
LEMMA HostInit == Init => HostInv
  <1>. SUFFICES ASSUME Init PROVE HostInv
    OBVIOUS
  <1>. USE DEF Init
  <1>1. NoProc \notin Procs
    BY DEF NoProc, Procs
  <1>2. Typed
    <2>1. "STOPPED" \in ScmStates
      BY DEF ScmStates
    <2>2. scm \in ScmRecords
      BY <2>1 DEF ScmRecords, Clean
    <2>. QED  BY <2>2 DEF Typed, Places, Pending, NoProc
  <1>3. LockHeld /\ Privileges /\ TeardownHeld /\ SessionOwned
    BY <1>1 DEF LockHeld, Privileges, TeardownHeld, SessionOwned, UnderWay
  <1>4. Supervised
    BY <1>1 DEF Supervised
  <1>. QED  BY <1>2, <1>3, <1>4 DEF HostInv

(* What the others have of a step: stop_session by name takes a session    *)
(* away and never gives one.                                               *)
LEMMA StopSessionLemma ==
    ASSUME NEW p \in Procs, StopSession(p)
    PROVE  /\ session' \in {session, NoProc} /\ refused \subseteq refused'
           /\ session' = p => p \in refused'
  BY DEF StopSession, NoProc, Procs

(* The run of p goes to another place on its way.                          *)
LEMMA GoesKeeps ==
    ASSUME HostInv, NEW p \in Procs, NEW place \in UnderWay,
           at[p] \in UnderWay, at' = [at EXCEPT ![p] = place],
           place = "reclaim" => holds[p],
           UNCHANGED <<kind, holds, main, exit, lock>>,
           scm' \in {scm, [scm EXCEPT !.state = "RUNNING"]},
           refused \subseteq refused',
           \/ session' \in {session, NoProc}
           \/ session' = p,
           session' = p => p \in refused' \/ place \in {"logons", "capture", "undo", "teardown"},
           \/ UNCHANGED teardown /\ at[p] # "teardown" /\ place # "teardown"
           \/ teardown' = [teardown EXCEPT ![p] = "logons"] /\ place = "teardown"
    PROVE  HostInv'
  <1>. USE DEF HostInv
  <1>1. \A q \in Procs : at'[q] = IF q = p THEN place ELSE at[q]
    BY DEF Typed
  <1>2. NoProc \notin Procs
    BY DEF NoProc, Procs
  <1>3. at[p] \notin {"off", "start", "ended", "gone"} /\ place \notin {"off", "start", "ended", "gone"}
    BY DEF UnderWay
  <1>4. Typed'
    <2>1. scm' \in ScmRecords
      <3>1. "RUNNING" \in ScmStates
        BY DEF ScmStates
      <3>. QED  BY <3>1 DEF Typed, ScmRecords
    <2>2. at' \in [Procs -> Places] /\ teardown' \in [Procs -> {"none", "logons", "session", "done"}]
      BY DEF Typed, Places
    <2>. QED  BY <2>1, <2>2 DEF Typed
  <1>5. LockHeld'
    BY <1>1, <1>3 DEF LockHeld
  <1>6. Privileges'
    BY <1>1 DEF Privileges
  <1>7. Supervised'
    <2>1. scm'.proc = scm.proc /\ scm'.code = scm.code /\ (scm'.state = "STOPPED" => scm.state = "STOPPED")
      BY DEF Typed, ScmRecords
    <2>. QED  BY <1>1, <1>3, <2>1 DEF Supervised, Alive
  <1>8. TeardownHeld'
    BY <1>1, <1>3 DEF TeardownHeld, Typed
  <1>9. SessionOwned'
    <2>1. \A q \in Procs : q # p => teardown'[q] = teardown[q]
      BY DEF Typed
    <2>2. place = "teardown" => teardown'[p] = "logons"
      BY DEF Typed
    <2>. QED  BY <1>1, <1>2, <1>3, <2>1, <2>2 DEF SessionOwned, Alive
  <1>. QED  BY <1>4, <1>5, <1>6, <1>7, <1>8, <1>9

(* The run of p ends: with it the lock; a teardown it leaves has the       *)
(* deadline's code.                                                        *)
LEMMA EndsKeeps ==
    ASSUME HostInv, NEW p \in Procs, NEW code \in Int,
           at[p] \in UnderWay \cup {"start"},
           at' = [at EXCEPT ![p] = "ended"],
           exit' = [exit EXCEPT ![p] = code],
           lock' = IF lock = p THEN NoProc ELSE lock,
           main[p] = "aborted" => code = DEADLINE,
           teardown[p] \in {"logons", "session"} => code = DEADLINE,
           UNCHANGED <<kind, holds, main, teardown, scm>>,
           session' \in {session, NoProc, p}, refused \subseteq refused',
           session' = p => \/ p \in refused' \/ teardown[p] \in {"logons", "session"}
                           \/ kind[p] = "user"
    PROVE  HostInv'
  <1>. USE DEF HostInv
  <1>1. \A q \in Procs : /\ at'[q] = IF q = p THEN "ended" ELSE at[q]
                         /\ exit'[q] = IF q = p THEN code ELSE exit[q]
    BY DEF Typed
  <1>2. NoProc \notin Procs /\ "ended" \notin UnderWay
    BY DEF NoProc, Procs, UnderWay
  <1>3. Typed'
    BY DEF Typed, Places
  <1>4. LockHeld'
    BY <1>1, <1>2 DEF LockHeld
  <1>5. Privileges'
    BY <1>1, <1>2 DEF Privileges
  <1>6. Supervised'
    <2>1. Alive(p) /\ at[p] # "ended"
      BY DEF Alive, UnderWay
    <2>2. main[p] # "end"
      BY <2>1 DEF Supervised
    <2>. QED  BY <1>1, <2>1, <2>2 DEF Supervised, Alive
  <1>7. TeardownHeld'
    BY <1>1 DEF TeardownHeld
  <1>8. SessionOwned'
    BY <1>1, <1>2 DEF SessionOwned, Alive
  <1>. QED  BY <1>3, <1>4, <1>5, <1>6, <1>7, <1>8

(* The process of p is gone, and its memory and handles with it.           *)
LEMMA GoneKeeps ==
    ASSUME HostInv, NEW p \in Procs, Alive(p), Gone(p),
           scm' \in ScmRecords, scm'.proc = scm.proc, scm.proc # p => scm' = scm
    PROVE  HostInv'
  <1>. USE DEF HostInv
  <1>1. /\ at' = [at EXCEPT ![p] = "gone"] /\ holds' = [holds EXCEPT ![p] = FALSE]
        /\ teardown' = [teardown EXCEPT ![p] = "none"] /\ main' = [main EXCEPT ![p] = "run"]
        /\ exit' = [exit EXCEPT ![p] = Pending]
        /\ lock' = (IF lock = p THEN NoProc ELSE lock) /\ refused' = refused \ {p}
        /\ UNCHANGED <<kind, session>>
    BY DEF Gone, Goes
  <1>2. \A q \in Procs : /\ at'[q] = IF q = p THEN "gone" ELSE at[q]
                         /\ holds'[q] = IF q = p THEN FALSE ELSE holds[q]
                         /\ teardown'[q] = IF q = p THEN "none" ELSE teardown[q]
                         /\ main'[q] = IF q = p THEN "run" ELSE main[q]
                         /\ q # p => exit'[q] = exit[q]
    BY <1>1 DEF Typed
  <1>3. NoProc \notin Procs /\ "gone" \notin UnderWay
    BY DEF NoProc, Procs, UnderWay
  <1>4. Typed'
    <2>1. /\ at' \in [Procs -> Places] /\ holds' \in [Procs -> BOOLEAN]
          /\ teardown' \in [Procs -> {"none", "logons", "session", "done"}]
          /\ main' \in [Procs -> {"run", "aborted", "end"}] /\ exit' \in [Procs -> Int]
      BY <1>1 DEF Typed, Places, Pending
    <2>. QED  BY <1>1, <2>1 DEF Typed
  <1>5. LockHeld'
    <2>. SUFFICES ASSUME NEW q \in Procs
                  PROVE  /\ lock' = q => at'[q] \in UnderWay /\ holds'[q]
                         /\ holds'[q] /\ at'[q] \in UnderWay => lock' = q
                         /\ at'[q] \in {"off", "start"} => ~holds'[q]
      BY DEF LockHeld
    <2>1. CASE q = p
      <3>1. lock' # q
        BY <1>1, <1>3, <2>1
      <3>. QED  BY <1>2, <2>1, <3>1
    <2>2. CASE q # p
      <3>1. at'[q] = at[q] /\ holds'[q] = holds[q] /\ (lock' = q <=> lock = q)
        BY <1>1, <1>2, <1>3, <2>2
      <3>. QED  BY <3>1 DEF LockHeld
    <2>. QED  BY <2>1, <2>2
  <1>6. Privileges'
    <2>. SUFFICES ASSUME NEW q \in Procs
                  PROVE  /\ holds'[q] => kind'[q] \in {"service", "admin"}
                         /\ at'[q] \in UnderWay /\ ~holds'[q] => kind'[q] = "user"
                         /\ at'[q] = "reclaim" => holds'[q]
      BY DEF Privileges
    <2>1. CASE q = p
      BY <1>2, <1>3, <2>1
    <2>2. CASE q # p
      <3>1. at'[q] = at[q] /\ holds'[q] = holds[q] /\ kind'[q] = kind[q]
        BY <1>1, <1>2, <2>2
      <3>. QED  BY <3>1 DEF Privileges
    <2>. QED  BY <2>1, <2>2
  <1>7. Supervised'
    <2>. SUFFICES ASSUME NEW q \in Procs
                  PROVE  /\ main'[q] = "aborted" => exit'[q] = DEADLINE
                         /\ main'[q] = "end" => at'[q] = "ended"
                         /\ scm'.proc = q => at'[q] # "off" /\ kind'[q] = "service"
                         /\ scm'.proc = q /\ scm'.state = "STOPPED" /\ Alive(q)' =>
                                main'[q] \in {"aborted", "end"} /\ scm'.code = exit'[q]
      BY DEF Supervised
    <2>1. CASE q = p
      <3>1. scm'.proc = p => kind'[p] = "service"
        BY <1>1 DEF Supervised
      <3>. QED  BY <1>2, <2>1, <3>1 DEF Alive
    <2>2. CASE q # p
      <3>1. /\ at'[q] = at[q] /\ main'[q] = main[q] /\ exit'[q] = exit[q] /\ kind'[q] = kind[q]
            /\ scm'.proc = q => scm' = scm
        BY <1>1, <1>2, <2>2
      <3>. QED  BY <3>1 DEF Supervised, Alive
    <2>. QED  BY <2>1, <2>2
  <1>8. TeardownHeld'
    BY <1>2 DEF TeardownHeld
  <1>9. SessionOwned'
    <2>. SUFFICES ASSUME NEW q \in Procs, session = q
                  PROVE  /\ at'[q] # "off"
                         /\ \/ q \in refused' \/ ~Alive(q)'
                            \/ at'[q] \in {"logons", "capture", "undo"}
                            \/ teardown'[q] \in {"logons", "session"}
                            \/ at'[q] = "ended" /\ kind'[q] = "user"
      BY <1>1 DEF SessionOwned
    <2>1. CASE q = p
      BY <1>2, <2>1 DEF Alive
    <2>2. CASE q # p
      BY <1>1, <1>2, <2>2 DEF SessionOwned, Alive
    <2>. QED  BY <2>1, <2>2
  <1>. QED  BY <1>4, <1>5, <1>6, <1>7, <1>8, <1>9

(* Another start: a process that has nothing yet.                          *)
LEMMA StartKeeps ==
    ASSUME HostInv, NEW p \in Procs, NEW k \in Kinds, Start(p, k)
    PROVE  HostInv'
  <1>. USE DEF HostInv
  <1>1. /\ at[p] = "off" /\ at' = [at EXCEPT ![p] = "start"] /\ kind' = [kind EXCEPT ![p] = k]
        /\ UNCHANGED <<holds, teardown, main, exit, lock, session, refused>>
    BY DEF Start, Goes, hostVars
  <1>2. scm' = IF k = "service" THEN [proc |-> p, state |-> "START_PENDING", code |-> Clean] ELSE scm
    BY DEF Start
  <1>3. \A q \in Procs : /\ at'[q] = IF q = p THEN "start" ELSE at[q]
                         /\ kind'[q] = IF q = p THEN k ELSE kind[q]
    BY <1>1 DEF Typed
  <1>4. "start" \notin UnderWay /\ "off" \notin UnderWay
    BY DEF UnderWay
  <1>5. Typed'
    <2>1. "START_PENDING" \in ScmStates
      BY DEF ScmStates
    <2>2. scm' \in ScmRecords
      BY <1>2, <2>1 DEF ScmRecords, Clean, Typed
    <2>3. at' \in [Procs -> Places] /\ kind' \in [Procs -> Kinds \cup {"none"}]
      BY <1>1 DEF Typed, Places
    <2>. QED  BY <1>1, <2>2, <2>3 DEF Typed
  <1>6. LockHeld'
    BY <1>1, <1>3, <1>4 DEF LockHeld
  <1>7. Privileges'
    BY <1>1, <1>3, <1>4 DEF Privileges, LockHeld
  <1>8. Supervised'
    <2>1. \/ scm'.proc = scm.proc /\ scm'.code = scm.code /\ scm'.state = scm.state
          \/ scm'.proc = p /\ scm'.state = "START_PENDING" /\ k = "service"
      BY <1>2
    <2>. QED  BY <1>1, <1>3, <2>1 DEF Supervised, Alive
  <1>9. TeardownHeld'
    BY <1>1, <1>3 DEF TeardownHeld
  <1>10. SessionOwned'
    BY <1>1, <1>3 DEF SessionOwned, Alive
  <1>. QED  BY <1>5, <1>6, <1>7, <1>8, <1>9, <1>10

(* The lock is granted.                                                    *)
LEMMA GrantKeeps ==
    ASSUME HostInv, NEW p \in Procs, NEW place \in {"log", "identity"},
           at[p] = "start", at' = [at EXCEPT ![p] = place], lock = NoProc,
           kind[p] \in {"service", "admin"}, lock' = p, holds' = [holds EXCEPT ![p] = TRUE],
           UNCHANGED <<kind, main, exit, teardown, scm, session, refused>>
    PROVE  HostInv'
  <1>. USE DEF HostInv
  <1>1. \A q \in Procs : /\ at'[q] = IF q = p THEN place ELSE at[q]
                         /\ holds'[q] = IF q = p THEN TRUE ELSE holds[q]
    BY DEF Typed
  <1>2. NoProc \notin Procs /\ place \in UnderWay /\ place \notin {"start", "off"} /\ "start" \notin UnderWay
    BY DEF NoProc, Procs, UnderWay
  <1>3. Typed'
    BY DEF Typed, Places, UnderWay
  <1>4. LockHeld'
    BY <1>1, <1>2 DEF LockHeld
  <1>5. Privileges'
    BY <1>1, <1>2 DEF Privileges
  <1>6. Supervised'
    BY <1>1 DEF Supervised, Alive
  <1>7. TeardownHeld'
    BY <1>1 DEF TeardownHeld
  <1>8. SessionOwned'
    BY <1>1 DEF SessionOwned, Alive
  <1>. QED  BY <1>3, <1>4, <1>5, <1>6, <1>7, <1>8

(* An ordinary user's agent goes on without the lock.                      *)
LEMMA UnprivilegedKeeps ==
    ASSUME HostInv, NEW p \in Procs,
           at[p] = "start", at' = [at EXCEPT ![p] = "identity"], kind[p] = "user",
           UNCHANGED <<kind, holds, lock, main, exit, teardown, scm, session, refused>>
    PROVE  HostInv'
  <1>. USE DEF HostInv
  <1>1. \A q \in Procs : at'[q] = IF q = p THEN "identity" ELSE at[q]
    BY DEF Typed
  <1>2. "identity" \in UnderWay /\ "start" \notin UnderWay
    BY DEF UnderWay
  <1>3. Typed'
    BY DEF Typed, Places, UnderWay
  <1>4. LockHeld'
    BY <1>1, <1>2 DEF LockHeld
  <1>5. Privileges'
    BY <1>1, <1>2 DEF Privileges
  <1>6. Supervised'
    BY <1>1 DEF Supervised, Alive
  <1>7. TeardownHeld'
    BY <1>1 DEF TeardownHeld
  <1>8. SessionOwned'
    BY <1>1 DEF SessionOwned, Alive
  <1>. QED  BY <1>3, <1>4, <1>5, <1>6, <1>7, <1>8

(* A step of the capture's teardown, in its run or detached.               *)
LEMMA TeardownKeeps ==
    ASSUME HostInv, NEW p \in Procs, Teardown(p)
    PROVE  HostInv'
  <1>. USE DEF HostInv
  <1>1. UNCHANGED <<kind, at, holds, lock, main, exit, scm>>
    BY DEF Teardown
  <1>2. PICK next \in {"session", "done"} :
             /\ teardown' = [teardown EXCEPT ![p] = next]
             /\ teardown[p] \in {"logons", "session"}
             /\ session' \in {session, NoProc} /\ refused \subseteq refused'
             /\ next = "done" /\ session' = p => p \in refused'
    <2>1. CASE teardown[p] = "logons" /\ teardown' = [teardown EXCEPT ![p] = "session"]
               /\ UNCHANGED <<session, refused>>
      BY <2>1
    <2>2. CASE teardown[p] = "session" /\ StopSession(p) /\ teardown' = [teardown EXCEPT ![p] = "done"]
      BY <2>2, StopSessionLemma
    <2>. QED  BY <2>1, <2>2 DEF Teardown
  <1>3. \A q \in Procs : teardown'[q] = IF q = p THEN next ELSE teardown[q]
    BY <1>2 DEF Typed
  <1>4. NoProc \notin Procs
    BY DEF NoProc, Procs
  <1>5. Typed'
    BY <1>1, <1>2 DEF Typed
  <1>6. LockHeld' /\ Privileges'
    BY <1>1 DEF LockHeld, Privileges
  <1>7. Supervised'
    BY <1>1 DEF Supervised, Alive
  <1>8. TeardownHeld'
    BY <1>1, <1>2, <1>3 DEF TeardownHeld
  <1>9. SessionOwned'
    <2>. SUFFICES ASSUME NEW q \in Procs, session' = q
                  PROVE  /\ at[q] # "off"
                         /\ \/ q \in refused' \/ ~Alive(q)
                            \/ at[q] \in {"logons", "capture", "undo"}
                            \/ teardown'[q] \in {"logons", "session"}
                            \/ at[q] = "ended" /\ kind[q] = "user"
      BY <1>1 DEF SessionOwned, Alive
    <2>1. session = q
      BY <1>2, <1>4
    <2>. QED  BY <1>2, <1>3, <2>1 DEF SessionOwned
  <1>. QED  BY <1>5, <1>6, <1>7, <1>8, <1>9

(* The main function joins the run, or its watchdog cuts it.               *)
LEMMA MainKeeps ==
    ASSUME HostInv, NEW p \in Procs, NEW code \in Int, NEW to \in {"end", "aborted"},
           main[p] = "run", main' = [main EXCEPT ![p] = to], exit' = [exit EXCEPT ![p] = code],
           \/ to = "end" /\ at[p] = "ended" /\ (exit[p] = DEADLINE => code = DEADLINE)
           \/ to = "aborted" /\ at[p] # "ended" /\ code = DEADLINE,
           UNCHANGED <<kind, at, holds, lock, teardown, scm, session, refused>>
    PROVE  HostInv'
  <1>. USE DEF HostInv
  <1>1. \A q \in Procs : /\ main'[q] = IF q = p THEN to ELSE main[q]
                         /\ exit'[q] = IF q = p THEN code ELSE exit[q]
    BY DEF Typed
  <1>2. Typed'
    BY DEF Typed
  <1>3. LockHeld' /\ Privileges'
    BY DEF LockHeld, Privileges
  <1>4. Supervised'
    BY <1>1 DEF Supervised, Alive
  <1>5. TeardownHeld'
    BY <1>1 DEF TeardownHeld
  <1>6. SessionOwned'
    BY DEF SessionOwned, Alive
  <1>. QED  BY <1>2, <1>3, <1>4, <1>5, <1>6

(* The service's status changes: STOPPED only with the code of an end.     *)
LEMMA StatusKeeps ==
    ASSUME HostInv, scm' \in ScmRecords, scm'.proc = scm.proc,
           \/ scm'.state # "STOPPED"
           \/ main[scm.proc] \in {"aborted", "end"} /\ scm'.code = exit[scm.proc],
           UNCHANGED <<kind, at, holds, lock, main, exit, teardown, session, refused>>
    PROVE  HostInv'
  <1>. USE DEF HostInv
  <1>1. Typed'
    BY DEF Typed
  <1>2. LockHeld' /\ Privileges' /\ TeardownHeld'
    BY DEF LockHeld, Privileges, TeardownHeld
  <1>3. Supervised'
    BY DEF Supervised, Alive
  <1>4. SessionOwned'
    BY DEF SessionOwned, Alive
  <1>. QED  BY <1>1, <1>2, <1>3, <1>4

(* Nothing the invariant speaks of changes.                                *)
LEMMA IdleKeeps ==
    ASSUME HostInv, UNCHANGED <<kind, at, holds, lock, main, exit, teardown, session, refused, scm>>
    PROVE  HostInv'
  BY DEF HostInv, Typed, LockHeld, Privileges, Supervised, TeardownHeld, SessionOwned, Alive

-----------------------------------------------------------------------------
(* Every step of the run is one of these.                                  *)

(* Ends, as EndsKeeps speaks of it.                                        *)
LEMMA EndsLemma ==
    ASSUME HostInv, NEW p \in Procs, NEW code \in Int, Ends(p, code),
           at[p] \in UnderWay \cup {"start"},
           teardown[p] \in {"logons", "session"} => code = DEADLINE,
           UNCHANGED <<kind, holds, main, teardown, scm>>,
           session' \in {session, NoProc, p}, refused \subseteq refused',
           session' = p => \/ p \in refused' \/ teardown[p] \in {"logons", "session"}
                           \/ kind[p] = "user"
    PROVE  HostInv'
  <1>. DEFINE c == IF Aborted(p) THEN exit[p] ELSE code
  <1>1. c \in Int /\ exit' = [exit EXCEPT ![p] = c]
    BY DEF Ends, HostInv, Typed
  <1>2. main[p] = "aborted" => c = DEADLINE
    BY DEF HostInv, Supervised, Aborted
  <1>3. teardown[p] \in {"logons", "session"} => c = DEADLINE
    BY <1>2 DEF Aborted
  <1>4. at' = [at EXCEPT ![p] = "ended"] /\ lock' = IF lock = p THEN NoProc ELSE lock
    BY DEF Ends
  <1>. HIDE DEF c
  <1>. QED  BY <1>1, <1>2, <1>3, <1>4, EndsKeeps

(* Before its session is up a process has none and no teardown.            *)
LEMMA EarlyLemma ==
    ASSUME HostInv, NEW p \in Procs
    PROVE  /\ at[p] \in {"start", "log", "opening", "identity", "reclaim", "session"} /\ session = p =>
                  p \in refused
           /\ at[p] \in UnderWay \cup {"start", "off"} /\ at[p] # "teardown" =>
                  teardown[p] \notin {"logons", "session"}
  <1>1. at[p] \in UnderWay \cup {"start", "off"} /\ at[p] # "teardown" => at[p] # "ended"
    BY DEF UnderWay
  <1>2. at[p] \in UnderWay \cup {"start", "off"} /\ at[p] # "teardown" =>
            teardown[p] \notin {"logons", "session"}
    BY <1>1 DEF HostInv, TeardownHeld
  <1>3. ASSUME at[p] \in {"start", "log", "opening", "identity", "reclaim", "session"}, session = p
        PROVE  p \in refused
    <2>1. at[p] \notin {"off", "gone", "logons", "capture", "undo"}
          /\ at[p] \in UnderWay \cup {"start", "off"} /\ at[p] # "teardown"
      BY <1>3 DEF UnderWay
    <2>. QED  BY <1>2, <1>3, <2>1 DEF HostInv, SessionOwned, Alive
  <1>. QED  BY <1>2, <1>3

(* The lock or its refusal, and a start refused before it.                 *)
LEMMA AcquireKeeps ==
    ASSUME HostInv, NEW p \in Procs, Acquire(p) \/ Refuse(p)
    PROVE  HostInv'
  <1>. DEFINE R == UNCHANGED <<kind, teardown, main, session, refused, scm>>
  <1>1. at[p] = "start" /\ R
    BY DEF Acquire, Refuse
  <1>2. at[p] \in UnderWay \cup {"start"} /\ "log" \in {"log", "identity"} /\ "identity" \in {"log", "identity"}
    BY <1>1
  <1>3. ASSUME NEW code \in Int, Ends(p, code), UNCHANGED holds
        PROVE  HostInv'
    BY <1>1, <1>2, <1>3, EndsLemma, EarlyLemma
  <1>4. CASE Acquired(p) /\ lock' = p /\ holds' = [holds EXCEPT ![p] = TRUE]
             /\ Goes(p, IF Service(p) THEN "log" ELSE "identity") /\ UNCHANGED exit
    <2>1. PICK place \in {"log", "identity"} : at' = [at EXCEPT ![p] = place]
      BY <1>4 DEF Goes
    <2>. QED  BY <1>1, <1>4, <2>1, GrantKeeps DEF Acquired
  <1>5. CASE kind[p] = "user" /\ Goes(p, "identity") /\ UNCHANGED <<lock, holds, exit>>
    BY <1>1, <1>5, UnprivilegedKeeps DEF Goes
  <1>. QED  BY <1>3, <1>4, <1>5 DEF Acquire, Refuse

(* The places between the lock and the session.                            *)
LEMMA EarlyKeeps ==
    ASSUME HostInv, NEW p \in Procs,
           OpenServiceLog(p) \/ ServiceLogRefused(p) \/ Running(p) \/ Identity(p)
    PROVE  HostInv'
  <1>1. /\ UNCHANGED <<kind, holds, main, teardown, session, refused>>
        /\ at[p] \in {"log", "opening", "identity"}
    BY DEF OpenServiceLog, ServiceLogRefused, Running, Identity, hostVars
  <1>2. /\ at[p] \in UnderWay \cup {"start"} /\ at[p] \in UnderWay /\ at[p] # "teardown"
        /\ at[p] \in {"start", "log", "opening", "identity", "reclaim", "session"}
    BY <1>1 DEF UnderWay
  <1>3. ASSUME NEW code \in Int, Ends(p, code), UNCHANGED scm
        PROVE  HostInv'
    BY <1>1, <1>2, <1>3, EndsLemma, EarlyLemma
  <1>4. ASSUME NEW place \in {"opening", "identity", "reclaim", "session"}, Goes(p, place),
               place = "reclaim" => holds[p], UNCHANGED <<lock, exit>>,
               scm' \in {scm, [scm EXCEPT !.state = "RUNNING"]}
        PROVE  HostInv'
    <2>1. place \in UnderWay /\ place # "teardown"
      BY DEF UnderWay
    <2>2. at' = [at EXCEPT ![p] = place]
      BY <1>4 DEF Goes
    <2>3. session' = p => p \in refused'
      BY <1>1, <1>2, EarlyLemma
    <2>. QED  BY <1>1, <1>2, <1>4, <2>1, <2>2, <2>3, GoesKeeps
  <1>5. CASE OpenServiceLog(p)
    BY <1>4, <1>5 DEF OpenServiceLog, hostVars
  <1>6. CASE ServiceLogRefused(p)
    BY <1>3, <1>6 DEF ServiceLogRefused, SERVICE_LOG
  <1>7. CASE Running(p)
    BY <1>4, <1>7 DEF Running, hostVars
  <1>8. CASE Identity(p)
    <2>1. UNCHANGED scm
      BY <1>8 DEF Identity
    <2>2. CASE Goes(p, IF holds[p] THEN "reclaim" ELSE "session") /\ UNCHANGED <<exit, lock>>
      <3>1. CASE holds[p]
        BY <1>4, <2>1, <2>2, <3>1
      <3>2. CASE ~holds[p]
        BY <1>4, <2>1, <2>2, <3>2
      <3>. QED  BY <3>1, <3>2
    <2>3. CASE Ends(p, 6) \/ Ends(p, Clean)
      BY <1>3, <2>1, <2>3 DEF Clean
    <2>. QED  BY <1>8, <2>2, <2>3 DEF Identity
  <1>. QED  BY <1>5, <1>6, <1>7, <1>8

(* The session and the capture.                                            *)
LEMMA CaptureKeeps ==
    ASSUME HostInv, NEW p \in Procs,
           \/ Reclaim(p) \/ StartSession(p) \/ Undo(p) \/ OpenLogons(p) \/ RunFails(p)
           \/ BeginTeardown(p)
    PROVE  HostInv'
  <1>1. UNCHANGED <<kind, holds, main, scm>>
    BY DEF Reclaim, StartSession, Undo, OpenLogons, RunFails, BeginTeardown
  <1>2. /\ at[p] \in {"reclaim", "session", "undo", "logons", "capture"}
        /\ at[p] \in UnderWay /\ at[p] \in UnderWay \cup {"start"} /\ at[p] # "teardown"
    BY DEF Reclaim, StartSession, Undo, OpenLogons, RunFails, BeginTeardown, UnderWay
  <1>3. ASSUME NEW place \in {"session", "logons", "undo", "capture"}, Goes(p, place),
               UNCHANGED <<lock, exit, teardown>>, refused \subseteq refused',
               session' \in {session, NoProc} \/ session' = p,
               session' = p => p \in refused' \/ place # "session"
        PROVE  HostInv'
    <2>1. place \in UnderWay /\ place \notin {"teardown", "reclaim"}
          /\ (place # "session" => place \in {"logons", "capture", "undo", "teardown"})
      BY DEF UnderWay
    <2>2. at' = [at EXCEPT ![p] = place]
      BY <1>3 DEF Goes
    <2>. QED  BY <1>1, <1>2, <1>3, <2>1, <2>2, GoesKeeps
  <1>4. CASE Reclaim(p)
    <2>1. /\ Goes(p, "session") /\ UNCHANGED <<lock, exit, teardown>> /\ StopSession(p)
      BY <1>4 DEF Reclaim
    <2>. QED  BY <1>3, <2>1, StopSessionLemma
  <1>5. CASE StartSession(p)
    <2>1. UNCHANGED <<teardown, refused>> /\ at[p] = "session"
      BY <1>5 DEF StartSession
    <2>2. CASE session' = p /\ Goes(p, "logons") /\ UNCHANGED <<exit, lock>>
      BY <1>3, <2>1, <2>2
    <2>3. CASE session' \in {session, NoProc, p} /\ Goes(p, "undo") /\ UNCHANGED <<exit, lock>>
      BY <1>3, <2>1, <2>3
    <2>4. CASE session' \in {session, NoProc, p} /\ ~holds[p] /\ Ends(p, 1)
      <3>1. kind[p] = "user"
        BY <1>2, <2>4 DEF HostInv, Privileges
      <3>. QED  BY <1>1, <1>2, <2>1, <2>4, <3>1, EndsLemma, EarlyLemma
    <2>5. CASE Ends(p, 9) /\ UNCHANGED session
      BY <1>1, <1>2, <2>1, <2>5, EndsLemma, EarlyLemma
    <2>. QED  BY <1>5, <2>2, <2>3, <2>4, <2>5 DEF StartSession
  <1>6. CASE Undo(p)
    <2>1. UNCHANGED teardown /\ StopSession(p) /\ Ends(p, 1)
      BY <1>6 DEF Undo
    <2>. QED  BY <1>1, <1>2, <2>1, EndsLemma, EarlyLemma, StopSessionLemma
  <1>7. CASE OpenLogons(p) \/ RunFails(p)
    <2>1. UNCHANGED <<lock, exit, teardown, session, refused>> /\ (Goes(p, "capture") \/ Goes(p, "undo"))
      BY <1>7 DEF OpenLogons, RunFails, hostVars
    <2>. QED  BY <1>3, <2>1
  <1>8. CASE BeginTeardown(p)
    <2>1. /\ at' = [at EXCEPT ![p] = "teardown"] /\ teardown' = [teardown EXCEPT ![p] = "logons"]
          /\ UNCHANGED <<lock, exit, session, refused>>
      BY <1>8 DEF BeginTeardown, Goes, hostVars
    <2>2. "teardown" \in UnderWay
      BY DEF UnderWay
    <2>. QED  BY <1>1, <1>2, <2>1, <2>2, GoesKeeps
  <1>. QED  BY <1>4, <1>5, <1>6, <1>7, <1>8

(* The end of the teardown, or of the time for it; and the drop of an      *)
(* aborted run.                                                            *)
LEMMA LateKeeps ==
    ASSUME HostInv, NEW p \in Procs, Finish(p) \/ BudgetExpires(p) \/ DropRun(p)
    PROVE  HostInv'
  <1>1. UNCHANGED <<kind, holds, main, teardown, scm>>
    BY DEF Finish, BudgetExpires, DropRun
  <1>2. at[p] \in {"identity", "capture", "teardown"} /\ at[p] \in UnderWay \cup {"start"}
    BY DEF Finish, BudgetExpires, DropRun, UnderWay
  <1>3. at[p] = "teardown" /\ session = p => p \in refused \/ teardown[p] \in {"logons", "session"}
    BY DEF HostInv, SessionOwned, Alive
  <1>4. CASE Finish(p)
    BY <1>1, <1>2, <1>3, <1>4, EndsLemma DEF Finish, Clean
  <1>5. CASE BudgetExpires(p)
    BY <1>1, <1>2, <1>3, <1>5, EndsLemma DEF BudgetExpires, DEADLINE
  <1>6. CASE DropRun(p)
    <2>1. /\ at' = [at EXCEPT ![p] = "ended"] /\ lock' = (IF lock = p THEN NoProc ELSE lock)
          /\ UNCHANGED exit /\ main[p] = "aborted"
      BY <1>6 DEF DropRun, Goes, Aborted
    <2>2. exit[p] \in Int /\ exit' = [exit EXCEPT ![p] = exit[p]] /\ exit[p] = DEADLINE
      BY <2>1 DEF HostInv, Typed, Supervised
    <2>3. /\ session' \in {session, NoProc} /\ refused \subseteq refused'
          /\ session' = p => p \in refused' \/ teardown[p] \in {"logons", "session"}
      <3>1. CASE at[p] \in {"identity", "teardown"} /\ UNCHANGED <<session, refused>>
        BY <1>2, <1>3, <3>1, EarlyLemma
      <3>2. CASE StopSession(p)
        BY <3>2, StopSessionLemma
      <3>. QED  BY <1>6, <3>1, <3>2 DEF DropRun
    <2>. QED  BY <1>1, <1>2, <2>1, <2>2, <2>3, EndsKeeps
  <1>. QED  BY <1>4, <1>5, <1>6

(* The main function, the status and the process's end.                    *)
LEMMA MainStepKeeps ==
    ASSUME HostInv, NEW p \in Procs,
           Joined(p) \/ Watchdog(p) \/ LogEntry(p) \/ Stopped(p) \/ Control(p) \/ Exit(p) \/ Kill(p)
    PROVE  HostInv'
  <1>1. CASE Joined(p)
    <2>. DEFINE c == IF exit[p] = Clean /\ p \in failed THEN SERVICE_LOG ELSE exit[p]
    <2>1. c \in Int /\ exit' = [exit EXCEPT ![p] = c] /\ (exit[p] = DEADLINE => c = DEADLINE)
      BY <1>1 DEF Joined, HostInv, Typed, SERVICE_LOG, DEADLINE, Clean
    <2>2. /\ main[p] = "run" /\ main' = [main EXCEPT ![p] = "end"] /\ at[p] = "ended"
          /\ UNCHANGED <<kind, at, holds, lock, teardown, scm, session, refused>>
      BY <1>1 DEF Joined, hostVars
    <2>. HIDE DEF c
    <2>. QED  BY <2>1, <2>2, MainKeeps
  <1>2. CASE Watchdog(p)
    <2>1. /\ main[p] = "run" /\ main' = [main EXCEPT ![p] = "aborted"] /\ at[p] # "ended"
          /\ UNCHANGED <<kind, at, holds, lock, teardown, scm, session, refused>>
          /\ exit' = [exit EXCEPT ![p] = DEADLINE] /\ DEADLINE \in Int
      BY <1>2 DEF Watchdog, hostVars, DEADLINE
    <2>. QED  BY <2>1, MainKeeps
  <1>3. CASE Stopped(p)
    <2>1. /\ scm' = [scm EXCEPT !.state = "STOPPED", !.code = exit[p]] /\ scm.proc = p
          /\ main[p] \in {"aborted", "end"}
          /\ UNCHANGED <<kind, at, holds, lock, main, exit, teardown, session, refused>>
      BY <1>3 DEF Stopped, hostVars, procVars
    <2>2. "STOPPED" \in ScmStates /\ exit[p] \in Int /\ scm \in ScmRecords
      BY DEF ScmStates, HostInv, Typed
    <2>3. scm' \in ScmRecords /\ scm'.proc = scm.proc /\ scm'.code = exit[p]
      BY <2>1, <2>2 DEF ScmRecords
    <2>. QED  BY <2>1, <2>3, StatusKeeps
  <1>4. CASE LogEntry(p) \/ Control(p)
    BY <1>4, IdleKeeps DEF LogEntry, Control, ProcUnchanged, procVars, hostVars
  <1>5. CASE Exit(p)
    BY <1>5, GoneKeeps DEF Exit, Alive, HostInv, Typed
  <1>6. CASE Kill(p)
    <2>1. "STOPPED" \in ScmStates /\ 1 \in Int /\ scm \in ScmRecords
      BY DEF ScmStates, HostInv, Typed
    <2>2. CASE scm' = scm
      BY <1>6, <2>1, <2>2, GoneKeeps DEF Kill
    <2>3. CASE scm.proc = p /\ scm' = [scm EXCEPT !.state = "STOPPED", !.code = 1]
      <3>1. scm' \in ScmRecords /\ scm'.proc = scm.proc
        BY <2>1, <2>3 DEF ScmRecords
      <3>. QED  BY <1>6, <2>3, <3>1, GoneKeeps DEF Kill
    <2>. QED  BY <1>6, <2>2, <2>3 DEF Kill
  <1>. QED  BY <1>1, <1>2, <1>3, <1>4, <1>5, <1>6

(* Every step keeps the invariant.                                         *)
LEMMA HostStep == HostInv /\ [Next]_vars => HostInv'
  <1>. SUFFICES ASSUME HostInv, [Next]_vars PROVE HostInv'
    OBVIOUS
  <1>1. ASSUME NEW p \in Procs, Step(p) PROVE HostInv'
    BY <1>1, StartKeeps, AcquireKeeps, EarlyKeeps, CaptureKeeps, TeardownKeeps, LateKeeps,
       MainStepKeeps DEF Step
  <1>2. CASE LogStep \/ LogFailure
    BY <1>2, IdleKeeps DEF LogStep, LogFailure, ProcUnchanged, hostVars
  <1>3. CASE StopPending
    <2>1. /\ scm' = [scm EXCEPT !.state = "STOP_PENDING"]
          /\ UNCHANGED <<kind, at, holds, lock, main, exit, teardown, session, refused>>
      BY <1>3 DEF StopPending, hostVars, procVars
    <2>2. "STOP_PENDING" \in ScmStates /\ scm \in ScmRecords
      BY DEF ScmStates, HostInv, Typed
    <2>3. scm' \in ScmRecords /\ scm'.proc = scm.proc /\ scm'.state = "STOP_PENDING"
      BY <2>1, <2>2 DEF ScmRecords
    <2>. QED  BY <2>1, <2>3, StatusKeeps
  <1>4. CASE UNCHANGED vars
    BY <1>4, IdleKeeps DEF vars, procVars, hostVars
  <1>. QED  BY <1>1, <1>2, <1>3, <1>4 DEF Next

(* Each reachable state has the invariant.                                 *)
THEOREM HostInvariant == Spec => []HostInv
  BY HostInit, HostStep, PTL DEF Spec

-----------------------------------------------------------------------------
(* Once the service is STOPPED with another code than the deadline's its   *)
(* run has returned, no teardown of it goes on, and its session is gone    *)
(* unless the system refused the stop (serve, supervise, service_main):    *)
(* what the operator, and the next start, take a stop for.                 *)
THEOREM StopsComplete == Spec => []StopIsComplete
  <1>1. HostInv => StopIsComplete
    <2>. SUFFICES ASSUME HostInv, NEW p \in Procs, scm.proc = p, scm.state = "STOPPED", Alive(p),
                         scm.code # DEADLINE
                  PROVE  /\ at[p] = "ended"
                         /\ teardown[p] \notin {"logons", "session"}
                         /\ session # p \/ p \in refused
      BY DEF StopIsComplete
    <2>1. main[p] \in {"aborted", "end"} /\ scm.code = exit[p] /\ kind[p] = "service"
      BY DEF HostInv, Supervised
    <2>2. main[p] = "end" /\ exit[p] # DEADLINE
      BY <2>1 DEF HostInv, Supervised
    <2>3. at[p] = "ended"
      BY <2>2 DEF HostInv, Supervised
    <2>4. teardown[p] \notin {"logons", "session"}
      BY <2>2, <2>3 DEF HostInv, TeardownHeld
    <2>5. session = p => p \in refused
      BY <2>1, <2>3, <2>4 DEF HostInv, SessionOwned
    <2>. QED  BY <2>3, <2>4, <2>5
  <1>. QED  BY <1>1, HostInvariant, PTL

(* Only these steps end a live session, each by stop_session, of a run     *)
(* under way or of a teardown.                                             *)
LEMMA SessionEnds ==
    ASSUME HostInv, [Next]_vars, session # NoProc, session' # session
    PROVE  \E q \in Procs :
               /\ CanStop(q)
               /\ \/ at[q] \in {"reclaim", "undo"}
                  \/ at[q] = "capture" /\ at'[q] = "ended"
                  \/ teardown[q] = "session" /\ teardown'[q] = "done"
  <1>1. ASSUME NEW q, StopSession(q) PROVE CanStop(q)
    BY <1>1 DEF StopSession
  <1>2. PICK q \in Procs : Reclaim(q) \/ Undo(q) \/ Teardown(q) \/ DropRun(q)
    <2>1. ~(LogStep \/ LogFailure \/ StopPending \/ UNCHANGED vars)
      BY DEF LogStep, LogFailure, StopPending, vars, hostVars
    <2>2. PICK q \in Procs : Step(q)
      BY <2>1 DEF Next
    <2>3. ~(\E k \in Kinds : Start(q, k)) /\ ~Refuse(q) /\ ~Acquire(q) /\ ~OpenServiceLog(q)
      BY DEF Start, Refuse, Acquire, OpenServiceLog, hostVars
    <2>4. ~ServiceLogRefused(q) /\ ~Running(q) /\ ~Identity(q) /\ ~OpenLogons(q) /\ ~RunFails(q)
      BY DEF ServiceLogRefused, Running, Identity, OpenLogons, RunFails, hostVars
    <2>5. ~BeginTeardown(q) /\ ~Finish(q) /\ ~BudgetExpires(q) /\ ~Joined(q) /\ ~Watchdog(q) /\ ~LogEntry(q)
      BY DEF BeginTeardown, Finish, BudgetExpires, Joined, Watchdog, LogEntry, hostVars
    <2>6. ~Stopped(q) /\ ~Control(q) /\ ~Exit(q) /\ ~Kill(q) /\ ~StartSession(q)
      BY DEF Stopped, Control, Exit, Kill, Gone, StartSession, hostVars
    <2>. QED  BY <2>2, <2>3, <2>4, <2>5, <2>6 DEF Step
  <1>3. CASE Reclaim(q) \/ Undo(q)
    BY <1>1, <1>3 DEF Reclaim, Undo
  <1>4. CASE Teardown(q)
    <2>1. teardown[q] = "session" /\ StopSession(q) /\ teardown' = [teardown EXCEPT ![q] = "done"]
      BY <1>4 DEF Teardown
    <2>2. teardown'[q] = "done"
      BY <2>1 DEF HostInv, Typed
    <2>. QED  BY <1>1, <2>1, <2>2
  <1>5. CASE DropRun(q)
    <2>1. at[q] = "capture" /\ StopSession(q) /\ at' = [at EXCEPT ![q] = "ended"]
      BY <1>5 DEF DropRun, Goes
    <2>2. at'[q] = "ended"
      BY <2>1 DEF HostInv, Typed
    <2>. QED  BY <1>1, <2>1, <2>2
  <1>. QED  BY <1>2, <1>3, <1>4, <1>5

(* No process ends the session another captures from while it holds the    *)
(* lock, but the detached teardown of a service whose stop ran past its    *)
(* deadline (EtwSession::start, stop_session, EtwSession::stop).           *)
THEOREM CaptureKept == Spec => SessionKept
  <1>1. HostInv /\ [Next]_vars =>
          [\A p \in Procs : CapturesFrom(p) /\ Alive(p)' /\ session' # p =>
             \/ at'[p] # at[p] \/ teardown'[p] # teardown[p]
             \/ ~holds[p]
             \/ \E q \in Procs : /\ teardown'[q] # teardown[q] /\ at[q] = "ended"
                                 /\ exit[q] = DEADLINE]_vars
    <2>. SUFFICES ASSUME HostInv, [Next]_vars, NEW p \in Procs, CapturesFrom(p), session' # p,
                         at'[p] = at[p], teardown'[p] = teardown[p], holds[p]
                  PROVE  \E q \in Procs : /\ teardown'[q] # teardown[q] /\ at[q] = "ended"
                                         /\ exit[q] = DEADLINE
      OBVIOUS
    <2>1. session = p /\ at[p] \in {"logons", "capture"} /\ p # NoProc
      BY DEF CapturesFrom, Procs, NoProc
    <2>2. PICK q \in Procs : /\ CanStop(q)
                             /\ \/ at[q] \in {"reclaim", "undo"}
                                \/ at[q] = "capture" /\ at'[q] = "ended"
                                \/ teardown[q] = "session" /\ teardown'[q] = "done"
      BY <2>1, SessionEnds
    <2>3. q # p
      BY <2>1, <2>2
    <2>4. lock = p /\ kind[p] \in {"service", "admin"}
      BY <2>1 DEF HostInv, LockHeld, Privileges, UnderWay
    <2>5. kind[q] # "user"
      BY <2>1, <2>2, <2>4 DEF CanStop
    <2>6. at[q] \notin UnderWay
      BY <2>3, <2>4, <2>5 DEF HostInv, LockHeld, Privileges
    <2>7. teardown[q] = "session" /\ teardown'[q] = "done"
      BY <2>2, <2>6 DEF UnderWay
    <2>8. at[q] = "ended" /\ exit[q] = DEADLINE
      BY <2>6, <2>7 DEF HostInv, TeardownHeld, UnderWay
    <2>. QED  BY <2>7, <2>8
  <1>. QED  BY <1>1, HostInvariant, PTL DEF Spec, SessionKept

-----------------------------------------------------------------------------
(* The service's log.                                                      *)

Stages == {"closed", "idle", "rotate", "reopen", "free", "shift", "stuck", "append"}
LogRecord == [by : Nat, at : Stages, open : BOOLEAN, opening : BOOLEAN, place : Nat,
              moved : BOOLEAN, unfinished : BOOLEAN, failing : BOOLEAN]

FilesTyped ==
    /\ written \in Nat
    /\ DOMAIN files \subseteq Names
    /\ \A n \in DOMAIN files : files[n] \in Seq(Nat)

(* What a rotation has established where it is: the names its next rename  *)
(* reads exist, and the one it writes does not.                            *)
Staged ==
    /\ log.at \in {"idle", "rotate", "free", "shift", "append"} => exists(ACTIVE)
    /\ log.at \in {"free", "shift"} => exists(ROTATING)
    /\ log.at = "reopen" /\ log.moved => exists(ROTATING)
    /\ log.at = "shift" => /\ log.place < ARCHIVES /\ ~exists(log.place + 1)
                           /\ \A n \in 1..log.place : exists(n)

LogInv == log \in LogRecord /\ FilesTyped /\ Staged /\ LogKept

(* The names are finitely many integers.                                   *)
LEMMA NamesFinite ==
    ASSUME FilesTyped
    PROVE  /\ IsFiniteSet(DOMAIN files) /\ Cardinality(DOMAIN files) \in Nat
           /\ \A n \in DOMAIN files : n \in Int /\ ACTIVE <= n /\ n <= ARCHIVES
           /\ ACTIVE = -1 /\ ROTATING = 0 /\ ARCHIVES \in Nat \ {0}
  <1>1. ARCHIVES \in Nat \ {0} /\ ACTIVE = -1 /\ ROTATING = 0
    BY LogAssumption DEF ACTIVE, ROTATING
  <1>2. IsFiniteSet(Names)
    BY <1>1, FS_Interval DEF Names
  <1>3. IsFiniteSet(DOMAIN files)
    BY <1>2, FS_Subset DEF FilesTyped
  <1>. QED  BY <1>1, <1>3, FS_CardinalityType DEF FilesTyped, Names

(* A rename to the next older name, which no file has, keeps every record  *)
(* in its place (rotation.rs, rotate).                                     *)
LEMMA RenameKeeps ==
    ASSUME FilesTyped, LogKept, NEW old \in DOMAIN files, NEW new \in Names, new = old + 1,
           ~exists(new), files' = Renamed(old, new), written' = written
    PROVE  /\ FilesTyped' /\ LogKept'
           /\ \A n : exists(n)' <=> (n = new \/ (exists(n) /\ n # old))
  <1>. DEFINE D == DOMAIN files
  <1>1. /\ D \subseteq Int /\ IsFiniteSet(D) /\ old \in D /\ new \notin D /\ old \in Int
    BY NamesFinite DEF exists
  <1>2. /\ DOMAIN files' = (D \ {old}) \cup {new} /\ files'[new] = files[old]
        /\ \A m \in D \ {old} : files'[m] = files[m]
    BY <1>1 DEF Renamed
  <1>3. FilesTyped'
    BY <1>1, <1>2 DEF FilesTyped
  <1>4. \A n \in DOMAIN files' : \A i, j \in DOMAIN files'[n] : i < j => files'[n][i] < files'[n][j]
    BY <1>2 DEF LogKept
  <1>5. ASSUME NEW m \in DOMAIN files', NEW n \in DOMAIN files', m > n
        PROVE  \A x \in Range(files'[m]), y \in Range(files'[n]) : x < y
    <2>1. PICK a \in D : files'[m] = files[a] /\ a = IF m = new THEN old ELSE m
      BY <1>2
    <2>2. PICK b \in D : files'[n] = files[b] /\ b = IF n = new THEN old ELSE n
      BY <1>2
    <2>3. a > b
      BY <1>1, <1>2, <1>5, <2>1, <2>2
    <2>. QED  BY <2>1, <2>2, <2>3 DEF LogKept
  <1>6. Records' = Records
    <2>1. \A n \in DOMAIN files' : \E m \in D : files'[n] = files[m]
      BY <1>2
    <2>2. \A m \in D : \E n \in DOMAIN files' : files'[n] = files[m]
      BY <1>2
    <2>. QED  BY <2>1, <2>2 DEF Records
  <1>7. Cardinality(DOMAIN files') = Cardinality(D)
    <2>1. IsFiniteSet(D \ {old}) /\ Cardinality(D \ {old}) = Cardinality(D) - 1
      BY <1>1, FS_RemoveElement
    <2>2. Cardinality((D \ {old}) \cup {new}) = Cardinality(D \ {old}) + 1
      BY <1>1, <2>1, FS_AddElement
    <2>3. Cardinality(D) \in Nat
      BY <1>1, FS_CardinalityType
    <2>. QED  BY <1>2, <2>1, <2>2, <2>3
  <1>8. LogKept'
    BY <1>4, <1>5, <1>6, <1>7 DEF LogKept
  <1>. QED  BY <1>2, <1>3, <1>8 DEF exists

(* An active file that was not there is created empty.                     *)
LEMMA ActiveKeeps ==
    ASSUME FilesTyped, LogKept, files' = WithActive, written' = written
    PROVE  /\ FilesTyped' /\ LogKept' /\ exists(ACTIVE)'
           /\ \A n : exists(n) => exists(n)'
  <1>. DEFINE D == DOMAIN files
  <1>1. /\ IsFiniteSet(D) /\ ACTIVE \in Names
    BY NamesFinite DEF Names, ACTIVE
  <1>2. /\ DOMAIN files' = D \cup {ACTIVE} /\ \A m \in D : files'[m] = files[m]
        /\ ACTIVE \notin D => files'[ACTIVE] = <<>>
    BY DEF WithActive, exists
  <1>3. CASE ACTIVE \in D
    <2>1. DOMAIN files' = D
      BY <1>2, <1>3
    <2>2. Records' = Records
      BY <1>2, <2>1 DEF Records
    <2>3. LogKept'
      BY <1>2, <2>1, <2>2 DEF LogKept
    <2>. QED  BY <1>2, <1>3, <2>1, <2>3 DEF FilesTyped, exists
  <1>4. CASE ACTIVE \notin D
    <2>1. Range(files'[ACTIVE]) = {} /\ files'[ACTIVE] \in Seq(Nat) /\ DOMAIN files'[ACTIVE] = {}
      BY <1>2, <1>4 DEF Range
    <2>2. Records' = Records
      BY <1>2, <2>1 DEF Records
    <2>3. FilesTyped'
      BY <1>1, <1>2, <2>1 DEF FilesTyped
    <2>4. /\ \A n \in DOMAIN files' : \A i, j \in DOMAIN files'[n] : i < j => files'[n][i] < files'[n][j]
          /\ \A m, n \in DOMAIN files' : m > n =>
                 \A x \in Range(files'[m]), y \in Range(files'[n]) : x < y
      BY <1>2, <2>1 DEF LogKept
    <2>5. Cardinality(DOMAIN files') = Cardinality(D) + 1 /\ Cardinality(D) \in Nat
      BY <1>1, <1>2, <1>4, FS_AddElement, FS_CardinalityType
    <2>6. LogKept'
      <3>1. PICK gone \in 0..written : Records = (gone + 1)..written /\ (gone > 0 => Cardinality(D) > ARCHIVES)
        BY DEF LogKept
      <3>2. gone > 0 => Cardinality(DOMAIN files') > ARCHIVES
        BY <2>5, <3>1, LogAssumption
      <3>. QED  BY <2>2, <2>4, <3>1, <3>2 DEF LogKept
    <2>. QED  BY <1>2, <2>3, <2>6 DEF exists
  <1>. QED  BY <1>3, <1>4

(* A record is appended to the active file, the youngest.                  *)
LEMMA AppendKeeps ==
    ASSUME FilesTyped, LogKept, exists(ACTIVE),
           files' = [files EXCEPT ![ACTIVE] = Append(@, written + 1)], written' = written + 1
    PROVE  FilesTyped' /\ LogKept' /\ \A n : exists(n)' <=> exists(n)
  <1>. DEFINE D == DOMAIN files
              s == files[ACTIVE]
  <1>1. /\ ACTIVE \in D /\ s \in Seq(Nat) /\ written \in Nat /\ DOMAIN files' = D
        /\ files'[ACTIVE] = Append(s, written + 1)
        /\ \A m \in D : m # ACTIVE => files'[m] = files[m]
    BY DEF exists, FilesTyped
  <1>2. /\ Append(s, written + 1) \in Seq(Nat)
        /\ DOMAIN Append(s, written + 1) = 1..(Len(s) + 1) /\ DOMAIN s = 1..Len(s) /\ Len(s) \in Nat
        /\ Append(s, written + 1)[Len(s) + 1] = written + 1
        /\ \A i \in 1..Len(s) : Append(s, written + 1)[i] = s[i]
    BY <1>1
  <1>3. Range(files'[ACTIVE]) = Range(s) \cup {written + 1}
    <2>1. 1..(Len(s) + 1) = 1..Len(s) \cup {Len(s) + 1}
      BY <1>2
    <2>. QED  BY <1>1, <1>2, <2>1 DEF Range
  <1>. HIDE DEF s
  <1>4. Records' = Records \cup {written + 1}
    <2>1. \A m \in D : m # ACTIVE => Range(files'[m]) = Range(files[m])
      BY <1>1
    <2>2. \A x : x \in Records' <=> \E m \in D : x \in Range(files'[m])
      BY <1>1 DEF Records
    <2>3. \A x : x \in Records <=> \E m \in D : x \in Range(files[m])
      BY DEF Records
    <2>. QED  BY <1>1, <1>3, <2>1, <2>2, <2>3 DEF s
  <1>5. PICK gone \in 0..written : Records = (gone + 1)..written /\ (gone > 0 => Cardinality(D) > ARCHIVES)
    BY DEF LogKept
  <1>6. \A m \in D : \A x \in Range(files[m]) : x \in Nat /\ x <= written
    <2>1. \A m \in D : \A x \in Range(files[m]) : x \in Records
      BY DEF Records
    <2>2. \A x \in Records : x \in Nat /\ x <= written
      BY <1>1, <1>5
    <2>. QED  BY <2>1, <2>2
  <1>7. Records' = (gone + 1)..written' /\ gone \in 0..written'
    <2>1. (gone + 1)..(written + 1) = (gone + 1)..written \cup {written + 1}
      BY <1>1, <1>5
    <2>. QED  BY <1>1, <1>4, <1>5, <2>1
  <1>8. \A n \in D : \A i, j \in DOMAIN files'[n] : i < j => files'[n][i] < files'[n][j]
    <2>1. ASSUME NEW i \in 1..(Len(s) + 1), NEW j \in 1..(Len(s) + 1), i < j
          PROVE  Append(s, written + 1)[i] < Append(s, written + 1)[j]
      <3>1. i \in 1..Len(s) /\ s[i] \in Nat /\ s[i] <= written
        <4>1. i \in 1..Len(s)
          BY <1>2, <2>1
        <4>2. s[i] \in Range(s)
          BY <1>2, <4>1 DEF Range
        <4>. QED  BY <1>1, <1>6, <4>1, <4>2 DEF s
      <3>2. CASE j = Len(s) + 1
        BY <1>1, <1>2, <3>1, <3>2
      <3>3. CASE j \in 1..Len(s)
        <4>1. s[i] < s[j]
          BY <1>1, <1>2, <2>1, <3>1, <3>3 DEF LogKept, s
        <4>. QED  BY <1>2, <3>1, <3>3, <4>1
      <3>. QED  BY <1>2, <3>2, <3>3
    <2>. QED  BY <1>1, <1>2, <2>1 DEF LogKept
  <1>9. ASSUME NEW m \in D, NEW n \in D, m > n
        PROVE  \A x \in Range(files'[m]), y \in Range(files'[n]) : x < y
    <2>1. m # ACTIVE
      BY <1>9, NamesFinite
    <2>2. files'[m] = files[m] /\ \A x \in Range(files[m]) : x \in Nat /\ x <= written
      BY <1>1, <1>6, <2>1
    <2>3. CASE n = ACTIVE
      <3>1. \A x \in Range(files[m]), y \in Range(s) : x < y
        BY <1>1, <1>9, <2>3 DEF LogKept, s
      <3>. QED  BY <1>1, <1>3, <2>2, <2>3, <3>1
    <2>4. CASE n # ACTIVE
      BY <1>1, <1>9, <2>2, <2>4 DEF LogKept
    <2>. QED  BY <2>3, <2>4
  <1>10. FilesTyped'
    BY <1>1, <1>2 DEF FilesTyped
  <1>11. LogKept'
    BY <1>1, <1>5, <1>7, <1>8, <1>9 DEF LogKept
  <1>. QED  BY <1>1, <1>10, <1>11 DEF exists

(* With every name taken the oldest archive goes, and the log stays full.  *)
LEMMA DropKeeps ==
    ASSUME FilesTyped, LogKept, exists(ACTIVE), exists(ROTATING), FreePlaces = {},
           files' = [m \in DOMAIN files \ {ARCHIVES} |-> files[m]], written' = written
    PROVE  FilesTyped' /\ LogKept' /\ \A n : exists(n)' <=> (exists(n) /\ n # ARCHIVES)
  <1>. DEFINE D == DOMAIN files
              s == files[ARCHIVES]
  <1>1. /\ \A n \in D : n \in Int /\ n <= ARCHIVES
        /\ IsFiniteSet(D) /\ ARCHIVES \in Nat \ {0} /\ ACTIVE = -1 /\ ROTATING = 0
    BY NamesFinite
  <1>2. D = Names
    <2>1. \A n \in Names : n = ACTIVE \/ n = ROTATING \/ n \in 1..ARCHIVES
      BY <1>1 DEF Names
    <2>2. \A n \in 1..ARCHIVES : n \in D
      BY DEF FreePlaces, exists
    <2>. QED  BY <2>1, <2>2 DEF FilesTyped, exists
  <1>3. ARCHIVES \in D /\ s \in Seq(Nat)
    BY <1>1, <1>2 DEF FilesTyped, Names
  <1>4. DOMAIN files' = D \ {ARCHIVES} /\ \A m \in D \ {ARCHIVES} : files'[m] = files[m]
    OBVIOUS
  <1>. HIDE DEF s
  <1>5. FilesTyped'
    BY <1>4 DEF FilesTyped
  <1>6. /\ \A n \in DOMAIN files' : \A i, j \in DOMAIN files'[n] : i < j => files'[n][i] < files'[n][j]
        /\ \A m, n \in DOMAIN files' : m > n =>
               \A x \in Range(files'[m]), y \in Range(files'[n]) : x < y
    BY <1>4 DEF LogKept
  <1>7. Cardinality(DOMAIN files') > ARCHIVES
    <2>1. Cardinality(Names) = ARCHIVES + 2
      BY <1>1, FS_Interval DEF Names
    <2>2. Cardinality(D \ {ARCHIVES}) = Cardinality(D) - 1
      BY <1>1, <1>3, FS_RemoveElement
    <2>. QED  BY <1>1, <1>2, <1>4, <2>1, <2>2
  <1>8. PICK gone \in 0..written : Records = (gone + 1)..written
    BY DEF LogKept
  <1>9. /\ \A x : x \in Records <=> x \in Range(s) \/ x \in Records'
        /\ \A x \in Range(s), y \in Records' : x < y
        /\ written \in Nat
    <2>1. \A x : x \in Records <=> \E m \in D : x \in Range(files[m])
      BY DEF Records
    <2>2. \A x : x \in Records' <=> \E m \in D \ {ARCHIVES} : x \in Range(files[m])
      BY <1>4 DEF Records
    <2>3. \A m \in D \ {ARCHIVES} : \A x \in Range(s), y \in Range(files[m]) : x < y
      BY <1>1, <1>3 DEF LogKept, s
    <2>. QED  BY <1>3, <2>1, <2>2, <2>3 DEF s, FilesTyped
  <1>10. \E g \in 0..written : Records' = (g + 1)..written
    <2>1. CASE s = <<>>
      <3>1. Range(s) = {}
        BY <2>1 DEF Range
      <3>. QED  BY <1>8, <1>9, <3>1
    <2>2. CASE s # <<>>
      <3>1. Len(s) \in Nat /\ Len(s) # 0 /\ DOMAIN s = 1..Len(s)
        BY <1>3, <2>2
      <3>2. PICK g : g = s[Len(s)]
        OBVIOUS
      <3>3. g \in Range(s) /\ \A x \in Range(s) : x = g \/ x < g
        BY <1>3, <3>1, <3>2 DEF Range, LogKept, s
      <3>4. g \in (gone + 1)..written
        BY <1>8, <1>9, <3>3
      <3>5. g \in 0..written /\ \A x : x \in Records' <=> x \in (g + 1)..written
        <4>1. \A x \in Records' : x \in (gone + 1)..written /\ g < x
          BY <1>8, <1>9, <3>3
        <4>2. \A x \in (g + 1)..written : x \in (gone + 1)..written /\ x \notin Range(s)
          BY <1>8, <1>9, <3>3, <3>4
        <4>. QED  BY <1>8, <1>9, <3>4, <4>1, <4>2
      <3>. QED  BY <3>5
    <2>. QED  BY <2>1, <2>2
  <1>11. LogKept'
    BY <1>6, <1>7, <1>10 DEF LogKept
  <1>. QED  BY <1>4, <1>5, <1>11 DEF exists

(* The first free place is free, and the places before it are taken.       *)
LEMMA FirstFreeLemma ==
    ASSUME FreePlaces # {}
    PROVE  /\ FirstFree \in 1..ARCHIVES /\ ~exists(FirstFree)
           /\ \A n \in 1..(FirstFree - 1) : exists(n)
  <1>1. FreePlaces \subseteq Nat /\ ARCHIVES \in Nat
    <2>1. FreePlaces \subseteq 1..ARCHIVES
      BY DEF FreePlaces
    <2>2. 1..ARCHIVES \subseteq Nat /\ ARCHIVES \in Nat
      BY LogAssumption
    <2>. QED  BY <2>1, <2>2
  <1>2. PICK x \in FreePlaces : \A y \in FreePlaces : ~(<<y, x>> \in OpToRel(<, Nat))
    BY <1>1, NatLessThanWellFounded, WFMin
  <1>3. \A y \in FreePlaces : ~(y < x)
    BY <1>1, <1>2 DEF OpToRel
  <1>4. ASSUME NEW y \in FreePlaces PROVE x <= y
    <2>1. x \in Nat /\ y \in Nat
      BY <1>1
    <2>. QED  BY <1>3, <2>1
  <1>5. FirstFree \in FreePlaces /\ \A m \in FreePlaces : FirstFree <= m
    BY <1>2, <1>4 DEF FirstFree
  <1>6. FirstFree \in 1..ARCHIVES /\ ~exists(FirstFree)
    BY <1>5 DEF FreePlaces
  <1>. HIDE DEF FirstFree
  <1>7. ASSUME NEW n \in 1..(FirstFree - 1) PROVE exists(n)
    <2>1. n \in 1..ARCHIVES /\ ~(FirstFree <= n)
      BY <1>1, <1>6, <1>7
    <2>. QED  BY <1>5, <2>1 DEF FreePlaces
  <1>. QED  BY <1>6, <1>7

(* A log that is closed, or goes on where the active file exists and no    *)
(* rotation is under way, has nothing staged.                              *)
LEMMA RestKeeps ==
    ASSUME log' \in LogRecord, FilesTyped', LogKept',
           \/ log'.at \in {"closed", "stuck"}
           \/ log'.at \in {"idle", "rotate", "append"} /\ exists(ACTIVE)'
           \/ log'.at = "reopen" /\ (log'.moved => exists(ROTATING)')
    PROVE  LogInv'
  BY DEF LogInv, Staged

(* Steps that leave the files as they are.                                 *)
LEMMA SameFiles ==
    ASSUME FilesTyped, LogKept, UNCHANGED <<files, written>>
    PROVE  FilesTyped' /\ LogKept' /\ \A n : exists(n)' <=> exists(n)
  BY DEF FilesTyped, LogKept, Records, exists

(* RotatingLog::open.                                                      *)
LEMMA OpenLogKeeps ==
    ASSUME LogInv, NEW p \in Nat, OpenLog(p)
    PROVE  LogInv'
  <1>1. FilesTyped' /\ LogKept' /\ exists(ACTIVE)'
    BY ActiveKeeps DEF OpenLog, LogInv
  <1>2. log' \in LogRecord /\ log'.at \in {"idle", "rotate"}
    <2>1. PICK u : u = exists(ROTATING)
      OBVIOUS
    <2>2. PICK o : o = (exists(ROTATING) \/ (exists(ACTIVE) /\ Full))
      OBVIOUS
    <2>3. u \in BOOLEAN /\ o \in BOOLEAN
      BY <2>1, <2>2 DEF exists
    <2>4. log' = [Closed EXCEPT !.by = p, !.open = TRUE, !.unfinished = u, !.opening = o,
                                !.at = IF o THEN "rotate" ELSE "idle"]
      BY <2>1, <2>2 DEF OpenLog
    <2>. QED  BY <2>3, <2>4 DEF Closed, LogRecord, Stages
  <1>. QED  BY <1>1, <1>2, RestKeeps

(* A closed log, or one whose process still has it.                        *)
LEMMA CloseKeeps ==
    ASSUME LogInv, log' \in {log, Closed}, UNCHANGED <<files, written>>
    PROVE  LogInv'
  <1>1. FilesTyped' /\ LogKept' /\ \A n : exists(n)' <=> exists(n)
    BY SameFiles DEF LogInv
  <1>2. CASE log' = log
    BY <1>1, <1>2 DEF LogInv, Staged
  <1>3. CASE log' = Closed
    <2>1. log' \in LogRecord /\ log'.at = "closed"
      BY <1>3 DEF Closed, LogRecord, Stages
    <2>. QED  BY <1>1, <2>1, RestKeeps
  <1>. QED  BY <1>2, <1>3

(* write_record up to its append, and the append.                          *)
LEMMA WriteKeeps ==
    ASSUME LogInv, WriteRecord \/ PutUp \/ AppendRecord
    PROVE  LogInv'
  <1>1. log \in LogRecord /\ FilesTyped /\ LogKept /\ Staged
    BY DEF LogInv
  <1>2. CASE WriteRecord
    <2>1. FilesTyped' /\ LogKept' /\ \A n : exists(n)' <=> exists(n)
      BY <1>1, <1>2, SameFiles DEF WriteRecord
    <2>2. log' \in LogRecord /\ log'.at \in {"append", "rotate"}
      BY <1>1, <1>2 DEF WriteRecord, LogRecord, Stages
    <2>3. exists(ACTIVE)
      BY <1>1, <1>2 DEF Staged, WriteRecord
    <2>. QED  BY <2>1, <2>2, <2>3, RestKeeps
  <1>3. CASE PutUp
    <2>1. FilesTyped' /\ LogKept' /\ exists(ACTIVE)'
      BY <1>1, <1>3, ActiveKeeps DEF PutUp
    <2>2. log' \in LogRecord /\ log'.at = "append"
      BY <1>1, <1>3 DEF PutUp, LogRecord, Stages
    <2>. QED  BY <2>1, <2>2, RestKeeps
  <1>4. CASE AppendRecord
    <2>1. exists(ACTIVE)
      BY <1>1, <1>4 DEF Staged, AppendRecord
    <2>2. FilesTyped' /\ LogKept' /\ \A n : exists(n)' <=> exists(n)
      BY <1>1, <1>4, <2>1, AppendKeeps DEF AppendRecord
    <2>3. log' \in LogRecord /\ log'.at = "idle"
      BY <1>1, <1>4 DEF AppendRecord, LogRecord, Stages
    <2>. QED  BY <2>1, <2>2, <2>3, RestKeeps
  <1>. QED  BY <1>2, <1>3, <1>4

(* A rotation that stops where it is leaves the files alone.               *)
LEMMA StuckKeeps ==
    ASSUME LogInv, log' = [log EXCEPT !.at = "stuck"], UNCHANGED <<files, written>>
    PROVE  LogInv'
  <1>1. FilesTyped' /\ LogKept'
    BY SameFiles DEF LogInv
  <1>2. log' \in LogRecord /\ log'.at = "stuck"
    BY DEF LogInv, LogRecord, Stages
  <1>. QED  BY <1>1, <1>2, RestKeeps

(* The active file becomes the rotating one (rotate).                      *)
LEMMA RenameActiveKeeps ==
    ASSUME LogInv, NEW ok \in BOOLEAN, RenameActive(ok)
    PROVE  LogInv'
  <1>1. log \in LogRecord /\ FilesTyped /\ LogKept /\ exists(ACTIVE) /\ log.at = "rotate"
    BY DEF LogInv, Staged, RenameActive
  <1>2. CASE exists(ROTATING)
    <2>1. /\ FilesTyped' /\ LogKept' /\ (\A n : exists(n)' <=> exists(n))
      BY <1>1, <1>2, SameFiles DEF RenameActive
    <2>2. log' \in LogRecord /\ log'.at = "free"
      BY <1>1, <1>2 DEF RenameActive, LogRecord, Stages
    <2>. QED  BY <1>1, <1>2, <2>1, <2>2 DEF LogInv, Staged
  <1>3. CASE ~exists(ROTATING)
    <2>1. log' \in LogRecord /\ log'.at = "reopen" /\ log'.moved = ok
      BY <1>1, <1>3 DEF RenameActive, LogRecord, Stages
    <2>2. CASE ok
      <3>1. files' = Renamed(ACTIVE, ROTATING) /\ written' = written
        BY <1>3, <2>2 DEF RenameActive
      <3>2. ACTIVE \in DOMAIN files /\ ROTATING \in Names /\ ROTATING = ACTIVE + 1
        BY <1>1, LogAssumption DEF exists, Names, ACTIVE, ROTATING
      <3>3. FilesTyped' /\ LogKept' /\ exists(ROTATING)'
        BY <1>1, <1>3, <3>1, <3>2, RenameKeeps
      <3>. QED  BY <2>1, <3>3, RestKeeps
    <2>3. CASE ~ok
      <3>1. FilesTyped' /\ LogKept'
        BY <1>1, <1>3, <2>3, SameFiles DEF RenameActive
      <3>. QED  BY <2>1, <2>3, <3>1, RestKeeps
    <2>. QED  BY <2>2, <2>3
  <1>. QED  BY <1>2, <1>3

(* The active file is opened anew, or could not be (rotate).               *)
LEMMA ReopenKeeps ==
    ASSUME LogInv, NEW ok \in BOOLEAN, Reopen(ok)
    PROVE  LogInv'
  <1>1. /\ log \in LogRecord /\ FilesTyped /\ LogKept /\ log.at = "reopen"
        /\ log.moved => exists(ROTATING)
    BY DEF LogInv, Staged, Reopen
  <1>2. log' \in LogRecord /\ log'.at = IF ok /\ log.moved THEN "free" ELSE "stuck"
    BY <1>1 DEF Reopen, LogRecord, Stages
  <1>3. CASE ok
    <2>1. /\ FilesTyped' /\ LogKept' /\ exists(ACTIVE)' /\ (\A n : exists(n) => exists(n)')
      BY <1>1, <1>3, ActiveKeeps DEF Reopen
    <2>. QED  BY <1>1, <1>2, <2>1 DEF LogInv, Staged
  <1>4. CASE ~ok
    <2>1. FilesTyped' /\ LogKept'
      BY <1>1, <1>4, SameFiles DEF Reopen
    <2>. QED  BY <1>2, <1>4, <2>1, RestKeeps
  <1>. QED  BY <1>3, <1>4

(* The search for a free place, with the deletion of the oldest archive.   *)
LEMMA FindFreeKeeps ==
    ASSUME LogInv, NEW ok \in BOOLEAN, FindFree(ok)
    PROVE  LogInv'
  <1>1. /\ log \in LogRecord /\ FilesTyped /\ LogKept /\ exists(ACTIVE) /\ exists(ROTATING)
        /\ ARCHIVES \in Nat \ {0} /\ ACTIVE = -1 /\ ROTATING = 0
    BY LogAssumption DEF LogInv, Staged, FindFree, ACTIVE, ROTATING
  <1>2. CASE FreePlaces # {}
    <2>1. /\ FirstFree \in 1..ARCHIVES /\ ~exists(FirstFree)
          /\ \A n \in 1..(FirstFree - 1) : exists(n)
      BY <1>2, FirstFreeLemma
    <2>2. PICK k : k = FirstFree - 1
      OBVIOUS
    <2>3. k \in Nat /\ k < ARCHIVES /\ ~exists(k + 1) /\ \A n \in 1..k : exists(n)
      <3>1. k \in Nat /\ k < ARCHIVES /\ k + 1 = FirstFree
        BY <1>1, <2>1, <2>2
      <3>. QED  BY <2>1, <2>2, <3>1
    <2>4. log' \in LogRecord /\ log'.at = "shift" /\ log'.place = k
      <3>1. log' = [log EXCEPT !.at = "shift", !.place = k]
        BY <1>2, <2>2 DEF FindFree
      <3>. QED  BY <1>1, <2>3, <3>1 DEF LogRecord, Stages
    <2>5. /\ FilesTyped' /\ LogKept' /\ (\A n : exists(n)' <=> exists(n))
      BY <1>1, <1>2, SameFiles DEF FindFree
    <2>6. Staged'
      BY <1>1, <2>3, <2>4, <2>5 DEF Staged
    <2>. QED  BY <2>4, <2>5, <2>6 DEF LogInv
  <1>3. CASE FreePlaces = {} /\ ok
    <2>1. /\ FilesTyped' /\ LogKept' /\ (\A n : exists(n)' <=> (exists(n) /\ n # ARCHIVES))
      BY <1>1, <1>3, DropKeeps DEF FindFree
    <2>2. PICK k : k = ARCHIVES - 1
      OBVIOUS
    <2>3. k \in Nat /\ k < ARCHIVES /\ k + 1 = ARCHIVES
      BY <1>1, <2>2
    <2>4. log' \in LogRecord /\ log'.at = "shift" /\ log'.place = k
      <3>1. log' = [log EXCEPT !.at = "shift", !.place = k]
        BY <1>3, <2>2 DEF FindFree
      <3>. QED  BY <1>1, <2>3, <3>1 DEF LogRecord, Stages
    <2>5. \A n \in 1..k : exists(n) /\ n # ARCHIVES
      <3>1. \A n \in 1..k : n \in 1..ARCHIVES /\ n # ARCHIVES
        BY <1>1, <2>3
      <3>. QED  BY <1>3, <3>1 DEF FreePlaces
    <2>6. Staged'
      <3>1. exists(ACTIVE)' /\ exists(ROTATING)'
        <4>1. ACTIVE # ARCHIVES /\ ROTATING # ARCHIVES
          BY <1>1
        <4>. QED  BY <1>1, <2>1, <4>1
      <3>2. ~exists(ARCHIVES)' /\ \A n \in 1..k : exists(n)'
        BY <2>1, <2>5
      <3>. QED  BY <2>3, <2>4, <3>1, <3>2 DEF Staged, exists
    <2>. QED  BY <2>1, <2>4, <2>6 DEF LogInv
  <1>4. CASE FreePlaces = {} /\ ~ok
    BY <1>4, StuckKeeps DEF FindFree
  <1>. QED  BY <1>2, <1>3, <1>4

(* One archive moves to the next place.                                    *)
LEMMA ShiftKeeps ==
    ASSUME LogInv, NEW ok \in BOOLEAN, ShiftArchive(ok)
    PROVE  LogInv'
  <1>1. CASE ~ok
    BY <1>1, StuckKeeps DEF ShiftArchive
  <1>2. CASE ok
    <2>1. PICK k : k = log.place
      OBVIOUS
    <2>2. /\ log \in LogRecord /\ FilesTyped /\ LogKept /\ exists(ACTIVE) /\ exists(ROTATING)
          /\ log.at = "shift" /\ k > 0 /\ k < ARCHIVES /\ ~exists(k + 1)
          /\ \A n \in 1..k : exists(n)
      BY <2>1 DEF LogInv, Staged, ShiftArchive
    <2>3. k \in Nat /\ ARCHIVES \in Nat /\ ACTIVE = -1 /\ ROTATING = 0
      BY <2>1, <2>2, LogAssumption DEF LogRecord, ACTIVE, ROTATING
    <2>4. k \in DOMAIN files /\ k + 1 \in Names
      BY <2>2, <2>3 DEF exists, Names
    <2>5. files' = Renamed(k, k + 1) /\ written' = written
      BY <1>2, <2>1 DEF ShiftArchive
    <2>6. PICK m : m = k + 1
      OBVIOUS
    <2>7. /\ FilesTyped' /\ LogKept'
          /\ \A n : exists(n)' <=> (n = m \/ (exists(n) /\ n # k))
      BY <2>2, <2>4, <2>5, <2>6, RenameKeeps
    <2>8. PICK j : j = k - 1
      OBVIOUS
    <2>9. j \in Nat /\ j < ARCHIVES /\ j + 1 = k /\ m # k /\ \A n \in 1..j : n \in 1..k /\ n # k
      BY <2>2, <2>3, <2>6, <2>8
    <2>10. log' \in LogRecord /\ log'.at = "shift" /\ log'.place = j
      BY <1>2, <2>1, <2>2, <2>8, <2>9 DEF ShiftArchive, LogRecord, Stages
    <2>11. exists(ACTIVE)' /\ exists(ROTATING)' /\ ~exists(k)' /\ \A n \in 1..j : exists(n)'
      <3>1. ACTIVE # k /\ ROTATING # k
        BY <2>2, <2>3
      <3>. QED  BY <2>2, <2>7, <2>9, <3>1
    <2>12. Staged'
      BY <2>9, <2>10, <2>11 DEF Staged, exists
    <2>. QED  BY <2>7, <2>10, <2>12 DEF LogInv
  <1>. QED  BY <1>1, <1>2

(* The rotating file becomes the first archive.                            *)
LEMMA RotatedKeeps ==
    ASSUME LogInv, NEW ok \in BOOLEAN, Rotated(ok)
    PROVE  LogInv'
  <1>1. CASE ~ok
    BY <1>1, StuckKeeps DEF Rotated
  <1>2. CASE ok
    <2>1. /\ log \in LogRecord /\ FilesTyped /\ LogKept /\ exists(ACTIVE) /\ exists(ROTATING)
          /\ log.at = "shift" /\ log.place = 0 /\ ~exists(0 + 1)
      BY DEF LogInv, Staged, Rotated
    <2>2. ARCHIVES \in Nat \ {0} /\ ACTIVE = -1 /\ ROTATING = 0
      BY LogAssumption DEF ACTIVE, ROTATING
    <2>3. ROTATING \in DOMAIN files /\ 1 \in Names /\ 1 = ROTATING + 1 /\ ~exists(1)
      BY <2>1, <2>2 DEF exists, Names
    <2>4. files' = Renamed(ROTATING, 1) /\ written' = written
      BY <1>2, <2>1 DEF Rotated
    <2>5. /\ FilesTyped' /\ LogKept'
          /\ \A n : exists(n)' <=> (n = 1 \/ (exists(n) /\ n # ROTATING))
      BY <2>1, <2>3, <2>4, RenameKeeps
    <2>6. exists(ACTIVE)'
      <3>1. ACTIVE # ROTATING
        BY <2>2
      <3>. QED  BY <2>1, <2>5, <3>1
    <2>7. log' \in LogRecord /\ log'.at \in {"idle", "append"}
      <3>1. PICK place : place = IF log.opening THEN "idle" ELSE "append"
        OBVIOUS
      <3>2. log' = [log EXCEPT !.unfinished = FALSE, !.failing = FALSE, !.opening = FALSE,
                               !.at = place]
        BY <1>2, <3>1 DEF Rotated
      <3>3. place \in {"idle", "append"} /\ place \in Stages
        BY <3>1 DEF Stages
      <3>. QED  BY <2>1, <3>2, <3>3 DEF LogRecord
    <2>. QED  BY <2>5, <2>6, <2>7, RestKeeps
  <1>. QED  BY <1>1, <1>2

(* The files of a service that has not started.                            *)
LEMMA LogInitially == LogInit => LogInv
  <1>. SUFFICES ASSUME LogInit PROVE LogInv
    OBVIOUS
  <1>1. files = <<>> /\ DOMAIN files = {} /\ log = Closed /\ written = 0
    BY DEF LogInit
  <1>2. log \in LogRecord /\ log.at = "closed"
    BY <1>1 DEF Closed, LogRecord, Stages
  <1>3. Records = {}
    BY <1>1 DEF Records
  <1>4. 0 \in 0..written /\ Records = (0 + 1)..written /\ ~(0 > 0)
    BY <1>1, <1>3
  <1>5. LogKept
    BY <1>1, <1>4 DEF LogKept
  <1>. QED  BY <1>1, <1>2, <1>5 DEF LogInv, FilesTyped, Staged

(* Each step of the host keeps the log: a rotation's, a crash's in the     *)
(* middle of one, and every step that does not concern it.                 *)
LEMMA LogNext == LogInv /\ [Next]_vars => LogInv'
  <1>. SUFFICES ASSUME LogInv, [Next]_vars PROVE LogInv'
    OBVIOUS
  <1>1. ASSUME UNCHANGED logVars PROVE LogInv'
    BY <1>1, CloseKeeps DEF logVars
  <1>2. ASSUME NEW p \in Procs, Step(p) PROVE LogInv'
    <2>1. CASE \/ \E k \in Kinds : Start(p, k)
               \/ Refuse(p) \/ Acquire(p) \/ Running(p) \/ Identity(p) \/ Reclaim(p)
               \/ StartSession(p) \/ Undo(p) \/ OpenLogons(p) \/ RunFails(p)
      BY <1>1, <2>1 DEF Start, Refuse, Acquire, Running, Identity, Reclaim, StartSession, Undo,
         OpenLogons, RunFails
    <2>2. CASE \/ BeginTeardown(p) \/ Teardown(p) \/ Finish(p) \/ BudgetExpires(p) \/ DropRun(p)
               \/ Joined(p) \/ Watchdog(p) \/ Stopped(p) \/ Control(p)
      BY <1>1, <2>2 DEF BeginTeardown, Teardown, Finish, BudgetExpires, DropRun, Joined, Watchdog,
         Stopped, Control
    <2>3. CASE OpenServiceLog(p)
      <3>1. p \in Nat
        BY HostAssumption DEF Procs
      <3>. QED  BY <2>3, <3>1, OpenLogKeeps DEF OpenServiceLog
    <2>4. CASE ServiceLogRefused(p)
      <3>1. log' \in {log, Closed} /\ UNCHANGED <<files, written>>
        BY <2>4 DEF ServiceLogRefused, OpenRefused, logVars
      <3>. QED  BY <3>1, CloseKeeps
    <2>5. CASE Exit(p) \/ Kill(p)
      <3>1. log' \in {log, Closed} /\ UNCHANGED <<files, written>>
        BY <2>5 DEF Exit, Kill, Gone, CloseLog
      <3>. QED  BY <3>1, CloseKeeps
    <2>6. CASE LogEntry(p)
      <3>1. WriteRecord \/ UNCHANGED logVars
        BY <2>6 DEF LogEntry
      <3>. QED  BY <1>1, <3>1, WriteKeeps
    <2>. QED  BY <1>2, <2>1, <2>2, <2>3, <2>4, <2>5, <2>6 DEF Step
  <1>3. CASE LogStep
    <2>1. CASE WriteRecord \/ PutUp \/ AppendRecord
      BY <2>1, WriteKeeps
    <2>2. CASE \E ok \in BOOLEAN : Rotate(ok)
      BY <2>2, RenameActiveKeeps, ReopenKeeps, FindFreeKeeps, ShiftKeeps, RotatedKeeps DEF Rotate
    <2>3. (WriteRecord \/ PutUp \/ AppendRecord) \/ Rotate(TRUE) \/ Rotate(FALSE)
      BY <1>3 DEF LogStep
    <2>. QED  BY <2>1, <2>2, <2>3
  <1>4. CASE LogFailure
    <2>1. log' \in {log, Closed} /\ UNCHANGED <<files, written>>
      BY <1>4 DEF LogFailure, LogFails
    <2>. QED  BY <2>1, CloseKeeps
  <1>5. CASE StopPending
    BY <1>1, <1>5 DEF StopPending
  <1>6. CASE UNCHANGED vars
    BY <1>1, <1>6 DEF vars
  <1>. QED  BY <1>2, <1>3, <1>4, <1>5, <1>6 DEF Next

(* The service's log loses and reorders no record: whatever rename of a    *)
(* rotation fails, whichever process takes the log over and wherever a     *)
(* crash cuts a rotation, the files hold the latest records in order, and  *)
(* a record is gone only when every archive place was taken (rotate,       *)
(* write_record, RotatingLog::open).                                       *)
THEOREM LogIsKept == Spec => []LogKept
  <1>1. Init => LogInv
    BY LogInitially DEF Init
  <1>2. LogInv => LogKept
    BY DEF LogInv
  <1>. QED  BY <1>1, <1>2, LogNext, PTL DEF Spec
=============================================================================
