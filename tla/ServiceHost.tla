------------------------------ MODULE ServiceHost ------------------------------
(***************************************************************************)
(* The agent as a process of a Windows host: the service under the service *)
(* control manager (service/windows.rs), the console agent (main.rs), the  *)
(* per-host instance lock (instance_lock.rs), the one ETW session of the   *)
(* agent's fixed name (etw/session.rs) and the service's log (module       *)
(* RotatingLog).                                                           *)
(*                                                                         *)
(* Processes are numbered in the order they start.  A process of the       *)
(* service has three threads that matter here: the run (`serve'), the main *)
(* function with its watchdog (`supervise'), and the status thread; its    *)
(* capture teardown is a blocking task that outlives a run cut short.      *)
(***************************************************************************)
EXTENDS RotatingLog

CONSTANTS
    MaxProcs,  \* bound: how many processes start
    Bounds     \* bounds on the environment, one of them per behavior: processes,
               \* the kinds of process that start, whether the ingest server
               \* answers enrollment, log records, faults

Kinds == {"service", "admin", "etw", "user"}

ASSUME HostAssumption ==
    /\ MaxProcs \in Nat \ {0}
    /\ Bounds \subseteq [procs : 1..MaxProcs, kinds : SUBSET Kinds, enrolls : BOOLEAN,
                    records : Nat, faults : Nat]

VARIABLES
    bound,     \* the behavior's bounds
    faults,    \* how many faults so far
    kind,      \* each process: the service, or a console agent by its token
    at,        \* where its run is
    holds,     \* the run holds the lock (holds_lock)
    stop,      \* STOP or SHUTDOWN, a log failure, or Ctrl+C was received
    teardown,  \* the capture's teardown: "none", "logons", "session" or "done"
    main,      \* supervise: "run", "aborted" (the watchdog ended it) or "end"
    exit,      \* how the run ended: its code, 0 clean, -1 not yet
    lock,      \* the process whose mutex handle is the lock, or 0
    session,   \* the process that started the live session, or 0
    refused,   \* processes whose stop of a session the system refused
    failed,    \* processes whose log failed (LOG_FAILURE)
    entry,     \* service_main's last record: "none", being written, or "made"
    scm        \* the service's process, its status and the code STOPPED carries

procVars == <<kind, at, holds, stop, teardown, main, exit>>
hostVars == <<lock, session, refused>>
vars == <<bound, faults, procVars, hostVars, failed, entry, scm, logVars>>

Procs == 1..MaxProcs
NoProc == 0
Clean == 0
Pending == -1
DEADLINE == 12
SERVICE_LOG == 13

Alive(p) == at[p] \notin {"off", "gone"}
Service(p) == kind[p] = "service"

Init ==
    /\ bound \in Bounds /\ faults = 0
    /\ kind = [p \in Procs |-> "none"] /\ at = [p \in Procs |-> "off"]
    /\ holds = [p \in Procs |-> FALSE] /\ stop = [p \in Procs |-> FALSE]
    /\ teardown = [p \in Procs |-> "none"] /\ main = [p \in Procs |-> "run"]
    /\ exit = [p \in Procs |-> Pending]
    /\ lock = NoProc /\ session = NoProc /\ refused = {} /\ failed = {}
    /\ entry = [p \in Procs |-> "none"]
    /\ scm = [proc |-> NoProc, state |-> "STOPPED", code |-> Clean]
    /\ LogInit

Fault == faults < bound.faults /\ faults' = faults + 1
NoFault == faults' = faults

Goes(p, place) == at' = [at EXCEPT ![p] = place]

(* serve or console returns: the lock it holds is dropped.  Nobody waits   *)
(* for the outcome of an aborted run.                                      *)
Aborted(p) == main[p] = "aborted"
Ends(p, code) ==
    /\ at' = [at EXCEPT ![p] = "ended"]
    /\ exit' = [exit EXCEPT ![p] = IF Aborted(p) THEN @ ELSE code]
    /\ lock' = IF lock = p THEN NoProc ELSE lock

-----------------------------------------------------------------------------
(* Starts.  The SCM starts the service only while it is STOPPED; its old   *)
(* process may still be there.                                             *)
Start(p, k) ==
    /\ p <= bound.procs /\ k \in bound.kinds
    /\ at[p] = "off" /\ \A q \in 1..(p - 1) : at[q] # "off"
    /\ k = "service" => scm.state = "STOPPED"
    /\ kind' = [kind EXCEPT ![p] = k]
    /\ Goes(p, "start")
    /\ scm' = IF k = "service" THEN [proc |-> p, state |-> "START_PENDING", code |-> Clean]
                               ELSE scm
    /\ UNCHANGED <<bound, faults, holds, stop, teardown, main, exit, hostVars, failed, entry,
                   logVars>>

(* The configuration, the paths or the migration are refused, or the lock  *)
(* cannot be created at all.                                               *)
Refuse(p) ==
    /\ at[p] = "start"
    /\ Ends(p, 2)
    /\ UNCHANGED <<bound, faults, kind, holds, stop, teardown, main, session, refused, failed,
                   entry,
                   scm, logVars>>

(* instance_lock::acquire, by the class of the token.                      *)
Acquired(p) == kind[p] \in {"service", "admin"} /\ lock = NoProc
(* The lock bound to `_', so freed at once.                                *)
AcquireDropped(p) ==
    /\ at[p] = "start"
    /\ holds' = [holds EXCEPT ![p] = kind[p] \in {"service", "admin"}]
    /\ Goes(p, IF Service(p) THEN "log" ELSE "identity")
    /\ UNCHANGED <<bound, faults, kind, stop, teardown, main, exit, hostVars, failed, entry,
                   scm, logVars>>

Acquire(p) ==
    /\ at[p] = "start"
    /\ \/ /\ Acquired(p)
          /\ lock' = p /\ holds' = [holds EXCEPT ![p] = TRUE]
          /\ Goes(p, IF Service(p) THEN "log" ELSE "identity") /\ UNCHANGED exit
       \/ /\ kind[p] = "user"                         \* Unprivileged: goes on without it
          /\ Goes(p, "identity") /\ UNCHANGED <<lock, holds, exit>>
       \/ /\ kind[p] \in {"service", "admin"} /\ lock # NoProc   \* Held
          /\ Ends(p, 10) /\ UNCHANGED holds
       \/ /\ kind[p] = "etw"                          \* ControlsEtwOutsideModel
          /\ Ends(p, 1) /\ UNCHANGED holds
    /\ UNCHANGED <<bound, faults, kind, stop, teardown, main, session, refused, failed, entry,
                   scm, logVars>>

(* log_file::open; a rotation it starts goes on in LogStep.                *)
OpenServiceLog(p) ==
    /\ at[p] = "log"
    /\ OpenLog(p)
    /\ Goes(p, "opening")
    /\ UNCHANGED <<bound, faults, kind, holds, stop, teardown, main, exit, hostVars, failed,
                   entry, scm>>

(* The file is open in the service's old process, or cannot be opened, or  *)
(* the rotation of a full one failed.                                      *)
ServiceLogRefused(p) ==
    /\ \/ at[p] = "log" /\ log.by # NoProc /\ NoFault /\ UNCHANGED logVars
       \/ at[p] = "log" /\ log.by = NoProc /\ Fault /\ UNCHANGED logVars
       \/ at[p] = "opening" /\ log.by = p /\ OpenRefused /\ NoFault
    /\ Ends(p, SERVICE_LOG)
    /\ UNCHANGED <<bound, kind, holds, stop, teardown, main, session, refused, failed, entry,
                   scm>>

(* The run's first records, which LogStep writes and which may fail, then  *)
(* Status::running: not after a stop.                                      *)
Running(p) ==
    /\ at[p] = "opening" /\ (log.by = p => ~log.opening /\ log.at = "idle")
    /\ scm' = IF scm.proc = p /\ scm.state = "START_PENDING" /\ ~stop[p]
              THEN [scm EXCEPT !.state = "RUNNING"] ELSE scm
    /\ Goes(p, "identity")
    /\ UNCHANGED <<bound, faults, kind, holds, stop, teardown, main, exit, hostVars, failed,
                   entry,
                   logVars>>

-----------------------------------------------------------------------------
(* The log's own steps, by any thread of its process, one at a time: the   *)
(* writer is behind a mutex (lib.rs SharedWriter), free while log.at is    *)
(* "idle".  `failed' is LOG_FAILURE, and a failure stops the service as    *)
(* STOP does.                                                              *)

ProcUnchanged == UNCHANGED <<kind, at, holds, teardown, main, exit>>

EntryMade ==
    entry' = [entry EXCEPT ![log.by] =
                IF @ = "writing" /\ log'.at \in {"idle", "closed"} THEN "made" ELSE @]

LogStep ==
    /\ log.by # NoProc
    /\ \/ written < bound.records /\ WriteRecord /\ NoFault
       \/ Rotate(TRUE) /\ NoFault
       \/ Rotate(FALSE) /\ Fault
       \/ PutUp /\ NoFault
       \/ AppendRecord /\ NoFault
    /\ EntryMade
    /\ ProcUnchanged /\ UNCHANGED <<bound, stop, hostVars, failed, scm>>

LogFailure ==
    /\ log.by # NoProc
    /\ LogFails /\ Fault
    /\ EntryMade
    /\ failed' = failed \cup {log.by}
    /\ stop' = [stop EXCEPT ![log.by] = TRUE]
    /\ ProcUnchanged /\ UNCHANGED <<bound, hostVars, scm>>

-----------------------------------------------------------------------------
(* The run.  A run the watchdog aborted goes on to its next await.         *)

(* The identity step (module Enrollment): a stop ends it, and one that     *)
(* arrived as it ended starts no capture.                                  *)
Identity(p) ==
    /\ at[p] = "identity" /\ ~Aborted(p)
    /\ \/ ~stop[p] /\ bound.enrolls
          /\ Goes(p, IF holds[p] THEN "reclaim" ELSE "session") /\ UNCHANGED <<exit, lock>>
       \/ Ends(p, 6)                     \* the anchor or the identity is refused
       \/ Service(p) /\ stop[p] /\ Ends(p, Clean)
    /\ UNCHANGED <<bound, faults, kind, holds, stop, teardown, main, session, refused, failed,
                   entry,
                   scm, logVars>>

(* stop_session, by name: whichever process started it.  An ordinary token *)
(* controls only what an ordinary token started.                           *)
CanStop(p) == session # NoProc => kind[p] # "user" \/ kind[session] = "user"
StopSession(p) ==
    \/ /\ CanStop(p) /\ NoFault
       /\ session' = NoProc /\ UNCHANGED refused
    \/ /\ session # NoProc
       /\ IF CanStop(p) THEN Fault ELSE NoFault
       /\ refused' = refused \cup {p} /\ UNCHANGED session

(* EtwSession::start: with the lock, any session of the name is a zombie.  *)
Reclaim(p) ==
    /\ at[p] = "reclaim"
    /\ StopSession(p)
    /\ Goes(p, "session")
    /\ UNCHANGED <<bound, kind, holds, stop, teardown, main, exit, lock, failed, entry, scm,
                   logVars>>

(* A failed start is followed by a stop when it holds the lock, and else   *)
(* only when it failed for privilege (must_stop_after_failed_start).       *)
StartSession(p) ==
    /\ at[p] = "session"
    /\ \/ /\ session = NoProc /\ NoFault
          /\ session' = p /\ Goes(p, "logons") /\ UNCHANGED <<exit, lock>>
       \/ /\ session = NoProc /\ Fault                \* not created, or its providers refused
          /\ session' \in {NoProc, p}
          /\ \/ Goes(p, "undo") /\ UNCHANGED <<exit, lock>>
             \/ ~holds[p] /\ Ends(p, 1)
       \/ /\ session # NoProc /\ holds[p] /\ NoFault  \* 183: it survived the reclaim
          /\ Goes(p, "undo") /\ UNCHANGED <<session, exit, lock>>
       \/ /\ session # NoProc /\ ~holds[p] /\ NoFault \* 183: another start's
          /\ Ends(p, 9) /\ UNCHANGED session
    /\ UNCHANGED <<bound, kind, holds, stop, teardown, main, refused, failed, entry, scm,
                   logVars>>

(* stop_after_failed_start, or the session stopped because the Security    *)
(* log could not be opened, or dropped with a run that failed.             *)
Undo(p) ==
    /\ at[p] = "undo"
    /\ StopSession(p)
    /\ Ends(p, 1)
    /\ UNCHANGED <<bound, kind, holds, stop, teardown, main, failed, entry, scm, logVars>>

OpenLogons(p) ==
    /\ at[p] = "logons"
    /\ \/ Goes(p, "capture") /\ NoFault
       \/ Goes(p, "undo") /\ Fault
    /\ UNCHANGED <<bound, kind, holds, stop, teardown, main, exit, hostVars, failed, entry,
                   scm, logVars>>

(* A fatal TLS or signing error: the session is dropped, so stopped.       *)
RunFails(p) ==
    /\ at[p] = "capture" /\ ~Aborted(p)
    /\ Fault
    /\ Goes(p, "undo")
    /\ UNCHANGED <<bound, kind, holds, stop, teardown, main, exit, hostVars, failed, entry,
                   scm, logVars>>

(* The stop: the teardown moves into one blocking task.                    *)
BeginTeardown(p) ==
    /\ at[p] = "capture" /\ stop[p] /\ ~Aborted(p)
    /\ Goes(p, "teardown")
    /\ teardown' = [teardown EXCEPT ![p] = "logons"]
    /\ UNCHANGED <<bound, faults, kind, holds, stop, main, exit, hostVars, failed, entry, scm,
                   logVars>>

Teardown(p) ==
    /\ Alive(p)
    /\ \/ /\ teardown[p] = "logons" /\ NoFault
          /\ teardown' = [teardown EXCEPT ![p] = "session"] /\ UNCHANGED <<session, refused>>
       \/ /\ teardown[p] = "session" /\ StopSession(p)
          /\ teardown' = [teardown EXCEPT ![p] = "done"]
    /\ UNCHANGED <<bound, kind, at, holds, stop, main, exit, lock, failed, entry, scm, logVars>>

(* The teardown ended, and then the final request; or the service's budget *)
(* ran out first and what was pending goes on detached.                    *)
Finish(p) ==
    /\ at[p] = "teardown" /\ ~Aborted(p)
    /\ teardown[p] = "done" /\ Ends(p, Clean)
    /\ UNCHANGED <<bound, faults, kind, holds, stop, teardown, main, session, refused, failed,
                   entry,
                   scm, logVars>>

(* A budget that calls what it cut short a clean stop.                     *)
BudgetExpiresClean(p) ==
    /\ at[p] = "teardown" /\ ~Aborted(p) /\ Service(p)
    /\ Ends(p, Clean)
    /\ UNCHANGED <<bound, faults, kind, holds, stop, teardown, main, session, refused, failed,
                   entry,
                   scm, logVars>>

BudgetExpires(p) ==
    /\ at[p] = "teardown" /\ ~Aborted(p) /\ Service(p)
    /\ Ends(p, DEADLINE)
    /\ UNCHANGED <<bound, faults, kind, holds, stop, teardown, main, session, refused, failed,
                   entry,
                   scm, logVars>>

(* The future of an aborted run is dropped at an await: its lock with it,  *)
(* and its session unless the teardown already has it.                     *)
DropRun(p) ==
    /\ Aborted(p)
    /\ \/ at[p] \in {"identity", "teardown"} /\ NoFault /\ UNCHANGED <<session, refused>>
       \/ at[p] = "capture" /\ StopSession(p)
    /\ Goes(p, "ended")
    /\ lock' = IF lock = p THEN NoProc ELSE lock
    /\ UNCHANGED <<bound, kind, holds, stop, teardown, main, exit, failed, entry, scm, logVars>>

-----------------------------------------------------------------------------
(* supervise and service_main: the end of the run, or the watchdog 60      *)
(* seconds after the stop, whatever the run is doing; with_log_failure;    *)
(* the last log record; then STOPPED, the last thing the service reports.  *)

Joined(p) ==
    /\ Service(p) /\ main[p] = "run" /\ at[p] = "ended"
    /\ main' = [main EXCEPT ![p] = "end"]
    /\ exit' = [exit EXCEPT ![p] = IF exit[p] = Clean /\ p \in failed THEN SERVICE_LOG ELSE @]
    /\ UNCHANGED <<bound, faults, kind, at, holds, stop, teardown, hostVars, failed, entry,
                   scm, logVars>>

(* A watchdog that waits for the run it aborts to see the stop.            *)
WatchdogPolite(p) ==
    /\ Service(p) /\ main[p] = "run" /\ stop[p] /\ at[p] = "teardown"
    /\ main' = [main EXCEPT ![p] = "aborted"]
    /\ exit' = [exit EXCEPT ![p] = DEADLINE]
    /\ UNCHANGED <<bound, faults, kind, at, holds, stop, teardown, hostVars, failed, entry,
                   scm, logVars>>

Watchdog(p) ==
    /\ Service(p) /\ main[p] = "run" /\ stop[p]
    /\ Alive(p) /\ at[p] # "ended"
    /\ main' = [main EXCEPT ![p] = "aborted"]
    /\ exit' = [exit EXCEPT ![p] = DEADLINE]
    /\ UNCHANGED <<bound, faults, kind, at, holds, stop, teardown, hostVars, failed, entry,
                   scm, logVars>>

(* The record goes through the writer's mutex, whoever has it, an aborted  *)
(* run included; a log that failed or was never opened takes it at once.   *)
LogEntry(p) ==
    /\ Service(p) /\ Alive(p)
    /\ main[p] \in {"aborted", "end"} /\ entry[p] = "none"
    /\ IF log.by = p /\ written < bound.records
       THEN WriteRecord /\ entry' = [entry EXCEPT ![p] = "writing"]
       ELSE /\ log.by = p => log.at = "idle"
            /\ entry' = [entry EXCEPT ![p] = "made"] /\ UNCHANGED logVars
    /\ UNCHANGED <<bound, faults, procVars, hostVars, failed, scm>>

Stopped(p) ==
    /\ Alive(p) /\ scm.proc = p /\ scm.state # "STOPPED"
    /\ main[p] \in {"aborted", "end"} /\ entry[p] = "made"
    /\ scm' = [scm EXCEPT !.state = "STOPPED", !.code = exit[p]]
    /\ UNCHANGED <<bound, faults, procVars, hostVars, failed, entry, logVars>>

(* The status thread.                                                      *)
StopPending ==
    /\ scm.proc # NoProc /\ Alive(scm.proc) /\ stop[scm.proc]
    /\ scm.state \in {"START_PENDING", "RUNNING"}
    /\ scm' = [scm EXCEPT !.state = "STOP_PENDING"]
    /\ UNCHANGED <<bound, faults, procVars, hostVars, failed, entry, logVars>>

(* STOP or SHUTDOWN, which the service accepts while RUNNING alone;        *)
(* Ctrl+C, which the console watches once it captures.                     *)
Control(p) ==
    /\ ~stop[p] /\ Alive(p)
    /\ IF Service(p) THEN scm.proc = p /\ scm.state = "RUNNING" ELSE at[p] = "capture"
    /\ stop' = [stop EXCEPT ![p] = TRUE]
    /\ ProcUnchanged /\ UNCHANGED <<bound, faults, hostVars, failed, entry, scm, logVars>>

(* The process ends: the dispatcher returned after STOPPED, or the console *)
(* returned; or it is killed.  Its memory and its handles go, a session it *)
(* did not stop stays; the SCM sees a service that ended without STOPPED.  *)
Gone(p) ==
    /\ Goes(p, "gone")
    /\ lock' = IF lock = p THEN NoProc ELSE lock
    /\ CloseLog(p)
    /\ holds' = [holds EXCEPT ![p] = FALSE] /\ stop' = [stop EXCEPT ![p] = FALSE]
    /\ teardown' = [teardown EXCEPT ![p] = "none"] /\ main' = [main EXCEPT ![p] = "run"]
    /\ exit' = [exit EXCEPT ![p] = Pending]
    /\ refused' = refused \ {p} /\ failed' = failed \ {p}
    /\ entry' = [entry EXCEPT ![p] = "none"]
    /\ UNCHANGED <<bound, kind, session, files, written>>

Exit(p) ==
    /\ IF Service(p) THEN Alive(p) /\ (scm.proc = p => scm.state = "STOPPED") ELSE at[p] = "ended"
    /\ Gone(p) /\ NoFault /\ UNCHANGED scm

Kill(p) ==
    /\ Alive(p) /\ Fault
    /\ Gone(p)
    /\ scm' = IF scm.proc = p /\ scm.state # "STOPPED"
              THEN [scm EXCEPT !.state = "STOPPED", !.code = 1] ELSE scm

-----------------------------------------------------------------------------
Step(p) ==
    \/ \E k \in Kinds : Start(p, k)
    \/ Refuse(p) \/ Acquire(p) \/ OpenServiceLog(p) \/ ServiceLogRefused(p) \/ Running(p)
    \/ Identity(p) \/ Reclaim(p) \/ StartSession(p) \/ Undo(p) \/ OpenLogons(p) \/ RunFails(p)
    \/ BeginTeardown(p) \/ Teardown(p) \/ Finish(p) \/ BudgetExpires(p) \/ DropRun(p)
    \/ Joined(p) \/ Watchdog(p) \/ LogEntry(p) \/ Stopped(p) \/ Control(p) \/ Exit(p) \/ Kill(p)

Next == (\E p \in Procs : Step(p)) \/ LogStep \/ LogFailure \/ StopPending

Spec == Init /\ [][Next]_vars

(* The watchdog's timer fires and the main function goes on; a file        *)
(* operation the log began returns, well or badly, and frees its mutex.    *)
(* Nothing else is assumed of the run, which may hang anywhere else.       *)
FairSpec ==
    /\ Spec
    /\ \A p \in Procs : /\ WF_vars(Watchdog(p)) /\ WF_vars(Joined(p))
                        /\ WF_vars(LogEntry(p)) /\ WF_vars(Stopped(p))
    /\ WF_vars(log.at # "idle" /\ LogStep)

-----------------------------------------------------------------------------
(* One live capture per host: a session a live process captures from is    *)
(* ended by that process, or by the detached teardown of a service process *)
(* whose stop ran past its deadline (EtwSession::stop goes by name and the *)
(* lock is already free, service/windows.rs serve), or, started without    *)
(* the lock, by a start that holds it.                                     *)
CapturesFrom(p) == session = p /\ at[p] \in {"logons", "capture"}
SessionKept ==
    [][\A p \in Procs : CapturesFrom(p) /\ Alive(p)' /\ session' # p =>
         \/ at'[p] # at[p] \/ teardown'[p] # teardown[p]
         \/ ~holds[p]
         \/ \E q \in Procs : /\ teardown'[q] # teardown[q] /\ at[q] = "ended"
                             /\ exit[q] = DEADLINE]_vars

(* A stop reported is a stop done: once STOPPED carries another code than  *)
(* the deadline's, the run has returned, no teardown is under way and the  *)
(* session is gone, unless the system refused its stop (windows.rs serve,  *)
(* supervise and service_main, lib.rs run_secure_within).                  *)
StopIsComplete ==
    \A p \in Procs :
        scm.proc = p /\ scm.state = "STOPPED" /\ Alive(p) /\ scm.code # DEADLINE =>
            /\ at[p] = "ended"
            /\ teardown[p] \notin {"logons", "session"}
            /\ session # p \/ p \in refused

(* "held for as long as the process that took it" (ADR-0008 Amendment      *)
(* 2026-11-02): while a process that took the lock is stopping its sources *)
(* no other has it.  serve drops the lock at its return, its teardown      *)
(* detached.                                                               *)
LockForLife ==
    \A p \in Procs :
        holds[p] /\ Alive(p) /\ teardown[p] \in {"logons", "session"} => lock \in {p, NoProc}

(* A stop is answered: the service is STOPPED, whatever its run does; and  *)
(* a log that stops writing while the service runs ends it, never as a     *)
(* clean stop (supervise, with_log_failure).                               *)
Going(p) == Service(p) /\ Alive(p) /\ main[p] = "run"
StopReported ==
    \A p \in Procs :
        /\ (Going(p) /\ stop[p]) ~> (scm.proc # p \/ scm.state = "STOPPED")
        /\ (Going(p) /\ p \in failed) ~>
               (scm.proc # p \/ (scm.state = "STOPPED" /\ scm.code # Clean))
=============================================================================
