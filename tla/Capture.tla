-------------------------------- MODULE Capture --------------------------------
(***************************************************************************)
(* The agent's capture sources: the ETW session's callbacks with the cache *)
(* of creation times (etw/dispatch.rs, etw/cache.rs), the hygiene thread   *)
(* that sweeps the cache (etw/hygiene.rs), the thread that reads the       *)
(* Security log (logon/subscription.rs), and their teardown                *)
(* (lib.rs, run_secure_within).                                            *)
(*                                                                         *)
(* Processes are told apart by their creation time; PIDs are reused.  What *)
(* the callbacks enqueue goes to the ring of module EventRing; here `last' *)
(* is the latest event enqueued, with the process it is really about.      *)
(***************************************************************************)
EXTENDS Naturals, Sequences, FiniteSets

CONSTANTS
    Pids,     \* process ids
    MaxTime,  \* bound: creation times (1: before the session)
    Bounds    \* bounds on the environment, one of them per behavior: creation
              \* times, records in the session's buffers, records lost, logon
              \* records, failures of the Security log and answers "alive" for an
              \* ended process

ASSUME CaptureAssumption ==
    /\ IsFiniteSet(Pids) /\ 0 \notin Pids
    /\ MaxTime \in Nat \ {0}
    /\ Bounds \subseteq [time : 1..MaxTime, queue : Nat, lost : Nat, logons : Nat, failures : Nat]

VARIABLES
    bound,     \* the behavior's bounds
    clock,     \* the latest creation time
    proc,      \* the process running under each PID: its creation time, or 0
    queue,     \* the session's records, oldest first
    unseen,    \* processes whose Launch was not dispatched
    unended,   \* processes whose Terminate was lost
    lost,      \* records lost so far
    cache,     \* PID to creation time, 0: no entry
    last,      \* the event enqueued last
    sweep,     \* the hygiene thread: phase, snapshot, PIDs to ask, PIDs gone
    swept,     \* creation times the sweep evicted
    thread,    \* where the logon thread is
    open,      \* the subscription is open
    signal,    \* its signal
    unread,    \* logon records the subscription holds
    written,   \* how many logon records were written
    failures,  \* failed reads and reopens, and wrong answers, so far
    phase      \* the run: open, or how far its teardown has come

processVars == <<clock, proc, queue, unseen, unended, lost>>
cacheVars == <<cache, last, sweep, swept>>
logonVars == <<thread, open, signal, unread, written, failures>>
vars == <<bound, processVars, cacheVars, logonVars, phase>>

NoEvent == [kind |-> "none", pid |-> 0, born |-> 0, created |-> 0]
NoEntry == [p \in Pids |-> 0]
Idle == [at |-> "idle", snap |-> NoEntry, ask |-> {}, gone |-> {}]
Unspawned == [Idle EXCEPT !.at = "none"]

(* open_platform_capture returned, with a hygiene thread or without one,   *)
(* which could not be spawned.  One process may be older than it: those    *)
(* that are share a creation time here, by which processes are told apart. *)
Init ==
    /\ bound \in Bounds
    /\ clock = 1
    /\ proc \in {NoEntry} \cup {[NoEntry EXCEPT ![p] = 1] : p \in Pids}
    /\ queue = <<>> /\ unseen = {1} /\ unended = {} /\ lost = 0
    /\ cache = NoEntry /\ last = NoEvent /\ sweep \in {Idle, Unspawned} /\ swept = {}
    /\ thread = "wait" /\ open = TRUE /\ signal = TRUE /\ unread = 0
    /\ written = 0 /\ failures = 0
    /\ phase = "open"

-----------------------------------------------------------------------------
(* The kernel: a record enters the session's buffers, or is lost.          *)

Live == phase \in {"open", "logons", "hygiene"}   \* the session records

Deliver(kind, p, t) ==
    /\ Live /\ Len(queue) < bound.queue
    /\ queue' = Append(queue, [kind |-> kind, pid |-> p, born |-> t])
    /\ UNCHANGED <<unseen, unended, lost>>

Drop(kind, t) ==
    /\ Live /\ lost < bound.lost
    /\ lost' = lost + 1 /\ queue' = queue
    /\ unseen' = IF kind = "Launch" THEN unseen \cup {t} ELSE unseen
    /\ unended' = IF kind = "Terminate" THEN unended \cup {t} ELSE unended

Launch(p) ==
    /\ proc[p] = 0 /\ clock < bound.time
    /\ clock' = clock + 1 /\ proc' = [proc EXCEPT ![p] = clock + 1]
    /\ Deliver("Launch", p, clock + 1) \/ Drop("Launch", clock + 1)
    /\ UNCHANGED <<cacheVars, logonVars, phase>>

Terminate(p) ==
    /\ proc[p] # 0
    /\ proc' = [proc EXCEPT ![p] = 0]
    /\ Deliver("Terminate", p, proc[p]) \/ Drop("Terminate", proc[p])
    /\ UNCHANGED <<clock, cacheVars, logonVars, phase>>

Connect(p) ==
    /\ proc[p] # 0
    /\ Deliver("Connect", p, proc[p])
    /\ UNCHANGED <<clock, proc, cacheVars, logonVars, phase>>

-----------------------------------------------------------------------------
(* The callbacks, on the pump thread.                                      *)

Pumped ==
    /\ queue # <<>> /\ queue' = Tail(queue)
    /\ UNCHANGED <<clock, proc, sweep, swept, logonVars, phase>>

Enqueue(r, created) ==
    last' = [kind |-> r.kind, pid |-> r.pid, born |-> r.born, created |-> created]

(* dispatch_record: Launch inserts and Terminate consults and purges.      *)
DispatchLaunch ==
    /\ Pumped /\ Head(queue).kind = "Launch"
    /\ LET r == Head(queue) IN
       cache' = [cache EXCEPT ![r.pid] = r.born] /\ Enqueue(r, r.born)
    /\ UNCHANGED <<unseen, unended, lost>>

DispatchTerminateKeeping ==
    /\ Pumped /\ Head(queue).kind = "Terminate"
    /\ LET r == Head(queue) IN cache' = cache /\ Enqueue(r, cache[r.pid])
    /\ UNCHANGED <<unseen, unended, lost>>

DispatchTerminate ==
    /\ Pumped /\ Head(queue).kind = "Terminate"
    /\ LET r == Head(queue) IN
       cache' = [cache EXCEPT ![r.pid] = 0] /\ Enqueue(r, cache[r.pid])
    /\ UNCHANGED <<unseen, unended, lost>>

(* dispatch_network_record looks the entry up and leaves it.               *)
DispatchConnect ==
    /\ Pumped /\ Head(queue).kind = "Connect"
    /\ LET r == Head(queue) IN cache' = cache /\ Enqueue(r, cache[r.pid])
    /\ UNCHANGED <<unseen, unended, lost>>

(* A connection that is dropped: the agent's own, or one that cannot be    *)
(* decoded (counted as discarded).                                         *)
DropConnect ==
    /\ Pumped /\ Head(queue).kind = "Connect"
    /\ UNCHANGED <<unseen, unended, lost, cache, last>>

(* A process record with a timestamp before 1970 is dropped: as if lost.   *)
DropAnomaly ==
    /\ Pumped /\ Head(queue).kind # "Connect" /\ lost < bound.lost
    /\ lost' = lost + 1
    /\ LET r == Head(queue) IN
       /\ unseen' = IF r.kind = "Launch" THEN unseen \cup {r.born} ELSE unseen
       /\ unended' = IF r.kind = "Terminate" THEN unended \cup {r.born} ELSE unended
    /\ UNCHANGED <<cache, last>>

-----------------------------------------------------------------------------
(* The hygiene thread's sweep: a snapshot under the lock, a question to    *)
(* the system about each PID outside it, the eviction under the lock.      *)

SweepBegin ==
    /\ phase \in {"open", "logons"} /\ sweep.at = "idle"
    /\ sweep' = [at |-> "ask", snap |-> cache, ask |-> {p \in Pids : cache[p] # 0}, gone |-> {}]
    /\ UNCHANGED <<processVars, cache, last, swept, logonVars, phase>>

SweepAskNobody(p) ==
    /\ sweep.at = "ask" /\ p \in sweep.ask
    /\ sweep' = [sweep EXCEPT !.ask = @ \ {p}]
    /\ UNCHANGED <<processVars, cache, last, swept, logonVars, phase>>

(* process_is_alive.  An ended process whose object a handle keeps is      *)
(* still found; each such answer counts as a failure, so handles close.    *)
SweepAsk(p) ==
    /\ sweep.at = "ask" /\ p \in sweep.ask
    /\ \/ /\ sweep' = [sweep EXCEPT !.ask = @ \ {p},
                                     !.gone = IF proc[p] = 0 THEN @ \cup {p} ELSE @]
          /\ UNCHANGED failures
       \/ /\ proc[p] = 0 /\ failures < bound.failures /\ failures' = failures + 1
          /\ sweep' = [sweep EXCEPT !.ask = @ \ {p}]
    /\ UNCHANGED <<processVars, cache, last, swept, thread, open, signal, unread, written, phase>>

EvictedAnyway == {p \in sweep.gone : cache[p] # 0}
Evicted == {p \in sweep.gone : cache[p] = sweep.snap[p] /\ cache[p] # 0}

SweepEnd ==
    /\ sweep.at = "ask" /\ sweep.ask = {}
    /\ cache' = [p \in Pids |-> IF p \in Evicted THEN 0 ELSE cache[p]]
    /\ swept' = swept \cup {cache[p] : p \in Evicted}
    /\ sweep' = Idle
    /\ UNCHANGED <<processVars, last, logonVars, phase>>

-----------------------------------------------------------------------------
(* The logon thread.  It wakes for the stop, for the signal, or after a    *)
(* second; it resets the signal before it reads.                           *)

WriteLogon ==
    /\ written < bound.logons
    /\ written' = written + 1
    /\ unread' = IF open THEN unread + 1 ELSE unread
    /\ signal' = (signal \/ open)
    /\ UNCHANGED <<processVars, cacheVars, thread, open, failures, phase>>

Stopping == phase # "open"   \* the stop event is set

WakeSignalled ==
    /\ thread = "wait" /\ (Stopping \/ signal)
    /\ \/ Stopping /\ thread' = "ended" /\ UNCHANGED signal
       \/ ~Stopping /\ open /\ thread' = "read" /\ signal' = FALSE
       \/ ~Stopping /\ ~open /\ thread' = "reopen" /\ UNCHANGED signal
    /\ UNCHANGED <<processVars, cacheVars, open, unread, written, failures, phase>>

Wake ==
    /\ thread = "wait"
    /\ \/ Stopping /\ thread' = "ended" /\ UNCHANGED signal
       \/ ~Stopping /\ open /\ thread' = "read" /\ signal' = FALSE
       \/ ~Stopping /\ ~open /\ thread' = "reopen" /\ UNCHANGED signal
    /\ UNCHANGED <<processVars, cacheVars, open, unread, written, failures, phase>>

(* drain: batch after batch until none is left; each record is dispatched, *)
(* excluded or counted as unusable.                                        *)
Drain ==
    /\ thread = "read"
    /\ \/ /\ unread > 0
          /\ \E n \in 1..unread : unread' = unread - n
          /\ UNCHANGED thread
       \/ /\ unread = 0 /\ thread' = "wait" /\ UNCHANGED unread
    /\ UNCHANGED <<processVars, cacheVars, open, signal, written, failures, phase>>

(* A failed read: the subscription is dropped with what it holds, and      *)
(* reopened, from new records alone, after a wait the stop cuts short.     *)
ReadFails ==
    /\ thread = "read" /\ failures < bound.failures
    /\ failures' = failures + 1 /\ thread' = "delay" /\ open' = FALSE
    /\ unread' = 0
    /\ UNCHANGED <<processVars, cacheVars, signal, written, phase>>

Delay ==
    /\ thread = "delay"
    /\ thread' = IF Stopping THEN "ended" ELSE "reopen"
    /\ UNCHANGED <<processVars, cacheVars, open, signal, unread, written, failures, phase>>

Reopen ==
    /\ thread = "reopen" /\ thread' = "wait"
    /\ \/ open' = TRUE /\ UNCHANGED failures
       \/ open' = FALSE /\ failures < bound.failures /\ failures' = failures + 1
    /\ UNCHANGED <<processVars, cacheVars, signal, unread, written, phase>>

-----------------------------------------------------------------------------
(* The teardown, in one blocking task: the logon thread is joined and its  *)
(* subscription closed, the hygiene thread joined, the session stopped and *)
(* the pump waited for, five seconds at most.                              *)

Stop ==
    /\ phase = "open" /\ phase' = "logons"
    /\ UNCHANGED <<processVars, cacheVars, logonVars>>

StopLogons ==
    /\ phase = "logons" /\ thread = "ended"
    /\ phase' = "hygiene" /\ open' = FALSE /\ unread' = 0
    /\ UNCHANGED <<processVars, cacheVars, thread, signal, written, failures>>

StopSession ==
    /\ phase = "hygiene" /\ sweep.at # "ask"
    /\ phase' = "pump"
    /\ UNCHANGED <<processVars, cacheVars, logonVars>>

JoinPump ==
    /\ phase = "pump" /\ phase' = "down"
    /\ queue = <<>> \/ lost < bound.lost   \* the join's timeout counts as a loss
    /\ lost' = IF queue = <<>> THEN lost ELSE lost + 1
    /\ UNCHANGED <<clock, proc, queue, unseen, unended, cacheVars, logonVars>>

Pump == DispatchLaunch \/ DispatchTerminate \/ DispatchConnect \/ DropConnect \/ DropAnomaly
Hygiene == SweepBegin \/ (\E p \in Pids : SweepAsk(p)) \/ SweepEnd
LogonThread == Wake \/ Drain \/ ReadFails \/ Delay \/ Reopen
Teardown == StopLogons \/ StopSession \/ JoinPump
System == WriteLogon \/ \E p \in Pids : Launch(p) \/ Terminate(p) \/ Connect(p)

Next ==
    /\ System \/ Pump \/ Hygiene \/ LogonThread \/ Stop \/ Teardown
    /\ UNCHANGED bound

Spec == Init /\ [][Next]_vars
FairSpec ==
    /\ Spec
    /\ WF_vars(Pump /\ UNCHANGED bound) /\ WF_vars(Hygiene /\ UNCHANGED bound)
    /\ WF_vars(LogonThread /\ UNCHANGED bound) /\ WF_vars(Teardown /\ UNCHANGED bound)

-----------------------------------------------------------------------------
(* An event never carries the creation time of another process, unless two *)
(* records were lost: the Launch of its own process and the Terminate of   *)
(* the one whose time it carries (etw/cache.rs, insert, consult_and_purge, *)
(* created_time; PIDs reused at any time, records dispatched late).        *)
CreationTimesTrue ==
    last.created \notin {0, last.born} => last.born \in unseen /\ last.created \in unended

(* An event lacks the creation time only if its process's Launch was not   *)
(* dispatched, or if the sweep took the entry of a process that had ended: *)
(* a sweep that meets a reused PID never takes the new process's entry     *)
(* (etw/cache.rs, sweep: is_alive is asked outside the lock).              *)
MissesExplained ==
    /\ last.created = 0 /\ last.kind # "none" => last.born \in unseen \cup swept
    /\ \A p \in Pids : proc[p] \notin swept

(* There is a hygiene thread.                                              *)
Swept == sweep.at # "none"

(* The entry of a process whose Terminate was lost does not stay: while    *)
(* the run goes on with a hygiene thread, it is evicted, once no handle    *)
(* keeps the process, or its PID is in use again (etw/hygiene.rs, the      *)
(* sweep every minute).                                                    *)
StaleEntriesGo ==
    \A p \in Pids :
        (Swept /\ cache[p] # 0 /\ proc[p] = 0) ~> (cache[p] = 0 \/ proc[p] # 0 \/ Stopping)

(* A record the subscription holds is read or the read fails, and after a  *)
(* failure the subscription opens again: no failed read or reopen, and no  *)
(* lost signal, ends the capture of logons (logon/subscription.rs, run).   *)
LogonsFollowed ==
    /\ unread > 0 ~> unread = 0
    /\ ~open ~> (open \/ Stopping)
=============================================================================
