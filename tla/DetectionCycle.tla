--------------------------- MODULE DetectionCycle ---------------------------
(***************************************************************************)
(* The detection driver and its cycle (services/ingest/src/detect/):       *)
(* driver.ts, index.ts, read-model.ts, alerts.ts and incidents.ts.         *)
(*                                                                         *)
(* A cycle reads the events that arrived after its cursor, evaluates every *)
(* rule on each, upserts an alert per match, groups a new alert into an    *)
(* incident, notifies and runs the playbooks of a created incident, and    *)
(* last moves the cursor.  Every await is a step: the table moves between  *)
(* them, and an error or a crash there ends the cycle where it stands.     *)
(* Nothing is undone, and the next pass starts again from the old cursor.  *)
(*                                                                         *)
(* Control, pc: "idle" outside a pass, "read" before the forward read,     *)
(* "resolve" before the parent queries, "match" before the alert upsert of *)
(* the next match (or the cursor's move when none is left), "group" before *)
(* the incident upsert, "notify" before the email, "claim" and "steps" in  *)
(* the playbooks.                                                          *)
(*                                                                         *)
(* A match is <<event, rule>>.  batch and work are sets, taken in the      *)
(* order of the read.  An alert stands for the match that inserted it, an  *)
(* incident for its grouping_key.  One org.  Scores, the title and the     *)
(* triage columns are left out.                                            *)
(***************************************************************************)
EXTENDS EventTable, Soar

CONSTANTS
    Rule,           \* rule ids, evaluated in their order
    Matches,        \* the matches, given the parent's image where needed
    NeedsParent,    \* the rules that look at the parent's image
    Parent,         \* per event, the Launch of its parent, 0 if none
    Process,        \* per event, its agent, process name and 300 s bucket
    Window,         \* per event, its agent and 1800 s window
    Tactics,        \* per rule, its canonical tactics
    Severity,       \* per rule, its severity_id
    BatchLimit,     \* BATCH_LIMIT, 1000
    DrainCap,       \* MAX_ITERATIONS_PER_TICK, 10
    MaxFaults       \* bound: store errors and crashes in a behaviour

(***************************************************************************)
(* A parent's Launch travels in its child's POST or in an earlier one. The *)
(* window is a multiple of the dedup bucket, so one bucket is one window.  *)
(***************************************************************************)
ASSUME DetectionAssumption ==
    /\ Rule \subseteq Nat \ {0} /\ IsFiniteSet(Rule)
    /\ Matches \subseteq Event \X Rule
    /\ NeedsParent \subseteq Rule
    /\ Parent \in [Event -> Event \cup {0}]
    /\ \A p \in DOMAIN Posts : \A e \in Posts[p] :
         Parent[e] # 0 => \E q \in 1..p : Parent[e] \in Posts[q]
    /\ DOMAIN Process = Event /\ DOMAIN Window = Event
    /\ \A e, f \in Event : Process[e] = Process[f] => Window[e] = Window[f]
    /\ DOMAIN Tactics = Rule
    /\ Severity \in [Rule -> Nat]
    /\ BatchLimit \in Nat \ {0} /\ DrainCap \in Nat \ {0}
    /\ MaxFaults \in Nat

VARIABLES
    driver,         \* "timer" armed, in a "pass", or "closed" by stop()
    stopped,        \* stop() was called
    cycles,         \* the drain loop's i
    batch,          \* the rows the cycle read
    work,           \* the <<row, rule>> of the matches still to be written
    alert,          \* the new alert being grouped
    cursor,         \* Postgres detect_watermark: the last row processed
    alerts,         \* Postgres alerts
    incidents,      \* Postgres incidents: by key, [alert_ids, severity]
    evaluated,      \* history: the rows whose evaluation was completed
    faults          \* how much of MaxFaults is used

driverVars == <<driver, stopped, cycles>>
storeVars  == <<cursor, alerts, incidents, executions>>
cycleVars  == <<batch, work, alert, runVars>>
vars == <<tableVars, driverVars, cycleVars, storeVars, pc, mails, evaluated, faults>>

Before(r, s) == r.at < s.at \/ (r.at = s.at /\ r.id < s.id)

UpTo(r, s) == r = s \/ Before(r, s)

NoAlert == <<>>

(***************************************************************************)
(* dedup_key and grouping_key.                                             *)
(***************************************************************************)
DedupKey(m) == <<m[2], Process[m[1]]>>

GroupingKey(m) == <<Tactics[m[2]], Window[m[1]]>>

Init ==
    /\ TableInit
    /\ SoarInit
    /\ pc = "idle"
    /\ driver = "timer"
    /\ stopped = FALSE
    /\ cycles = 0
    /\ batch = {} /\ work = {} /\ alert = NoAlert
    /\ cursor = [at |-> 0, id |-> 0]
    /\ alerts = {}
    /\ incidents = <<>>
    /\ evaluated = {}
    /\ faults = 0

Forget ==
    /\ batch' = {} /\ work' = {} /\ alert' = NoAlert
    /\ incident' = NoIncident /\ queue' = {} /\ outcomes' = <<>>

(***************************************************************************)
(* The pass ends: done, at an error, or stopped.  The next tick is armed   *)
(* unless stop() was called, which waited for this.                        *)
(***************************************************************************)
EndPass ==
    /\ pc' = "idle"
    /\ driver' = IF stopped THEN "closed" ELSE "timer"
    /\ cycles' = 0
    /\ Forget
    /\ UNCHANGED stopped

(***************************************************************************)
(* A cycle returned.  The org is drained after less than a full batch.     *)
(***************************************************************************)
EndCycle(count) ==
    IF count < BatchLimit \/ cycles + 1 >= DrainCap \/ stopped
    THEN EndPass
    ELSE /\ pc' = "read"
         /\ cycles' = cycles + 1
         /\ batch' = {} /\ work' = {}
         /\ UNCHANGED <<driver, stopped, alert, runVars>>

(***************************************************************************)
(* runTick: the timer fires.                                               *)
(***************************************************************************)
StartPass ==
    /\ driver = "timer"
    /\ driver' = "pass"
    /\ pc' = "read"
    /\ UNCHANGED <<tableVars, stopped, cycles, cycleVars, storeVars, mails,
                   evaluated, faults>>

(***************************************************************************)
(* The forward read: settled rows after the cursor, in order, at most a    *)
(* batch of them.  SettledAtOnce is a defect: no margin.                   *)
(***************************************************************************)
SettledAtOnce(r) == r.at <= now

Settled(r) == r.at + Settle <= now

NewRows == {r \in rows : Before(cursor, r) /\ Settled(r)}

Limited(b) ==
    /\ Cardinality(b) = Min({BatchLimit, Cardinality(NewRows)})
    /\ \A r \in b, s \in NewRows \ b : Before(r, s)

ReadNewEvents ==
    /\ pc = "read"
    /\ IF NewRows = {} THEN EndCycle(0)
       ELSE /\ batch' \in {b \in SUBSET NewRows : Limited(b)}
            /\ pc' = "resolve"
            /\ UNCHANGED <<driverVars, work, alert, runVars>>
    /\ UNCHANGED <<tableVars, storeVars, mails, evaluated, faults>>

(***************************************************************************)
(* The parents of the batch, from the rows stored at that moment, and the  *)
(* matches this gives.  A defect, StoredInBatch: a parent is only looked   *)
(* for in the batch.                                                       *)
(***************************************************************************)
StoredInBatch(e) == \E r \in batch : r.id = e

Stored(e) == \E r \in rows : r.id = e

Matched(e, r) ==
    /\ <<e, r>> \in Matches
    /\ r \in NeedsParent => Parent[e] # 0 /\ Stored(Parent[e])

ResolveParents ==
    /\ pc = "resolve"
    /\ work' = {m \in batch \X Rule : Matched(m[1].id, m[2])}
    /\ pc' = "match"
    /\ UNCHANGED <<tableVars, driverVars, batch, alert, runVars, storeVars, mails,
                   evaluated, faults>>

(***************************************************************************)
(* The loops, rule by rule within row by row: INSERT INTO alerts ... ON    *)
(* CONFLICT (dedup_key) DO NOTHING.                                        *)
(***************************************************************************)
Precedes(m, n) == Before(m[1], n[1]) \/ (m[1] = n[1] /\ m[2] < n[2])

First(m) == m \in work /\ \A n \in work \ {m} : Precedes(m, n)

Match(m) == <<m[1].id, m[2]>>

Known(a) == \E b \in alerts : DedupKey(b) = DedupKey(a)

UpsertAlert ==
    /\ pc = "match"
    /\ \E m \in work :
         /\ First(m)
         /\ work' = work \ {m}
         /\ IF Known(Match(m))
            THEN UNCHANGED <<alerts, alert, pc>>
            ELSE alerts' = alerts \cup {Match(m)} /\ alert' = Match(m) /\ pc' = "group"
    /\ UNCHANGED <<tableVars, driverVars, batch, runVars, cursor, incidents,
                   executions, mails, evaluated, faults>>

(***************************************************************************)
(* INSERT INTO incidents ... ON CONFLICT (grouping_key) DO UPDATE.  Two    *)
(* defects: WithLatest takes the last severity, not the greatest;          *)
(* UpsertIncidentAffected takes any affected row for a created one.        *)
(***************************************************************************)
Grouped(a) ==
    /\ GroupingKey(a) \in DOMAIN incidents
    /\ a \in Range(incidents[GroupingKey(a)].alert_ids)

WithLatest(row, a) ==
    [alert_ids |-> Append(row.alert_ids, a), severity |-> Severity[a[2]]]

WithAlert(row, a) ==
    [alert_ids |-> IF a \in Range(row.alert_ids) THEN row.alert_ids
                   ELSE Append(row.alert_ids, a),
     severity  |-> IF row.severity >= Severity[a[2]] THEN row.severity
                   ELSE Severity[a[2]]]

Create(key, a) ==
    LET severity == Severity[a[2]]
        runs     == Triggered(severity)
    IN  /\ incidents' = With(incidents, key, [alert_ids |-> <<a>>, severity |-> severity])
        /\ queue' = runs
        /\ incident' = IF Notify \/ runs # {} THEN [key |-> key, severity |-> severity]
                       ELSE NoIncident
        /\ pc' = IF Notify THEN "notify" ELSE IF runs # {} THEN "claim" ELSE "match"

UpsertIncidentAffected ==
    LET key == GroupingKey(alert)
        row == IF key \in DOMAIN incidents THEN WithAlert(incidents[key], alert)
               ELSE [alert_ids |-> <<alert>>, severity |-> Severity[alert[2]]]
    IN  /\ pc = "group"
        /\ alert' = NoAlert
        /\ incidents' = With(incidents, key, row)
        /\ incident' = [key |-> key, severity |-> row.severity]
        /\ queue' = Triggered(row.severity)
        /\ pc' = "notify"
        /\ UNCHANGED <<tableVars, driverVars, batch, work, outcomes, cursor, alerts,
                       executions, mails, evaluated, faults>>

UpsertIncident ==
    LET key == GroupingKey(alert)
    IN  /\ pc = "group"
        /\ alert' = NoAlert
        /\ IF key \in DOMAIN incidents
           THEN /\ incidents' = With(incidents, key, WithAlert(incidents[key], alert))
                /\ pc' = "match"
                /\ UNCHANGED <<incident, queue>>
           ELSE Create(key, alert)
        /\ UNCHANGED <<tableVars, driverVars, batch, work, outcomes, cursor, alerts,
                       executions, mails, evaluated, faults>>

(***************************************************************************)
(* The email of a created incident is sent, or its failure is logged.      *)
(***************************************************************************)
NotifyIncidentCreated ==
    /\ pc = "notify"
    /\ mails' \in {mails, Sent(<<incident.key, 0, 0>>)}
    /\ pc' = IF queue # {} THEN "claim" ELSE "match"
    /\ incident' = IF queue # {} THEN incident ELSE NoIncident
    /\ UNCHANGED <<tableVars, driverVars, batch, work, alert, queue, outcomes,
                   storeVars, evaluated, faults>>

RunPlaybooks ==
    /\ SoarNext
    /\ UNCHANGED <<tableVars, driverVars, batch, work, alert, cursor, alerts,
                   incidents, evaluated, faults>>

(***************************************************************************)
(* Every match is written: the cursor moves to the last row of the batch.  *)
(***************************************************************************)
AdvanceCursor ==
    /\ pc = "match"
    /\ work = {}
    /\ cursor' \in {r \in batch : \A s \in batch : UpTo(s, r)}
    /\ evaluated' = evaluated \cup batch
    /\ EndCycle(Cardinality(batch))
    /\ UNCHANGED <<tableVars, alerts, incidents, executions, mails, faults>>

(***************************************************************************)
(* A Postgres or ClickHouse error ends the pass, before or after what the  *)
(* failed statement did: in "group" the alert was inserted and its answer  *)
(* lost, in "notify" the incident.  A defect, AbortUnscheduled: the error  *)
(* escapes and the next tick is not armed.                                 *)
(***************************************************************************)
Fault == faults < MaxFaults /\ faults' = faults + 1

AbortUnscheduled ==
    /\ pc \in {"read", "resolve", "match", "group", "notify"}
    /\ Fault
    /\ pc' = "idle"
    /\ Forget
    /\ UNCHANGED <<tableVars, driverVars, storeVars, mails, evaluated>>

Abort ==
    /\ pc \in {"read", "resolve", "match", "group", "notify"}
    /\ Fault
    /\ EndPass
    /\ UNCHANGED <<tableVars, storeVars, mails, evaluated>>

(***************************************************************************)
(* The process dies and is started again.                                  *)
(***************************************************************************)
Crash ==
    /\ driver = "pass"
    /\ Fault
    /\ pc' = "idle"
    /\ driver' = "timer"
    /\ stopped' = FALSE
    /\ cycles' = 0
    /\ Forget
    /\ UNCHANGED <<tableVars, storeVars, mails, evaluated>>

PlaybookFault ==
    /\ SoarFault
    /\ Fault
    /\ UNCHANGED <<tableVars, driverVars, batch, work, alert, cursor, alerts,
                   incidents, evaluated>>

(***************************************************************************)
(* stop(): the armed tick is cancelled, a pass in flight is awaited.  A    *)
(* defect, StopAtOnce: it is not.                                          *)
(***************************************************************************)
StopAtOnce ==
    /\ ~stopped
    /\ stopped' = TRUE
    /\ driver' = "closed"
    /\ UNCHANGED <<tableVars, cycles, cycleVars, storeVars, pc, mails,
                   evaluated, faults>>

Stop ==
    /\ ~stopped
    /\ stopped' = TRUE
    /\ driver' = IF driver = "timer" THEN "closed" ELSE driver
    /\ UNCHANGED <<tableVars, cycles, cycleVars, storeVars, pc, mails,
                   evaluated, faults>>

Table == TableNext /\ UNCHANGED <<driverVars, cycleVars, storeVars, pc, mails,
                                  evaluated, faults>>

Cycle ==
    \/ ReadNewEvents \/ ResolveParents \/ UpsertAlert \/ UpsertIncident
    \/ NotifyIncidentCreated \/ RunPlaybooks \/ AdvanceCursor

(***************************************************************************)
(* After stop() the table may still be written, until the bounds are met.  *)
(***************************************************************************)
Closed == driver = "closed" /\ UNCHANGED vars

Next ==
    \/ Table \/ StartPass \/ Cycle \/ Abort \/ Crash \/ PlaybookFault \/ Stop
    \/ Closed

(***************************************************************************)
(* Node runs the timer and every await to its end, ClickHouse ends every   *)
(* INSERT and its clock runs.  Nothing makes a POST arrive, a fault happen *)
(* or a stop come.                                                         *)
(***************************************************************************)
Fairness ==
    /\ WF_vars(StartPass \/ Cycle)
    /\ WF_vars((EndInsert \/ FailInsert) /\ Table)
    /\ WF_vars(Clock /\ Table)

Spec == Init /\ [][Next]_vars /\ Fairness

-----------------------------------------------------------------------------
(***************************************************************************)
(* The cursor never passes a row that was not evaluated: not one that      *)
(* became visible behind it, not one of several with its stamp, not one of *)
(* a batch that failed half way (read-model.ts readNewEvents and its       *)
(* margin, index.ts which moves the cursor last).                          *)
(***************************************************************************)
NoRowSkipped == \A r \in rows : UpTo(r, cursor) => r \in evaluated

(***************************************************************************)
(* Detection is complete: when the cursor is past the rows of an event     *)
(* whose POST was answered, each of its matches has its alert, also one    *)
(* that needs the parent's image when the parent's row came late, in a     *)
(* retry, or in another partition.                                         *)
(***************************************************************************)
NoMissedMatch ==
    \A p \in 1..acked : \A e \in Posts[p] : \A r \in Rule :
        /\ <<e, r>> \in Matches
        /\ r \in NeedsParent => Parent[e] # 0
        /\ \A s \in rows : s.id = e => UpTo(s, cursor)
        => Known(<<e, r>>)

(***************************************************************************)
(* An incident holds distinct alerts of its own key that exist, and its    *)
(* severity is the highest of theirs (incidents.ts upsertIncident).        *)
(***************************************************************************)
IncidentsAgree ==
    \A key \in DOMAIN incidents :
        LET ids == incidents[key].alert_ids
        IN  /\ IsInjective(ids)
            /\ \A a \in Range(ids) : a \in alerts /\ GroupingKey(a) = key
            /\ incidents[key].severity = Max({Severity[a[2]] : a \in Range(ids)})

(***************************************************************************)
(* Whatever is re-read, re-sent or run again, an incident's notification   *)
(* and each email of a playbook leave at most once (alerts.ts dedup_key,   *)
(* incidents.ts created, run.ts claim).                                    *)
(***************************************************************************)
MailOnce == \A m \in BagToSet(mails) : mails[m] = 1

(***************************************************************************)
(* A completed execution record tells what happened: all steps are there,  *)
(* "done" means the email left, a step after a failed one was skipped, and *)
(* the status is "failed" when a step is.                                  *)
(***************************************************************************)
RunRecords ==
    \A run \in DOMAIN executions :
        LET record == executions[run]
            failed == {i \in DOMAIN record.steps : record.steps[i] = "failed"}
        IN  record.status # "running" =>
              /\ Len(record.steps) = Len(Steps[run[1]])
              /\ (record.status = "failed") <=> (failed # {})
              /\ \A i \in DOMAIN record.steps :
                   /\ record.steps[i] = "done" => BagIn(<<run[2], run[1], i>>, mails)
                   /\ \A j \in failed : j < i => record.steps[i] = "skipped"

(***************************************************************************)
(* What a fault costs: an alert outside every incident, or an incident     *)
(* with a playbook that never ran or whose record stays "running", and     *)
(* never more than one of them per fault.                                  *)
(***************************************************************************)
Ungrouped ==
    {a \in alerts \ {alert} : ~Grouped(a)}

Neglected ==
    {key \in DOMAIN incidents \ {incident.key} :
        \E p \in Triggered(Severity[incidents[key].alert_ids[1][2]]) :
            \/ <<p, key>> \notin DOMAIN executions
            \/ executions[<<p, key>>].status = "running"}

OneLossPerFault == Cardinality(Ungrouped) + Cardinality(Neglected) <= faults

(***************************************************************************)
(* When stop() has resolved, no cycle writes any more: the pools it uses   *)
(* are closed next (server.ts close).                                      *)
(***************************************************************************)
ClosedIsQuiet ==
    [][driver = "closed" => UNCHANGED <<storeVars, mails, pc>>]_vars

(***************************************************************************)
(* A settled row is evaluated, unless a merge replaced it or the driver    *)
(* was stopped: after an error or a crash the driver comes back to it.     *)
(***************************************************************************)
RowsEvaluated ==
    \A e \in Event, t \in 0..(MaxTime - Settle) :
        LET r == [at |-> t, id |-> e]
        IN  (r \in rows) ~> (r \in evaluated \/ r \notin rows \/ stopped)

(***************************************************************************)
(* "a dedup-collapsed re-fire returns null and was grouped at its first    *)
(* insert" (index.ts:70-71).  An error between the two upserts leaves an   *)
(* alert that the next pass takes for grouped.                             *)
(***************************************************************************)
RefireWasGrouped ==
    pc = "match" =>
        \A m \in work : First(m) =>
            \A a \in alerts : DedupKey(a) = DedupKey(Match(m)) => Grouped(a)
=============================================================================
