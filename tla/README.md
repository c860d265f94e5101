# CyberGuard: TLA+ models, checks and proofs

CyberGuard is an endpoint agent (Rust, `agent/cg-agent`), an ingest service and an
api service (TypeScript, `services/ingest` and `services/api`) and a dashboard. The
agent captures process, network and logon events on Windows and sends them in signed
heartbeats over mTLS; ingest stores them in ClickHouse, evaluates detection rules on
them, writes alerts and incidents to Postgres, sends emails and runs playbooks; api
serves logins, sessions and reads to the dashboard.

This directory models the parts of it in which order, concurrency and failure decide
whether it is right. `PROJECT.json` is the machine-readable index: which definition
models which lines, the runs, a mutant for every property, the hazards, the theorems.

## Inventory

| Part | State | Operations | Hard because | Right when |
|---|---|---|---|---|
| Event ring (`etw/ring.rs`) | bounded queue, dropped total | enqueue, drain, add_dropped | capture threads against the delivery task; overflow | nothing leaves uncounted; order is kept |
| Delivery (`delivery.rs`, `lib.rs`) | POST in flight, sequence, heartbeat flags | tick, form, attempt, retry, reject, finish | lost and late requests, timeouts, a stop at every await | at least once, in order; a stop ends and reports |
| Heartbeat endpoint (`routes/heartbeat.ts`) | nonces, heartbeats, cges_events | validate, insert, answer | two stores, an insert that is not atomic | 200 only for what is stored |
| Detection (`detect/`) | cursor, alerts, incidents | read, resolve parents, upsert, group, advance | rows that appear late, in parts and twice; errors between statements | no row skipped, no match missed, one alert per key |
| Notification and SOAR (`notify/`, `soar/`) | playbook_executions, emails | notify, claim, steps, complete | crash between effect and record, time limits | an email once; records tell the truth |
| Authentication (`auth/service.ts`, `auth/session.ts`) | users, sessions | login, change role/status/password, resolve, logout | Postgres and Redis without a common transaction | no session outlives its authority; an admin remains |
| Rate limiter (`auth/ratelimit.ts`) | counters in Redis | reserve, keep, give back, clear | parallel attempts | a limit is a limit |
| Enrollment (`enrollment.rs`, `routes/enroll.ts`) | tokens, agents, the exchange | enroll, retry, rounds | lost answers, overlapping requests | a token makes one agent and is not wasted |
| Identity and custody (`identity.rs`, `custody.rs`) | certificate, key, identity.json, token | check, load, persist, hygiene | a crash between any two writes | the identity in use is a registered one |
| Service and console process (`service/windows.rs`, `main.rs`, `instance_lock.rs`) | instance lock, ETW session, SCM status | start, stop, watchdog, teardown | processes that overlap, hang or are killed | one live capture; a stop is answered |
| Service log (`service/rotation.rs`, `log_file.rs`) | active file, archives | open, write, rotate | failing renames, crashes | nothing lost or reordered |
| Console migration (`service/migration.rs`) | two directories, a record | check, stage, commit, reverse, copies | a crash between two renames | some start can always go on |
| Capture (`etw/`, `logon/`) | created-time cache, subscription | launch, terminate, sweep, reopen | PID reuse, callbacks on other threads | a process is named by its own creation time |
| Forensic export (`forensic/`), rule engine (`detect/engine.ts`, `condition.ts`) | none | pure algorithms | edge cases | equal to a reference definition |
| Migrations (`db/migrate.ts`), server start and close | advisory lock, timers | migrate, check, close | several instances | one migrates, nobody serves too early |

How they interact: the capture callbacks share the ring with the delivery task; the
agent and ingest exchange HTTP requests, one at a time per agent; ingest's handlers
write `cges_events` and its detection driver polls it; the driver calls notification
and SOAR directly and awaits them; api shares no state with ingest but the database
it reads. The dashboard only calls api.

## Modules

### Event pipeline

* `EventRing`: the ring. An event is its capture number, so order and loss are visible.
* `Delivery` (extends `EventRing`): the delivery loop and the shutdown. `pc` is the
  await the task is at: `loop` (asleep, no POST), `attempt`, `backoff`, `teardown`,
  `final`, and the ends `stopped`, `expired`, `failed`. `pending` is `in_flight`;
  `requests` are the attempts the network or the server still hold, each with its own
  nonce. A tick may be due at any iteration, the oldest event may be old at any time
  and a request may time out at any moment, which covers every setting of the clocks.
* `IngestHeartbeat`: the handler. A request's `stage` is the await its handler is at.
* `EventPipeline`: the composition, its properties and fairness. The server is an
  INSTANCE over the agent's `requests`.
* `AtLeastOnce`: the promise without POSTs and retries; `EventPipeline` implements it
  under the mapping `held <- ring and POST in flight`, `dropped <- dropped_total`.
* `EventPipelineProofs`, `EventOrderProofs`: the theorems.

### Detection

* `EventTable`: `cges_events` as detection sees it. An INSERT is stamped when it
  starts, its rows appear partition by partition, it may fail half way and be sent
  again with a new stamp, and a merge keeps the latest row of an event.
* `Soar`: playbook runs.
* `DetectionCycle` (extends both): driver and cycle; every await is a step, and an
  error or a crash may come at each. The batch, its matches and the playbooks to run are
  sets, taken in the order the code takes them where that order shows.
* `MCDetectionCycle`: three events, two rules, one of them on the parent's image, and
  the playbooks.
* `DetectionProofs`: the theorems.

### Authentication

* `AuthSessions`: users with their row locks, logins, changes, requests with a session
  and the Redis entries. A change locks its rows one at a time in id order, commits,
  then deletes what its SCAN returns; a login reads, creates, reads again. Roles other
  than admin are alike here and are one value.
* `AuthSessionsProofs`: the theorems.

### Migration of a console installation

* `LegacyMigration`: a start of the Windows service (`serve`, `prepare`, `route`,
  `commit`, `reverse`, `copies`) as steps over two directories that move between three
  names. `console` and `file` are the console installation's directory and its file
  IDs, `stage` the directory the service builds, with its record `migration.json`; `pc`
  is the step, in the order of the code, and the loops over files are a step per file
  (in any order; the code's is fixed). `Cut` is a crash or a failing operation at any
  step. A rename that times out leaves a thread behind (`late`), which may finish
  under the reversal or after `serve` returned. A directory that cannot be inspected
  does not count for `prepare`. A file's bytes are identified with its ID, as each
  read checks it. A descriptor, an owner or a link count that is refused is a failing
  operation. One process at a time: the case that an old process is still ending
  when the next one starts is `ServiceHost`'s, which leaves the directories out.
* `LegacyMigrationProofs`: the theorems.

### Enrollment and identity

* `Enrollment`: the identity step of both agents and the server's transaction.
  `mode` chooses between the console agent (`ensure_identity`: load or enroll, write
  over what is there, restrict afterwards) and the installed service (check once, then
  rounds; every file is created new with its security). A file is absent, torn or
  whole, and a whole one names the id and the key of an enrollment. A request is
  `sent`, `open` (its INSERT made), `locked` (its UPDATE holds the token's row) and
  `done` with an answer; a request the agent gave up on goes on at the server.
  *Upsets* are the events that may cost a token its identity whatever the code does: an
  answer lost after the COMMIT, an end between the answer and the files, files removed
  or replaced by others. They are counted, and `TokensLostToUpsets` says that nothing
  else costs a token. One removal counts for two: between the service's check and its
  round a file can go, `is_enrolled` looks at the certificate and the key alone, so an
  exchange starts over an incomplete set and its token is consumed before `CREATE_NEW`
  refuses. The console loads without `check_consistency`, so `IdentityRegistered`
  claims less of it. Owners and DACLs are not modelled: after a crash between the
  console's `fs::write` and `harden` the next start loads files that were never
  restricted.
* `EnrollmentProofs`: the theorems.

### Capture

* `Capture`: the kernel's records in the session's buffers, the callbacks on the pump
  thread, the created-time cache, the hygiene thread's sweep (snapshot, question,
  eviction), the logon thread and the teardown. A process is its creation time; PIDs
  are reused; a record may be late or lost. The hygiene thread may be missing, as when its
  spawn fails, and a handle may keep the object of an ended process, which then answers
  alive; `StaleEntriesGo` excepts both. Not modelled: a record whose ProcessID does not
  parse, which the callback takes for PID 0, and more than one process from before the
  session.
* `MCCapture`: the bounds. `CaptureProofs`: the theorems.

### The agent on its host

* `RotatingLog`: the service's log. Each file operation of `open`, `write_record` and
  `rotate` is a step that succeeds or fails; a file is the sequence of its records. Left
  out: another process opening the active file in the moment a rotation has it closed, and
  the part of a line a failed write may leave before its retry.
* `ServiceHost` (extends `RotatingLog`): processes of the service and of the console
  agent, in the order they start. `at` is where a process's run is, `main` its
  `supervise`, `teardown` the blocking task that outlives a run cut short, `scm` what
  the service control manager knows. The lock, the session and the log are the host's.
  Time is abstract: the budget of 58 s and the watchdog's 60 s may end at any point
  after the stop. A record may be written by any thread from the log's opening on, the
  last one by `service_main` before `STOPPED` (`entry`). The Application log's entries are
  left out.
* `MCServiceHost`: the bounds. `ServiceHostProofs`: the theorems.

## Runs

| Run | Configuration | Shows |
|---|---|---|
| `event_pipeline` | `EventPipeline.cfg` | types, accounting, order, at least once, the stop's report; events leave, heartbeats are sent, a stop ends; the pipeline implements `AtLeastOnce`; 1.5 M states |
| `empty_post_attempts` | `EmptyPostAttempts.cfg` | violated: attempts of an empty POST exceed `max_retries` |
| `detection` | `DetectionCycle.cfg` | no row skipped, no match missed, incidents agree, 2.5 M states |
| `detection_soar` | `DetectionSoar.cfg` | notification and two playbooks with two faults: an email leaves once, records, losses, a quiet stop; every settled row is evaluated after an error or a crash |
| `refire_was_grouped` | `RefireWasGrouped.cfg` | violated: an alert whose grouping was interrupted is never grouped |
| `auth_sessions` | `AuthSessions.cfg` | last admin, no stale session, revoked stays revoked, changes never deadlock on row locks |
| `legacy_migration` | `LegacyMigration.cfg` | every cut leaves a state some start goes on from; what is installed is what was checked; copies are closed, and deleted only as asked and only if checked; a recorded reversal is not completed; the data root comes back and the copies go |
| `enrollment` | `Enrollment.cfg` | the identity in use is registered, one agent per token, tokens lost to upsets alone, the step settles, 0.7 M states |
| `capture` | `Capture.cfg` | creation times are true, misses are explained, stale entries go, logons are followed |
| `service_host` | `ServiceHost.cfg` | a live session is kept, a stop reported is complete, a stop is answered, the log is kept, 0.5 M states |
| `lock_for_life` | `LockForLife.cfg` | violated: a stopping process loses the instance lock to another start |
| `deleted_under_lock` | `DeletedUnderLock.cfg` | violated: the pass over the copies outlives the instance lock |

**Bounds.** Pipeline: a ring of 2 with 3 events overflows while a batch is in flight;
batches of 2 are full, partial and empty; 2 retries let a batch be refused for good and
an empty POST be given up; 2 ticks let a heartbeat fall due while the POST of the first
is being retried, and the fault that starts the retry is the one fault. With two faults
a late request stands beside a failed retry; the liveness properties would take TLC too
long there, and the safety ones are theorems for every number of faults. Detection: 3
events in 2 POSTs with a batch limit of 2 split a batch between equal stamps, 3 INSERTs
allow a resend, a clock of 4 ticks with a margin of 2 lets a row settle before, between
and after others, and a drain cap of 2 is reached. Authentication: 2 users are enough
for each to be the other's last admin and for lock cycles; a login overlaps two changes,
each of which may delete its session, and a request that is using it; one fault hits
every await. (Logins meet only through the changes, so a second one adds states and no
new case.) Migration: agent.toml, two identity files and the temporary stand for the six
names; two faults give a failed second rename whose reversal is cut too, and a cut
followed by a continued migration that is cut; one replaced file falls into every gap
between two steps; two anchors and both choices give starts with the wrong arguments.
Enrollment: 2 attempts and 2 requests at the server let a retry meet its first request
at every stage; 2 tokens let an operator enroll again after a loss; 3 upsets combine a
removal in the service's gap (two) with one more. Capture: one PID with 4 creation times
is reused three times; 2 losses are the least that can give an event a wrong time, and
happen; 3 records in the buffers let a Launch, a Terminate and a Connect be late
together; 4 logon records and 2 failures of the subscription cover a failed read
followed by a failed reopen. The environments (processes, logons, both) are separate
behaviors of one run, since they share only the teardown. Service: 3 processes that take
the lock let one start inside the window between another's end and its detached
teardown, with a third waiting; 2 of every token class with 2 faults; a single service
with 3 records and 2 faults meets a failing log before `RUNNING`, in the capture and in
the teardown; 5 records with one per file and 2 archives rotate past the last archive,
with 2 faults. Each bound is a named constant or a field of `Bounds`.

**Fairness.** Pipeline: the tokio runtime runs the loop's timers and an attempt to its
end, Node runs a handler to its answer; nothing makes an event, a fault or a stop
happen. An attempt always ends because it has a timeout. Detection: Node fires the
armed timer and runs each await to its end (each has an answer or an error), ClickHouse
ends its INSERTs and its clock runs. Authentication: a change that was started is run;
weak fairness per change suffices because a row lock, once free, is only taken by the
other changes, which end. Migration: a start takes its steps, each bounded by a wait,
and a running service is stopped some time (a reboot); starts without arguments, which
every boot makes, are strongly fair, since starts with arguments may come between them.
Both liveness properties except a console agent that holds the instance lock.
Enrollment: the agent's and the server's steps are run, and faults stop at some time
(`Calm`); no token, start or restored file is assumed. Capture: the pump, hygiene and
logon threads and the teardown are scheduled; the logon thread's wait has a timeout of a
second, so it wakes without a signal. Service: the watchdog's timer fires and the main
thread goes on. Its last record goes through the writer's mutex (`SharedWriter`), which a
run that was aborted may have, so a file operation the log began is assumed to return,
well or badly: a hang inside one would hold back `STOPPED`, as it does in the code. The
mutex comes to the main thread because the records of a behaviour are finitely many, and
the write to the Application log is taken to return. Nothing else is assumed of the run,
which may hang at any other step.

## Findings

* **An interrupted grouping is final** (`refire_was_grouped`). `runDetectionCycle`
  writes the alert and then its incident. If the second statement fails, or the process
  dies between them, the events are evaluated again, `upsertAlert` returns null, and
  the alert stays outside every incident: no incident, email or playbook. The comment
  at `detect/index.ts:70` says a re-fire "was grouped at its first insert".
  `OneLossPerFault` shows that this is all an error can cost: one alert or one
  incident's playbooks per fault.
* **Attempts of an empty POST** (`empty_post_attempts`). `transient_failures` and
  `rejections` are counted apart, so a heartbeat without events that meets both kinds
  is sent more than `max_retries` times, against `delivery.rs:16-18`.
* **The copies' lock** (`deleted_under_lock`). `serve` starts `copies` in the blocking
  pool and goes on. When it returns, stopped or because it refuses the trust anchor or
  the identity right after `RUNNING`, its instance lock is dropped, and
  `shutdown_background` does not wait for the pass: until the process is gone, copies
  are deleted without the lock. The comment at `service/windows.rs:389` says they go
  "under the lock, like every deletion of the migration".
* **The lock's lifetime** (`lock_for_life`). The instance lock is a local of `serve` and
  goes when `serve` returns. After the stop's budget the process lives on, its teardown
  detached, and another start takes the lock beside it. ADR-0008 (line 125) says the lock
  is "held for as long as the process that took it", `instance_lock.rs:12` "for the
  process lifetime".

Three behaviours that the properties of `ServiceHost` except, and that a reader should
know of, since the code's comments describe them only in part:

* `SessionKept`: the detached teardown of a service past its deadline stops the session
  by name after `serve` gave the lock back, so it can end the capture of the process
  that started in between: what the lock's lifetime, above, costs. A session started
  without the lock may be reclaimed by a start that holds it, as ADR-0008 decides.
* `StopIsComplete`, which speaks of every code but the deadline's: after the watchdog's
  abort a run that hangs keeps the lock until the process is gone, so a start in that
  window ends with code 10; and one that starts while the old process has the log open ends with code 13,
  since the log is shared for reading alone.
* A failed reopen after the rename of the active log leaves `unfinished` false: the
  rotation waits for the next full file, and nothing is lost. `open` does not put up
  with a failing rotation, as `write_record` does.

One more, of `Delivery.Fatal`: a connection that ends before the first byte of an answer
counts as a refused client certificate and ends the agent (`tls.rs`, `exchange`), also
when the server died while it handled the request. The ring's events go with it,
unreported; `StopReportsLoss` is about stops.

## Proofs

Every theorem follows the same argument: `Init` gives an inductive invariant, one step
per action keeps it, and `PTL` combines them; the property follows from the invariant.
The invariants were model-checked before they were proved. What TLC shows for a small
instance the theorems show for every value of the constants, the bounds included.

The event pipeline, `EventPipelineProofs` and `EventOrderProofs`, for every capacity,
batch size and retry limit:

* `TypeCorrect`: the type invariant, with the ring within its capacity and a POST within
  its batch size. It is inductive as it stands.
* `EventsAccounted`: `captured = acknowledged + in flight + buffered + dropped`. Not
  inductive alone: forming a batch replaces `pending`, so it needs `PostInv`, that the
  loop sleeps with no POST in flight and that no POST means no events.
* `AtLeastOnceDelivery`: what was acknowledged is stored. Needs `WireInv`: no request's
  nonce is beyond the last one drawn, the request of the current attempt carries the
  events of the POST in flight, and a request at `ok` has its events stored. A late
  request therefore cannot be taken for the current one: the nonces differ.
* `EventOrder`, `SequenceNamesBatch` and `LossReported`: order, one batch per sequence
  number, and what a stop reports. They share `OrderInv`: acknowledged, in-flight and
  buffered events are increasing and each group is before the next (`InLine`); with the
  discarded ones they are all that was captured (`Complete`); the POST in flight has the
  last number (`Numbered`); what is on the wire or in the table belongs to the POST in
  flight or is older than all the agent holds (`OnWire`, `InTable`). The last is what a
  late request or a partial insert could break.
* `Refinement`: the composition implements `AtLeastOnce`. Each step is mapped to a step
  of it or to a stutter; the counts of `AtLeastOnce` are cardinalities of sets of event
  numbers, which `InLine` makes the lengths of the sequences.

Detection, `DetectionProofs`, for any POSTs, rules, parents, playbooks, batch limit and
number of faults, and any lag below the settle margin:

* `RowsNotSkipped`: the cursor passes no row that was not evaluated. `RowsInv`: an INSERT
  under way is younger than the lag (`Timely`), the cursor and the batch are older than
  the margin (`ReadSettled`), and nothing lies between them unread (`BatchNext`). A row
  that appears late then lies after the cursor (`AppearsAhead`): its stamp is later than
  any settled one, which is where lag < margin is used.
* `MatchesNotMissed`: an answered event the cursor has passed has its alerts. The parent
  may be stored after its child's first row, so an evaluated row may lack a match;
  `MatchInv` says that it then belongs to an unanswered POST or that a later row of the
  event, which the cursor has still to reach, outdates it (`Settles`).
* `IncidentsConsistent`: an incident agrees with its alerts (`RowAgrees`, which adds that
  some alert has the severity kept).
* `QuietWhenClosed`: an action property, from `DriverInv`: a cycle is under way exactly
  in a pass.
* `MailsOnce` and `RecordsTrue`: an email leaves once, and a completed record is true.
  `QueueInv` says where a run stands; `MailInv` that an email which left is of a created
  incident or of a claimed run and what is still to be sent has not left; `RecordInv`
  that the outcomes gathered so far are true already.
* `LossesPerFault`: lost alerts and runs are no more than the faults. A count is not
  inductive while an alert or incident is in hand; `Bill` adds to it the incident in hand
  if a playbook of it was already given up, and `HandInv` says which runs the queue still
  promises.

Authentication, `AuthSessionsProofs`, for any sets of users,
logins, changes and requests:

* `AuthTypeCorrect`: the types, and that a row is only locked by a transaction that is
  open.
* `AdminRemains`: an org keeps an active admin. `LastAdmin` alone is not inductive; it
  needs `LockInv`: a change that is deciding holds the row lock of every admin it
  counted, so each still is one, and has counted its target if that is one. A write is
  then refused, or leaves another admin that is locked.
* `RevocationFinal`: a revoked token names no entry again. Needs `SessionInv`: a token
  names one entry, made by its own login, and a request holds the entry as it is, so
  the `SET ... XX` of `resolveSession` never changes the set of sessions.
* `NoStaleSessionStays`: after a change is answered no client holds an older session.
  Needs `StaleInv`: while a change deletes, every older session of its user is either
  still to be met by the SCAN or belongs to a login whose second read is to come and
  will see the new version.

Enrollment, `EnrollmentProofs`, for any number of tokens, retries, overlapping requests
and upsets: `OneAgent`, `IdentitySound` and `UpsetsPay`. On the server (`ServerInv`) a
request that holds a token's row lock holds it alone and over an issued token, and the
id of a transaction that is not over is in no row; on the host (`HostInv`) the identity
an answer named, the one in memory and a whole `identity.json` are each in a row. The
ids and keys drawn are new because only finitely many are in use (`FreshLemma`).
`UpsetsPay` counts what upsets cost. A token is lost steps after the upset that lost it,
so the count alone is not inductive; `Budget` adds to it the requests that may still
consume a token with nobody waiting for the answer and an exchange whose answer can no
longer be persisted, each paid for when it comes about. `CourseInv` says why nothing
else costs a token: an exchange begins without a complete set of files (`NoneStored`),
what is written is of the new identity (`OnCourse`, `NewSet`), and nothing is in the way
of the service's `CREATE_NEW` (`Clean`).

The migration, `LegacyMigrationProofs`, for any files, anchors, faults and replaced
files: `AlwaysResumable`, `Installed`, `CopiesKept` and `ReversalKept`. `MigrationInv`
says where each directory is and what it holds (`Placed`), what the route has
established step by step (`RouteSafe`, `StagingSafe`, `RenameSafe`), and what a rename
left behind will find (`LateSafe`). What must hold once the console directory has left
the root is already true when the first rename is tried; it stays true of a late one
because a file replaced meanwhile has an ID no record holds (`OldIds`).

The agent's processes, `ServiceHostProofs`, for any number of processes:
`StopsComplete`, `CaptureKept` and `LogIsKept`. `HostInv` follows the lock: while a run
that acquired it is under way it is the run's own, so no two runs that may stop the
session by name are under way, and a teardown outlives its run only past the deadline
(`Supervised`: a main function at its end without the deadline's code has seen the run
return, and the last record comes after that). `SessionOwned` says where a run stands
that has a session. `LogIsKept` holds for any number of archives and records. A rename
keeps the order of the records when it goes to the next older name and no file has that
name; `Staged` says that this is so wherever a rotation stands, and `FirstFreeLemma`
that the shift begins below the first free place. A crash closes the log and leaves the
files, which `LogKept` describes whatever the stage was.

Capture, `CaptureProofs`, for any PIDs: `CreationTimes` and `Misses`. They speak of the
moment of dispatch; `CaptureInv` says of every record still in the buffers what the
cache will hold when its turn comes (`AllKnown`, `AllFresh`), which needs the records of
one PID to follow the lives of its processes (`Ordered`, `OrderedNow`).

The assumptions are those named in the modules: a positive capacity
(`CapacityAssumption`), a batch within the capacity and at least one retry
(`DeliveryAssumption`), users a nonempty finite set of numbers (`AuthAssumption`), at
least one token an operator may issue (`BoundsAssumption`), the identity files among the
required ones (`MigrationAssumption`), numbered events and a lag below the settle margin
(`EventTableAssumption`), a parent sent no later than its child and alerts of one
process in one window (`DetectionAssumption`), finitely many numbered playbooks
(`SoarAssumption`), a log of at least one archive and a record per file
(`LogAssumption`), at least one process (`HostAssumption`).

Every safety property the runs check is a theorem. Model-checked only are the liveness
properties: fairness and ENABLED are beyond the prover.

## Not modelled

The content of events, envelopes, emails and audit rows; cryptography and TLS beyond
their outcomes; the Windows APIs; SQL beyond the effect of a statement; logging. The
checks of one envelope are a single choice between accepted and refused. The insecure
development path of the agent is left out. Detection runs for one org, which is all the
product has. ClickHouse's visibility lag is assumed shorter than the settle margin,
SPEC-018's own assumption. `PROJECT.json` lists the components not modelled with the
reason.

## Plan

Done: the pipeline, detection with SOAR, authentication's races, the migration of a
console installation, enrollment and identity, the capture sources, the agent's
processes on a host and the service's log. Next, most important first:

1. `ParentResolution`: the parent queries of `read-model.ts` as operators, checked
   against a per-child reference.
2. Rate limiter, replay window, session lifetimes; TOTP enrolment and user creation in
   `AuthSessions`.
3. Bounded SMTP send, migration lock, the certificate's renewal and server close.
4. Rule conditions and the forensic hash chain as pure algorithms against references.
