-------------------------------- MODULE Soar --------------------------------
(***************************************************************************)
(* Playbook runs (services/ingest/src/soar/run.ts) and the notification    *)
(* email (notify/index.ts) of a newly created incident.                    *)
(*                                                                         *)
(* runPlaybooks takes the matching playbooks one after another.  Each run  *)
(* claims its row of playbook_executions, runs its steps under the step's  *)
(* and the run's time limit, and completes the row once.  Nothing here     *)
(* throws.  Control is in "claim" before a claim and in "steps" after it.  *)
(*                                                                         *)
(* An incident is its grouping_key, a step its position; what an email     *)
(* says, the hash chain over the steps and the log lines are left out.     *)
(***************************************************************************)
EXTENDS Integers, Sequences, FiniteSets, SequencesExt

CONSTANTS
    Playbook,       \* playbook ids
    Steps,          \* per playbook, a sequence of "email" and "dry_run"
    SeverityGte,    \* per playbook, trigger severity_id_gte
    Notify          \* whether SMTP is configured

ASSUME SoarAssumption ==
    /\ Playbook \subseteq Nat \ {0} /\ IsFiniteSet(Playbook)
    /\ Steps \in [Playbook -> Seq({"email", "dry_run"})]
    /\ SeverityGte \in [Playbook -> Nat]
    /\ Notify \in BOOLEAN

VARIABLES
    pc,             \* where the detection cycle is
    incident,       \* the created incident being handled, as [key, severity]
    queue,          \* the playbooks still to run
    outcomes,       \* the step outcomes of the current run
    executions,     \* Postgres playbook_executions, by <<playbook, incident>>
    mails           \* history: the emails that left, a bag

runVars == <<incident, queue, outcomes>>

NoIncident == [key |-> <<>>, severity |-> 0]

Outcome == {"done", "would_do", "skipped", "failed"}

SoarInit ==
    /\ incident = NoIncident
    /\ queue = {}
    /\ outcomes = <<>>
    /\ executions = <<>>
    /\ mails = EmptyBag

With(f, key, value) ==
    [x \in DOMAIN f \cup {key} |-> IF x = key THEN value ELSE f[x]]

Sent(mail) == mails (+) SetToBag({mail})

(***************************************************************************)
(* The playbooks an incident triggers by its severity at its creation;     *)
(* they run in the order of their ids.                                     *)
(***************************************************************************)
PlaybookMatches(playbook, severity) == severity >= SeverityGte[playbook]

Triggered(severity) == {p \in Playbook : PlaybookMatches(p, severity)}

Current == Min(queue)

(***************************************************************************)
(* A defect of NextPlaybook: a failed run ends the others.                 *)
(***************************************************************************)
NextPlaybookUnlessFailed ==
    LET last == queue = {Current} \/ "failed" \in Range(outcomes)
    IN  /\ queue' = IF last THEN {} ELSE queue \ {Current}
        /\ outcomes' = <<>>
        /\ pc' = IF last THEN "match" ELSE "claim"
        /\ incident' = IF last THEN NoIncident ELSE incident

(***************************************************************************)
(* The next playbook, or back to the cycle when none is left.              *)
(***************************************************************************)
NextPlaybook ==
    /\ queue' = queue \ {Current}
    /\ outcomes' = <<>>
    /\ pc' = IF queue = {Current} THEN "match" ELSE "claim"
    /\ incident' = IF queue = {Current} THEN NoIncident ELSE incident

Run == <<Current, incident.key>>

(***************************************************************************)
(* The claim: INSERT ... ON CONFLICT DO NOTHING.                           *)
(***************************************************************************)
Claimed == With(executions, Run, [status |-> "running", steps |-> <<>>])

Claim ==
    /\ pc = "claim"
    /\ IF Run \in DOMAIN executions
       THEN NextPlaybook /\ UNCHANGED executions
       ELSE /\ executions' = Claimed
            /\ pc' = "steps"
            /\ UNCHANGED runVars
    /\ UNCHANGED mails

(***************************************************************************)
(* The insert fails, or was done and its answer is lost.                   *)
(***************************************************************************)
ClaimFails ==
    /\ pc = "claim"
    /\ executions' \in {executions, IF Run \in DOMAIN executions THEN executions ELSE Claimed}
    /\ NextPlaybook
    /\ UNCHANGED mails

(***************************************************************************)
(* One step.  After a failed step the others are skipped; a step that      *)
(* starts after the run's deadline fails; an email that times out may have *)
(* left.  FailedLast is a defect of Failed: it forgets all but the step    *)
(* before.                                                                 *)
(***************************************************************************)
FailedLast == outcomes # <<>> /\ Last(outcomes) = "failed"

Failed == "failed" \in Range(outcomes)

RunStep ==
    LET n     == Len(outcomes) + 1
        email == Steps[Current][n] = "email"
    IN  /\ pc = "steps"
        /\ n <= Len(Steps[Current])
        /\ \E outcome \in Outcome, left \in BOOLEAN :
             /\ outcomes' = Append(outcomes, outcome)
             /\ mails' = IF left THEN Sent(<<incident.key, Current, n>>) ELSE mails
             /\ \/ outcome = "skipped" /\ ~left /\ (Failed \/ (email /\ ~Notify))
                \/ outcome = "failed" /\ ~Failed /\ (left => email /\ Notify)
                \/ outcome = "would_do" /\ ~Failed /\ ~left /\ ~email
                \/ outcome = "done" /\ ~Failed /\ left /\ email /\ Notify
        /\ UNCHANGED <<pc, incident, queue, executions>>

Finished == pc = "steps" /\ Len(outcomes) = Len(Steps[Current])

Complete ==
    /\ Finished
    /\ executions' = [executions EXCEPT ![Run] =
         [status |-> IF Failed THEN "failed" ELSE "completed", steps |-> outcomes]]
    /\ NextPlaybook
    /\ UNCHANGED mails

(***************************************************************************)
(* The update fails: the row stays "running".                              *)
(***************************************************************************)
CompleteFails ==
    /\ Finished
    /\ NextPlaybook
    /\ UNCHANGED <<executions, mails>>

SoarNext == Claim \/ RunStep \/ Complete

SoarFault == ClaimFails \/ CompleteFails
=============================================================================
