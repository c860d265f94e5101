-------------------------- MODULE LegacyMigration --------------------------
(***************************************************************************)
(* The Windows service's migration of a console installation               *)
(* (agent/cg-agent/src/service/migration.rs, called by service/windows.rs  *)
(* serve) on starts that fail, crash or are repeated at any step.          *)
(*                                                                         *)
(* Three names hold directories: the data root, the staging directory      *)
(* agent.migrating and the legacy directory agent.legacy.  The console     *)
(* installation's directory starts at the root and may move to legacy; the *)
(* directory the service builds starts at staging and may move to the      *)
(* root.  A file is its file ID, a natural number, 0 when it is not there; *)
(* what is staged is the ID whose bytes were read.  Other processes may    *)
(* replace a file until the directory leaves the root.  The code goes over *)
(* the files in a fixed order, the model in any.                           *)
(*                                                                         *)
(* Descriptors are abstracted to what later steps read of them: whether    *)
(* the console directory was closed, and which files are restricted.  A    *)
(* link count, an owner or a content that is refused is a failed step.     *)
(***************************************************************************)
EXTENDS Integers

CONSTANTS
    Names,          \* the console installation's files
    IdentityFiles,  \* of them, cert.pem, key.dat and identity.json
    Temporary,      \* of them, agent.toml.hygiene-tmp, which need not be there
    Anchor,         \* sets of fingerprints an operator may give
    ConsoleAnchor,  \* the one of server-ca.pem
    MaxFaults,      \* bound: failed operations and crashes
    MaxSwaps        \* bound: files other processes replace or create

Required == Names \ {Temporary}

ASSUME MigrationAssumption ==
    /\ Temporary \in Names /\ IdentityFiles \subseteq Required /\ IdentityFiles # {}
    /\ ConsoleAnchor \in Anchor
    /\ MaxFaults \in Nat /\ MaxSwaps \in Nat

VARIABLES
    console,        \* where the console directory is
    file,           \* its files' IDs
    restricted,     \* the files whose security the service replaced
    closed,         \* the service replaced the directory's security
    stage,          \* where the service's directory is, and what it holds
    removed,        \* history: the copies that were deleted
    lock,           \* who holds the instance lock
    pc,             \* the step of the start under way
    request,        \* its arguments
    attempt,        \* Attempt: fresh, interrupted or continued
    todo,           \* the files the step has not reached
    ids,            \* the file IDs it checked
    late,           \* a rename that was reported failed and is under way
    missed,         \* the copies it did not reach
    faults, swaps

disk == <<console, file, restricted, closed, stage, removed>>
proc == <<pc, request, attempt, todo, ids, late, missed>>
vars == <<disk, proc, lock, faults, swaps>>

Choice == {"remove", "keep"}
Request == [choice : Choice, anchor : Anchor]
NoRequest == [choice |-> "none", anchor |-> ConsoleAnchor]
Directory == "directory"    \* the legacy directory among the copies

Record == [choice : Choice, anchor : Anchor, ids : [Names -> Nat],
           reversal : BOOLEAN, missed : SUBSET (Names \cup {Directory})]
NoRecord == [choice |-> "none"]     \* also one that is torn

Torn == -1
Empty == [f \in Names |-> 0]
NoStage == [at |-> "none", record |-> NoRecord, files |-> [f \in Required |-> 0]]

Recorded == stage.record # NoRecord
RootFree == console # "root" /\ stage.at # "root"
Listed == {f \in Names : file[f] # 0}
Checked == {f \in Names : ids[f] # 0}

(***************************************************************************)
(* check_staged: every file is there and whole, and the identity is the    *)
(* recorded one.  It does not say which agent.toml was staged.             *)
(***************************************************************************)
StagedWhole ==
    /\ \A f \in Required : stage.files[f] \notin {0, Torn}
    /\ \A f \in IdentityFiles : stage.files[f] = stage.record.ids[f]

Init ==
    /\ console = "root" /\ restricted = {} /\ closed = FALSE
    /\ file \in [Names -> {0, 1}] /\ \A f \in Required : file[f] = 1
    /\ stage = NoStage /\ removed = {} /\ lock = "free"
    /\ pc = "down" /\ request = NoRequest /\ attempt = "fresh" /\ todo = {}
    /\ ids = Empty /\ late = "none" /\ missed = {} /\ faults = 0 /\ swaps = 0

Fault == faults < MaxFaults /\ faults' = faults + 1

(***************************************************************************)
(* serve returns, or the process dies: its lock is free.  A thread it left *)
(* behind (op) goes on until the process is gone; then what it had read is *)
(* lost.  The SCM starts the service again only after that.                *)
(***************************************************************************)
EndWith(op) ==
    /\ pc' = IF op = "none" THEN "down" ELSE "exit"
    /\ request' = IF op = "none" THEN NoRequest ELSE request
    /\ late' = op
    /\ attempt' = "fresh" /\ todo' = {} /\ ids' = Empty /\ missed' = {}
    /\ lock' = IF lock = "service" THEN "free" ELSE lock

End == EndWith(late)

Refuse == End /\ UNCHANGED <<disk, faults, swaps>>

Go(step) == pc' = step /\ UNCHANGED <<request, attempt, late, missed>>

(***************************************************************************)
(* The loop at pc is done with f; with no file left, the start goes on at  *)
(* step, with the files of next before it.                                 *)
(***************************************************************************)
Advance(f, step, next) ==
    /\ Go(IF todo = {f} THEN step ELSE pc)
    /\ todo' = IF todo = {f} THEN next ELSE todo \ {f}

-----------------------------------------------------------------------------
(***************************************************************************)
(* A start by the SCM, with the operator's arguments or with none.         *)
(***************************************************************************)
Start(r) ==
    /\ pc = "down"
    /\ pc' = "prepare" /\ request' = r
    /\ UNCHANGED <<disk, lock, attempt, todo, ids, late, missed, faults, swaps>>

(***************************************************************************)
(* prepare reads which directories count; one it cannot inspect now does   *)
(* not.  The outcome is how the start goes on.  A defect,                  *)
(* BetweenAsked: only a start with arguments completes.  CommittedOnce: a  *)
(* later start skips the copies.                                           *)
(***************************************************************************)
Counting ==
    {d \in {"staging", "legacy"} :
        \/ d = "staging" /\ stage.at = "staging"
        \/ d = "legacy" /\ console = "legacy" /\ closed}

Asked == request # NoRequest

AsRecorded ==
    request.choice = stage.record.choice /\ request.anchor = stage.record.anchor

Beside ==
    CASE ~Asked -> "refused"
      [] Asked /\ ~Recorded -> "interrupted"
      [] Asked /\ Recorded -> IF AsRecorded THEN "continued" ELSE "refused"

BetweenAsked == IF Recorded /\ Asked THEN "between" ELSE "refused"

Between ==
    IF Recorded /\ (Asked => AsRecorded) THEN "between" ELSE "refused"

CommittedOnce ==
    IF Recorded /\ (Asked => AsRecorded) THEN IF Asked THEN "committed" ELSE "plain"
    ELSE "refused"

Committed ==
    IF Recorded /\ (Asked => AsRecorded) THEN "committed" ELSE "refused"

Prepared(seen) ==
    CASE RootFree /\ seen = {"staging", "legacy"} -> Between
      [] console = "root" /\ seen = {"staging"} -> Beside
      [] stage.at = "root" /\ seen = {"legacy"} -> Committed
      [] console = "root" /\ seen = {} -> IF Asked THEN "fresh" ELSE "refused"
      [] console # "root" /\ seen = {} -> IF Asked THEN "refused" ELSE "plain"
      [] OTHER -> "refused"

Prepare ==
    /\ pc = "prepare"
    /\ \E seen \in SUBSET Counting :
         /\ IF seen = Counting THEN UNCHANGED faults ELSE Fault
         /\ LET to == Prepared(seen)
            IN  \/ to = "refused" /\ End
                \/ /\ to \in {"fresh", "interrupted", "continued"}
                   /\ pc' = "lock" /\ attempt' = to
                   /\ UNCHANGED <<request, todo, ids, late, missed, lock>>
                \/ /\ to \in {"between", "committed", "plain"}
                   /\ Go(to)
                   /\ UNCHANGED <<todo, ids, lock>>
    /\ UNCHANGED <<disk, swaps>>

(***************************************************************************)
(* The instance lock, before any change.                                   *)
(***************************************************************************)
Acquire(to) ==
    IF lock = "console"
    THEN Refuse
    ELSE /\ lock' = "service"
         /\ Go(to)
         /\ UNCHANGED <<disk, todo, ids, faults, swaps>>

LockRoute == pc = "lock" /\ Acquire("close")

LockBetween ==
    pc = "between" /\ Acquire(IF stage.record.reversal THEN "back" ELSE "complete")

-----------------------------------------------------------------------------
(***************************************************************************)
(* The route, item 2: it closes the directories, deletes an interrupted    *)
(* staging directory and lists the names.                                  *)
(***************************************************************************)
Close ==
    /\ pc = "close"
    /\ closed' = TRUE
    /\ Go(IF attempt = "interrupted" THEN "delete" ELSE "list")
    /\ UNCHANGED <<console, file, restricted, stage, removed, lock, todo, ids,
                   faults, swaps>>

DeleteStaging ==
    /\ pc = "delete"
    /\ stage' = NoStage
    /\ Go("list")
    /\ UNCHANGED <<console, file, restricted, closed, removed, lock, todo, ids,
                   faults, swaps>>

List ==
    /\ pc = "list"
    /\ IF Required \subseteq Listed /\ (stage.at = "staging" => attempt = "continued")
       THEN /\ Go("check")
            /\ todo' = Listed
            /\ UNCHANGED <<disk, lock, ids, faults, swaps>>
       ELSE Refuse

(***************************************************************************)
(* Each file's ID is noted, its bytes are read while it still is that      *)
(* file, and it is restricted while it still is.                           *)
(***************************************************************************)
CheckFile ==
    /\ pc = "check"
    /\ \E f \in todo :
         IF file[f] # 0
         THEN /\ ids' = [ids EXCEPT ![f] = file[f]]
              /\ Advance(f, "read", Required)
              /\ UNCHANGED <<disk, lock, faults, swaps>>
         ELSE Refuse

ReadFile ==
    /\ pc = "read"
    /\ \E f \in todo :
         IF file[f] = ids[f]
         THEN /\ Advance(f, "verify", {})
              /\ UNCHANGED <<disk, lock, ids, faults, swaps>>
         ELSE Refuse

(***************************************************************************)
(* The anchors are those given; the identity is consistent and, when a     *)
(* migration goes on, the recorded one.  Another file is another identity. *)
(***************************************************************************)
Verified ==
    /\ request.anchor = ConsoleAnchor
    /\ \A f, g \in IdentityFiles : ids[f] = ids[g]
    /\ attempt = "continued" =>
         \A f \in IdentityFiles : ids[f] = stage.record.ids[f]

Verify ==
    /\ pc = "verify"
    /\ IF Verified
       THEN /\ Go("restrict")
            /\ todo' = Checked
            /\ UNCHANGED <<disk, lock, ids, faults, swaps>>
       ELSE Refuse

RestrictFile ==
    /\ pc = "restrict"
    /\ \E f \in todo :
         IF file[f] = ids[f]
         THEN /\ restricted' = restricted \cup {f}
              /\ Advance(f, "record", {})
              /\ UNCHANGED <<console, file, closed, stage, removed, lock, ids, faults,
                             swaps>>
         ELSE Refuse

(***************************************************************************)
(* Item 2.5: the record first, then each staged file, from the bytes read. *)
(* A staging directory that goes on keeps its place; its record is         *)
(* replaced, which leaves the old one or the new one, and the rest is      *)
(* deleted.  Defects: NewRecordMarked keeps a reversal's mark, and         *)
(* RewriteKeeping goes on with the files already staged.                   *)
(***************************************************************************)
Unchanged == UNCHANGED <<console, file, restricted, closed, removed, lock, ids, faults,
                         swaps>>

NewRecordMarked ==
    [choice |-> request.choice, anchor |-> request.anchor, ids |-> ids,
     reversal |-> attempt = "continued" /\ stage.record.reversal, missed |-> {}]

NewRecord ==
    [choice |-> request.choice, anchor |-> request.anchor, ids |-> ids,
     reversal |-> FALSE, missed |-> {}]

CreateStaging ==
    /\ pc = "record" /\ attempt # "continued"
    /\ stage' = [NoStage EXCEPT !.at = "staging"]
    /\ Go("write")
    /\ UNCHANGED todo /\ Unchanged

WriteRecord ==
    /\ pc = "write"
    /\ stage' = [stage EXCEPT !.record = NewRecord]
    /\ Go("stage")
    /\ todo' = Required /\ Unchanged

RewriteKeeping ==
    /\ pc = "record" /\ attempt = "continued"
    /\ stage' = [stage EXCEPT !.record = NewRecord]
    /\ todo' = {f \in Required : stage.files[f] = 0}
    /\ Go(IF todo' = {} THEN "staged" ELSE "stage") /\ Unchanged

RewriteRecord ==
    /\ pc = "record" /\ attempt = "continued"
    /\ stage' = [stage EXCEPT !.record = NewRecord]
    /\ Go("clear")
    /\ UNCHANGED todo /\ Unchanged

ClearStaged ==
    /\ pc = "clear"
    /\ \/ /\ stage.files = NoStage.files
          /\ Go("stage") /\ todo' = Required /\ UNCHANGED stage
       \/ \E f \in Required :
            /\ stage.files[f] # 0
            /\ stage' = [stage EXCEPT !.files[f] = 0]
            /\ UNCHANGED proc
    /\ Unchanged

StageFile ==
    /\ pc = "stage"
    /\ \E f \in todo :
         IF stage.files[f] = 0
         THEN /\ stage' = [stage EXCEPT !.files[f] = ids[f]]
              /\ Advance(f, "staged", {}) /\ Unchanged
         ELSE Refuse

StageTorn ==
    /\ pc = "stage" /\ Fault
    /\ \E f \in todo :
         /\ stage.files[f] = 0
         /\ stage' = [stage EXCEPT !.files[f] = Torn]
    /\ End
    /\ UNCHANGED <<console, file, restricted, closed, removed, swaps>>

CheckStaged ==
    /\ pc = "staged"
    /\ IF StagedWhole
       THEN Go("first") /\ UNCHANGED <<disk, lock, todo, ids, faults, swaps>>
       ELSE Refuse

-----------------------------------------------------------------------------
(***************************************************************************)
(* Item 2.6, the commit: the names again, the data root to legacy, staging *)
(* to the data root.  A rename fails when the name is taken.               *)
(***************************************************************************)
CheckNames ==
    /\ pc = "first"
    /\ IF Listed \subseteq Checked /\ Required \subseteq Listed
       THEN Go("rename") /\ UNCHANGED <<disk, lock, todo, ids, faults, swaps>>
       ELSE Refuse

FirstRename ==
    /\ pc = "rename"
    /\ console' = "legacy"
    /\ Go("second")
    /\ UNCHANGED <<file, restricted, closed, stage, removed, lock, todo, ids, faults,
                   swaps>>

SecondRename ==
    /\ pc = "second"
    /\ RootFree
    /\ stage' = [stage EXCEPT !.at = "root"]
    /\ Go("committed")
    /\ UNCHANGED todo /\ Unchanged

SecondFails ==
    /\ pc = "second" /\ Fault
    /\ pc' = "mark" /\ late' \in {"none", "commit"}
    /\ UNCHANGED <<disk, lock, request, attempt, todo, ids, missed, swaps>>

(***************************************************************************)
(* The reversal: its mark in the record, legacy back to the data root, the *)
(* mark cleared.  A defect, MarkInPlace: the record is written in place.   *)
(***************************************************************************)
MarkInPlace ==
    /\ pc = "mark" /\ stage.at = "staging"
    /\ \/ /\ stage' = [stage EXCEPT !.record.reversal = TRUE]
          /\ Go("back")
          /\ UNCHANGED todo /\ Unchanged
       \/ /\ Fault /\ End
          /\ stage' = [stage EXCEPT !.record = NoRecord]
          /\ UNCHANGED <<console, file, restricted, closed, removed, swaps>>

Mark ==
    /\ pc = "mark"
    /\ IF stage.at = "staging"
       THEN /\ stage' = [stage EXCEPT !.record.reversal = TRUE]
            /\ Go("back")
            /\ UNCHANGED todo /\ Unchanged
       ELSE Refuse

Back ==
    /\ pc = "back"
    /\ IF RootFree
       THEN /\ console' = "root"
            /\ Go("unmark")
            /\ UNCHANGED <<file, restricted, closed, stage, removed, lock, todo, ids,
                           faults, swaps>>
       ELSE Refuse

Unmark ==
    /\ pc = "unmark"
    /\ stage' = [stage EXCEPT !.record.reversal = FALSE]
    /\ End
    /\ UNCHANGED <<console, file, restricted, closed, removed, faults, swaps>>

Complete ==
    /\ pc = "complete"
    /\ IF StagedWhole
       THEN /\ stage' = [stage EXCEPT !.at = "root"]
            /\ Go("committed")
            /\ UNCHANGED todo /\ Unchanged
       ELSE Refuse

(***************************************************************************)
(* A rename that does not answer in time is reported failed and its thread *)
(* left behind (custody::bounded): it may still happen while the start     *)
(* goes on, after the second one, or ends, after the others, until the     *)
(* process is gone.                                                        *)
(***************************************************************************)
LeaveRename ==
    /\ \/ pc = "rename" /\ EndWith("first")
       \/ pc = "complete" /\ StagedWhole /\ EndWith("commit")
       \/ pc = "back" /\ EndWith("back")
    /\ Fault
    /\ UNCHANGED <<disk, swaps>>

LateRename ==
    /\ late' = "none"
    /\ \/ late = "first" /\ console' = "legacy" /\ UNCHANGED stage
       \/ late = "back" /\ RootFree /\ console' = "root" /\ UNCHANGED stage
       \/ late = "commit" /\ RootFree /\ stage' = [stage EXCEPT !.at = "root"]
          /\ UNCHANGED console
    /\ UNCHANGED <<file, restricted, closed, removed, pc, request, attempt, todo, ids,
                   missed, lock, faults, swaps>>

-----------------------------------------------------------------------------
(***************************************************************************)
(* serve goes on: the installed configuration, the instance lock, which a  *)
(* token that may not create it goes without (Unprivileged), RUNNING, and  *)
(* the old copies, for a start that took the lock.                         *)
(***************************************************************************)
Serve ==
    /\ pc \in {"committed", "plain"}
    /\ IF stage.at = "root"
       THEN Acquire(IF pc = "committed" THEN "copies" ELSE "running")
       ELSE Refuse

Unprivileged ==
    /\ pc \in {"committed", "plain"} /\ lock = "free" /\ stage.at = "root" /\ Fault
    /\ Go("running")
    /\ UNCHANGED <<disk, lock, todo, ids, swaps>>

CopiesBegin ==
    /\ pc = "copies"
    /\ pc' = IF console # "legacy" \/ ~closed THEN "running"
             ELSE IF Listed = {} THEN "directory" ELSE "copy"
    /\ todo' = IF pc' = "running" THEN {} ELSE Listed
    /\ \/ UNCHANGED <<missed, faults>>
       \/ Fault /\ pc' # "running" /\ missed' = {Directory}
    /\ UNCHANGED <<disk, lock, request, attempt, ids, late, swaps>>

(***************************************************************************)
(* A copy is restricted and, as asked, deleted, while it is the file the   *)
(* record holds.  A defect: CopyAny does not compare.                      *)
(***************************************************************************)
Deleted(f) ==
    /\ restricted' = restricted \cup {f}
    /\ IF stage.record.choice = "remove"
       THEN /\ file' = [file EXCEPT ![f] = 0]
            /\ removed' = removed \cup {<<f, file[f]>>}
       ELSE UNCHANGED <<file, removed>>

CopyDone(f) ==
    /\ pc' = IF todo = {f} THEN "directory" ELSE "copy"
    /\ todo' = todo \ {f}
    /\ UNCHANGED <<console, closed, stage, lock, request, attempt, ids, late, swaps>>

CopyAny ==
    /\ pc = "copy"
    /\ \E f \in todo : Deleted(f) /\ CopyDone(f) /\ UNCHANGED <<missed, faults>>

Copy ==
    /\ pc = "copy"
    /\ \E f \in todo :
         /\ CopyDone(f)
         /\ \/ /\ file[f] = stage.record.ids[f]
               /\ Deleted(f) /\ UNCHANGED <<missed, faults>>
            \/ /\ IF file[f] = stage.record.ids[f] THEN Fault ELSE UNCHANGED faults
               /\ missed' = missed \cup {f}
               /\ UNCHANGED <<file, restricted, removed>>

RemoveDirectory ==
    /\ pc = "directory" /\ pc' = "report"
    /\ IF Directory \notin missed /\ stage.record.choice = "remove" /\ Listed = {}
       THEN \/ console' = "gone" /\ UNCHANGED <<missed, faults>>
            \/ Fault /\ missed' = missed \cup {Directory} /\ UNCHANGED console
       ELSE UNCHANGED <<console, missed, faults>>
    /\ UNCHANGED <<file, restricted, closed, stage, removed, lock, request, attempt,
                   todo, ids, late, swaps>>

(***************************************************************************)
(* The record names the copies the pass did not reach; a record that could *)
(* not be rewritten does not stop the service.                             *)
(***************************************************************************)
Report ==
    /\ pc = "report"
    /\ Go("running")
    /\ \/ stage' = [stage EXCEPT !.record.missed = missed] /\ UNCHANGED faults
       \/ Fault /\ missed # stage.record.missed /\ UNCHANGED stage
    /\ UNCHANGED <<console, file, restricted, closed, removed, lock, todo, ids, swaps>>

StopService == pc = "running" /\ Refuse

(***************************************************************************)
(* serve returns, stopped or for an identity it refuses, while the pass    *)
(* goes on in the blocking pool: the lock is dropped, and the pass is cut  *)
(* only when the process is gone (shutdown_background).  A pass that fails *)
(* as a whole, as when the directory cannot be listed, stops nothing.      *)
(***************************************************************************)
CopySteps == {"copies", "copy", "directory", "report"}

LeaveCopies ==
    /\ pc \in CopySteps /\ lock = "service" /\ Fault
    /\ lock' = "free"
    /\ UNCHANGED <<disk, proc, swaps>>

CopiesFail ==
    /\ pc \in CopySteps /\ Fault
    /\ pc' = "running" /\ todo' = {} /\ missed' = {}
    /\ UNCHANGED <<disk, lock, request, attempt, ids, late, swaps>>

Leaving == pc = "exit" \/ (pc \in CopySteps /\ lock # "service")

Exit == Leaving /\ EndWith("none") /\ UNCHANGED <<disk, faults, swaps>>

(***************************************************************************)
(* The start is cut at any step: the process or the host crashes, or an    *)
(* operation fails.                                                        *)
(***************************************************************************)
Cut == pc # "down" /\ Fault /\ End /\ UNCHANGED <<disk, swaps>>

-----------------------------------------------------------------------------
(***************************************************************************)
(* Outside the service: the console agent takes the lock, at any time, as  *)
(* it read its configuration before; other processes, and FR-014's rewrite *)
(* of agent.toml, replace or create a file, or the identity as a whole;    *)
(* the rewrite's temporary file also goes.                                 *)
(***************************************************************************)
ConsoleStart == lock = "free" /\ lock' = "console" /\ UNCHANGED <<disk, proc, faults, swaps>>

ConsoleStop == lock = "console" /\ lock' = "free" /\ UNCHANGED <<disk, proc, faults, swaps>>

Swap(S) ==
    /\ console = "root" /\ swaps < MaxSwaps
    /\ swaps' = swaps + 1
    /\ \E id \in {0, swaps + 2} :
         /\ id = 0 => S = {Temporary} /\ file[Temporary] # 0
         /\ file' = [f \in Names |-> IF f \in S THEN id ELSE file[f]]
    /\ restricted' = restricted \ S
    /\ UNCHANGED <<console, closed, stage, removed, proc, lock, faults>>

Step ==
    \/ Prepare \/ LockRoute \/ LockBetween \/ Close \/ DeleteStaging \/ List
    \/ CheckFile \/ ReadFile \/ Verify \/ RestrictFile \/ CreateStaging
    \/ WriteRecord \/ RewriteRecord \/ ClearStaged \/ StageFile \/ CheckStaged
    \/ CheckNames \/ FirstRename \/ SecondRename \/ Mark \/ Back \/ Unmark \/ Complete
    \/ Serve \/ CopiesBegin \/ Copy \/ RemoveDirectory \/ Report \/ StopService
    \/ Exit

Next ==
    \/ Step \/ StageTorn \/ SecondFails \/ LeaveRename \/ LateRename
    \/ Unprivileged \/ LeaveCopies \/ CopiesFail \/ Cut
    \/ \E r \in Request \cup {NoRequest} : Start(r)
    \/ ConsoleStart \/ ConsoleStop
    \/ \E f \in Names : Swap({f})
    \/ Swap(IdentityFiles)

(***************************************************************************)
(* A start takes its steps and a service that runs is stopped some time;   *)
(* hosts reboot, and each boot starts the service, without arguments.      *)
(***************************************************************************)
Spec == Init /\ [][Next]_vars /\ WF_vars(Step) /\ SF_vars(Start(NoRequest))

-----------------------------------------------------------------------------
\* Whatever was interrupted, the host is left in a state some start goes on from
\* (prepare): with no data root there is a recorded, whole staging directory beside
\* a legacy directory that counts and holds every required file, and an installed
\* directory keeps a record.
Resumable ==
    pc = "down" =>
        /\ RootFree => /\ console = "legacy" /\ closed /\ Required \subseteq Listed
                       /\ stage.at = "staging" /\ Recorded /\ StagedWhole
        /\ stage.at = "root" => Recorded
        /\ console = "gone" => stage.at = "root"

\* What becomes the data root was staged from the very files the record names,
\* agent.toml included, which check_staged does not compare, and carries the
\* console's anchors: a continued migration keeps nothing of an earlier one.
InstalledAsChecked ==
    stage.at = "root" =>
        /\ stage.record.anchor = ConsoleAnchor
        /\ \A f \in Required : stage.files[f] = stage.record.ids[f]

\* No copy of the identity is left open: once the console directory is at legacy it is
\* closed, and each copy that is the file the record names is restricted (items 2.1
\* and 2.4), however the files were replaced in between.
LegacyClosed ==
    console = "legacy" =>
        /\ closed
        /\ \A f \in Listed : file[f] = stage.record.ids[f] => f \in restricted

\* A copy is deleted only after the commit, by the choice recorded, and only if it is
\* the file that was checked and staged (check_copy): one put in its place stays.
RemovedOnRequest ==
    \A c \in removed :
        /\ stage.at = "root" /\ stage.record.choice = "remove"
        /\ c[2] = stage.record.ids[c[1]]

\* The copies of the identity are neither left open nor lost: LegacyClosed, and what
\* the passes over them delete, RemovedOnRequest.
CopiesSafe == LegacyClosed /\ RemovedOnRequest

\* The comment at the copies' start in serve: they go "under the lock, like every
\* deletion of the migration".
DeletedUnderLock == [][removed' # removed => lock = "service"]_vars

\* A commit whose reversal is recorded is not completed: staging becomes the data root
\* with the mark set only by the rename left behind, never by a later start, nor does
\* a mark left behind survive into the migration that goes on (reverse).
ReversalHonoured ==
    [][stage.at = "staging" /\ stage'.at = "root" /\ late = "none" => ~stage.record.reversal]_vars

\* A host without a data root gets one back, by the starts without arguments that
\* every boot makes, unless a console agent holds the lock (between_the_renames).
RootReturns == RootFree ~> (~RootFree \/ lock = "console")

\* Each copy the operator asked to remove goes in the end, by retries at later starts,
\* if it is the recorded file, unless a console agent holds the lock (copies).
CopiesGo ==
    \A f \in Names :
        (/\ stage.at = "root" /\ stage.record.choice = "remove" /\ console = "legacy"
         /\ file[f] # 0 /\ file[f] = stage.record.ids[f])
            ~> (file[f] = 0 \/ lock = "console")
=============================================================================
