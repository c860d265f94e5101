------------------------- MODULE LegacyMigrationProofs -------------------------
(***************************************************************************)
(* Proofs about module LegacyMigration, for every set of files, of anchors *)
(* and of choices, and any number of faults, crashes and files other       *)
(* processes replace: an interrupted migration leaves a state a start goes *)
(* on from (Resumable), what is installed is what was checked              *)
(* (InstalledAsChecked), no copy of the identity is left open or deleted   *)
(* without being asked for (CopiesSafe), and a recorded reversal is not    *)
(* overrun (ReversalHonoured).                                             *)
(*                                                                         *)
(* The argument is about the two renames.  What must hold once the console *)
(* directory has left the data root (Ready, and its copies restricted)     *)
(* already holds when the first rename is tried, and a rename that comes   *)
(* late finds it as it was; a file replaced meanwhile has an ID no record  *)
(* holds.                                                                  *)
(***************************************************************************)
EXTENDS LegacyMigration, TLAPS

Places == {"none", "staging", "root"}
Stages == [at : Places, record : Record \cup {NoRecord}, files : [Required -> Int]]

Typed ==
    /\ console \in {"root", "legacy", "gone"}
    /\ file \in [Names -> Nat] /\ ids \in [Names -> Nat]
    /\ stage \in Stages
    /\ todo \subseteq Names /\ missed \subseteq Names \cup {Directory}
    /\ request \in Request \cup {NoRequest}
    /\ swaps \in Nat

(* File IDs grow: whatever was seen or recorded is older than the next.    *)
OldIds ==
    /\ \A f \in Names : file[f] <= swaps + 1 /\ ids[f] <= swaps + 1
    /\ Recorded => \A f \in Names : stage.record.ids[f] <= swaps + 1

(* The service's directory is whole and as recorded.                       *)
Ready ==
    /\ Recorded /\ stage.record.anchor = ConsoleAnchor
    /\ \A f \in Required : stage.files[f] = stage.record.ids[f] /\ stage.files[f] # 0

(* Each file that is the one of these IDs is restricted.                   *)
RestrictedAs(known) ==
    \A f \in Names : file[f] # 0 /\ file[f] = known[f] => f \in restricted

(* The three names.                                                        *)
Placed ==
    /\ stage.at = "root" => console # "root" /\ Ready
    /\ stage.at # "root" => Required \subseteq Listed
    /\ console # "root" => stage.at # "none" /\ Ready
    /\ console = "legacy" => closed /\ RestrictedAs(stage.record.ids)
    /\ console = "gone" => stage.at = "root"

(* A rename left behind: the first finds the directory ready to move.      *)
LateSafe ==
    /\ late \in {"none", "first", "back", "commit"}
    /\ late # "none" => pc \in {"mark", "back", "unmark", "exit"}
    /\ late \in {"first", "back"} => pc = "exit"
    /\ late = "first" =>
         /\ stage.at = "staging" /\ Ready /\ closed /\ RestrictedAs(stage.record.ids)

(* The route, up to the first rename.                                      *)
Early == {"close", "lock", "delete", "list", "check", "read", "verify", "restrict", "record"}
Staging == {"write", "clear", "stage", "staged", "first", "rename"}

RouteSafe ==
    /\ pc \in Early \cup Staging => console = "root" /\ request \in Request
    /\ pc \in (Early \cup Staging) \ {"lock", "close"} => closed
    /\ pc \in Early \ {"delete"} /\ attempt = "continued" => stage.at = "staging"
    /\ pc \in {"lock", "close", "delete"} /\ attempt = "interrupted" => stage.at = "staging"
    /\ pc = "delete" => attempt = "interrupted"
    /\ pc \in {"restrict", "record"} \cup Staging => request.anchor = ConsoleAnchor
    /\ pc = "restrict" =>
         \A f \in Names \ todo : file[f] # 0 /\ file[f] = ids[f] => f \in restricted
    /\ pc \in {"record"} \cup Staging => RestrictedAs(ids)

StagingSafe ==
    /\ pc \in Staging => stage.at = "staging"
    /\ pc \in Staging \ {"write"} => stage.record = NewRecord
    /\ pc = "stage" => todo \subseteq Required /\ \A f \in Required \ todo : stage.files[f] = ids[f]
    /\ pc = "staged" => \A f \in Required : stage.files[f] = ids[f]
    /\ pc \in {"first", "rename"} => Ready

(* From the first rename on.                                               *)
RenameSafe ==
    /\ pc \in {"second", "mark", "back", "between", "complete"} => console = "legacy"
    /\ pc \in {"second", "between", "complete"} => stage.at = "staging"
    /\ pc \in {"second", "complete"} => ~stage.record.reversal
    /\ pc = "unmark" => console = "root" /\ stage.at = "staging" /\ Recorded
    /\ pc \in {"committed"} \cup CopySteps => stage.at = "root"

MigrationInv ==
    /\ Typed /\ OldIds /\ Placed /\ LateSafe /\ RouteSafe /\ StagingSafe /\ RenameSafe
    /\ RemovedOnRequest
-----------------------------------------------------------------------------
(* NoRecord is told from every record by its choice.                       *)
LEMMA RecordedIs ==
    ASSUME NEW r \in Record
    PROVE  r # NoRecord
BY DEF Record, NoRecord, Choice

(* A directory built by the service that moves keeps what it holds         *)
(* (the renames of migration.rs).                                          *)
LEMMA MovedStage ==
    ASSUME NEW s \in Stages, NEW a \in Places
    PROVE  /\ [s EXCEPT !.at = a] \in Stages
           /\ [s EXCEPT !.at = a].at = a
           /\ [s EXCEPT !.at = a].record = s.record
           /\ [s EXCEPT !.at = a].files = s.files
<1> DEFINE R == Record \cup {NoRecord}
           F == [Required -> Int]
<1>1. Stages = [at : Places, record : R, files : F]
  BY DEF Stages
<1> HIDE DEF R, F
<1> QED
  BY <1>1

(* A record that is written leaves the directory's place and its files.    *)
LEMMA RecordedStage ==
    ASSUME NEW s \in Stages, NEW r \in Record
    PROVE  /\ [s EXCEPT !.record = r] \in Stages
           /\ [s EXCEPT !.record = r].at = s.at
           /\ [s EXCEPT !.record = r].record = r
           /\ [s EXCEPT !.record = r].files = s.files
<1> DEFINE R == Record \cup {NoRecord}
           F == [Required -> Int]
<1>1. Stages = [at : Places, record : R, files : F] /\ r \in R
  BY DEF Stages
<1> HIDE DEF R, F
<1> QED
  BY <1>1

(* A file that is staged, torn or deleted leaves the place, the record and *)
(* the other files.                                                        *)
LEMMA FiledStage ==
    ASSUME NEW s \in Stages, NEW f \in Required, NEW v \in Int
    PROVE  /\ [s EXCEPT !.files[f] = v] \in Stages
           /\ [s EXCEPT !.files[f] = v].at = s.at
           /\ [s EXCEPT !.files[f] = v].record = s.record
           /\ [s EXCEPT !.files[f] = v].files = [s.files EXCEPT ![f] = v]
<1> DEFINE R == Record \cup {NoRecord}
           F == [Required -> Int]
<1>1. Stages = [at : Places, record : R, files : F]
  BY DEF Stages
<1>2. ASSUME NEW g \in F PROVE [g EXCEPT ![f] = v] \in F
  OBVIOUS
<1>3. s.files \in F
  <2> HIDE DEF R, F
  <2> QED
    BY <1>1
<1>4. [s.files EXCEPT ![f] = v] \in F
  BY <1>2, <1>3
<1> HIDE DEF R, F
<1> QED
  BY <1>1, <1>4

(* The reversal's mark, and the list of missed copies, leave the rest of   *)
(* the record.                                                             *)
LEMMA MarkedRecord ==
    ASSUME NEW r \in Record, NEW b \in BOOLEAN, NEW m \in SUBSET (Names \cup {Directory})
    PROVE  /\ [r EXCEPT !.reversal = b] \in Record
           /\ [r EXCEPT !.reversal = b].choice = r.choice
           /\ [r EXCEPT !.reversal = b].anchor = r.anchor
           /\ [r EXCEPT !.reversal = b].ids = r.ids
           /\ [r EXCEPT !.missed = m] \in Record
           /\ [r EXCEPT !.missed = m].choice = r.choice
           /\ [r EXCEPT !.missed = m].anchor = r.anchor
           /\ [r EXCEPT !.missed = m].ids = r.ids
<1> DEFINE I == [Names -> Nat]
           M == SUBSET (Names \cup {Directory})
<1>1. Record = [choice : Choice, anchor : Anchor, ids : I, reversal : BOOLEAN, missed : M]
  BY DEF Record
<1>2. m \in M
  OBVIOUS
<1> HIDE DEF I, M
<1>3. DOMAIN r = {"choice", "anchor", "ids", "reversal", "missed"}
  BY <1>1
<1> QED
  BY <1>1, <1>2, <1>3

(* Writing one field of the record is writing the record.                  *)
LEMMA NestedRecord ==
    ASSUME NEW s \in Stages, NEW b, NEW m
    PROVE  /\ [s EXCEPT !.record.reversal = b] =
                [s EXCEPT !.record = [s.record EXCEPT !.reversal = b]]
           /\ [s EXCEPT !.record.missed = m] =
                [s EXCEPT !.record = [s.record EXCEPT !.missed = m]]
BY DEF Stages

(* The record a route writes (write_record).                               *)
LEMMA NewRecordIs ==
    ASSUME request \in Request, ids \in [Names -> Nat]
    PROVE  /\ NewRecord \in Record
           /\ NewRecord.anchor = request.anchor /\ NewRecord.ids = ids
           /\ NewRecord.reversal = FALSE
<1> DEFINE I == [Names -> Nat]
           M == SUBSET (Names \cup {Directory})
<1>1. Record = [choice : Choice, anchor : Anchor, ids : I, reversal : BOOLEAN, missed : M]
  BY DEF Record
<1>2. request.choice \in Choice /\ request.anchor \in Anchor /\ ids \in I /\ {} \in M
  BY DEF Request
<1> HIDE DEF I, M
<1> QED
  BY <1>1, <1>2 DEF NewRecord

(* A start that has no directory of its own: NoStage.                      *)
LEMMA NoStageIs ==
    /\ NoStage \in Stages /\ NoStage.at = "none" /\ NoStage.record = NoRecord
    /\ NoStage.files = [f \in Required |-> 0]
<1> DEFINE R == Record \cup {NoRecord}
           F == [Required -> Int]
<1>1. Stages = [at : Places, record : R, files : F] /\ NoRecord \in R
  BY DEF Stages
<1>2. [f \in Required |-> 0] \in F
  OBVIOUS
<1> HIDE DEF R, F
<1> QED
  BY <1>1, <1>2 DEF NoStage, Places

-----------------------------------------------------------------------------
(* Before the first start, the console installation is at the data root,   *)
(* with every required file.                                               *)
LEMMA InitInv ==
    ASSUME Init
    PROVE  MigrationInv
<1> USE NoStageIs DEF Init, NoRecord
<1>1. Typed
  BY DEF Typed, Empty
<1>2. OldIds
  BY DEF OldIds, Recorded, Empty
<1>3. Placed
  BY DEF Placed, Ready, RestrictedAs, Listed, Required
<1>4. LateSafe /\ RouteSafe /\ StagingSafe /\ RenameSafe /\ RemovedOnRequest
  BY DEF LateSafe, RouteSafe, StagingSafe, RenameSafe, RemovedOnRequest, Early, Staging,
         CopySteps
<1> QED
  BY <1>1, <1>2, <1>3, <1>4 DEF MigrationInv

(* A step that leaves the disk and the noted IDs alone keeps what is said  *)
(* of them.                                                                *)
LEMMA DiskKept ==
    ASSUME MigrationInv, UNCHANGED <<disk, ids, swaps>>
    PROVE  OldIds' /\ Placed' /\ RemovedOnRequest'
BY DEF MigrationInv, OldIds, Placed, RemovedOnRequest, disk, Ready, RestrictedAs, Recorded,
       Listed

(* A start that ends (serve returns, or the process dies) leaves the disk  *)
(* as it is; it may leave a rename behind, the first one only with the     *)
(* directory ready to move.                                                *)
LEMMA EndKeeps ==
    ASSUME MigrationInv, NEW op \in {"none", "first", "back", "commit"},
           EndWith(op), UNCHANGED <<disk, swaps>>,
           op = "first" => /\ stage.at = "staging" /\ Ready /\ closed
                           /\ RestrictedAs(stage.record.ids)
    PROVE  MigrationInv'
<1> USE DEF MigrationInv, EndWith, disk
<1>1. Typed'
  BY DEF Typed, Empty
<1>2. OldIds'
  BY DEF OldIds, Typed, Recorded, Empty
<1>3. Placed' /\ RemovedOnRequest'
  BY DEF Placed, RemovedOnRequest, Ready, RestrictedAs, Recorded, Listed
<1>4. LateSafe'
  BY DEF LateSafe, Ready, RestrictedAs, Recorded
<1>5. RouteSafe' /\ StagingSafe' /\ RenameSafe'
  BY DEF RouteSafe, StagingSafe, RenameSafe, Early, Staging, CopySteps
<1> QED
  BY <1>1, <1>2, <1>3, <1>4, <1>5

(* So does every early return (Refuse).                                    *)
LEMMA RefuseKeeps ==
    ASSUME MigrationInv, End, UNCHANGED <<disk, swaps>>
    PROVE  MigrationInv'
<1>1. late \in {"none", "first", "back", "commit"}
  BY DEF MigrationInv, LateSafe
<1>2. late = "first" => /\ stage.at = "staging" /\ Ready /\ closed
                        /\ RestrictedAs(stage.record.ids)
  BY DEF MigrationInv, LateSafe
<1> QED
  BY <1>1, <1>2, EndKeeps DEF End

-----------------------------------------------------------------------------
(* A start by the SCM.                                                     *)
LEMMA StartKeeps ==
    ASSUME MigrationInv, NEW r \in Request \cup {NoRequest}, Start(r)
    PROVE  MigrationInv'
<1> USE DEF MigrationInv, Start
<1>1. OldIds' /\ Placed' /\ RemovedOnRequest'
  BY DiskKept
<1>2. Typed' /\ LateSafe'
  BY DEF Typed, LateSafe, disk
<1>3. RouteSafe' /\ StagingSafe' /\ RenameSafe'
  BY DEF RouteSafe, StagingSafe, RenameSafe, Early, Staging, CopySteps
<1> QED
  BY <1>1, <1>2, <1>3

(* prepare: a route only with the console at the root, and one that goes   *)
(* on, or deletes, only with a staging directory; between the renames only *)
(* with the console at legacy.                                             *)
LEMMA PrepareKeeps ==
    ASSUME MigrationInv, Prepare
    PROVE  MigrationInv'
<1>1. CASE End
  BY <1>1, RefuseKeeps DEF Prepare
<1>2. ASSUME NEW to, NEW seen \in SUBSET Counting, to = Prepared(seen),
             to \in {"fresh", "interrupted", "continued"},
             pc' = "lock", attempt' = to,
             UNCHANGED <<request, todo, ids, late, missed, lock>>
      PROVE  MigrationInv'
  <2> USE DEF MigrationInv
  <2>0. pc = "prepare" /\ UNCHANGED <<disk, swaps>>
    BY DEF Prepare
  <2>1. OldIds' /\ Placed' /\ RemovedOnRequest'
    BY <2>0, <1>2, DiskKept
  <2>2. /\ console = "root" /\ request # NoRequest
        /\ to # "fresh" => stage.at = "staging"
    BY <1>2 DEF Prepared, Beside, Between, Committed, Asked, Counting
  <2>3. Typed' /\ LateSafe'
    BY <2>0, <1>2 DEF Typed, LateSafe, disk
  <2>4. RouteSafe'
    BY <2>0, <1>2, <2>2 DEF RouteSafe, Early, Staging, disk, Typed
  <2>5. StagingSafe' /\ RenameSafe'
    BY <2>0, <1>2 DEF StagingSafe, RenameSafe, Staging, CopySteps
  <2> QED
    BY <2>1, <2>3, <2>4, <2>5
<1>3. ASSUME NEW to, NEW seen \in SUBSET Counting, to = Prepared(seen),
             to \in {"between", "committed", "plain"}, Go(to),
             UNCHANGED <<todo, ids, lock>>
      PROVE  MigrationInv'
  <2> USE DEF MigrationInv, Go
  <2>0. pc = "prepare" /\ UNCHANGED <<disk, swaps>>
    BY DEF Prepare
  <2>1. OldIds' /\ Placed' /\ RemovedOnRequest'
    BY <2>0, <1>3, DiskKept
  <2>2. /\ to = "between" => console = "legacy" /\ stage.at = "staging"
        /\ to = "committed" => stage.at = "root"
    BY <1>3 DEF Prepared, Beside, Between, Committed, Counting
  <2>3. Typed' /\ LateSafe'
    BY <2>0, <1>3 DEF Typed, LateSafe, disk
  <2>4. RouteSafe' /\ StagingSafe'
    BY <2>0, <1>3 DEF RouteSafe, StagingSafe, Early, Staging
  <2>5. RenameSafe'
    BY <2>0, <1>3, <2>2 DEF RenameSafe, CopySteps, disk
  <2> QED
    BY <2>1, <2>3, <2>4, <2>5
<1> QED
  BY <1>1, <1>2, <1>3 DEF Prepare

(* The instance lock of the route and of a start between the renames; a    *)
(* recorded reversal is gone on with, never the commit.                    *)
LEMMA LocksKeep ==
    ASSUME MigrationInv, LockRoute \/ LockBetween
    PROVE  MigrationInv'
<1>1. CASE Refuse
  BY <1>1, RefuseKeeps DEF Refuse
<1>2. ASSUME NEW to,
             \/ pc = "lock" /\ to = "close"
             \/ pc = "between" /\ to = IF stage.record.reversal THEN "back" ELSE "complete",
             Go(to), UNCHANGED <<disk, todo, ids, faults, swaps>>
      PROVE  MigrationInv'
  <2> USE <1>2 DEF MigrationInv, Go
  <2>1. OldIds' /\ Placed' /\ RemovedOnRequest'
    BY DiskKept
  <2>2. Typed' /\ LateSafe'
    BY DEF Typed, LateSafe, disk
  <2>3. RouteSafe' /\ StagingSafe'
    BY DEF RouteSafe, StagingSafe, Early, Staging, disk
  <2>4. RenameSafe'
    BY DEF RenameSafe, CopySteps, disk
  <2> QED
    BY <2>1, <2>2, <2>3, <2>4
<1>3. CASE LockRoute
  <2>1. pc = "lock" /\ Acquire("close")
    BY <1>3 DEF LockRoute
  <2> QED
    BY <2>1, <1>1, <1>2 DEF Acquire
<1>4. CASE LockBetween
  <2> DEFINE to == IF stage.record.reversal THEN "back" ELSE "complete"
  <2>1. pc = "between" /\ Acquire(to)
    BY <1>4 DEF LockBetween
  <2> QED
    BY <2>1, <1>1, <1>2 DEF Acquire
<1> QED
  BY <1>3, <1>4

-----------------------------------------------------------------------------
(* The route closes the directories and deletes an interrupted staging     *)
(* directory, with the console still at the root.                          *)
LEMMA CloseKeeps ==
    ASSUME MigrationInv, Close
    PROVE  MigrationInv'
<1> USE DEF MigrationInv, Close, Go
<1>1. Typed' /\ OldIds'
  BY DEF Typed, OldIds, Recorded
<1>2. Placed' /\ RemovedOnRequest'
  BY DEF Placed, Ready, RestrictedAs, Recorded, Listed, RemovedOnRequest
<1>3. LateSafe'
  BY DEF LateSafe
<1>4. RouteSafe'
  BY DEF RouteSafe, Early, Staging
<1>5. StagingSafe' /\ RenameSafe'
  BY DEF StagingSafe, RenameSafe, Staging, CopySteps
<1> QED
  BY <1>1, <1>2, <1>3, <1>4, <1>5

(* An interrupted staging directory is deleted while nothing of it is      *)
(* installed and the console is at the root.                               *)
LEMMA DeleteStagingKeeps ==
    ASSUME MigrationInv, DeleteStaging
    PROVE  MigrationInv'
<1> USE NoStageIs DEF MigrationInv, DeleteStaging, Go
<1>0. console = "root" /\ stage.at # "root" /\ attempt # "continued"
  BY DEF RouteSafe, Placed, Early
<1>1. Typed' /\ OldIds'
  BY DEF Typed, OldIds, Recorded
<1>2. Placed' /\ RemovedOnRequest'
  BY <1>0 DEF Placed, Listed, RemovedOnRequest
<1>3. LateSafe'
  BY DEF LateSafe
<1>4. RouteSafe'
  BY <1>0 DEF RouteSafe, Early, Staging
<1>5. StagingSafe' /\ RenameSafe'
  BY DEF StagingSafe, RenameSafe, Staging, CopySteps
<1> QED
  BY <1>1, <1>2, <1>3, <1>4, <1>5

(* The names are listed, the files read and the configuration verified     *)
(* with no change to the disk.                                             *)
LEMMA ListKeeps ==
    ASSUME MigrationInv, List
    PROVE  MigrationInv'
<1>1. CASE Refuse
  BY <1>1, RefuseKeeps DEF Refuse
<1>2. ASSUME pc = "list", Go("check"), todo' = Listed,
             UNCHANGED <<disk, lock, ids, faults, swaps>>
      PROVE  MigrationInv'
  <2> USE <1>2 DEF MigrationInv, Go
  <2>1. OldIds' /\ Placed' /\ RemovedOnRequest'
    BY DiskKept
  <2>2. Typed' /\ LateSafe'
    BY DEF Typed, LateSafe, disk, Listed
  <2>3. RouteSafe' /\ StagingSafe' /\ RenameSafe'
    BY DEF RouteSafe, StagingSafe, RenameSafe, Early, Staging, CopySteps, disk
  <2> QED
    BY <2>1, <2>2, <2>3
<1> QED
  BY <1>1, <1>2 DEF List

(* A file's ID is noted: one that was given out, so older than the next.   *)
LEMMA CheckFileKeeps ==
    ASSUME MigrationInv, CheckFile
    PROVE  MigrationInv'
<1>1. CASE Refuse
  BY <1>1, RefuseKeeps DEF Refuse
<1>2. ASSUME NEW f \in todo, pc = "check", ids' = [ids EXCEPT ![f] = file[f]],
             Advance(f, "read", Required), UNCHANGED <<disk, lock, faults, swaps>>
      PROVE  MigrationInv'
  <2> USE <1>2 DEF MigrationInv, Go, Advance, disk
  <2>1. f \in Names /\ file[f] \in Nat
    BY DEF Typed
  <2>2. Typed'
    BY <2>1 DEF Typed, Required
  <2>3. OldIds'
    BY <2>1 DEF Typed, OldIds, Recorded
  <2>4. Placed' /\ RemovedOnRequest' /\ LateSafe'
    BY DEF Placed, Ready, RestrictedAs, Recorded, Listed, RemovedOnRequest, LateSafe
  <2>5. RouteSafe' /\ StagingSafe' /\ RenameSafe'
    BY DEF RouteSafe, StagingSafe, RenameSafe, Early, Staging, CopySteps
  <2> QED
    BY <2>2, <2>3, <2>4, <2>5
<1> QED
  BY <1>1, <1>2 DEF CheckFile

(* A file's bytes are read, with no change to the disk.                    *)
LEMMA ReadFileKeeps ==
    ASSUME MigrationInv, ReadFile
    PROVE  MigrationInv'
<1>1. CASE Refuse
  BY <1>1, RefuseKeeps DEF Refuse
<1>2. ASSUME NEW f \in todo, pc = "read", Advance(f, "verify", {}),
             UNCHANGED <<disk, lock, ids, faults, swaps>>
      PROVE  MigrationInv'
  <2> USE <1>2 DEF MigrationInv, Go, Advance
  <2>1. OldIds' /\ Placed' /\ RemovedOnRequest'
    BY DiskKept
  <2>2. Typed' /\ LateSafe'
    BY DEF Typed, LateSafe, disk
  <2>3. RouteSafe' /\ StagingSafe' /\ RenameSafe'
    BY DEF RouteSafe, StagingSafe, RenameSafe, Early, Staging, CopySteps, disk
  <2> QED
    BY <2>1, <2>2, <2>3
<1> QED
  BY <1>1, <1>2 DEF ReadFile

(* The anchors are the console's, or the start is refused; a file that was *)
(* not checked has no ID.                                                  *)
LEMMA VerifyKeeps ==
    ASSUME MigrationInv, Verify
    PROVE  MigrationInv'
<1>1. CASE Refuse
  BY <1>1, RefuseKeeps DEF Refuse
<1>2. ASSUME pc = "verify", Verified, Go("restrict"), todo' = Checked,
             UNCHANGED <<disk, lock, ids, faults, swaps>>
      PROVE  MigrationInv'
  <2> USE <1>2 DEF MigrationInv, Go
  <2>1. OldIds' /\ Placed' /\ RemovedOnRequest'
    BY DiskKept
  <2>2. Typed' /\ LateSafe'
    BY DEF Typed, LateSafe, disk, Checked
  <2>3. \A f \in Names \ todo' : ids[f] = 0
    BY DEF Checked
  <2>4. RouteSafe'
    BY <2>3 DEF RouteSafe, Early, Staging, disk, Verified, Typed
  <2>5. StagingSafe' /\ RenameSafe'
    BY DEF StagingSafe, RenameSafe, Early, Staging, CopySteps, disk
  <2> QED
    BY <2>1, <2>2, <2>4, <2>5
<1> QED
  BY <1>1, <1>2 DEF Verify

(* Each file is restricted while it is still the one checked, so that with *)
(* none left every checked file is.                                        *)
LEMMA RestrictFileKeeps ==
    ASSUME MigrationInv, RestrictFile
    PROVE  MigrationInv'
<1>1. CASE Refuse
  BY <1>1, RefuseKeeps DEF Refuse
<1>2. ASSUME NEW f \in todo, pc = "restrict", restricted' = restricted \cup {f},
             Advance(f, "record", {}),
             UNCHANGED <<console, file, closed, stage, removed, lock, ids, faults, swaps>>
      PROVE  MigrationInv'
  <2> USE <1>2 DEF MigrationInv, Go, Advance
  <2>1. Typed' /\ OldIds'
    BY DEF Typed, OldIds, Recorded
  <2>2. Placed' /\ RemovedOnRequest' /\ LateSafe'
    BY DEF Placed, Ready, RestrictedAs, Recorded, Listed, RemovedOnRequest, LateSafe
  <2>3. \A g \in Names : g \notin todo \/ g = f \/ todo # {f}
    OBVIOUS
  <2>4. \A g \in Names \ (todo \ {f}) : file[g] # 0 /\ file[g] = ids[g] => g \in restricted'
    BY DEF RouteSafe
  <2>5. CASE todo = {f}
    <3>1. pc' = "record" /\ RestrictedAs(ids)'
      BY <2>4, <2>5 DEF RestrictedAs
    <3> QED
      BY <3>1, <2>1, <2>2 DEF RouteSafe, Early, Staging, StagingSafe, RenameSafe, CopySteps
  <2>6. CASE todo # {f}
    <3>1. RouteSafe'
      BY <2>4, <2>6 DEF RouteSafe, Early, Staging
    <3> QED
      BY <3>1, <2>1, <2>2, <2>6 DEF Staging, StagingSafe, RenameSafe, CopySteps
  <2> QED
    BY <2>5, <2>6
<1> QED
  BY <1>1, <1>2 DEF RestrictFile

-----------------------------------------------------------------------------
(* What every step that stages shares: the console stays at the root, its  *)
(* directory closed and its checked files restricted, and what is recorded *)
(* are the IDs noted.                                                      *)
LEMMA StagingStep ==
    ASSUME MigrationInv, pc \in {"record"} \cup Staging, pc' \in Staging,
           stage' \in Stages, stage'.at = "staging",
           stage'.record \in {stage.record, NewRecord, NoRecord},
           todo' \subseteq Names,
           UNCHANGED <<console, file, restricted, closed, removed, ids, swaps,
                       request, attempt, late, missed>>
    PROVE  /\ Typed' /\ OldIds' /\ Placed' /\ LateSafe' /\ RouteSafe' /\ RenameSafe'
           /\ RemovedOnRequest'
<1> USE DEF MigrationInv
<1>0. /\ console = "root" /\ closed /\ stage.at # "root" /\ late = "none"
      /\ request \in Request /\ RestrictedAs(ids) /\ request.anchor = ConsoleAnchor
  BY DEF RouteSafe, Staging, Early, Placed, LateSafe
<1>1. Typed'
  BY DEF Typed
<1>2. NewRecord.ids = ids
  BY DEF NewRecord
<1>3. OldIds'
  BY <1>2 DEF OldIds, Recorded
<1>4. Placed' /\ RemovedOnRequest' /\ LateSafe'
  BY <1>0 DEF Placed, RemovedOnRequest, LateSafe, Listed
<1>5. RouteSafe'
  BY <1>0 DEF RouteSafe, Early, Staging, RestrictedAs
<1>6. RenameSafe'
  BY DEF RenameSafe, Staging, CopySteps
<1> QED
  BY <1>1, <1>3, <1>4, <1>5, <1>6

(* The staging directory and its record.                                   *)
LEMMA RecordKeeps ==
    ASSUME MigrationInv, CreateStaging \/ WriteRecord \/ RewriteRecord
    PROVE  MigrationInv'
<1> USE DEF MigrationInv, Go, Unchanged
<1>0. stage \in Stages /\ ids \in [Names -> Nat]
  BY DEF Typed
<1>1. CASE CreateStaging
  <2> USE <1>1 DEF CreateStaging
  <2>1. stage' \in Stages /\ stage'.at = "staging" /\ stage'.record = NoRecord
    BY NoStageIs, MovedStage DEF Places
  <2>2. pc' \in Staging /\ todo' \subseteq Names
    BY DEF Staging, Typed
  <2>3. StagingSafe'
    BY <2>1 DEF StagingSafe, Staging
  <2> QED
    BY <2>1, <2>2, <2>3, StagingStep
<1>2. CASE WriteRecord \/ RewriteRecord
  <2>1. /\ pc \in {"record", "write"} /\ pc' \in {"stage", "clear"}
        /\ stage' = [stage EXCEPT !.record = NewRecord]
        /\ pc' = "stage" => todo' = Required
        /\ todo' \subseteq Names
        /\ UNCHANGED <<console, file, restricted, closed, removed, ids, swaps,
                       request, attempt, late, missed>>
    BY <1>2 DEF WriteRecord, RewriteRecord, Typed, Required
  <2>2. request \in Request /\ stage.at = "staging"
    BY <1>2 DEF WriteRecord, RewriteRecord, RouteSafe, StagingSafe, Early, Staging
  <2>3. NewRecord \in Record
    BY <1>0, <2>2, NewRecordIs
  <2>4. stage' \in Stages /\ stage'.at = "staging" /\ stage'.record = NewRecord
    BY <1>0, <2>1, <2>2, <2>3, RecordedStage
  <2>5. NewRecord' = NewRecord
    BY <2>1 DEF NewRecord
  <2>6. StagingSafe'
    BY <2>1, <2>4, <2>5 DEF StagingSafe, Staging
  <2> QED
    BY <2>1, <2>4, <2>6, StagingStep DEF Staging
<1> QED
  BY <1>1, <1>2

(* What an earlier attempt staged is deleted before anything is staged.    *)
LEMMA ClearStagedKeeps ==
    ASSUME MigrationInv, ClearStaged
    PROVE  MigrationInv'
<1> USE DEF MigrationInv, Unchanged
<1>0. pc = "clear" /\ stage \in Stages /\ stage.at = "staging" /\ stage.record = NewRecord
  BY DEF ClearStaged, Typed, StagingSafe, Staging
<1>1. CASE Go("stage") /\ todo' = Required /\ UNCHANGED stage
  <2> USE <1>1 DEF Go
  <2>1. StagingSafe'
    BY <1>0 DEF StagingSafe, Staging, NewRecord, ClearStaged
  <2> QED
    BY <1>0, <2>1, StagingStep DEF Staging, Required, ClearStaged
<1>2. ASSUME NEW f \in Required, stage' = [stage EXCEPT !.files[f] = 0], UNCHANGED proc
      PROVE  MigrationInv'
  <2> USE <1>2 DEF proc
  <2>1. stage' \in Stages /\ stage'.at = "staging" /\ stage'.record = stage.record
    BY <1>0, FiledStage
  <2>2. StagingSafe'
    BY <1>0, <2>1 DEF StagingSafe, Staging, NewRecord, ClearStaged
  <2> QED
    BY <1>0, <2>1, <2>2, StagingStep DEF Staging, Typed, ClearStaged
<1> QED
  BY <1>1, <1>2 DEF ClearStaged

(* Each file is staged from the bytes read of the file that was checked.   *)
LEMMA StageFileKeeps ==
    ASSUME MigrationInv, StageFile
    PROVE  MigrationInv'
<1>1. CASE Refuse
  BY <1>1, RefuseKeeps DEF Refuse
<1>2. ASSUME NEW f \in todo, stage' = [stage EXCEPT !.files[f] = ids[f]],
             Advance(f, "staged", {}), Unchanged
      PROVE  MigrationInv'
  <2> USE <1>2 DEF MigrationInv, Go, Advance, Unchanged
  <2>0. /\ pc = "stage" /\ stage \in Stages /\ stage.at = "staging"
        /\ stage.record = NewRecord /\ todo \subseteq Required
        /\ \A g \in Required \ todo : stage.files[g] = ids[g]
        /\ stage.files \in [Required -> Int] /\ f \in Required /\ ids[f] \in Int
    BY DEF StageFile, Typed, StagingSafe, Staging, Stages, Required
  <2>1. /\ stage' \in Stages /\ stage'.at = "staging" /\ stage'.record = stage.record
        /\ stage'.files = [stage.files EXCEPT ![f] = ids[f]]
    BY <2>0, FiledStage
  <2>2. \A g \in Required \ (todo \ {f}) : stage'.files[g] = ids[g]
    BY <2>0, <2>1
  <2>3. NewRecord' = NewRecord
    BY DEF NewRecord
  <2>4. pc' \in {"stage", "staged"} /\ todo' \subseteq Required
    BY <2>0
  <2>5. StagingSafe'
    <3>1. pc' = "staged" => \A g \in Required : stage'.files[g] = ids[g]
      BY <2>0, <2>2
    <3>2. pc' = "stage" => \A g \in Required \ todo' : stage'.files[g] = ids[g]
      BY <2>0, <2>2
    <3> QED
      BY <3>1, <3>2, <2>0, <2>1, <2>3, <2>4 DEF StagingSafe, Staging
  <2> QED
    BY <2>0, <2>1, <2>4, <2>5, StagingStep DEF Staging, Required
<1> QED
  BY <1>1, <1>2 DEF StageFile

(* A staged file that is torn ends the start; the console is at the root.  *)
LEMMA StageTornKeeps ==
    ASSUME MigrationInv, StageTorn
    PROVE  MigrationInv'
<1> USE DEF MigrationInv, StageTorn, End, EndWith
<1>0. /\ console = "root" /\ stage \in Stages /\ stage.at = "staging" /\ late = "none"
      /\ todo \subseteq Required
  BY DEF RouteSafe, StagingSafe, Staging, Early, Typed, LateSafe
<1>1. PICK f \in todo : stage' = [stage EXCEPT !.files[f] = Torn]
  OBVIOUS
<1>2. stage' \in Stages /\ stage'.at = "staging" /\ stage'.record = stage.record
  BY <1>0, <1>1, FiledStage DEF Torn
<1>3. Typed' /\ OldIds'
  BY <1>2 DEF Typed, OldIds, Empty, Recorded
<1>4. Placed' /\ RemovedOnRequest' /\ LateSafe'
  BY <1>0, <1>2 DEF Placed, RemovedOnRequest, Listed, LateSafe
<1>5. RouteSafe' /\ StagingSafe' /\ RenameSafe'
  BY <1>0 DEF RouteSafe, StagingSafe, RenameSafe, Early, Staging, CopySteps
<1> QED
  BY <1>3, <1>4, <1>5

(* check_staged leaves a directory that is whole and as recorded, and the  *)
(* names are read again; neither changes the disk.                         *)
LEMMA CheckedKeeps ==
    ASSUME MigrationInv, CheckStaged \/ CheckNames
    PROVE  MigrationInv'
<1>1. CASE Refuse
  BY <1>1, RefuseKeeps DEF Refuse
<1>2. ASSUME UNCHANGED <<disk, lock, todo, ids, faults, swaps>>,
             \/ pc = "staged" /\ StagedWhole /\ Go("first")
             \/ pc = "first" /\ Go("rename")
      PROVE  MigrationInv'
  <2> USE <1>2 DEF MigrationInv, Go, disk
  <2>0. /\ stage \in Stages /\ stage.at = "staging" /\ stage.record = NewRecord
        /\ request \in Request /\ request.anchor = ConsoleAnchor
        /\ ids \in [Names -> Nat]
    BY DEF StagingSafe, RouteSafe, Staging, Early, Typed
  <2>1. /\ NewRecord \in Record /\ NewRecord.anchor = request.anchor
        /\ NewRecord.ids = ids /\ NewRecord' = NewRecord
    BY <2>0, NewRecordIs DEF NewRecord
  <2>2. Recorded
    BY <2>0, <2>1, RecordedIs DEF Recorded
  <2>3. Ready
    BY <2>0, <2>1, <2>2 DEF Ready, StagedWhole, StagingSafe
  <2>4. StagingSafe'
    BY <2>0, <2>1, <2>3 DEF StagingSafe, Staging, Ready, Recorded
  <2> QED
    BY <2>0, <2>4, StagingStep DEF Staging, Typed
<1> QED
  BY <1>1, <1>2 DEF CheckStaged, CheckNames

-----------------------------------------------------------------------------
(* What the first rename relies on: the record is the one this start       *)
(* wrote, unmarked, and the files it names are restricted.                 *)
LEMMA ReadyToMove ==
    ASSUME MigrationInv, pc = "rename"
    PROVE  /\ console = "root" /\ closed /\ stage.at = "staging" /\ Ready
           /\ RestrictedAs(stage.record.ids) /\ ~stage.record.reversal
           /\ late = "none"
<1> USE DEF MigrationInv
<1>1. /\ console = "root" /\ closed /\ stage.at = "staging" /\ Ready /\ RestrictedAs(ids)
      /\ stage.record = NewRecord /\ request \in Request /\ ids \in [Names -> Nat]
      /\ late = "none"
  BY DEF RouteSafe, StagingSafe, LateSafe, Early, Staging, Typed
<1>2. NewRecord.ids = ids /\ NewRecord.reversal = FALSE
  BY <1>1, NewRecordIs
<1> QED
  BY <1>1, <1>2

(* The first rename: from here on the host has no data root.               *)
LEMMA FirstRenameKeeps ==
    ASSUME MigrationInv, FirstRename
    PROVE  MigrationInv'
<1> USE DEF MigrationInv, FirstRename, Go
<1>0. /\ console = "root" /\ closed /\ stage.at = "staging" /\ Ready
      /\ RestrictedAs(stage.record.ids) /\ ~stage.record.reversal /\ late = "none"
  BY ReadyToMove
<1>1. Typed' /\ OldIds'
  BY DEF Typed, OldIds, Recorded
<1>2. Placed' /\ RemovedOnRequest'
  BY <1>0 DEF Placed, RemovedOnRequest, Ready, RestrictedAs, Recorded, Listed
<1>3. LateSafe'
  BY <1>0 DEF LateSafe
<1>4. RouteSafe' /\ StagingSafe'
  BY DEF RouteSafe, StagingSafe, Early, Staging
<1>5. RenameSafe'
  BY <1>0 DEF RenameSafe, CopySteps
<1> QED
  BY <1>1, <1>2, <1>3, <1>4, <1>5

(* The commit, by the start that moved the console directory or by a later *)
(* one: the directory that becomes the data root is ready.                 *)
LEMMA CommitKeeps ==
    ASSUME MigrationInv, SecondRename \/ Complete
    PROVE  MigrationInv'
<1>1. CASE Refuse
  BY <1>1, RefuseKeeps DEF Refuse
<1>2. ASSUME pc \in {"second", "complete"}, stage' = [stage EXCEPT !.at = "root"],
             Go("committed"), UNCHANGED todo, Unchanged
      PROVE  MigrationInv'
  <2> USE <1>2 DEF MigrationInv, Go, Unchanged
  <2>0. console = "legacy" /\ stage \in Stages /\ stage.at = "staging" /\ late = "none"
    BY DEF RenameSafe, Typed, LateSafe
  <2>1. /\ stage' \in Stages /\ stage'.at = "root" /\ stage'.record = stage.record
        /\ stage'.files = stage.files
    BY <2>0, MovedStage DEF Places
  <2>2. Typed' /\ OldIds'
    BY <2>1 DEF Typed, OldIds, Recorded
  <2>3. Placed' /\ RemovedOnRequest' /\ LateSafe'
    BY <2>0, <2>1 DEF Placed, RemovedOnRequest, Ready, RestrictedAs, Recorded, LateSafe
  <2>4. RouteSafe' /\ StagingSafe' /\ RenameSafe'
    BY <2>0, <2>1 DEF RouteSafe, StagingSafe, RenameSafe, Early, Staging, CopySteps
  <2> QED
    BY <2>2, <2>3, <2>4
<1> QED
  BY <1>1, <1>2 DEF SecondRename, Complete

(* A second rename reported failed leads to the reversal, and may be under *)
(* way.                                                                    *)
LEMMA SecondFailsKeeps ==
    ASSUME MigrationInv, SecondFails
    PROVE  MigrationInv'
<1> USE DEF MigrationInv, SecondFails
<1>1. OldIds' /\ Placed' /\ RemovedOnRequest'
  BY DiskKept
<1>2. Typed' /\ LateSafe'
  BY DEF Typed, LateSafe, disk
<1>3. RouteSafe' /\ StagingSafe' /\ RenameSafe'
  BY DEF RouteSafe, StagingSafe, RenameSafe, Early, Staging, CopySteps, disk
<1> QED
  BY <1>1, <1>2, <1>3

(* Marking the record, or clearing the mark, keeps what the record says of *)
(* the files.                                                              *)
LEMMA MarkedStage ==
    ASSUME NEW s \in Stages, s.record \in Record, NEW b \in BOOLEAN
    PROVE  LET t == [s EXCEPT !.record.reversal = b]
           IN  /\ t \in Stages /\ t.at = s.at /\ t.files = s.files /\ t.record \in Record
               /\ t.record.choice = s.record.choice /\ t.record.anchor = s.record.anchor
               /\ t.record.ids = s.record.ids
<1> DEFINE r == [s.record EXCEPT !.reversal = b]
           t == [s EXCEPT !.record.reversal = b]
<1>1. /\ r \in Record /\ r.choice = s.record.choice /\ r.anchor = s.record.anchor
      /\ r.ids = s.record.ids
  BY MarkedRecord
<1>2. t = [s EXCEPT !.record = r]
  BY NestedRecord
<1> HIDE DEF r, t
<1>3. t \in Stages /\ t.at = s.at /\ t.files = s.files /\ t.record = r
  BY <1>1, <1>2, RecordedStage
<1>4. t.record \in Record /\ t.record.choice = s.record.choice
      /\ t.record.anchor = s.record.anchor /\ t.record.ids = s.record.ids
  BY <1>1, <1>3
<1> QED
  BY <1>3, <1>4 DEF t

(* A recorded directory holds a record.                                    *)
LEMMA RecordOf ==
    ASSUME stage \in Stages, Recorded
    PROVE  stage.record \in Record /\ stage.record.ids \in [Names -> Nat]
<1> DEFINE I == [Names -> Nat]
           M == SUBSET (Names \cup {Directory})
<1>1. Record = [choice : Choice, anchor : Anchor, ids : I, reversal : BOOLEAN, missed : M]
  BY DEF Record
<1>2. stage.record \in Record
  BY DEF Stages, Recorded
<1> HIDE DEF I, M
<1>3. stage.record.ids \in I
  BY <1>1, <1>2
<1> QED
  BY <1>2, <1>3 DEF I

(* The reversal records its mark before the console directory goes back,   *)
(* and clears it after.                                                    *)
LEMMA MarkKeeps ==
    ASSUME MigrationInv, Mark
    PROVE  MigrationInv'
<1>1. CASE Refuse
  BY <1>1, RefuseKeeps DEF Refuse
<1>2. ASSUME pc = "mark", stage.at = "staging",
             stage' = [stage EXCEPT !.record.reversal = TRUE],
             Go("back"), UNCHANGED todo, Unchanged
      PROVE  MigrationInv'
  <2> USE <1>2 DEF MigrationInv, Go, Unchanged
  <2>0. console = "legacy" /\ stage \in Stages /\ Ready
    BY DEF RenameSafe, Placed, Typed
  <2>1. stage.record \in Record
    BY <2>0, RecordOf DEF Ready
  <2>2. /\ stage' \in Stages /\ stage'.at = "staging" /\ stage'.files = stage.files
        /\ stage'.record \in Record /\ stage'.record.anchor = stage.record.anchor
        /\ stage'.record.ids = stage.record.ids
    BY <2>0, <2>1, MarkedStage
  <2>3. Recorded'
    BY <2>2, RecordedIs DEF Recorded
  <2>4. Typed' /\ OldIds'
    BY <2>0, <2>2, <2>3 DEF Typed, OldIds, Ready
  <2>5. Placed' /\ RemovedOnRequest'
    BY <2>0, <2>2, <2>3 DEF Placed, RemovedOnRequest, Ready, RestrictedAs, Listed
  <2>6. LateSafe' /\ RouteSafe' /\ StagingSafe' /\ RenameSafe'
    BY <2>0, <2>2 DEF LateSafe, RouteSafe, StagingSafe, RenameSafe, Early, Staging, CopySteps
  <2> QED
    BY <2>4, <2>5, <2>6
<1> QED
  BY <1>1, <1>2 DEF Mark

(* The console directory goes back to the data root, over no installed     *)
(* directory: the staging directory is still beside it.                    *)
LEMMA BackKeeps ==
    ASSUME MigrationInv, Back
    PROVE  MigrationInv'
<1>1. CASE Refuse
  BY <1>1, RefuseKeeps DEF Refuse
<1>2. ASSUME pc = "back", RootFree, console' = "root", Go("unmark"),
             UNCHANGED <<file, restricted, closed, stage, removed, lock, todo, ids,
                         faults, swaps>>
      PROVE  MigrationInv'
  <2> USE <1>2 DEF MigrationInv, Go
  <2>0. stage.at = "staging" /\ Ready
    BY DEF RenameSafe, Placed, RootFree, Typed, Stages, Places
  <2>1. Typed' /\ OldIds'
    BY DEF Typed, OldIds, Recorded
  <2>2. Placed' /\ RemovedOnRequest' /\ LateSafe'
    BY <2>0 DEF Placed, RemovedOnRequest, Listed, LateSafe
  <2>3. RouteSafe' /\ StagingSafe'
    BY DEF RouteSafe, StagingSafe, Early, Staging
  <2>4. RenameSafe'
    BY <2>0 DEF RenameSafe, CopySteps, Ready, Recorded
  <2> QED
    BY <2>1, <2>2, <2>3, <2>4
<1> QED
  BY <1>1, <1>2 DEF Back

(* The reversal's mark is cleared and the start ends, with the console at  *)
(* the root.                                                               *)
LEMMA UnmarkKeeps ==
    ASSUME MigrationInv, Unmark
    PROVE  MigrationInv'
<1> USE DEF MigrationInv, Unmark, End, EndWith
<1>0. /\ console = "root" /\ stage \in Stages /\ stage.at = "staging" /\ Recorded
      /\ late \in {"none", "commit"}
  BY DEF RenameSafe, Typed, LateSafe
<1>1. stage.record \in Record
  BY <1>0, RecordOf
<1>2. /\ stage' \in Stages /\ stage'.at = "staging"
      /\ stage'.record \in Record /\ stage'.record.ids = stage.record.ids
  BY <1>0, <1>1, MarkedStage
<1>3. Typed' /\ OldIds'
  BY <1>0, <1>2 DEF Typed, OldIds, Empty
<1>4. Placed' /\ RemovedOnRequest' /\ LateSafe'
  BY <1>0, <1>2 DEF Placed, RemovedOnRequest, Listed, LateSafe
<1>5. RouteSafe' /\ StagingSafe' /\ RenameSafe'
  BY <1>0 DEF RouteSafe, StagingSafe, RenameSafe, Early, Staging, CopySteps
<1> QED
  BY <1>3, <1>4, <1>5

(* A rename that does not answer in time ends the start, or its reversal;  *)
(* the first one is left behind with the directory ready to move.          *)
LEMMA LeaveRenameKeeps ==
    ASSUME MigrationInv, LeaveRename
    PROVE  MigrationInv'
<1>1. ASSUME pc = "rename", EndWith("first") PROVE MigrationInv'
  BY <1>1, ReadyToMove, EndKeeps DEF LeaveRename
<1>2. ASSUME NEW op \in {"commit", "back"}, EndWith(op) PROVE MigrationInv'
  BY <1>2, EndKeeps DEF LeaveRename
<1> QED
  BY <1>1, <1>2 DEF LeaveRename

(* A rename left behind that happens finds what it was left with, or a     *)
(* name that is taken.                                                     *)
LEMMA LateRenameKeeps ==
    ASSUME MigrationInv, LateRename
    PROVE  MigrationInv'
<1> USE DEF MigrationInv, LateRename
<1>1. CASE late = "first" /\ console' = "legacy" /\ UNCHANGED stage
  <2> USE <1>1
  <2>0. pc = "exit" /\ stage.at = "staging" /\ Ready /\ closed /\ RestrictedAs(stage.record.ids)
    BY DEF LateSafe
  <2>1. Typed' /\ OldIds'
    BY DEF Typed, OldIds, Recorded
  <2>2. Placed' /\ RemovedOnRequest' /\ LateSafe'
    BY <2>0 DEF Placed, RemovedOnRequest, Ready, RestrictedAs, Recorded, Listed, LateSafe
  <2>3. RouteSafe' /\ StagingSafe' /\ RenameSafe'
    BY <2>0 DEF RouteSafe, StagingSafe, RenameSafe, Early, Staging, CopySteps
  <2> QED
    BY <2>1, <2>2, <2>3
<1>2. CASE late = "back" /\ RootFree /\ console' = "root" /\ UNCHANGED stage
  <2> USE <1>2
  <2>0. pc = "exit" /\ stage.at # "root"
    BY DEF LateSafe, RootFree
  <2>1. Typed' /\ OldIds'
    BY DEF Typed, OldIds, Recorded
  <2>2. Placed' /\ RemovedOnRequest' /\ LateSafe'
    BY <2>0 DEF Placed, RemovedOnRequest, Listed, LateSafe
  <2>3. RouteSafe' /\ StagingSafe' /\ RenameSafe'
    BY <2>0 DEF RouteSafe, StagingSafe, RenameSafe, Early, Staging, CopySteps
  <2> QED
    BY <2>1, <2>2, <2>3
<1>3. CASE late = "commit" /\ RootFree /\ stage' = [stage EXCEPT !.at = "root"]
           /\ UNCHANGED console
  <2> USE <1>3
  <2>0. /\ pc \in {"mark", "back", "exit"} /\ console # "root" /\ stage \in Stages
        /\ stage.at # "root"
    BY DEF LateSafe, RootFree, RenameSafe, Typed
  <2>1. /\ stage' \in Stages /\ stage'.at = "root" /\ stage'.record = stage.record
        /\ stage'.files = stage.files
    BY <2>0, MovedStage DEF Places
  <2>2. Typed' /\ OldIds'
    BY <2>1 DEF Typed, OldIds, Recorded
  <2>3. Placed' /\ RemovedOnRequest' /\ LateSafe'
    BY <2>0, <2>1 DEF Placed, RemovedOnRequest, Ready, RestrictedAs, Recorded, LateSafe
  <2>4. RouteSafe' /\ StagingSafe' /\ RenameSafe'
    BY <2>0, <2>1 DEF RouteSafe, StagingSafe, RenameSafe, Early, Staging, CopySteps
  <2> QED
    BY <2>2, <2>3, <2>4
<1> QED
  BY <1>1, <1>2, <1>3

-----------------------------------------------------------------------------
(* serve goes on with the installed directory, with the lock or without.   *)
LEMMA ServeKeeps ==
    ASSUME MigrationInv, Serve \/ Unprivileged
    PROVE  MigrationInv'
<1>1. CASE Refuse
  BY <1>1, RefuseKeeps DEF Refuse
<1>2. ASSUME NEW to \in {"copies", "running"}, pc \in {"committed", "plain"}, stage.at = "root",
             Go(to), UNCHANGED <<disk, todo, ids, swaps>>
      PROVE  MigrationInv'
  <2> USE <1>2 DEF MigrationInv, Go
  <2>1. OldIds' /\ Placed' /\ RemovedOnRequest'
    BY DiskKept
  <2>2. Typed' /\ LateSafe'
    BY DEF Typed, LateSafe, disk
  <2>3. RouteSafe' /\ StagingSafe' /\ RenameSafe'
    BY DEF RouteSafe, StagingSafe, RenameSafe, Early, Staging, CopySteps, disk
  <2> QED
    BY <2>1, <2>2, <2>3
<1>3. CASE Serve
  <2>1. CASE stage.at = "root" /\ Acquire(IF pc = "committed" THEN "copies" ELSE "running")
    <3> DEFINE to == IF pc = "committed" THEN "copies" ELSE "running"
    <3>1. Refuse \/ (Go(to) /\ UNCHANGED <<disk, todo, ids, swaps>>)
      BY <2>1 DEF Acquire
    <3>2. to \in {"copies", "running"} /\ pc \in {"committed", "plain"}
      BY <1>3 DEF Serve
    <3> HIDE DEF to
    <3> QED
      BY <1>1, <1>2, <2>1, <3>1, <3>2
  <2> QED
    BY <1>1, <1>3, <2>1 DEF Serve
<1>4. CASE Unprivileged
  <2>1. /\ pc \in {"committed", "plain"} /\ stage.at = "root" /\ Go("running")
        /\ UNCHANGED <<disk, todo, ids, swaps>>
    BY <1>4 DEF Unprivileged
  <2> QED
    BY <1>2, <2>1
<1> QED
  BY <1>3, <1>4

(* The steps of the copies that only move on, or give up.                  *)
LEMMA CopiesKeep ==
    ASSUME MigrationInv, CopiesBegin \/ LeaveCopies \/ CopiesFail
    PROVE  MigrationInv'
<1> USE DEF MigrationInv
<1>1. /\ pc \in CopySteps /\ pc' \in CopySteps \cup {"running"}
      /\ UNCHANGED <<disk, ids, swaps, late, request, attempt>>
  BY DEF CopiesBegin, LeaveCopies, CopiesFail, CopySteps, proc
<1>2. todo' \subseteq Names /\ missed' \subseteq Names \cup {Directory}
  BY DEF CopiesBegin, LeaveCopies, CopiesFail, proc, Typed, Listed
<1>3. OldIds' /\ Placed' /\ RemovedOnRequest'
  BY <1>1, DiskKept
<1>4. Typed' /\ LateSafe'
  BY <1>1, <1>2 DEF Typed, LateSafe, disk, CopySteps
<1>5. RouteSafe' /\ StagingSafe' /\ RenameSafe'
  BY <1>1 DEF RouteSafe, StagingSafe, RenameSafe, Early, Staging, CopySteps, disk
<1> QED
  BY <1>3, <1>4, <1>5

(* A copy is restricted, and deleted, only while it is the recorded file.  *)
LEMMA CopyKeeps ==
    ASSUME MigrationInv, Copy
    PROVE  MigrationInv'
<1> USE DEF MigrationInv
<1>1. PICK f \in todo :
        /\ pc = "copy" /\ CopyDone(f)
        /\ \/ /\ file[f] = stage.record.ids[f]
              /\ Deleted(f) /\ UNCHANGED <<missed, faults>>
           \/ /\ IF file[f] = stage.record.ids[f] THEN Fault ELSE UNCHANGED faults
              /\ missed' = missed \cup {f}
              /\ UNCHANGED <<file, restricted, removed>>
  BY DEF Copy
<1>2. /\ stage.at = "root" /\ console # "root" /\ Ready /\ late = "none" /\ f \in Names
      /\ UNCHANGED <<console, closed, stage, request, attempt, ids, late, swaps>>
      /\ pc' \in CopySteps
  BY <1>1 DEF RenameSafe, CopySteps, Placed, LateSafe, CopyDone, Typed
<1>3. todo' \subseteq Names /\ missed' \subseteq Names \cup {Directory}
  BY <1>1 DEF CopyDone, Typed
<1>4. /\ file' \in [Names -> Nat]
      /\ \A g \in Names : file'[g] \in {0, file[g]}
      /\ \A g \in Names : file'[g] # 0 => file'[g] = file[g]
      /\ restricted \subseteq restricted'
  BY <1>1, <1>2 DEF Deleted, Typed
<1>5. Typed' /\ OldIds'
  BY <1>2, <1>3, <1>4 DEF Typed, OldIds, Recorded
<1>6. Placed' /\ LateSafe'
  BY <1>2, <1>4 DEF Placed, Ready, RestrictedAs, Recorded, LateSafe
<1>7. RemovedOnRequest'
  BY <1>1, <1>2 DEF RemovedOnRequest, Deleted
<1>8. RouteSafe' /\ StagingSafe' /\ RenameSafe'
  BY <1>2 DEF RouteSafe, StagingSafe, RenameSafe, Early, Staging, CopySteps
<1> QED
  BY <1>5, <1>6, <1>7, <1>8

(* The empty legacy directory is deleted.                                  *)
LEMMA RemoveDirectoryKeeps ==
    ASSUME MigrationInv, RemoveDirectory
    PROVE  MigrationInv'
<1> USE DEF MigrationInv, RemoveDirectory
<1>1. stage.at = "root" /\ console # "root" /\ Ready /\ late = "none"
  BY DEF RenameSafe, CopySteps, Placed, LateSafe
<1>2. console' \in {console, "gone"} /\ missed' \subseteq Names \cup {Directory}
  BY DEF Typed
<1>3. Typed' /\ OldIds'
  BY <1>2 DEF Typed, OldIds, Recorded
<1>4. Placed' /\ RemovedOnRequest' /\ LateSafe'
  BY <1>1, <1>2 DEF Placed, RemovedOnRequest, Ready, RestrictedAs, Recorded, LateSafe
<1>5. RouteSafe' /\ StagingSafe' /\ RenameSafe'
  BY <1>1 DEF RouteSafe, StagingSafe, RenameSafe, Early, Staging, CopySteps
<1> QED
  BY <1>3, <1>4, <1>5

(* The record that names the missed copies keeps the rest.                 *)
LEMMA ReportKeeps ==
    ASSUME MigrationInv, Report
    PROVE  MigrationInv'
<1> USE DEF MigrationInv, Report, Go
<1>0. /\ stage.at = "root" /\ console # "root" /\ Ready /\ late = "none" /\ stage \in Stages
      /\ missed \subseteq Names \cup {Directory}
  BY DEF RenameSafe, CopySteps, Placed, LateSafe, Typed
<1>1. stage.record \in Record
  BY <1>0, RecordOf DEF Ready
<1>2. /\ stage' \in Stages /\ stage'.at = "root" /\ stage'.files = stage.files
      /\ stage'.record \in Record /\ stage'.record.anchor = stage.record.anchor
      /\ stage'.record.choice = stage.record.choice
      /\ stage'.record.ids = stage.record.ids
  <2>1. CASE UNCHANGED stage
    BY <1>0, <1>1, <2>1
  <2>2. CASE stage' = [stage EXCEPT !.record.missed = missed]
    <3> DEFINE r == [stage.record EXCEPT !.missed = missed]
    <3>1. /\ r \in Record /\ r.choice = stage.record.choice
          /\ r.anchor = stage.record.anchor /\ r.ids = stage.record.ids
      BY <1>0, <1>1, MarkedRecord
    <3>2. stage' = [stage EXCEPT !.record = r]
      BY <1>0, <2>2, NestedRecord
    <3> HIDE DEF r
    <3>3. stage' \in Stages /\ stage'.at = stage.at /\ stage'.files = stage.files
          /\ stage'.record = r
      BY <1>0, <3>1, <3>2, RecordedStage
    <3> QED
      BY <1>0, <3>1, <3>3
  <2> QED
    BY <2>1, <2>2
<1>3. Recorded'
  BY <1>2, RecordedIs DEF Recorded
<1>4. Typed' /\ OldIds'
  BY <1>0, <1>2, <1>3 DEF Typed, OldIds, Ready
<1>5. Placed' /\ RemovedOnRequest' /\ LateSafe'
  BY <1>0, <1>2, <1>3 DEF Placed, RemovedOnRequest, Ready, RestrictedAs, LateSafe
<1>6. RouteSafe' /\ StagingSafe' /\ RenameSafe'
  BY <1>0, <1>2 DEF RouteSafe, StagingSafe, RenameSafe, Early, Staging, CopySteps
<1> QED
  BY <1>4, <1>5, <1>6

-----------------------------------------------------------------------------
(* The console agent takes and drops the lock.                             *)
LEMMA ConsoleKeeps ==
    ASSUME MigrationInv, ConsoleStart \/ ConsoleStop
    PROVE  MigrationInv'
<1> USE DEF MigrationInv
<1>1. UNCHANGED <<disk, proc, swaps>>
  BY DEF ConsoleStart, ConsoleStop
<1>2. OldIds' /\ Placed' /\ RemovedOnRequest'
  BY <1>1, DiskKept DEF proc
<1>3. Typed' /\ LateSafe' /\ RouteSafe'
  BY <1>1 DEF Typed, LateSafe, RouteSafe, Ready, RestrictedAs, Recorded, disk, proc
<1>4. StagingSafe' /\ RenameSafe'
  BY <1>1 DEF StagingSafe, RenameSafe, Ready, Recorded, NewRecord, disk, proc
<1> QED
  BY <1>2, <1>3, <1>4

(* A file another process puts in place of one has an ID no record and no  *)
(* check has seen; only the temporary file goes.                           *)
LEMMA SwapKeeps ==
    ASSUME MigrationInv, NEW S \in SUBSET Names, Swap(S)
    PROVE  MigrationInv'
<1> USE DEF MigrationInv
<1>1. /\ console = "root" /\ swaps' = swaps + 1 /\ restricted' = restricted \ S
      /\ UNCHANGED <<console, closed, stage, removed, proc>>
      /\ file \in [Names -> Nat] /\ ids \in [Names -> Nat] /\ swaps \in Nat
  BY DEF Swap, Typed
<1>2. PICK id \in {0, swaps + 2} :
        /\ id = 0 => S = {Temporary} /\ file[Temporary] # 0
        /\ file' = [f \in Names |-> IF f \in S THEN id ELSE file[f]]
  BY DEF Swap
<1>3. Typed'
  BY <1>1, <1>2 DEF Typed, proc
<1>4. OldIds'
  <2>1. Recorded => stage.record.ids \in [Names -> Nat]
    BY RecordOf DEF Typed
  <2>2. Recorded => \A f \in Names : stage.record.ids[f] <= swaps' + 1
    BY <1>1, <2>1 DEF OldIds
  <2>3. \A f \in Names : file'[f] <= swaps' + 1 /\ ids[f] <= swaps' + 1
    BY <1>1, <1>2 DEF OldIds
  <2> QED
    BY <1>1, <2>2, <2>3 DEF OldIds, Recorded, proc
<1>5. ASSUME NEW known, RestrictedAs(known), \A f \in Names : known[f] <= swaps + 1
      PROVE  \A f \in Names : file'[f] # 0 /\ file'[f] = known[f] => f \in restricted'
  <2> SUFFICES ASSUME NEW f \in Names, file'[f] # 0, file'[f] = known[f]
               PROVE  f \in restricted'
    OBVIOUS
  <2>1. f \notin S
    <3> SUFFICES ASSUME f \in S PROVE FALSE
      OBVIOUS
    <3>1. file'[f] = swaps + 2 /\ known[f] <= swaps + 1
      BY <1>2, <1>5
    <3> QED
      BY <3>1, <1>1
  <2> QED
    BY <1>1, <1>2, <1>5, <2>1 DEF RestrictedAs
<1>6. stage.at # "root"
  BY <1>1 DEF Placed
<1>7. Placed' /\ RemovedOnRequest'
  <2>1. (Required \subseteq Listed)'
    <3> SUFFICES ASSUME NEW f \in Required PROVE file'[f] # 0
      BY DEF Listed, Required
    <3>1. file[f] # 0 /\ f # Temporary /\ f \in Names
      BY <1>6 DEF Placed, Listed, Required
    <3> QED
      BY <1>1, <1>2, <3>1
  <2> QED
    BY <1>1, <1>6, <2>1 DEF Placed, RemovedOnRequest
<1>8. LateSafe'
  <2>1. CASE late = "first"
    <3>1. Recorded /\ RestrictedAs(stage.record.ids)
      BY <2>1 DEF LateSafe, Ready
    <3>2. \A f \in Names : file'[f] # 0 /\ file'[f] = stage.record.ids[f] => f \in restricted'
      BY <3>1, <1>5 DEF OldIds
    <3> QED
      BY <3>1, <3>2, <1>1 DEF LateSafe, RestrictedAs, Ready, Recorded, proc
  <2>2. CASE late # "first"
    BY <2>2, <1>1 DEF LateSafe, proc
  <2> QED
    BY <2>1, <2>2
<1>9. RouteSafe'
  <2>1. pc \in {"record"} \cup Staging =>
          \A f \in Names : file'[f] # 0 /\ file'[f] = ids[f] => f \in restricted'
    BY <1>5 DEF RouteSafe, OldIds
  <2>2. pc = "restrict" =>
          \A f \in Names \ todo : file'[f] # 0 /\ file'[f] = ids[f] => f \in restricted'
    <3> SUFFICES ASSUME pc = "restrict", NEW f \in Names \ todo,
                        file'[f] # 0, file'[f] = ids[f]
                 PROVE  f \in restricted'
      OBVIOUS
    <3>1. ids[f] <= swaps + 1 /\ ids[f] \in Nat
      BY <1>1 DEF OldIds
    <3>2. f \notin S
      BY <1>1, <1>2, <3>1
    <3> QED
      BY <1>1, <1>2, <3>2 DEF RouteSafe
  <2> QED
    BY <1>1, <2>1, <2>2 DEF RouteSafe, RestrictedAs, proc
<1>10. StagingSafe' /\ RenameSafe'
  BY <1>1 DEF StagingSafe, RenameSafe, Ready, Recorded, NewRecord, proc
<1> QED
  BY <1>3, <1>4, <1>7, <1>8, <1>9, <1>10

-----------------------------------------------------------------------------
(* Every step, of the service, of its environment and of other processes,  *)
(* keeps the invariant.                                                    *)
LEMMA NextKeeps ==
    ASSUME MigrationInv, [Next]_vars
    PROVE  MigrationInv'
<1>1. CASE Prepare \/ LockRoute \/ LockBetween \/ Close \/ DeleteStaging \/ List \/ CheckFile
           \/ ReadFile \/ Verify \/ RestrictFile
  BY <1>1, PrepareKeeps, LocksKeep, CloseKeeps, DeleteStagingKeeps, ListKeeps,
     CheckFileKeeps, ReadFileKeeps, VerifyKeeps, RestrictFileKeeps
<1>2. CASE CreateStaging \/ WriteRecord \/ RewriteRecord \/ ClearStaged \/ StageFile
           \/ StageTorn \/ CheckStaged \/ CheckNames
  BY <1>2, RecordKeeps, ClearStagedKeeps, StageFileKeeps, StageTornKeeps, CheckedKeeps
<1>3. CASE FirstRename \/ SecondRename \/ Complete \/ SecondFails \/ Mark \/ Back \/ Unmark
           \/ LeaveRename \/ LateRename
  BY <1>3, FirstRenameKeeps, CommitKeeps, SecondFailsKeeps, MarkKeeps, BackKeeps,
     UnmarkKeeps, LeaveRenameKeeps, LateRenameKeeps
<1>4. CASE Serve \/ Unprivileged \/ CopiesBegin \/ LeaveCopies \/ CopiesFail \/ Copy
           \/ RemoveDirectory \/ Report
  BY <1>4, ServeKeeps, CopiesKeep, CopyKeeps, RemoveDirectoryKeeps, ReportKeeps
<1>5. CASE StopService \/ Cut
  BY <1>5, RefuseKeeps DEF StopService, Refuse, Cut
<1>6. CASE Exit
  BY <1>6, EndKeeps DEF Exit
<1>7. CASE \E r \in Request \cup {NoRequest} : Start(r)
  BY <1>7, StartKeeps
<1>8. CASE ConsoleStart \/ ConsoleStop
  BY <1>8, ConsoleKeeps
<1>9. CASE (\E f \in Names : Swap({f})) \/ Swap(IdentityFiles)
  <2>1. IdentityFiles \in SUBSET Names
    BY MigrationAssumption DEF Required
  <2>2. \A f \in Names : {f} \in SUBSET Names
    OBVIOUS
  <2> QED
    BY <1>9, <2>1, <2>2, SwapKeeps
<1>10. CASE UNCHANGED vars
  <2> USE <1>10 DEF vars
  <2>1. OldIds' /\ Placed' /\ RemovedOnRequest'
    BY DiskKept DEF proc
  <2>2. Typed' /\ LateSafe' /\ RouteSafe'
    BY DEF MigrationInv, Typed, LateSafe, RouteSafe, Ready, RestrictedAs, Recorded, disk, proc
  <2>3. StagingSafe' /\ RenameSafe'
    BY DEF MigrationInv, StagingSafe, RenameSafe, Ready, Recorded, NewRecord, disk, proc
  <2> QED
    BY <2>1, <2>2, <2>3 DEF MigrationInv
<1> QED
  BY <1>1, <1>2, <1>3, <1>4, <1>5, <1>6, <1>7, <1>8, <1>9, <1>10 DEF Next, Step

(* The invariant holds of every behaviour of the migration.                *)
THEOREM MigrationInvariant == Spec => []MigrationInv
<1>1. Init => MigrationInv
  BY InitInv
<1>2. MigrationInv /\ [Next]_vars => MigrationInv'
  BY NextKeeps
<1> QED
  BY <1>1, <1>2, PTL DEF Spec

(* Whatever step of prepare, the route, the commit or the reversal a start *)
(* was cut at, and however often, some start goes on from what it left: a  *)
(* host without a data root has a whole, recorded staging directory beside *)
(* the closed legacy one.                                                  *)
THEOREM AlwaysResumable == Spec => []Resumable
<1>1. MigrationInv => Resumable
  <2> SUFFICES ASSUME MigrationInv, pc = "down" PROVE Resumable
    BY DEF Resumable
  <2> USE DEF MigrationInv
  <2>1. ASSUME RootFree
        PROVE  /\ console = "legacy" /\ closed /\ Required \subseteq Listed
               /\ stage.at = "staging" /\ Recorded /\ StagedWhole
    <3>1. console = "legacy" /\ closed /\ Ready /\ stage.at = "staging" /\ Required \subseteq Listed
      BY <2>1 DEF RootFree, Placed, Typed, Stages, Places
    <3>3. stage.record.ids \in [Names -> Nat]
      BY <3>1, RecordOf DEF Ready, Typed
    <3>4. \A f \in Required : stage.files[f] \in Nat /\ stage.files[f] # 0
      BY <3>1, <3>3 DEF Ready, Required
    <3>5. StagedWhole
      BY <3>1, <3>4, MigrationAssumption DEF StagedWhole, Ready, Torn
    <3> QED
      BY <3>1, <3>5 DEF Ready
  <2>2. stage.at = "root" => Recorded
    BY DEF Placed, Ready
  <2>3. console = "gone" => stage.at = "root"
    BY DEF Placed
  <2> QED
    BY <2>1, <2>2, <2>3 DEF Resumable
<1> QED
  BY <1>1, MigrationInvariant, PTL

(* What serve installs was staged, file by file, from the files the record *)
(* names, agent.toml included, and with the console's anchors, even when   *)
(* an earlier attempt had staged other ones.                               *)
THEOREM Installed == Spec => []InstalledAsChecked
<1>1. MigrationInv => InstalledAsChecked
  BY DEF MigrationInv, InstalledAsChecked, Placed, Ready
<1> QED
  BY <1>1, MigrationInvariant, PTL

(* No copy of the identity is left open at legacy, and the passes over the *)
(* copies delete only what the operator asked for and the route checked.   *)
THEOREM CopiesKept == Spec => []CopiesSafe
<1>1. MigrationInv => CopiesSafe
  BY DEF MigrationInv, CopiesSafe, LegacyClosed, Placed, RestrictedAs, Listed
<1> QED
  BY <1>1, MigrationInvariant, PTL

(* A start never completes a commit whose reversal is recorded: the only   *)
(* steps that install a directory are those of a start whose record is not *)
(* marked, and the rename left behind.                                     *)
THEOREM ReversalKept == Spec => ReversalHonoured
<1> DEFINE Honoured == stage.at = "staging" /\ stage'.at = "root" /\ late = "none"
                         => ~stage.record.reversal
<1>1. MigrationInv /\ [Next]_vars => [Honoured]_vars
  <2> SUFFICES ASSUME MigrationInv, [Next]_vars, stage.at = "staging", stage'.at = "root",
                      late = "none"
               PROVE  ~stage.record.reversal
    OBVIOUS
  <2>1. stage \in Stages /\ (pc \in {"second", "complete"} => ~stage.record.reversal)
    BY DEF MigrationInv, Typed, RenameSafe
  <2>2. CASE SecondRename \/ Complete
    BY <2>1, <2>2 DEF SecondRename, Complete
  <2>3. CASE UNCHANGED stage
    BY <2>3
  <2>4. CASE DeleteStaging \/ CreateStaging
    BY <2>1, <2>4, NoStageIs, MovedStage DEF DeleteStaging, CreateStaging, Places
  <2>5. ASSUME NEW r, stage' = [stage EXCEPT !.record = r]
        PROVE  FALSE
    BY <2>1, <2>5 DEF Stages
  <2>6. ASSUME NEW f, NEW v, stage' = [stage EXCEPT !.files[f] = v]
        PROVE  FALSE
    BY <2>1, <2>6 DEF Stages
  <2>7. ASSUME NEW b, \/ stage' = [stage EXCEPT !.record.reversal = b]
                     \/ stage' = [stage EXCEPT !.record.missed = b]
        PROVE  FALSE
    BY <2>1, <2>5, <2>7, NestedRecord
  <2>8. CASE WriteRecord \/ RewriteRecord
    BY <2>5, <2>8 DEF WriteRecord, RewriteRecord
  <2>9. CASE ClearStaged \/ StageFile \/ StageTorn
    BY <2>3, <2>6, <2>9 DEF ClearStaged, StageFile, StageTorn, Refuse, disk
  <2>10. CASE Mark \/ Unmark \/ Report
    BY <2>3, <2>7, <2>10 DEF Mark, Unmark, Report, Refuse, disk
  <2>11. CASE LateRename
    BY <2>11 DEF LateRename
  <2>12. CASE \/ Prepare \/ LockRoute \/ LockBetween \/ Close \/ List \/ CheckFile \/ ReadFile
              \/ Verify \/ RestrictFile \/ CheckStaged \/ CheckNames \/ FirstRename \/ Back
              \/ SecondFails \/ LeaveRename
    BY <2>3, <2>12 DEF Prepare, LockRoute, LockBetween, Close, List, CheckFile, ReadFile, Verify,
           RestrictFile, CheckStaged, CheckNames, FirstRename, Back, SecondFails, LeaveRename,
           Acquire, Refuse, disk
  <2>13. CASE \/ Serve \/ Unprivileged \/ CopiesBegin \/ LeaveCopies \/ CopiesFail \/ Copy
              \/ RemoveDirectory \/ StopService \/ Cut \/ Exit
              \/ \E r \in Request \cup {NoRequest} : Start(r)
              \/ ConsoleStart \/ ConsoleStop \/ UNCHANGED vars
    BY <2>3, <2>13 DEF Serve, Unprivileged, CopiesBegin, LeaveCopies, CopiesFail, Copy, CopyDone,
           RemoveDirectory, StopService, Cut, Exit, Start, ConsoleStart, ConsoleStop, vars,
           Acquire, Refuse, disk
  <2>14. CASE (\E f \in Names : Swap({f})) \/ Swap(IdentityFiles)
    BY <2>3, <2>14 DEF Swap
  <2> QED
    BY <2>2, <2>4, <2>8, <2>9, <2>10, <2>11, <2>12, <2>13, <2>14 DEF Next, Step
<1> QED
  BY <1>1, MigrationInvariant, PTL DEF Spec, ReversalHonoured
=============================================================================
