------------------------------ MODULE RotatingLog ------------------------------
(***************************************************************************)
(* The service's size-bounded log (service/rotation.rs, opened by          *)
(* service/log_file.rs): an active file and numbered archives.  A rotation *)
(* is a sequence of file operations, any of which may fail (another        *)
(* process has the file open) or be the last before a crash.  The actions  *)
(* here change the log alone; ServiceHost composes them with the service.  *)
(*                                                                         *)
(* A file is named by its age: -1 the active file, 0 agent.rotating.jsonl, *)
(* n archive n.  Records are numbered in the order they are written, and a *)
(* file is the sequence of the numbers it holds.                           *)
(***************************************************************************)
EXTENDS Integers, Sequences, FiniteSets, Functions

CONSTANTS
    ARCHIVES,   \* the number of archives kept
    PerFile     \* how many records fill a file (MAX_FILE_BYTES)

ASSUME LogAssumption ==
    /\ ARCHIVES \in Nat \ {0}
    /\ PerFile \in Nat \ {0}

VARIABLES
    files,     \* the files that exist: name to content
    log,       \* the RotatingLog of the process that has the active file open
    written    \* how many records were written so far

logVars == <<files, log, written>>

ACTIVE == -1
ROTATING == 0
Names == ACTIVE..ARCHIVES

(* by: the process, 0 when no process has the file open; at: where its     *)
(* open() or write_record() is; place: the shift's counter; moved: the     *)
(* rename of the active file succeeded; failing: rotation_failing.         *)
Closed == [by |-> 0, at |-> "closed", open |-> FALSE, opening |-> FALSE, place |-> 0,
           moved |-> FALSE, unfinished |-> FALSE, failing |-> FALSE]

LogInit == files = <<>> /\ log = Closed /\ written = 0

exists(name) == name \in DOMAIN files
Full == Len(files[ACTIVE]) >= PerFile

(* std::fs::rename replaces what has the new name.                         *)
Renamed(old, new) ==
    [m \in (DOMAIN files \ {old}) \cup {new} |-> IF m = new THEN files[old] ELSE files[m]]
WithActive ==
    [m \in DOMAIN files \cup {ACTIVE} |-> IF exists(m) THEN files[m] ELSE <<>>]

-----------------------------------------------------------------------------
(* RotatingLog::open.  The active file is shared for reading alone, so it  *)
(* opens only while no other process has it open.  (A rotation closes its  *)
(* handle between two renames; an open by another process in that window   *)
(* is not modelled.)                                                       *)
OpenLog(p) ==
    /\ log.by = 0
    /\ files' = WithActive
    /\ LET unfinished == exists(ROTATING)
           full == exists(ACTIVE) /\ Full
       IN log' = [Closed EXCEPT !.by = p, !.open = TRUE, !.unfinished = unfinished,
                                !.opening = unfinished \/ full,
                                !.at = IF unfinished \/ full THEN "rotate" ELSE "idle"]
    /\ UNCHANGED written

(* write_record, up to the end of rotate_if_due when no rotation is tried: *)
(* none is due, or the last one failed less than a second ago.             *)
WriteRecord ==
    /\ log.at = "idle"
    /\ LET due == log.unfinished \/ Full
       IN \/ ~due /\ log' = [log EXCEPT !.at = "append"]
          \/ due /\ log' = [log EXCEPT !.at = "rotate"]
          \/ due /\ log.failing /\ log' = [log EXCEPT !.at = "append"]
    /\ UNCHANGED <<files, written>>

(* rotate: each operation either does what it says or fails.               *)
RenameActive(ok) ==
    /\ log.at = "rotate"
    /\ IF exists(ROTATING)
       THEN ok /\ log' = [log EXCEPT !.at = "free"] /\ UNCHANGED files
       ELSE /\ log' = [log EXCEPT !.at = "reopen", !.open = FALSE, !.moved = ok]
            /\ files' = IF ok THEN Renamed(ACTIVE, ROTATING) ELSE files
    /\ UNCHANGED written

Reopen(ok) ==
    /\ log.at = "reopen"
    /\ files' = IF ok THEN WithActive ELSE files
    /\ log' = [log EXCEPT !.open = ok, !.moved = FALSE,
                          !.unfinished = @ \/ (ok /\ log.moved),
                          !.at = IF ok /\ log.moved THEN "free" ELSE "stuck"]
    /\ UNCHANGED written

FreePlaces == {n \in 1..ARCHIVES : ~exists(n)}
FirstFree == CHOOSE n \in FreePlaces : \A m \in FreePlaces : n <= m

(* A rotation that takes the first place whatever it holds.                *)
FindFreeFirst(ok) ==
    /\ log.at = "free" /\ ok
    /\ log' = [log EXCEPT !.at = "shift", !.place = 0]
    /\ UNCHANGED <<files, written>>

(* With every place taken the oldest archive is deleted.                   *)
FindFree(ok) ==
    /\ log.at = "free"
    /\ IF FreePlaces # {}
       THEN ok /\ log' = [log EXCEPT !.at = "shift", !.place = FirstFree - 1] /\ UNCHANGED files
       ELSE IF ok
       THEN /\ log' = [log EXCEPT !.at = "shift", !.place = ARCHIVES - 1]
            /\ files' = [m \in DOMAIN files \ {ARCHIVES} |-> files[m]]
       ELSE log' = [log EXCEPT !.at = "stuck"] /\ UNCHANGED files
    /\ UNCHANGED written

ShiftArchive(ok) ==
    /\ log.at = "shift" /\ log.place > 0
    /\ IF ok
       THEN /\ files' = Renamed(log.place, log.place + 1)
            /\ log' = [log EXCEPT !.place = @ - 1]
       ELSE log' = [log EXCEPT !.at = "stuck"] /\ UNCHANGED files
    /\ UNCHANGED written

Rotated(ok) ==
    /\ log.at = "shift" /\ log.place = 0
    /\ IF ok
       THEN /\ files' = Renamed(ROTATING, 1)
            /\ log' = [log EXCEPT !.unfinished = FALSE, !.failing = FALSE, !.opening = FALSE,
                                  !.at = IF log.opening THEN "idle" ELSE "append"]
       ELSE log' = [log EXCEPT !.at = "stuck"] /\ UNCHANGED files
    /\ UNCHANGED written

Rotate(ok) ==
    RenameActive(ok) \/ Reopen(ok) \/ FindFree(ok) \/ ShiftArchive(ok) \/ Rotated(ok)

(* A failed rotation is put up with: the log goes on in the active file,   *)
(* reopened if need be.                                                    *)
PutUp ==
    /\ log.at = "stuck" /\ ~log.opening
    /\ files' = WithActive
    /\ log' = [log EXCEPT !.at = "append", !.open = TRUE, !.failing = TRUE]
    /\ UNCHANGED written

(* append; a first failure that a retry on the reopened file makes good is *)
(* no step of its own, and the part of a line it may leave no record.      *)
AppendRecord ==
    /\ log.at = "append"
    /\ files' = [files EXCEPT ![ACTIVE] = Append(@, written + 1)]
    /\ written' = written + 1
    /\ log' = [log EXCEPT !.at = "idle"]

(* A rotation failed while opening: open() returns the error.              *)
OpenRefused ==
    /\ log.at = "stuck" /\ log.opening
    /\ log' = Closed
    /\ UNCHANGED <<files, written>>

(* fail: rotation has kept failing, the active file could not be reopened  *)
(* or a record could not be written twice.                                 *)
LogFails ==
    /\ \/ log.at = "stuck" /\ ~log.opening /\ (log.failing \/ ~log.open)
       \/ log.at = "append"
    /\ log' = Closed
    /\ UNCHANGED <<files, written>>

(* The process ended: its handle is closed, its files are as they were.    *)
CloseLog(p) == log' = IF log.by = p THEN Closed ELSE log

-----------------------------------------------------------------------------
(* All the records the log keeps.                                          *)
Records == UNION {Range(files[n]) : n \in DOMAIN files}

(* The rotating log loses and reorders nothing: read from its oldest file  *)
(* to the active one it is the latest records in the order they were       *)
(* written, whatever operations of a rotation failed and wherever a crash  *)
(* cut one, and a record is gone only when every archive place was taken.  *)
LogKept ==
    /\ \A n \in DOMAIN files : \A i, j \in DOMAIN files[n] : i < j => files[n][i] < files[n][j]
    /\ \A m, n \in DOMAIN files : m > n => \A x \in Range(files[m]), y \in Range(files[n]) : x < y
    /\ \E gone \in 0..written : /\ Records = (gone + 1)..written
                                /\ gone > 0 => Cardinality(DOMAIN files) > ARCHIVES
=============================================================================
