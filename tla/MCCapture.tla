------------------------------ MODULE MCCapture ------------------------------
(* Capture for TLC: processes alone with PIDs reused up to three times and *)
(* two losses, logons alone with failures, and a little of both.           *)
EXTENDS Capture

MCBounds ==
    {[time |-> 4, queue |-> 3, lost |-> 2, logons |-> 0, failures |-> 0],
     [time |-> 1, queue |-> 1, lost |-> 1, logons |-> 4, failures |-> 2],
     [time |-> 2, queue |-> 1, lost |-> 1, logons |-> 1, failures |-> 1]}
=============================================================================
