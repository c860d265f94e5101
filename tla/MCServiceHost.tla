----------------------------- MODULE MCServiceHost -----------------------------
(* ServiceHost for TLC: three processes that take the lock and one fault;   *)
(* two of any kind and two faults; a service that captures and logs, with   *)
(* two faults and so a log that fails before RUNNING, during the capture or *)
(* the teardown; and two starts of a service that is not enrolled, with a   *)
(* log that rotates past its last archive and two faults.                   *)
EXTENDS ServiceHost

MCBounds ==
    {[procs |-> 3, kinds |-> {"service", "admin"}, enrolls |-> TRUE, records |-> 0, faults |-> 1],
     [procs |-> 2, kinds |-> Kinds, enrolls |-> TRUE, records |-> 0, faults |-> 2],
     [procs |-> 1, kinds |-> {"service"}, enrolls |-> TRUE, records |-> 3, faults |-> 2],
     [procs |-> 2, kinds |-> {"service"}, enrolls |-> FALSE, records |-> 5, faults |-> 2]}
=============================================================================
