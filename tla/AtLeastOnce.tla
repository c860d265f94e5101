---------------------------- MODULE AtLeastOnce ----------------------------
(***************************************************************************)
(* What the event pipeline promises, without POSTs, retries or requests:   *)
(* the agent holds every event it captured until the store has it, or      *)
(* until it counts it as dropped; a stop reports how many it still holds.  *)
(*                                                                         *)
(* The store may gain an event at any time after its capture, also one     *)
(* that was dropped meanwhile (a request the agent gave up on arrives      *)
(* late): the promise is at least once, and a count of drops that never    *)
(* falls short.                                                            *)
(***************************************************************************)
EXTENDS Integers, FiniteSets

CONSTANT Event  \* the events that may be captured

VARIABLES
    known,      \* the events captured so far
    held,       \* the events the agent answers for
    store,      \* the events in the store
    dropped,    \* the agent's dropped total
    ended,      \* the agent stopped or failed
    report      \* what a stop reported

vars == <<known, held, store, dropped, ended, report>>

Init ==
    /\ known = {} /\ held = {} /\ store = {}
    /\ dropped = 0
    /\ ended = FALSE
    /\ report = 0

(***************************************************************************)
(* A new event; the buffer may have to drop one to take it.                *)
(***************************************************************************)
Capture ==
    \E e \in Event \ known :
        /\ known' = known \cup {e}
        /\ \/ held' = held \cup {e} /\ dropped' = dropped
           \/ \E lost \in held :
                /\ held' = (held \ {lost}) \cup {e}
                /\ dropped' = dropped + 1
        /\ UNCHANGED <<store, ended, report>>

Store ==
    /\ store \subseteq store' /\ store' \subseteq known
    /\ UNCHANGED <<known, held, dropped, ended, report>>

(***************************************************************************)
(* The agent lets go of events: of those that are stored for nothing, of   *)
(* the others by counting them.                                            *)
(***************************************************************************)
Release ==
    /\ ~ended
    /\ held' \subseteq held
    /\ held \ held' \subseteq store
    /\ UNCHANGED <<known, store, dropped, ended, report>>

Drop ==
    /\ ~ended
    /\ held' \subseteq held
    /\ dropped' = dropped + Cardinality(held \ held')
    /\ UNCHANGED <<known, store, ended, report>>

(***************************************************************************)
(* A stop may release once more, and reports what remains.                 *)
(***************************************************************************)
Stop ==
    /\ ~ended /\ ended' = TRUE
    /\ held' \subseteq held
    /\ held \ held' \subseteq store
    /\ report' = Cardinality(held')
    /\ UNCHANGED <<known, store, dropped>>

Fail ==
    /\ ~ended /\ ended' = TRUE
    /\ UNCHANGED <<known, held, store, dropped, report>>

Next == Capture \/ Store \/ Release \/ Drop \/ Stop \/ Fail

Spec == Init /\ [][Next]_vars
=============================================================================
