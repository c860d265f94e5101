----------------------------- MODULE EventRing -----------------------------
(***************************************************************************)
(* The agent's bounded event ring (agent/cg-agent/src/etw/ring.rs).        *)
(*                                                                         *)
(* The capture callbacks enqueue at the back; on overflow the oldest event *)
(* is dropped and counted.  The delivery loop drains from the front.  Each *)
(* method holds the ring's mutex, so each is one step.                     *)
(*                                                                         *)
(* An event is its capture number: 1 is the first event enqueued, 2 the    *)
(* second, and so on.  Its class and content are abstracted.  A process    *)
(* event whose image name is empty is logged and not enqueued: it changes  *)
(* nothing here and has no number.                                         *)
(***************************************************************************)
EXTENDS Integers, Sequences, FiniteSets, Functions

CONSTANT
    Capacity        \* RING_CAPACITY, 65536 in lib.rs

ASSUME CapacityAssumption == Capacity \in Nat \ {0}

VARIABLES
    ring,           \* the VecDeque of events, oldest first
    dropped_total,  \* the AtomicU64 drop counter
    discarded,      \* history: the events that were dropped and counted
    captured        \* history: how many events were enqueued

ringVars == <<ring, dropped_total, discarded, captured>>

RingInit ==
    /\ ring = <<>>
    /\ dropped_total = 0
    /\ discarded = {}
    /\ captured = 0

(***************************************************************************)
(* Defects of Enqueue that the checks must catch: the capacity test is off *)
(* by one; an overflow is not counted.                                     *)
(***************************************************************************)
EnqueueOffByOne ==
    LET full == Len(ring) > Capacity
    IN  /\ captured' = captured + 1
        /\ ring' = Append(IF full THEN Tail(ring) ELSE ring, captured + 1)
        /\ dropped_total' = IF full THEN dropped_total + 1 ELSE dropped_total
        /\ discarded' = IF full THEN discarded \cup {Head(ring)} ELSE discarded

EnqueueUncounted ==
    LET full == Len(ring) >= Capacity
    IN  /\ captured' = captured + 1
        /\ ring' = Append(IF full THEN Tail(ring) ELSE ring, captured + 1)
        /\ UNCHANGED <<dropped_total, discarded>>

(***************************************************************************)
(* enqueue_or_drop of the next event.  A full ring loses its front first.  *)
(***************************************************************************)
Enqueue ==
    LET event == captured + 1
        full  == Len(ring) >= Capacity
    IN  /\ captured' = event
        /\ ring' = Append(IF full THEN Tail(ring) ELSE ring, event)
        /\ dropped_total' = IF full THEN dropped_total + 1 ELSE dropped_total
        /\ discarded' = IF full THEN discarded \cup {Head(ring)} ELSE discarded

(***************************************************************************)
(* drain_up_to(max): what it returns and what it leaves.                   *)
(***************************************************************************)
DrainCount(max) == IF max <= Len(ring) THEN max ELSE Len(ring)

Drained(max) == SubSeq(ring, 1, DrainCount(max))

AfterDrain(max) == SubSeq(ring, DrainCount(max) + 1, Len(ring))

(***************************************************************************)
(* A defect of AddDropped: a batch counts as one event.                    *)
(***************************************************************************)
AddDroppedOnce(events) ==
    /\ dropped_total' = dropped_total + 1
    /\ discarded' = discarded \cup Range(events)

(***************************************************************************)
(* add_dropped: a batch dropped outside the ring joins the count.          *)
(***************************************************************************)
AddDropped(events) ==
    /\ dropped_total' = dropped_total + Len(events)
    /\ discarded' = discarded \cup Range(events)
=============================================================================
