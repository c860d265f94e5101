---------------------------- MODULE EventPipeline ----------------------------
(***************************************************************************)
(* From capture to ClickHouse: the agent's ring and delivery loop composed *)
(* with the ingest service's heartbeat handler over a network that loses   *)
(* requests and answers, and delivers late what the agent gave up on.      *)
(***************************************************************************)
EXTENDS Delivery

VARIABLE stored

Server == INSTANCE IngestHeartbeat

agentVars == <<ringVars, pc, loopVars, doneVars, nonces>>

vars == <<ringVars, pc, loopVars, doneVars, netVars, stored>>

Init == RingInit /\ DeliveryInit /\ Server!ServerInit

AgentStep == DeliveryNext /\ UNCHANGED stored

ServerStep == Server!ServerNext /\ UNCHANGED agentVars

(***************************************************************************)
(* An answer nobody waits for: its attempt timed out, or the agent moved   *)
(* on or ended, and the connection is closed.                              *)
(***************************************************************************)
Unread ==
    /\ \E r \in requests :
         /\ r.stage \in {"ok", "refused", "unavailable"}
         /\ r \notin Current \/ pc \notin {"attempt", "final"}
         /\ requests' = requests \ {r}
    /\ UNCHANGED <<agentVars, faults, stored>>

(***************************************************************************)
(* An ended agent and an idle server: nothing is left to happen.           *)
(***************************************************************************)
Ended == pc \in {"stopped", "expired", "failed"}

Terminated == Ended /\ requests = {} /\ UNCHANGED vars

Next == AgentStep \/ ServerStep \/ Unread \/ Terminated

(***************************************************************************)
(* The loop's timers fire, a handler is run to its answer, a teardown and  *)
(* an attempt end: the agent's and the server's runtimes schedule them.    *)
(* Nothing makes an event be captured, a fault happen or a stop arrive.    *)
(***************************************************************************)
Fairness ==
    /\ WF_vars((FormPost \/ Resend \/ Finish) /\ UNCHANGED stored)
    /\ WF_vars((Delivered \/ ServerUnavailable \/ Rejected \/ TimedOut
                \/ FinalDelivered \/ FinalFailed)
               /\ UNCHANGED stored)
    /\ WF_vars((\E r \in Current : Server!Handle(r)) /\ UNCHANGED agentVars)

Spec == Init /\ [][Next]_vars /\ Fairness

-----------------------------------------------------------------------------
Captured == 1..captured

(***************************************************************************)
(* Type correctness, with the bounds that matter: the ring never outgrows  *)
(* its capacity and a POST never carries more than MaxBatch events.        *)
(***************************************************************************)
TypeOK ==
    /\ captured \in Nat
    /\ ring \in Seq(Nat) /\ Len(ring) <= Capacity
    /\ dropped_total \in Nat
    /\ discarded \subseteq Nat
    /\ pc \in {"loop", "attempt", "backoff", "teardown", "final", "stopped",
               "expired", "failed"}
    /\ sequence \in Nat
    /\ pending \in Post /\ Len(pending.events) <= MaxBatch
    /\ pending.transient_failures <= MaxRetries
    /\ pending.rejections < MaxRetries
    /\ heartbeat_due \in BOOLEAN /\ batch_post_since_tick \in BOOLEAN
    /\ ticks \in Nat /\ nonces \in Nat /\ faults \in Nat
    /\ undelivered \in Nat
    /\ delivered \in Seq(Nat)
    /\ requests \subseteq Request
    /\ stored \subseteq Nat

(***************************************************************************)
(* The strengthening the proofs of the next two properties need: the loop  *)
(* sleeps with no POST in flight, an attempt's request carries the POST's  *)
(* events, its nonce is the last one drawn, and a request answered 200 has *)
(* its events stored.                                                      *)
(***************************************************************************)
PostInv ==
    /\ pc = "loop" => ~InFlight
    /\ ~InFlight => pending.events = <<>>

WireInv ==
    /\ \A r \in requests : r.nonce <= nonces
    /\ pc \in {"attempt", "final"} =>
         \A r \in Current : r.events = pending.events
    /\ \A r \in requests : r.stage = "ok" => Range(r.events) \subseteq stored

(***************************************************************************)
(* At-least-once: what the agent lets go of as delivered is in ClickHouse, *)
(* whatever was lost, late, retried or partly inserted before              *)
(* (heartbeat.ts answers 200 only after its insert; delivery.rs clears the *)
(* POST only on a 2xx of the attempt it waits for).                        *)
(***************************************************************************)
AcknowledgedIsStored == Range(delivered) \subseteq stored

(***************************************************************************)
(* No event goes missing between the ring, the POST in flight, the         *)
(* acknowledgements and the dropped total, which counts an overflow and a  *)
(* rejected batch once each (ring.rs enqueue_or_drop and add_dropped,      *)
(* delivery.rs form_batch and drop_rejected).                              *)
(***************************************************************************)
NoEventUnaccounted ==
    captured = Len(delivered) + Len(pending.events) + Len(ring) + dropped_total

(***************************************************************************)
(* POSTs go out in order: acknowledged, in flight, buffered is the order   *)
(* of capture, across retries, overflows and the final request.            *)
(***************************************************************************)
CaptureOrder ==
    LET line == delivered \o pending.events \o ring
    IN  \A i, j \in 1..Len(line) : i < j => line[i] < line[j]

(***************************************************************************)
(* "The server never sees a later event first" (SPEC-017 Risks): when an   *)
(* event is stored, each earlier one is stored, was dropped and counted,   *)
(* or shares its POST; a late request of an abandoned attempt included.    *)
(***************************************************************************)
NoOvertaking ==
    \A e \in stored : \A f \in Captured :
        f < e => \/ f \in stored \cup discarded
                 \/ {e, f} \subseteq Range(pending.events)

(***************************************************************************)
(* Order from capture to storage: CaptureOrder in the agent, NoOvertaking  *)
(* in the table.                                                           *)
(***************************************************************************)
OrderKept == CaptureOrder /\ NoOvertaking

(***************************************************************************)
(* A sequence number names one batch: every attempt at a POST still on the *)
(* wire carries the same events, and two POSTs share none                  *)
(* (delivery.rs: a retry is the same POST).                                *)
(***************************************************************************)
OneBatchPerSequence ==
    \A r \in requests :
        /\ r.sequence = pending.sequence => r.events = pending.events
        /\ r.sequence # pending.sequence =>
             Range(r.events) \cap (Range(pending.events) \cup Range(ring)) = {}
        /\ \A q \in requests :
             IF q.sequence = r.sequence THEN q.events = r.events
             ELSE Range(q.events) \cap Range(r.events) = {}

(***************************************************************************)
(* What a stop reports bounds what is lost: every captured event that is   *)
(* neither stored nor counted as dropped is in the reported number         *)
(* (delivery.rs finish, "events not delivered before shutdown are lost").  *)
(***************************************************************************)
StopReportsLoss ==
    pc = "stopped" =>
        Cardinality(Captured \ (stored \cup discarded)) <= undelivered

(***************************************************************************)
(* Every captured event reaches ClickHouse or the dropped total unless the *)
(* agent ends: no retry state holds a batch for ever, and no event waits   *)
(* in the ring for company.  Again and again, so after the last capture at *)
(* the latest, nothing captured is outstanding.                            *)
(***************************************************************************)
EventsLeave == []<>(Captured \subseteq stored \cup discarded \/ Ended)

(***************************************************************************)
(* A heartbeat that fell due while a batch was retried is sent: it stays   *)
(* due until a POST after that batch is formed, however often the batch is *)
(* retried, and once the faults stop that POST is (delivery.rs run_until). *)
(***************************************************************************)
HeartbeatSent ==
    /\ heartbeat_due ~> (~heartbeat_due \/ Ended)
    /\ [][heartbeat_due /\ ~heartbeat_due' => sequence' > sequence]_vars

(***************************************************************************)
(* A stop ends, whatever the sources and the final request do              *)
(* (delivery.rs finish, lib.rs run_secure_within).                         *)
(***************************************************************************)
StopEnds == (pc = "teardown") ~> Ended

-----------------------------------------------------------------------------
(***************************************************************************)
(* The pipeline implements AtLeastOnce: the agent answers for what is in   *)
(* the ring and in the POST in flight, and lets go of an event only when   *)
(* it is stored or counted, overflow, rejection and the final request      *)
(* included.                                                               *)
(***************************************************************************)
Promise == INSTANCE AtLeastOnce WITH
    Event <- 1..MaxEvents, known <- Captured,
    held <- Range(ring) \cup Range(pending.events),
    store <- stored, dropped <- dropped_total, ended <- Ended,
    report <- undelivered

ImplementsAtLeastOnce == Promise!Init /\ [][Promise!Next]_(Promise!vars)

(***************************************************************************)
(* "up to max_retries attempts for one without" events (delivery.rs:16-17).*)
(* Transient failures and rejections are counted apart, so an empty POST   *)
(* that meets both is sent more often.                                     *)
(***************************************************************************)
EmptyPostAttempts == pending.events = <<>> => pending.attempts <= MaxRetries
=============================================================================
