------------------------------ MODULE Delivery ------------------------------
(***************************************************************************)
(* The secure path's delivery loop and its shutdown                        *)
(* (agent/cg-agent/src/delivery.rs, and run_secure_within of lib.rs).      *)
(*                                                                         *)
(* One POST is in flight at a time.  Control is in "loop" while the loop   *)
(* sleeps with no POST, in "attempt" while a request is out, in "backoff"  *)
(* between two attempts, in "teardown" while the capture sources stop      *)
(* after the shutdown signal, in "final" while the going_offline request   *)
(* is out.  It ends in "stopped"; in "expired" when the stop's deadline    *)
(* passed before the sources were down; in "failed" after a fatal TLS or   *)
(* signing error.                                                          *)
(*                                                                         *)
(* Time is abstracted: a heartbeat tick may be due at any iteration (the   *)
(* first always is), the oldest event may be 5000 ms old at any time, and  *)
(* a request may time out at any moment.  The overflow warning is logging  *)
(* and left out.                                                           *)
(***************************************************************************)
EXTENDS EventRing

CONSTANTS
    MaxBatch,       \* MAX_BATCH_EVENTS, 1024
    MaxRetries,     \* heartbeat.max_retries, 3 by default
    StopBudget,     \* TRUE when the stop has a deadline (the service)
    MaxEvents,      \* bound: events captured in a behaviour
    MaxTicks,       \* bound: heartbeat ticks in a behaviour
    MaxFaults       \* bound: timeouts, lost requests, server failures

ASSUME DeliveryAssumption ==
    /\ MaxBatch \in 1..Capacity
    /\ MaxRetries \in Nat \ {0}
    /\ StopBudget \in BOOLEAN
    /\ MaxEvents \in Nat /\ MaxTicks \in Nat /\ MaxFaults \in Nat

VARIABLES
    pc,                     \* where the delivery task is
    pending,                \* the POST in flight, or NoPost
    sequence,               \* the last sequence_number taken
    heartbeat_due,
    batch_post_since_tick,
    ticks,                  \* how many ticks the loop has handled
    undelivered,            \* what the stop reports, 0 before
    delivered,              \* history: acknowledged events, in order
    requests,               \* attempts the network or the server still hold
    nonces,                 \* how many nonces were drawn; one per attempt
    faults                  \* how much of MaxFaults is used

loopVars == <<pending, sequence, heartbeat_due, batch_post_since_tick, ticks>>
doneVars == <<undelivered, delivered>>
netVars  == <<requests, nonces, faults>>

NoPost == [sequence |-> 0, events |-> <<>>, transient_failures |-> 0,
           rejections |-> 0, attempts |-> 0]

Post == [sequence : Nat, events : Seq(Nat), transient_failures : Nat,
         rejections : Nat, attempts : Nat]

InFlight == pending.sequence # 0

Stage == {"sent", "accepted", "recorded", "ok", "refused", "unavailable"}

Request == [nonce : Nat, sequence : Nat, events : Seq(Nat), stage : Stage]

DeliveryInit ==
    /\ pc = "loop"
    /\ pending = NoPost
    /\ sequence = 0
    /\ heartbeat_due = FALSE
    /\ batch_post_since_tick = FALSE
    /\ ticks = 0
    /\ undelivered = 0
    /\ delivered = <<>>
    /\ requests = {}
    /\ nonces = 0
    /\ faults = 0

(***************************************************************************)
(* The capture callbacks run until the teardown has closed their sources.  *)
(* After a stop whose teardown outlived the deadline they still run.       *)
(***************************************************************************)
Capturing == pc \in {"loop", "attempt", "backoff", "teardown", "expired"}

EnqueueOrDrop ==
    /\ Capturing
    /\ captured < MaxEvents
    /\ Enqueue
    /\ UNCHANGED <<pc, loopVars, doneVars, netVars>>

(***************************************************************************)
(* The top of an iteration: the tick.                                      *)
(***************************************************************************)
DueAfter(tick) == heartbeat_due \/ (tick /\ ~batch_post_since_tick)

Tick(tick) ==
    /\ ticks = 0 => tick
    /\ tick => ticks < MaxTicks
    /\ ticks' = IF tick THEN ticks + 1 ELSE ticks

(***************************************************************************)
(* A defect of BatchDue: the age of the oldest event is not considered.    *)
(***************************************************************************)
BatchDueFull(aged) == Len(ring) >= MaxBatch

BatchDue(aged) == Len(ring) >= MaxBatch \/ (aged /\ Len(ring) > 0)

(***************************************************************************)
(* One attempt seals the POST with a fresh nonce and sends it.             *)
(***************************************************************************)
Send(batch) ==
    /\ nonces' = nonces + 1
    /\ requests' = requests \cup
         {[nonce |-> nonces + 1, sequence |-> batch.sequence,
           events |-> batch.events, stage |-> "sent"]}
    /\ UNCHANGED faults

FormBatch ==
    [sequence |-> sequence + 1, events |-> Drained(MaxBatch),
     transient_failures |-> 0, rejections |-> 0, attempts |-> 1]

Idle ==
    /\ pc = "loop"
    /\ \E tick \in BOOLEAN :
         /\ Tick(tick)
         /\ ~DueAfter(tick)
         /\ ~BatchDue(FALSE)
         /\ heartbeat_due' = FALSE
         /\ batch_post_since_tick' = (batch_post_since_tick /\ ~tick)
    /\ UNCHANGED <<pc, pending, sequence, ringVars, doneVars, netVars>>

FormPost ==
    /\ pc = "loop"
    /\ \E tick, aged \in BOOLEAN :
         /\ Tick(tick)
         /\ DueAfter(tick) \/ BatchDue(aged)
         /\ batch_post_since_tick' =
              (~DueAfter(tick) \/ (batch_post_since_tick /\ ~tick))
    /\ heartbeat_due' = FALSE
    /\ pending' = FormBatch
    /\ sequence' = sequence + 1
    /\ ring' = AfterDrain(MaxBatch)
    /\ Send(FormBatch)
    /\ pc' = "attempt"
    /\ UNCHANGED <<dropped_total, discarded, captured, doneVars>>

(***************************************************************************)
(* A defect of Resend: a retry takes what the ring gained meanwhile.       *)
(***************************************************************************)
ResendTopsUp ==
    LET batch == [pending EXCEPT !.attempts = @ + 1,
                  !.events = @ \o Drained(MaxBatch - Len(@))]
    IN  /\ pc = "backoff"
        /\ pending' = batch
        /\ ring' = AfterDrain(MaxBatch - Len(pending.events))
        /\ Send(batch)
        /\ pc' = "attempt"
        /\ UNCHANGED <<sequence, heartbeat_due, batch_post_since_tick, ticks,
                       dropped_total, discarded, captured, doneVars>>

(***************************************************************************)
(* A defect of Resend: the next retry forgets the heartbeat that fell due. *)
(***************************************************************************)
ResendForgets ==
    /\ pc = "backoff"
    /\ \E tick \in BOOLEAN :
         /\ Tick(tick)
         /\ heartbeat_due' = (tick /\ ~batch_post_since_tick)
         /\ batch_post_since_tick' = (batch_post_since_tick /\ ~tick)
    /\ pending' = [pending EXCEPT !.attempts = @ + 1]
    /\ Send(pending)
    /\ pc' = "attempt"
    /\ UNCHANGED <<sequence, ringVars, doneVars>>

Resend ==
    /\ pc = "backoff"
    /\ \E tick \in BOOLEAN :
         /\ Tick(tick)
         /\ heartbeat_due' = DueAfter(tick)
         /\ batch_post_since_tick' = (batch_post_since_tick /\ ~tick)
    /\ pending' = [pending EXCEPT !.attempts = @ + 1]
    /\ Send(pending)
    /\ pc' = "attempt"
    /\ UNCHANGED <<sequence, ringVars, doneVars>>

(***************************************************************************)
(* The outcome of the attempt whose request is the last one sent.          *)
(***************************************************************************)
Current == {r \in requests : r.nonce = nonces}

Answered(stages) == \E r \in Current : r.stage \in stages

Delivered ==
    /\ pc = "attempt"
    /\ Answered({"ok"})
    /\ delivered' = delivered \o pending.events
    /\ pending' = NoPost
    /\ requests' = requests \ Current
    /\ pc' = "loop"
    /\ UNCHANGED <<sequence, heartbeat_due, batch_post_since_tick, ticks,
                   undelivered, nonces, faults, ringVars>>

(***************************************************************************)
(* A defect of TransientFailure: a failed batch goes back to the ring, at  *)
(* its end.                                                                *)
(***************************************************************************)
TransientRequeue ==
    /\ pending' = NoPost
    /\ ring' = ring \o pending.events
    /\ pc' = "loop"
    /\ UNCHANGED <<sequence, heartbeat_due, batch_post_since_tick, ticks,
                   doneVars, nonces, dropped_total, discarded, captured>>

(***************************************************************************)
(* The counter only matters for a POST without events, so it saturates at  *)
(* MaxRetries.                                                             *)
(***************************************************************************)
TransientFailure ==
    LET failures == IF pending.transient_failures < MaxRetries
                    THEN pending.transient_failures + 1 ELSE MaxRetries
        give_up  == pending.events = <<>> /\ failures >= MaxRetries
    IN  /\ pending' = IF give_up THEN NoPost
                      ELSE [pending EXCEPT !.transient_failures = failures]
        /\ pc' = IF give_up THEN "loop" ELSE "backoff"
        /\ UNCHANGED <<sequence, heartbeat_due, batch_post_since_tick, ticks,
                       doneVars, ringVars, nonces>>

ServerUnavailable ==
    /\ pc = "attempt"
    /\ Answered({"unavailable"})
    /\ requests' = requests \ Current
    /\ TransientFailure
    /\ UNCHANGED faults

(***************************************************************************)
(* No answer came: the request timed out, or its connection broke or was   *)
(* closed.  What was sent stays with the server, which may still handle it.*)
(***************************************************************************)
Unanswered ==
    /\ IF Current = {} THEN UNCHANGED faults
       ELSE faults < MaxFaults /\ faults' = faults + 1
    /\ UNCHANGED requests

TimedOut ==
    /\ pc = "attempt"
    /\ Unanswered
    /\ TransientFailure

Rejected ==
    /\ pc = "attempt"
    /\ Answered({"refused"})
    /\ requests' = requests \ Current
    /\ LET rejections == pending.rejections + 1
       IN  IF rejections >= MaxRetries
           THEN /\ AddDropped(pending.events)
                /\ pending' = NoPost
                /\ pc' = "loop"
           ELSE /\ pending' = [pending EXCEPT !.rejections = rejections]
                /\ pc' = "backoff"
                /\ UNCHANGED <<dropped_total, discarded>>
    /\ UNCHANGED <<sequence, heartbeat_due, batch_post_since_tick, ticks,
                   doneVars, ring, captured, nonces, faults>>

(***************************************************************************)
(* A fatal TLS or signing failure ends the agent.  The request failed in   *)
(* its handshake, or was never made, and the handler does not see it; or   *)
(* the connection ended without a byte of answer, which the agent takes    *)
(* for a refusal of its certificate, even when the server died at work.    *)
(***************************************************************************)
Fatal ==
    /\ pc = "attempt"
    /\ \/ Answered({"sent"}) /\ requests' = requests \ Current /\ UNCHANGED faults
       \/ Unanswered
    /\ pc' = "failed"
    /\ UNCHANGED <<loopVars, doneVars, nonces, ringVars>>

(***************************************************************************)
(* Shutdown.  The signal is seen at every await of the loop; the POST in   *)
(* flight is kept for the final request.                                   *)
(***************************************************************************)
Shutdown ==
    /\ pc \in {"loop", "attempt", "backoff"}
    /\ pc' = "teardown"
    /\ UNCHANGED <<loopVars, doneVars, netVars, ringVars>>

TeardownExpired ==
    /\ StopBudget
    /\ pc = "teardown"
    /\ undelivered' = Len(ring) + Len(pending.events)
    /\ pc' = "expired"
    /\ UNCHANGED <<loopVars, delivered, netVars, ringVars>>

(***************************************************************************)
(* The sources are closed; finish sends the batch in flight, else the next *)
(* batch of the ring, which may be empty, as the going_offline request.    *)
(***************************************************************************)
Finish ==
    LET batch == IF InFlight THEN pending ELSE FormBatch
    IN  /\ pc = "teardown"
        /\ pending' = batch
        /\ sequence' = IF InFlight THEN sequence ELSE sequence + 1
        /\ ring' = IF InFlight THEN ring ELSE AfterDrain(MaxBatch)
        /\ Send(batch)
        /\ pc' = "final"
        /\ UNCHANGED <<heartbeat_due, batch_post_since_tick, ticks,
                       dropped_total, discarded, captured, doneVars>>

(***************************************************************************)
(* One attempt.  Whatever is not a 2xx leaves the batch undelivered: any   *)
(* other answer, a broken connection, the request's timeout or the stop's  *)
(* deadline.                                                               *)
(***************************************************************************)
FinalDelivered ==
    /\ pc = "final"
    /\ Answered({"ok"})
    /\ undelivered' = Len(ring)
    /\ delivered' = delivered \o pending.events
    /\ pending' = NoPost
    /\ requests' = requests \ Current
    /\ pc' = "stopped"
    /\ UNCHANGED <<sequence, heartbeat_due, batch_post_since_tick, ticks, nonces,
                   faults, ringVars>>

(***************************************************************************)
(* Defects of FinalFailed: the batch in flight is left out of the report;  *)
(* the final request has no timeout.                                       *)
(***************************************************************************)
FinalFailedUncounted ==
    /\ pc = "final"
    /\ Current = {} \/ Answered({"unavailable", "refused"})
    /\ undelivered' = Len(ring)
    /\ pc' = "stopped"
    /\ UNCHANGED <<loopVars, delivered, netVars, ringVars>>

FinalFailedNoTimeout ==
    /\ pc = "final"
    /\ Answered({"unavailable", "refused"})
    /\ undelivered' = Len(ring) + Len(pending.events)
    /\ pc' = "stopped"
    /\ UNCHANGED <<loopVars, delivered, netVars, ringVars>>

FinalFailed ==
    /\ pc = "final"
    /\ \/ Answered({"unavailable", "refused"}) /\ UNCHANGED faults
       \/ Current = {} /\ UNCHANGED faults
       \/ Current # {} /\ faults < MaxFaults /\ faults' = faults + 1
    /\ undelivered' = Len(ring) + Len(pending.events)
    /\ pc' = "stopped"
    /\ UNCHANGED <<loopVars, delivered, requests, nonces, ringVars>>

DeliveryNext ==
    \/ EnqueueOrDrop
    \/ Idle \/ FormPost \/ Resend
    \/ Delivered \/ ServerUnavailable \/ TimedOut \/ Rejected
    \/ Fatal \/ Shutdown \/ TeardownExpired
    \/ Finish \/ FinalDelivered \/ FinalFailed
=============================================================================
