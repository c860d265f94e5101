--------------------------- MODULE IngestHeartbeat ---------------------------
(***************************************************************************)
(* The ingest service's POST /v1/agents/heartbeat                          *)
(* (services/ingest/src/routes/heartbeat.ts).                              *)
(*                                                                         *)
(* Each request is handled by an async function of its own; the stores it  *)
(* awaits are the points where handlers interleave, with each other and    *)
(* with the agent, and where they fail.  A request's stage is where its    *)
(* handler is:                                                             *)
(*                                                                         *)
(*   "sent"         on the network, or waiting for the handler             *)
(*   "accepted"     validated, its nonce recorded in Redis                 *)
(*   "recorded"     its row is in ClickHouse heartbeats                    *)
(*   "ok"           its events are in ClickHouse cges_events; answered 200 *)
(*   "refused"      answered 400, 401 or 422                               *)
(*   "unavailable"  answered 503 or 500                                    *)
(*                                                                         *)
(* The reason of a refusal is abstracted: the agent tells apart only 2xx,  *)
(* 5xx and the rest, and any of the checks may refuse any request (a clock *)
(* that drifted, a restored database without the agent's row).  Every      *)
(* attempt has its own nonce, so none is refused as a replay (409).  The   *)
(* heartbeats table is append-only and read by nothing here, so its rows   *)
(* are left out; cges_events is a ReplacingMergeTree on event_id, a set.   *)
(***************************************************************************)
EXTENDS Integers, Sequences, Functions

CONSTANT MaxFaults  \* bound: failures in a behaviour, shared with the agent

VARIABLES
    requests,       \* the attempts the network or the server hold
    faults,
    stored          \* ClickHouse cges_events: the event ids with a row

ServerInit == stored = {}

Move(r, stage) == requests' = (requests \ {r}) \cup {[r EXCEPT !.stage = stage]}

Fault == faults < MaxFaults /\ faults' = faults + 1

(***************************************************************************)
(* Schema, certificate CN, agent row and timestamp, in this order, before  *)
(* anything is written; the signature is checked after the nonce is.       *)
(***************************************************************************)
Validate(r) ==
    /\ r.stage = "sent"
    /\ Move(r, "accepted") \/ Move(r, "refused")
    /\ UNCHANGED <<faults, stored>>

(***************************************************************************)
(* Postgres or Redis is unreachable, or the heartbeats insert fails.       *)
(***************************************************************************)
Unavailable(r) ==
    /\ r.stage \in {"sent", "accepted"}
    /\ Fault
    /\ Move(r, "unavailable")
    /\ UNCHANGED stored

InsertHeartbeat(r) ==
    /\ r.stage = "accepted"
    /\ Move(r, "recorded")
    /\ UNCHANGED <<faults, stored>>

(***************************************************************************)
(* A defect of InsertEvents: the answer does not wait for the insert.      *)
(***************************************************************************)
InsertEventsUnawaited(r) ==
    /\ r.stage = "recorded"
    /\ Move(r, "ok")
    /\ UNCHANGED <<faults, stored>>

(***************************************************************************)
(* No insert for a POST without events.  The last_seen update that follows *)
(* may fail; the answer is 200 either way.                                 *)
(***************************************************************************)
InsertEvents(r) ==
    /\ r.stage = "recorded"
    /\ stored' = stored \cup Range(r.events)
    /\ Move(r, "ok")
    /\ UNCHANGED faults

(***************************************************************************)
(* A batch that spans two partitions (days) is not inserted atomically, so *)
(* a failed insert may leave any part of it.                               *)
(***************************************************************************)
InsertEventsFails(r) ==
    /\ r.stage = "recorded"
    /\ r.events # <<>>
    /\ Fault
    /\ \E S \in SUBSET Range(r.events) : stored' = stored \cup S
    /\ Move(r, "unavailable")

(***************************************************************************)
(* The connection breaks before the handler has the request, or the answer *)
(* is lost; the process dies with every handler it was running.            *)
(***************************************************************************)
Lose(r) ==
    /\ r.stage \in {"sent", "ok", "refused", "unavailable"}
    /\ Fault
    /\ requests' = requests \ {r}
    /\ UNCHANGED stored

Crash ==
    /\ requests # {}
    /\ Fault
    /\ requests' = {}
    /\ UNCHANGED stored

Handle(r) ==
    Validate(r) \/ InsertHeartbeat(r) \/ InsertEvents(r)

Fail(r) == Unavailable(r) \/ InsertEventsFails(r) \/ Lose(r)

ServerNext ==
    \/ \E r \in requests : Handle(r) \/ Fail(r)
    \/ Crash
=============================================================================
