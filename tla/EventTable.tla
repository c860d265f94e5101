----------------------------- MODULE EventTable -----------------------------
(***************************************************************************)
(* The ClickHouse table cges_events as detection reads it                  *)
(* (services/ingest/src/db/clickhouse-bootstrap.ts, the insert of          *)
(* routes/heartbeat.ts).                                                   *)
(*                                                                         *)
(* Each attempt at a POST is one INSERT.  ClickHouse stamps its rows with  *)
(* arrived_at, on its own clock, when it starts; they become visible       *)
(* later, one partition at a time.  A failed INSERT may leave a part of    *)
(* them, and the agent sends the POST again; POSTs go out in order, so the *)
(* next one is first sent when this one was answered.  The table is a      *)
(* ReplacingMergeTree(arrived_at): a merge keeps the latest of two rows    *)
(* with one event_id.                                                      *)
(*                                                                         *)
(* An event is its event_id.  ClickHouse orders the ids; nothing relates   *)
(* that order to the order of capture.                                     *)
(***************************************************************************)
EXTENDS Integers, Sequences, FiniteSets

CONSTANTS
    Posts,          \* the event ids of each POST, in the order they are sent
    Lag,            \* an INSERT is visible this long after its stamp
    Settle,         \* SETTLE_MARGIN_MS, 5000
    MaxTime,        \* bound: how far the clock runs
    MaxInserts      \* bound: INSERTs in a behaviour

(***************************************************************************)
(* The margin's assumption, stated in SPEC-018: an INSERT becomes visible  *)
(* before its stamp is a margin old.                                       *)
(***************************************************************************)
ASSUME EventTableAssumption ==
    /\ Posts \in Seq(SUBSET (Nat \ {0}))
    /\ Lag \in Nat /\ Settle \in Nat /\ Lag < Settle
    /\ MaxTime \in Nat /\ MaxInserts \in Nat

Event == UNION {Posts[p] : p \in DOMAIN Posts}

VARIABLES
    now,            \* ClickHouse's now64(3)
    inserts,        \* the INSERTs under way
    rows,           \* the visible rows
    acked,          \* how many POSTs were answered 200
    attempts        \* how many INSERTs were started

tableVars == <<now, inserts, rows, acked, attempts>>

Row == [at : Nat, id : Nat]

RowsOf(i, ids) == {[at |-> i.at, id |-> e] : e \in ids}

TableInit ==
    /\ now = 0
    /\ inserts = {}
    /\ rows = {}
    /\ acked = 0
    /\ attempts = 0

(***************************************************************************)
(* An attempt the agent gave up on may still be inserting when the next    *)
(* attempt starts.                                                         *)
(***************************************************************************)
StartInsert ==
    /\ acked < Len(Posts)
    /\ attempts < MaxInserts
    /\ attempts' = attempts + 1
    /\ inserts' = inserts \cup
         {[attempt |-> attempts + 1, post |-> acked + 1, at |-> now]}
    /\ UNCHANGED <<now, rows, acked>>

PartVisible ==
    \E i \in inserts : \E part \in SUBSET Posts[i.post] :
        /\ rows' = rows \cup RowsOf(i, part)
        /\ UNCHANGED <<now, inserts, acked, attempts>>

(***************************************************************************)
(* The answer may not reach the agent.                                     *)
(***************************************************************************)
EndInsert ==
    \E i \in inserts :
        /\ rows' = rows \cup RowsOf(i, Posts[i.post])
        /\ inserts' = inserts \ {i}
        /\ acked' \in {acked, IF i.post > acked THEN i.post ELSE acked}
        /\ UNCHANGED <<now, attempts>>

FailInsert ==
    \E i \in inserts :
        /\ inserts' = inserts \ {i}
        /\ UNCHANGED <<now, rows, acked, attempts>>

Merge ==
    \E r, s \in rows :
        /\ r.id = s.id /\ r.at < s.at
        /\ rows' = rows \ {r}
        /\ UNCHANGED <<now, inserts, acked, attempts>>

Clock ==
    /\ now < MaxTime
    /\ \A i \in inserts : now + 1 <= i.at + Lag
    /\ now' = now + 1
    /\ UNCHANGED <<inserts, rows, acked, attempts>>

TableNext ==
    StartInsert \/ PartVisible \/ EndInsert \/ FailInsert \/ Merge \/ Clock
=============================================================================
