--------------------------- MODULE DetectionProofs ---------------------------
(***************************************************************************)
(* Proofs about DetectionCycle, for any posts, rules, playbooks, batch     *)
(* limit and number of faults.                                             *)
(*                                                                         *)
(* Everything rests on the settle margin: an INSERT under way is younger   *)
(* than every row that was read, so what appears later appears after the   *)
(* batch and after the cursor.                                             *)
(***************************************************************************)
EXTENDS DetectionCycle, FiniteSetTheorems, SequenceTheorems, WellFoundedInduction, TLAPS

-----------------------------------------------------------------------------
(* The cursor and the rows.                                                *)

(* The cursor of a new installation, before every row.                     *)
Start == [at |-> 0, id |-> 0]

(* The table as the INSERTs leave it: the next POST waits for its turn.    *)
TableTyped ==
    /\ now \in Nat /\ acked \in 0..Len(Posts)
    /\ rows \subseteq Row
    /\ \A i \in inserts : i.at \in Nat /\ i.post \in 1..Len(Posts) /\ i.post <= acked + 1

(* Stamps are not ahead of the clock, and an INSERT ends within the lag.   *)
Timely ==
    /\ \A r \in rows : r.at <= now
    /\ \A i \in inserts : i.at <= now /\ now <= i.at + Lag

(* What was read had settled.                                              *)
ReadSettled ==
    /\ batch \subseteq Row /\ evaluated \subseteq Row
    /\ \A r \in batch \cup evaluated : r.at + Settle <= now
    /\ cursor \in Row
    /\ cursor = Start \/ cursor.at + Settle <= now

(* The batch is what follows the cursor, without a gap.                    *)
BatchNext ==
    \A r \in batch :
        /\ Before(cursor, r)
        /\ \A s \in rows : Before(cursor, s) /\ Before(s, r) => s \in batch

RowsInv ==
    /\ TableTyped /\ Timely /\ ReadSettled /\ BatchNext
    /\ \A r \in rows : r.id # 0
    /\ NoRowSkipped

(* The order of the cursor is total.                                       *)
LEMMA TotalOrder ==
    ASSUME NEW r \in Row, NEW s \in Row
    PROVE  /\ UpTo(r, s) \/ Before(s, r)
           /\ ~(Before(r, s) /\ Before(s, r))
           /\ \A t \in Row : Before(r, s) /\ Before(s, t) => Before(r, t)
  BY DEF Row, Before, UpTo

(* An INSERT under way is stamped after everything that was read.          *)
LEMMA LaterStamp ==
    ASSUME TableTyped, Timely, ReadSettled, NEW i \in inserts
    PROVE  /\ \A r \in batch \cup evaluated : r.at < i.at
           /\ cursor = Start \/ cursor.at < i.at
  <1>1. Lag \in Nat /\ Settle \in Nat /\ Lag < Settle /\ now \in Nat /\ i.at \in Nat /\ now <= i.at + Lag
    BY EventTableAssumption DEF TableTyped, Timely
  <1>2. ASSUME NEW r \in batch \cup evaluated
        PROVE  r.at < i.at
    <2>1. r.at \in Nat /\ r.at + Settle <= now
      BY DEF ReadSettled, Row
    <2>. QED  BY <1>1, <2>1
  <1>3. ASSUME cursor # Start
        PROVE  cursor.at < i.at
    <2>1. cursor.at \in Nat /\ cursor.at + Settle <= now
      BY <1>3 DEF ReadSettled, Row
    <2>. QED  BY <1>1, <2>1
  <1>. QED  BY <1>2, <1>3

(* Rows an INSERT makes visible: events of its POST, with its stamp.       *)
LEMMA NewRow ==
    ASSUME TableTyped, Timely, NEW i \in inserts, NEW part \in SUBSET Posts[i.post],
           NEW s \in RowsOf(i, part)
    PROVE  s \in Row /\ s.at = i.at /\ s.id \in part /\ s.id # 0 /\ s.at <= now
  <1>1. part \subseteq Nat \ {0}
    <2>1. i.post \in 1..Len(Posts)
      BY DEF TableTyped
    <2>. QED  BY <2>1, EventTableAssumption
  <1>2. PICK e \in part : s = [at |-> i.at, id |-> e]
    BY DEF RowsOf
  <1>. QED  BY <1>1, <1>2 DEF Row, TableTyped, Timely

(* New rows of an INSERT are behind nothing: not the cursor, not the batch.*)
LEMMA AppearsAhead ==
    ASSUME RowsInv, NEW i \in inserts, NEW part \in SUBSET Posts[i.post],
           rows' = rows \cup RowsOf(i, part), inserts' \subseteq inserts, now' = now,
           acked' \in {acked, IF i.post > acked THEN i.post ELSE acked},
           UNCHANGED <<batch, cursor, evaluated>>
    PROVE  RowsInv'
  <1>1. \A s \in RowsOf(i, part) : s \in Row /\ s.at = i.at /\ s.id # 0 /\ s.at <= now
    BY NewRow DEF RowsInv
  <1>2. /\ \A r \in batch \cup evaluated : r.at < i.at /\ r \in Row
        /\ cursor = Start \/ cursor.at < i.at
        /\ cursor \in Row
    BY LaterStamp DEF RowsInv, ReadSettled
  <1>3. /\ acked \in Nat /\ Len(Posts) \in Nat /\ i.post \in 1..Len(Posts) /\ i.at \in Nat
        /\ acked' \in 0..Len(Posts) /\ acked' >= acked
    BY EventTableAssumption DEF RowsInv, TableTyped
  <1>4. TableTyped'
    <2>1. \A j \in inserts' : j.at \in Nat /\ j.post \in 1..Len(Posts) /\ j.post <= acked' + 1
      BY <1>3 DEF RowsInv, TableTyped
    <2>. QED  BY <1>1, <1>3, <2>1 DEF RowsInv, TableTyped
  <1>5. Timely'
    BY <1>1 DEF RowsInv, Timely
  <1>6. ReadSettled'
    BY DEF RowsInv, ReadSettled
  <1>7. ASSUME NEW s \in RowsOf(i, part)
        PROVE  ~UpTo(s, cursor)
    BY <1>1, <1>2, <1>3, <1>7 DEF Row, Start, UpTo, Before
  <1>8. ASSUME NEW r \in batch, NEW s \in RowsOf(i, part)
        PROVE  ~Before(s, r)
    BY <1>1, <1>2, <1>3, <1>8 DEF Row, Before
  <1>9. BatchNext'
    BY <1>8 DEF RowsInv, BatchNext, Before
  <1>10. NoRowSkipped'
    BY <1>7 DEF RowsInv, NoRowSkipped, UpTo, Before
  <1>. QED  BY <1>1, <1>4, <1>5, <1>6, <1>9, <1>10 DEF RowsInv

(* A table step (an INSERT, its rows, a merge, the clock) keeps RowsInv.   *)
LEMMA TableRows ==
    ASSUME RowsInv, TableNext, UNCHANGED <<batch, cursor, evaluated>>
    PROVE  RowsInv'
  <1>0. now \in Nat /\ acked \in Nat /\ Len(Posts) \in Nat /\ Lag \in Nat
    BY EventTableAssumption DEF RowsInv, TableTyped
  <1>1. CASE StartInsert
    <2>. DEFINE i == [attempt |-> attempts + 1, post |-> acked + 1, at |-> now]
    <2>1. /\ inserts' = inserts \cup {i} /\ acked < Len(Posts) /\ UNCHANGED <<now, rows, acked>>
      BY <1>1 DEF StartInsert
    <2>2. i.at = now /\ i.post = acked + 1
      OBVIOUS
    <2>. HIDE DEF i
    <2>3. TableTyped'
      BY <1>0, <2>1, <2>2 DEF RowsInv, TableTyped
    <2>4. Timely'
      BY <1>0, <2>1, <2>2 DEF RowsInv, Timely
    <2>. QED  BY <2>1, <2>3, <2>4 DEF RowsInv, ReadSettled, BatchNext, NoRowSkipped, Before, UpTo
  <1>2. CASE PartVisible
    BY <1>2, AppearsAhead DEF PartVisible
  <1>3. CASE EndInsert
    <2>1. PICK i \in inserts :
              /\ rows' = rows \cup RowsOf(i, Posts[i.post])
              /\ inserts' = inserts \ {i}
              /\ acked' \in {acked, IF i.post > acked THEN i.post ELSE acked}
              /\ now' = now
      BY <1>3 DEF EndInsert
    <2>2. Posts[i.post] \in SUBSET Posts[i.post] /\ inserts' \subseteq inserts
      BY <2>1
    <2>. QED  BY <2>1, <2>2, AppearsAhead
  <1>4. CASE FailInsert
    BY <1>4 DEF FailInsert, RowsInv, TableTyped, Timely, ReadSettled, BatchNext, NoRowSkipped, Before, UpTo
  <1>5. CASE Merge
    <2>1. rows' \subseteq rows /\ UNCHANGED <<now, inserts, acked>>
      BY <1>5 DEF Merge
    <2>. QED  BY <2>1 DEF RowsInv, TableTyped, Timely, ReadSettled, BatchNext, NoRowSkipped, Before, UpTo
  <1>6. CASE Clock
    <2>1. /\ now' = now + 1 /\ UNCHANGED <<inserts, rows, acked>>
          /\ \A i \in inserts : now + 1 <= i.at + Lag
      BY <1>6 DEF Clock
    <2>2. TableTyped'
      BY <1>0, <2>1 DEF RowsInv, TableTyped
    <2>3. Timely'
      BY <1>0, <2>1 DEF RowsInv, TableTyped, Timely, Row
    <2>4. ReadSettled'
      <3>1. ASSUME NEW r \in batch' \cup evaluated'
            PROVE  r.at + Settle <= now'
        BY <1>0, <2>1, <3>1, EventTableAssumption DEF RowsInv, ReadSettled, Row
      <3>2. cursor' = Start \/ cursor'.at + Settle <= now'
        BY <1>0, <2>1, EventTableAssumption DEF RowsInv, ReadSettled, Row
      <3>. QED  BY <3>1, <3>2 DEF RowsInv, ReadSettled
    <2>. QED  BY <2>1, <2>2, <2>3, <2>4 DEF RowsInv, BatchNext, NoRowSkipped, Before, UpTo
  <1>. QED  BY <1>1, <1>2, <1>3, <1>4, <1>5, <1>6 DEF TableNext

(* The forward read takes the rows after the cursor from the front.        *)
LEMMA ReadRows ==
    ASSUME RowsInv, NEW b \in SUBSET NewRows, Limited(b), batch' = b,
           UNCHANGED <<tableVars, cursor, evaluated>>
    PROVE  RowsInv'
  <1>1. \A r \in NewRows : r \in rows /\ r \in Row /\ Before(cursor, r) /\ r.at + Settle <= now
    BY DEF NewRows, Settled, RowsInv, TableTyped
  <1>2. ASSUME NEW r \in b, NEW s \in rows, Before(cursor, s), Before(s, r)
        PROVE  s \in b
    <2>1. r \in NewRows /\ r \in Row /\ s \in Row
      BY <1>1 DEF RowsInv, TableTyped
    <2>2. s.at <= r.at
      BY <1>2, <2>1 DEF Before, Row
    <2>3. s.at + Settle <= now
      BY <1>1, <2>1, <2>2, EventTableAssumption DEF Row, RowsInv, TableTyped
    <2>4. s \in NewRows
      BY <1>2, <2>3 DEF NewRows, Settled
    <2>5. ~Before(r, s)
      BY <1>2, <2>1, TotalOrder
    <2>. QED  BY <2>4, <2>5 DEF Limited
  <1>3. BatchNext'
    BY <1>1, <1>2 DEF BatchNext, Before, tableVars
  <1>4. ReadSettled'
    BY <1>1 DEF RowsInv, ReadSettled, tableVars
  <1>. QED  BY <1>3, <1>4 DEF RowsInv, TableTyped, Timely, NoRowSkipped, UpTo, Before, tableVars

(* The cursor moves over the batch, and only over the batch.               *)
LEMMA AdvanceRows ==
    ASSUME RowsInv, NEW r \in batch, \A s \in batch : UpTo(s, r), cursor' = r,
           evaluated' = evaluated \cup batch, batch' = {}, UNCHANGED tableVars
    PROVE  RowsInv'
  <1>1. ASSUME NEW s \in rows, UpTo(s, r)
        PROVE  s \in evaluated \cup batch
    <2>1. s \in Row /\ cursor \in Row
      BY DEF RowsInv, TableTyped, ReadSettled
    <2>2. CASE UpTo(s, cursor)
      BY <2>2 DEF RowsInv, NoRowSkipped
    <2>3. CASE Before(cursor, s)
      <3>1. s = r \/ Before(s, r)
        BY <1>1 DEF UpTo
      <3>. QED  BY <2>3, <3>1 DEF RowsInv, BatchNext
    <2>. QED  BY <2>1, <2>2, <2>3, TotalOrder
  <1>2. NoRowSkipped'
    BY <1>1 DEF NoRowSkipped, UpTo, Before, tableVars
  <1>3. ReadSettled'
    BY DEF RowsInv, ReadSettled, tableVars
  <1>. QED  BY <1>2, <1>3 DEF RowsInv, TableTyped, Timely, BatchNext, tableVars

(* What a step does to the rows read.                                      *)
LEMMA RowSteps ==
    ASSUME [Next]_vars
    PROVE  \/ TableNext /\ UNCHANGED <<batch, cursor, evaluated>>
           \/ /\ batch' \in {b \in SUBSET NewRows : Limited(b)}
              /\ UNCHANGED <<tableVars, cursor, evaluated>>
           \/ /\ cursor' \in {r \in batch : \A s \in batch : UpTo(s, r)}
              /\ evaluated' = evaluated \cup batch /\ batch' = {} /\ UNCHANGED tableVars
           \/ batch' \in {batch, {}} /\ UNCHANGED <<tableVars, cursor, evaluated>>
  <1>1. CASE Table
    BY <1>1 DEF Table, cycleVars, storeVars
  <1>2. CASE ReadNewEvents
    BY <1>2 DEF ReadNewEvents, EndCycle, EndPass, Forget, storeVars
  <1>3. CASE AdvanceCursor
    BY <1>3 DEF AdvanceCursor, EndCycle, EndPass, Forget
  <1>4. CASE StartPass \/ ResolveParents \/ UpsertAlert \/ UpsertIncident \/ NotifyIncidentCreated
             \/ RunPlaybooks \/ PlaybookFault \/ Stop \/ UNCHANGED vars
    BY <1>4 DEF StartPass, ResolveParents, UpsertAlert, UpsertIncident, NotifyIncidentCreated,
                RunPlaybooks, PlaybookFault, Stop, vars, cycleVars, storeVars
  <1>5. CASE Abort \/ Crash
    BY <1>5 DEF Abort, Crash, EndPass, Forget, storeVars
  <1>. QED  BY <1>1, <1>2, <1>3, <1>4, <1>5 DEF Next, Cycle, Closed

(* RowsInv is inductive (read-model.ts readNewEvents, index.ts the         *)
(* cursor's UPSERT).                                                       *)
LEMMA RowsStep == RowsInv /\ [Next]_vars => RowsInv'
  <1>. SUFFICES ASSUME RowsInv, [Next]_vars
                PROVE  RowsInv'
    OBVIOUS
  <1>1. CASE TableNext /\ UNCHANGED <<batch, cursor, evaluated>>
    BY <1>1, TableRows
  <1>2. CASE /\ batch' \in {b \in SUBSET NewRows : Limited(b)}
             /\ UNCHANGED <<tableVars, cursor, evaluated>>
    BY <1>2, ReadRows
  <1>3. CASE /\ cursor' \in {r \in batch : \A s \in batch : UpTo(s, r)}
             /\ evaluated' = evaluated \cup batch /\ batch' = {} /\ UNCHANGED tableVars
    BY <1>3, AdvanceRows
  <1>4. CASE batch' \in {batch, {}} /\ UNCHANGED <<tableVars, cursor, evaluated>>
    BY <1>4 DEF RowsInv, TableTyped, Timely, ReadSettled, BatchNext, NoRowSkipped, Before, UpTo, tableVars
  <1>. QED  BY <1>1, <1>2, <1>3, <1>4, RowSteps

(* With no rows and the cursor at its start, RowsInv holds.                *)
LEMMA RowsInit == Init => RowsInv
  <1>1. Len(Posts) \in Nat
    BY EventTableAssumption
  <1>. QED  BY <1>1 DEF Init, TableInit, RowsInv, TableTyped, Timely, ReadSettled, BatchNext,
                NoRowSkipped, Row, Start

(***************************************************************************)
(* No row is skipped: the cursor never passes a row that was not           *)
(* evaluated, whatever appears late, in parts or again (read-model.ts      *)
(* readNewEvents, index.ts).                                               *)
(***************************************************************************)
THEOREM RowsNotSkipped == Spec => []NoRowSkipped
  <1>1. RowsInv => NoRowSkipped
    BY DEF RowsInv
  <1>. QED  BY <1>1, RowsInit, RowsStep, PTL DEF Spec

-----------------------------------------------------------------------------
(* The matches.                                                            *)

(* A rule that wants event e, once the parent's image is there.            *)
Wanted(e, r) == <<e, r>> \in Matches /\ (r \in NeedsParent => Parent[e] # 0)

(* A row a later INSERT of the same event outdates.                        *)
Outdated(s) == \E t \in rows : t.id = s.id /\ s.at < t.at

(* An event whose POST ingest has answered.                                *)
Posted(e) == \E p \in 1..acked : e \in Posts[p]

(* Every event of an answered POST has a row: ingest answers after the     *)
(* INSERT.                                                                 *)
AckedStored == \A p \in 1..acked : \A e \in Posts[p] : Stored(e)

(* An event whose POST was answered has its alerts, or a later row.        *)
Settles(s, r) ==
    Wanted(s.id, r) /\ Posted(s.id) => Known(<<s.id, r>>) \/ Outdated(s)

(* Where the matches of the batch are being written.                       *)
Writing == {"match", "group", "notify", "claim", "steps"}

(* What was evaluated settles; what is being evaluated settles or is still *)
(* to do.                                                                  *)
MatchInv ==
    /\ AckedStored
    /\ \A s \in evaluated, r \in Rule : Settles(s, r)
    /\ pc \in Writing =>
         \A s \in batch, r \in Rule : Settles(s, r) \/ <<s, r>> \in work

(* A set of naturals that is not empty has a least element.                *)
LEMMA LeastNatural ==
    ASSUME NEW T \in SUBSET Nat, T # {}
    PROVE  \E x \in T : \A y \in T : x <= y
  <1>1. \E x \in T : \A y \in T : ~(<<y, x>> \in OpToRel(<, Nat))
    BY NatLessThanWellFounded, WFMin
  <1>2. PICK x \in T : \A y \in T : ~(<<y, x>> \in OpToRel(<, Nat))
    BY <1>1
  <1>3. \A y \in T : ~(y < x)
    BY <1>2 DEF OpToRel
  <1>. QED  BY <1>3

(* One of the rows of a stored event is the latest.                        *)
LEMMA LatestRow ==
    ASSUME RowsInv, NEW e, Stored(e)
    PROVE  \E s \in rows : s.id = e /\ ~Outdated(s)
  <1>. DEFINE T == {now - s.at : s \in {x \in rows : x.id = e}}
  <1>1. \A s \in rows : s.at \in Nat /\ s.at <= now /\ now \in Nat
    BY DEF RowsInv, TableTyped, Timely, Row
  <1>2. T \in SUBSET Nat /\ T # {}
    BY <1>1 DEF Stored
  <1>3. PICK x \in T : \A y \in T : x <= y
    <2>. HIDE DEF T
    <2>. QED  BY <1>2, LeastNatural
  <1>4. PICK s \in rows : s.id = e /\ x = now - s.at
    OBVIOUS
  <1>5. \A t \in rows : t.id = e => now - s.at <= now - t.at
    BY <1>3, <1>4
  <1>. QED  BY <1>1, <1>4, <1>5 DEF Outdated

(* MatchInv gives completeness: the latest row of the event settles.       *)
LEMMA CompleteMatches ==
    ASSUME RowsInv, MatchInv
    PROVE  NoMissedMatch
  <1>. SUFFICES ASSUME NEW p \in 1..acked, NEW e \in Posts[p], NEW r \in Rule,
                       <<e, r>> \in Matches, r \in NeedsParent => Parent[e] # 0,
                       \A s \in rows : s.id = e => UpTo(s, cursor)
                PROVE  Known(<<e, r>>)
    BY DEF NoMissedMatch
  <1>1. PICK s \in rows : s.id = e /\ ~Outdated(s)
    BY LatestRow DEF MatchInv, AckedStored
  <1>2. s \in evaluated
    BY <1>1 DEF RowsInv, NoRowSkipped
  <1>. QED  BY <1>1, <1>2 DEF MatchInv, Settles, Wanted, Posted

(* A row that settles goes on to: alerts stay, and a merge keeps the last. *)
LEMMA StillSettles ==
    ASSUME NEW s, NEW r, Settles(s, r), alerts \subseteq alerts',
           Outdated(s) => Outdated(s)', Posted(s.id)' => Posted(s.id) \/ Outdated(s)'
    PROVE  Settles(s, r)'
  BY DEF Settles, Wanted, Known, DedupKey

(* A table step keeps MatchInv: an INSERT only adds rows, a merge keeps    *)
(* the latest.                                                             *)
LEMMA TableMatches ==
    ASSUME RowsInv, MatchInv, TableNext, UNCHANGED <<batch, evaluated, alerts, work, pc>>
    PROVE  MatchInv'
  <1>0. /\ acked \in Nat /\ now \in Nat
        /\ \A r \in rows : r.at \in Nat
    BY DEF RowsInv, TableTyped, Row
  <1>1. ASSUME \A e : Stored(e) => Stored(e)', acked' = acked,
               \A s \in batch \cup evaluated : Outdated(s) => Outdated(s)'
        PROVE  MatchInv'
    <2>1. AckedStored'
      BY <1>1 DEF MatchInv, AckedStored
    <2>2. ASSUME NEW s \in batch \cup evaluated, NEW r \in Rule, Settles(s, r)
          PROVE  Settles(s, r)'
      <3>1. Posted(s.id)' => Posted(s.id)
        BY <1>1 DEF Posted
      <3>. QED  BY <1>1, <2>2, <3>1, StillSettles
    <2>. QED  BY <2>1, <2>2 DEF MatchInv
  <1>2. CASE StartInsert \/ PartVisible \/ FailInsert \/ Clock
    <2>1. rows \subseteq rows' /\ acked' = acked
      BY <1>2 DEF StartInsert, PartVisible, FailInsert, Clock
    <2>. QED  BY <1>1, <2>1 DEF Stored, Outdated
  <1>3. CASE Merge
    <2>1. PICK r, u \in rows : r.id = u.id /\ r.at < u.at /\ rows' = rows \ {r} /\ acked' = acked
      BY <1>3 DEF Merge
    <2>2. \A e : Stored(e) => Stored(e)'
      BY <1>0, <2>1 DEF Stored
    <2>3. ASSUME NEW s \in batch \cup evaluated, Outdated(s)
          PROVE  Outdated(s)'
      <3>1. s.at \in Nat
        BY DEF RowsInv, ReadSettled, Row
      <3>2. PICK t \in rows : t.id = s.id /\ s.at < t.at
        BY <2>3 DEF Outdated
      <3>. QED  BY <1>0, <2>1, <3>1, <3>2 DEF Outdated
    <2>. QED  BY <1>1, <2>1, <2>2, <2>3
  <1>4. CASE EndInsert
    <2>1. PICK i \in inserts :
              /\ rows' = rows \cup RowsOf(i, Posts[i.post])
              /\ acked' \in {acked, IF i.post > acked THEN i.post ELSE acked}
      BY <1>4 DEF EndInsert
    <2>2. i.post \in Nat /\ i.post <= acked + 1 /\ acked' \in Nat
          /\ \A p \in 1..acked' : p \in 1..acked \/ p = i.post
      BY <1>0, <2>1 DEF RowsInv, TableTyped
    <2>3. \A e \in Posts[i.post] : [at |-> i.at, id |-> e] \in rows'
      BY <2>1 DEF RowsOf
    <2>4. rows \subseteq rows'
      BY <2>1
    <2>5. AckedStored'
      <3>. SUFFICES ASSUME NEW p \in 1..acked', NEW e \in Posts[p]
                    PROVE  Stored(e)'
        BY DEF AckedStored
      <3>1. CASE p \in 1..acked
        BY <2>4, <3>1 DEF MatchInv, AckedStored, Stored
      <3>2. CASE p = i.post
        <4>1. [at |-> i.at, id |-> e] \in rows' /\ [at |-> i.at, id |-> e].id = e
          BY <2>3, <3>2
        <4>. QED  BY <4>1 DEF Stored
      <3>. QED  BY <2>2, <3>1, <3>2
    <2>6. ASSUME NEW s \in batch \cup evaluated, NEW r \in Rule, Settles(s, r)
          PROVE  Settles(s, r)'
      <3>1. s.at < i.at
        BY LaterStamp DEF RowsInv
      <3>2. ASSUME Posted(s.id)', ~Posted(s.id)
            PROVE  Outdated(s)'
        <4>. DEFINE t == [at |-> i.at, id |-> s.id]
        <4>1. s.id \in Posts[i.post]
          BY <2>2, <3>2 DEF Posted
        <4>2. t \in rows' /\ t.id = s.id /\ s.at < t.at
          BY <2>3, <3>1, <4>1
        <4>. QED  BY <4>2 DEF Outdated
      <3>3. Outdated(s) => Outdated(s)'
        BY <2>4 DEF Outdated
      <3>. QED  BY <2>6, <3>2, <3>3, StillSettles
    <2>. QED  BY <2>5, <2>6 DEF MatchInv
  <1>. QED  BY <1>2, <1>3, <1>4 DEF TableNext

(* When the parent is looked for, it is stored if the child was answered.  *)
LEMMA ResolveMatches ==
    ASSUME RowsInv, MatchInv, UNCHANGED <<tableVars, batch, evaluated, alerts>>,
           work' = {m \in batch \X Rule : Matched(m[1].id, m[2])}
    PROVE  MatchInv'
  <1>0. /\ acked' = acked /\ rows' = rows /\ alerts' = alerts
    BY DEF tableVars
  <1>1. ASSUME NEW s \in batch, NEW r \in Rule, Wanted(s.id, r), Posted(s.id)
        PROVE  <<s, r>> \in work'
    <2>1. PICK p \in 1..acked : s.id \in Posts[p]
      BY <1>1 DEF Posted
    <2>2. ASSUME r \in NeedsParent
          PROVE  Parent[s.id] # 0 /\ Stored(Parent[s.id])
      <3>1. p \in DOMAIN Posts /\ p \in 1..acked /\ acked \in Nat
        BY <2>1, EventTableAssumption DEF RowsInv, TableTyped
      <3>2. Parent[s.id] # 0
        BY <1>1, <2>2 DEF Wanted
      <3>3. PICK q \in 1..p : Parent[s.id] \in Posts[q]
        BY <2>1, <3>1, <3>2, DetectionAssumption
      <3>4. q \in 1..acked
        BY <3>1, <3>3
      <3>. QED  BY <3>2, <3>3, <3>4 DEF MatchInv, AckedStored
    <2>3. Matched(s.id, r)
      BY <1>1, <2>2 DEF Wanted, Matched
    <2>. QED  BY <2>3
  <1>2. ASSUME NEW s \in batch, NEW r \in Rule
        PROVE  Settles(s, r)' \/ <<s, r>> \in work'
    BY <1>0, <1>1 DEF Settles, Wanted, Posted
  <1>3. AckedStored'
    BY <1>0 DEF MatchInv, AckedStored, Stored
  <1>4. ASSUME NEW s \in evaluated, NEW r \in Rule
        PROVE  Settles(s, r)'
    BY <1>0 DEF MatchInv, Settles, Wanted, Posted, Outdated, Known, DedupKey
  <1>. QED  BY <1>2, <1>3, <1>4 DEF MatchInv

(* A match that leaves the work has its alert.                             *)
LEMMA AlertMatches ==
    ASSUME MatchInv, pc \in Writing, NEW m \in work, work' = work \ {m},
           alerts \subseteq alerts', Known(Match(m))',
           UNCHANGED <<tableVars, batch, evaluated>>
    PROVE  MatchInv'
  <1>0. acked' = acked /\ rows' = rows
    BY DEF tableVars
  <1>1. ASSUME NEW s, NEW r, Settles(s, r)
        PROVE  Settles(s, r)'
    BY <1>0, <1>1, StillSettles DEF Outdated, Posted
  <1>2. ASSUME NEW s \in batch, NEW r \in Rule
        PROVE  Settles(s, r)' \/ <<s, r>> \in work'
    <2>1. CASE Settles(s, r)
      BY <1>1, <2>1
    <2>2. CASE <<s, r>> = m
      <3>1. Known(<<s.id, r>>)'
        BY <2>2 DEF Match
      <3>. QED  BY <3>1 DEF Settles
    <2>3. CASE <<s, r>> \in work /\ <<s, r>> # m
      BY <2>3
    <2>. QED  BY <2>1, <2>2, <2>3 DEF MatchInv
  <1>3. AckedStored'
    BY <1>0 DEF MatchInv, AckedStored, Stored
  <1>. QED  BY <1>1, <1>2, <1>3 DEF MatchInv

(* Writing an alert, or finding that it is there (alerts.ts), keeps        *)
(* MatchInv.                                                               *)
LEMMA UpsertAlertMatches ==
    ASSUME MatchInv, UpsertAlert
    PROVE  MatchInv'
  <1>1. PICK m \in work :
            /\ work' = work \ {m}
            /\ IF Known(Match(m)) THEN UNCHANGED <<alerts, alert, pc>>
               ELSE alerts' = alerts \cup {Match(m)} /\ alert' = Match(m) /\ pc' = "group"
    BY DEF UpsertAlert
  <1>2. pc \in Writing /\ UNCHANGED <<tableVars, batch, evaluated>>
    BY DEF UpsertAlert, Writing
  <1>3. alerts \subseteq alerts' /\ Known(Match(m))'
    <2>1. CASE Known(Match(m))
      BY <1>1, <2>1 DEF Known, DedupKey, Match
    <2>2. CASE ~Known(Match(m))
      <3>1. Match(m) \in alerts' /\ alerts \subseteq alerts'
        BY <1>1, <2>2
      <3>. QED  BY <3>1 DEF Known, Match
    <2>. QED  BY <2>1, <2>2
  <1>. QED  BY <1>1, <1>2, <1>3, AlertMatches

(* The cursor moves once every match of the batch is written (index.ts).   *)
LEMMA AdvanceMatches ==
    ASSUME MatchInv, AdvanceCursor
    PROVE  MatchInv'
  <1>1. /\ work = {} /\ pc \in Writing /\ evaluated' = evaluated \cup batch
        /\ UNCHANGED <<alerts, acked, rows>> /\ pc' \notin Writing
    BY DEF AdvanceCursor, EndCycle, EndPass, tableVars, Writing
  <1>2. ASSUME NEW s \in evaluated', NEW r \in Rule
        PROVE  Settles(s, r)'
    <2>1. Settles(s, r)
      BY <1>1, <1>2 DEF MatchInv
    <2>. QED  BY <1>1, <2>1 DEF Settles, Wanted, Posted, Outdated, Known, DedupKey
  <1>3. AckedStored'
    BY <1>1 DEF MatchInv, AckedStored, Stored
  <1>. QED  BY <1>1, <1>2, <1>3 DEF MatchInv

(* A step that leaves table, alerts and evaluated rows alone keeps         *)
(* MatchInv.                                                               *)
LEMMA MatchFrame ==
    ASSUME MatchInv, UNCHANGED <<tableVars, alerts, evaluated>>,
           pc' \notin Writing \/ (pc \in Writing /\ UNCHANGED <<batch, work>>)
    PROVE  MatchInv'
  BY DEF MatchInv, AckedStored, Stored, Settles, Wanted, Posted, Outdated, Known, DedupKey, tableVars

(* MatchInv is inductive given RowsInv.                                    *)
LEMMA MatchStep == RowsInv /\ MatchInv /\ [Next]_vars => MatchInv'
  <1>. SUFFICES ASSUME RowsInv, MatchInv, [Next]_vars
                PROVE  MatchInv'
    OBVIOUS
  <1>1. CASE Table
    BY <1>1, TableMatches DEF Table, cycleVars, storeVars
  <1>2. CASE ReadNewEvents
    BY <1>2, MatchFrame DEF ReadNewEvents, EndCycle, EndPass, storeVars, Writing
  <1>3. CASE ResolveParents
    BY <1>3, ResolveMatches DEF ResolveParents, storeVars
  <1>4. CASE UpsertAlert
    BY <1>4, UpsertAlertMatches
  <1>5. CASE AdvanceCursor
    BY <1>5, AdvanceMatches
  <1>6. CASE UpsertIncident
    <2>1. pc \in Writing /\ UNCHANGED <<tableVars, alerts, evaluated, batch, work>>
      BY <1>6 DEF UpsertIncident, Writing
    <2>. QED  BY <2>1, MatchFrame
  <1>7. CASE NotifyIncidentCreated
    BY <1>7, MatchFrame DEF NotifyIncidentCreated, storeVars, Writing
  <1>8. CASE RunPlaybooks \/ PlaybookFault
    <2>1. pc \in Writing
      BY <1>8 DEF RunPlaybooks, PlaybookFault, SoarNext, SoarFault, Claim, RunStep, Complete, Finished,
                  ClaimFails, CompleteFails, Writing
    <2>. QED  BY <1>8, <2>1, MatchFrame DEF RunPlaybooks, PlaybookFault
  <1>9. CASE StartPass \/ Stop \/ Abort \/ Crash \/ UNCHANGED vars
    BY <1>9, MatchFrame DEF StartPass, Stop, Abort, Crash, EndPass, vars, cycleVars, storeVars, Writing
  <1>. QED  BY <1>1, <1>2, <1>3, <1>4, <1>5, <1>6, <1>7, <1>8, <1>9 DEF Next, Cycle, Closed

(* Before the first POST nothing is to match.                              *)
LEMMA MatchInit == Init => MatchInv
  BY DEF Init, TableInit, MatchInv, AckedStored, Writing

(***************************************************************************)
(* Detection is complete: an event whose POST was answered and whose rows  *)
(* the cursor has passed has every alert it matches, a match on the        *)
(* parent's image included (read-model.ts resolveParents, index.ts).       *)
(***************************************************************************)
THEOREM MatchesNotMissed == Spec => []NoMissedMatch
  <1>1. RowsInv /\ MatchInv => NoMissedMatch
    BY CompleteMatches
  <1>. QED  BY <1>1, RowsInit, RowsStep, MatchInit, MatchStep, PTL DEF Spec

-----------------------------------------------------------------------------
(* The incidents.                                                          *)

(* An incident as its alerts make it.                                      *)
RowAgrees(row, key) ==
    /\ row.alert_ids \in Seq(Matches) /\ IsInjective(row.alert_ids)
    /\ \A a \in Range(row.alert_ids) : a \in alerts /\ GroupingKey(a) = key
    /\ \E a \in Range(row.alert_ids) : row.severity = Severity[a[2]]
    /\ \A a \in Range(row.alert_ids) : Severity[a[2]] <= row.severity

(* Every incident agrees with its alerts; what is to be grouped is an      *)
(* alert.                                                                  *)
IncidentInv ==
    /\ alerts \subseteq Matches
    /\ \A m \in work : Match(m) \in Matches
    /\ pc = "group" => alert \in alerts
    /\ \A key \in DOMAIN incidents : RowAgrees(incidents[key], key)

(* The maximum of a set of numbers is its member that no other exceeds.    *)
LEMMA MaxIs ==
    ASSUME NEW S \in SUBSET Nat, NEW v \in S, \A x \in S : x <= v
    PROVE  Max(S) = v
  <1>1. \A x \in S : (\A y \in S : x >= y) => x = v
    OBVIOUS
  <1>2. \A y \in S : v >= y
    OBVIOUS
  <1>. QED  BY <1>1, <1>2 DEF Max

(* A match's rule has a severity.                                          *)
LEMMA SeverityType == \A a \in Matches : Severity[a[2]] \in Nat
  BY DetectionAssumption

(* IncidentInv gives IncidentsAgree: the severity kept is the maximum.     *)
LEMMA RowsAgree == IncidentInv => IncidentsAgree
  <1>. SUFFICES ASSUME IncidentInv, NEW key \in DOMAIN incidents
                PROVE  LET ids == incidents[key].alert_ids
                       IN  /\ IsInjective(ids)
                           /\ \A a \in Range(ids) : a \in alerts /\ GroupingKey(a) = key
                           /\ incidents[key].severity = Max({Severity[a[2]] : a \in Range(ids)})
    BY DEF IncidentsAgree
  <1>. DEFINE row == incidents[key]
              S   == {Severity[a[2]] : a \in Range(row.alert_ids)}
  <1>1. RowAgrees(row, key) /\ alerts \subseteq Matches
    BY DEF IncidentInv
  <1>2. S \in SUBSET Nat /\ row.severity \in S /\ \A x \in S : x <= row.severity
    BY <1>1, SeverityType DEF RowAgrees
  <1>3. Max(S) = row.severity
    <2>. HIDE DEF S, row
    <2>. QED  BY <1>2, MaxIs
  <1>. QED  BY <1>1, <1>3 DEF RowAgrees

(* An array without an alert, and the same array with it at the end.       *)
LEMMA AppendNew ==
    ASSUME NEW ids \in Seq(Matches), NEW a \in Matches, a \notin Range(ids), IsInjective(ids)
    PROVE  /\ Append(ids, a) \in Seq(Matches)
           /\ IsInjective(Append(ids, a))
           /\ Range(Append(ids, a)) = Range(ids) \cup {a}
  <1>. DEFINE n == Len(ids)
              new == Append(ids, a)
  <1>1. /\ new \in Seq(Matches) /\ n \in Nat /\ Len(new) = n + 1
        /\ \A i \in 1..n : new[i] = ids[i]
        /\ new[n + 1] = a
    BY AppendProperties, LenProperties
  <1>2. DOMAIN new = 1..(n + 1) /\ DOMAIN ids = 1..n
    BY <1>1, LenProperties
  <1>. HIDE DEF new, n
  <1>3. ASSUME NEW i \in 1..(n + 1), NEW j \in 1..(n + 1), new[i] = new[j]
        PROVE  i = j
    <2>1. \A k \in 1..n : ids[k] # a
      BY <1>2 DEF Range
    <2>2. \A k, l \in 1..n : ids[k] = ids[l] => k = l
      BY <1>2 DEF IsInjective
    <2>3. (i \in 1..n \/ i = n + 1) /\ (j \in 1..n \/ j = n + 1)
      BY <1>1
    <2>. QED  BY <1>1, <1>3, <2>1, <2>2, <2>3
  <1>4. IsInjective(new)
    BY <1>2, <1>3 DEF IsInjective
  <1>5. Range(new) = Range(ids) \cup {a}
    <2>1. \A i \in 1..(n + 1) : i \in 1..n \/ i = n + 1
      BY <1>1
    <2>2. \A i \in 1..n : i \in 1..(n + 1)
      BY <1>1
    <2>3. n + 1 \in 1..(n + 1)
      BY <1>1
    <2>. QED  BY <1>1, <1>2, <2>1, <2>2, <2>3 DEF Range
  <1>. QED  BY <1>1, <1>4, <1>5 DEF new

(* The upsert adds its alert once and raises the severity.                 *)
LEMMA GroupedAgrees ==
    ASSUME NEW row, NEW key, RowAgrees(row, key), NEW a \in alerts, GroupingKey(a) = key,
           alerts \subseteq Matches
    PROVE  RowAgrees(WithAlert(row, a), key)
  <1>. DEFINE new == WithAlert(row, a)
  <1>1. a \in Matches /\ Severity[a[2]] \in Nat /\ \A b \in alerts : Severity[b[2]] \in Nat
    BY SeverityType
  <1>2. /\ new.alert_ids \in Seq(Matches) /\ IsInjective(new.alert_ids)
        /\ Range(new.alert_ids) = Range(row.alert_ids) \cup {a}
    <2>1. CASE a \in Range(row.alert_ids)
      <3>1. new.alert_ids = row.alert_ids
        BY <2>1 DEF WithAlert
      <3>. QED  BY <2>1, <3>1 DEF RowAgrees
    <2>2. CASE a \notin Range(row.alert_ids)
      <3>1. new.alert_ids = Append(row.alert_ids, a)
        BY <2>2 DEF WithAlert
      <3>. QED  BY <1>1, <2>2, <3>1, AppendNew DEF RowAgrees
    <2>. QED  BY <2>1, <2>2
  <1>3. new.severity = IF row.severity >= Severity[a[2]] THEN row.severity ELSE Severity[a[2]]
    BY DEF WithAlert
  <1>. HIDE DEF new
  <1>4. row.severity \in Nat /\ \A b \in Range(row.alert_ids) : b \in alerts /\ Severity[b[2]] <= row.severity
    BY <1>1 DEF RowAgrees
  <1>5. \E b \in Range(new.alert_ids) : new.severity = Severity[b[2]]
    BY <1>2, <1>3 DEF RowAgrees
  <1>6. \A b \in Range(new.alert_ids) : Severity[b[2]] <= new.severity
    BY <1>1, <1>2, <1>3, <1>4
  <1>7. \A b \in Range(new.alert_ids) : b \in alerts /\ GroupingKey(b) = key
    BY <1>2 DEF RowAgrees
  <1>8. RowAgrees(new, key)
    BY <1>2, <1>5, <1>6, <1>7 DEF RowAgrees
  <1>. QED  BY <1>8 DEF new

(* So does an incident of one alert.                                       *)
LEMMA CreatedAgrees ==
    ASSUME NEW a \in alerts, alerts \subseteq Matches
    PROVE  RowAgrees([alert_ids |-> <<a>>, severity |-> Severity[a[2]]], GroupingKey(a))
  <1>. DEFINE row == [alert_ids |-> <<a>>, severity |-> Severity[a[2]]]
  <1>1. row.alert_ids = <<a>> /\ row.severity = Severity[a[2]]
    OBVIOUS
  <1>2. <<a>> \in Seq(Matches) /\ DOMAIN <<a>> = {1} /\ <<a>>[1] = a
    OBVIOUS
  <1>3. IsInjective(<<a>>) /\ Range(<<a>>) = {a}
    BY <1>2 DEF IsInjective, Range
  <1>4. Severity[a[2]] <= Severity[a[2]]
    BY SeverityType
  <1>. HIDE DEF row
  <1>5. RowAgrees(row, GroupingKey(a))
    BY <1>1, <1>2, <1>3, <1>4 DEF RowAgrees
  <1>. QED  BY <1>5 DEF row

(* An incident agrees with more alerts, too.                               *)
LEMMA StillAgrees ==
    ASSUME NEW row, NEW key, RowAgrees(row, key), alerts \subseteq alerts'
    PROVE  RowAgrees(row, key)'
  BY DEF RowAgrees, GroupingKey

(* Grouping an alert, into a new incident or an old one (incidents.ts),    *)
(* keeps IncidentInv.                                                      *)
LEMMA UpsertIncidentAgrees ==
    ASSUME IncidentInv, UpsertIncident
    PROVE  IncidentInv'
  <1>. DEFINE key == GroupingKey(alert)
              old == WithAlert(incidents[key], alert)
              new == [alert_ids |-> <<alert>>, severity |-> Severity[alert[2]]]
              row == IF key \in DOMAIN incidents THEN old ELSE new
  <1>1. /\ alert \in alerts /\ alerts \subseteq Matches /\ UNCHANGED <<alerts, work>>
        /\ pc' # "group"
    BY DEF IncidentInv, UpsertIncident, Create
  <1>2. incidents' = With(incidents, key, row)
    BY DEF UpsertIncident, Create
  <1>3. RowAgrees(row, key)
    <2>1. CASE key \in DOMAIN incidents
      <3>1. RowAgrees(incidents[key], key)
        BY <2>1 DEF IncidentInv
      <3>2. RowAgrees(old, key)
        BY <1>1, <3>1, GroupedAgrees
      <3>. QED  BY <2>1, <3>2
    <2>2. CASE key \notin DOMAIN incidents
      <3>1. RowAgrees(new, key)
        BY <1>1, CreatedAgrees
      <3>. QED  BY <2>2, <3>1
    <2>. QED  BY <2>1, <2>2
  <1>. HIDE DEF row, key
  <1>4. /\ DOMAIN incidents' = DOMAIN incidents \cup {key} /\ incidents'[key] = row
        /\ \A x \in DOMAIN incidents : x # key => incidents'[x] = incidents[x]
    BY <1>2 DEF With
  <1>5. ASSUME NEW x \in DOMAIN incidents'
        PROVE  RowAgrees(incidents[x], x)'
    <2>1. CASE x = key
      BY <1>1, <1>3, <1>4, <2>1 DEF RowAgrees, GroupingKey
    <2>2. CASE x # key
      <3>1. RowAgrees(incidents[x], x) /\ incidents'[x] = incidents[x]
        BY <1>4, <2>2 DEF IncidentInv
      <3>. QED  BY <1>1, <3>1 DEF RowAgrees, GroupingKey
    <2>. QED  BY <2>1, <2>2
  <1>. QED  BY <1>1, <1>5 DEF IncidentInv, Match

(* A step that leaves the incidents alone and only adds alerts keeps       *)
(* IncidentInv.                                                            *)
LEMMA IncidentFrame ==
    ASSUME IncidentInv, alerts \subseteq alerts', alerts' \subseteq Matches,
           UNCHANGED incidents, \A m \in work' : Match(m) \in Matches,
           pc' = "group" => alert' \in alerts'
    PROVE  IncidentInv'
  <1>1. ASSUME NEW key \in DOMAIN incidents'
        PROVE  RowAgrees(incidents[key], key)'
    <2>1. RowAgrees(incidents[key], key)
      BY DEF IncidentInv
    <2>. QED  BY <2>1 DEF RowAgrees, GroupingKey
  <1>. QED  BY <1>1 DEF IncidentInv, Match

(* IncidentInv is inductive (incidents.ts upsertIncident).                 *)
LEMMA IncidentStep == IncidentInv /\ [Next]_vars => IncidentInv'
  <1>. SUFFICES ASSUME IncidentInv, [Next]_vars
                PROVE  IncidentInv'
    OBVIOUS
  <1>1. CASE UpsertIncident
    BY <1>1, UpsertIncidentAgrees
  <1>2. CASE UpsertAlert
    <2>1. PICK m \in work :
              /\ work' = work \ {m}
              /\ \/ UNCHANGED <<alerts, alert, pc>>
                 \/ alerts' = alerts \cup {Match(m)} /\ alert' = Match(m)
      BY <1>2 DEF UpsertAlert
    <2>2. pc = "match" /\ UNCHANGED incidents
      BY <1>2 DEF UpsertAlert
    <2>3. Match(m) \in Matches
      BY DEF IncidentInv
    <2>. HIDE DEF Match
    <2>. QED  BY <2>1, <2>2, <2>3, IncidentFrame DEF IncidentInv
  <1>3. CASE ResolveParents
    <2>1. ASSUME NEW m \in work'
          PROVE  Match(m) \in Matches
      BY <1>3, <2>1 DEF ResolveParents, Matched, Match
    <2>. QED  BY <1>3, <2>1, IncidentFrame DEF ResolveParents, storeVars, IncidentInv
  <1>4. CASE RunPlaybooks \/ PlaybookFault
    <2>1. pc' # "group" /\ UNCHANGED <<alerts, incidents, work>>
      BY <1>4 DEF RunPlaybooks, PlaybookFault, SoarNext, SoarFault, Claim, RunStep, Complete, Finished,
                  ClaimFails, CompleteFails, NextPlaybook
    <2>. QED  BY <2>1, IncidentFrame DEF IncidentInv
  <1>5. CASE Table \/ Stop \/ UNCHANGED vars
    BY <1>5, IncidentFrame DEF Table, Stop, vars, cycleVars, storeVars, IncidentInv
  <1>6. CASE StartPass \/ ReadNewEvents \/ NotifyIncidentCreated \/ AdvanceCursor \/ Abort \/ Crash
    <2>1. pc' # "group" /\ UNCHANGED <<alerts, incidents>> /\ work' \in {work, {}}
      BY <1>6 DEF StartPass, ReadNewEvents, NotifyIncidentCreated, AdvanceCursor, Abort, Crash, EndCycle,
                  EndPass, Forget, cycleVars, storeVars
    <2>. QED  BY <2>1, IncidentFrame DEF IncidentInv
  <1>. QED  BY <1>1, <1>2, <1>3, <1>4, <1>5, <1>6 DEF Next, Cycle, Closed

(* Without incidents IncidentInv holds.                                    *)
LEMMA IncidentInit == Init => IncidentInv
  BY DEF Init, IncidentInv

(***************************************************************************)
(* An incident agrees with its alerts: each of them once, of its own key,  *)
(* and the severity is the highest (incidents.ts upsertIncident).          *)
(***************************************************************************)
THEOREM IncidentsConsistent == Spec => []IncidentsAgree
  BY RowsAgree, IncidentInit, IncidentStep, PTL DEF Spec

-----------------------------------------------------------------------------
(* The driver.                                                             *)

(* A cycle is under way exactly in a pass.                                 *)
DriverInv ==
    /\ driver \in {"timer", "pass", "closed"}
    /\ driver = "pass" <=> pc # "idle"

(* DriverInv is inductive (driver.ts: a pass ends before the next is       *)
(* scheduled).                                                             *)
LEMMA DriverStep == DriverInv /\ [Next]_vars => DriverInv'
  <1>. SUFFICES ASSUME DriverInv, [Next]_vars
                PROVE  DriverInv'
    OBVIOUS
  <1>. USE DEF DriverInv
  <1>1. CASE Table \/ UNCHANGED vars \/ Stop
    BY <1>1 DEF Table, Stop, vars, driverVars
  <1>2. CASE StartPass
    BY <1>2 DEF StartPass
  <1>3. CASE ReadNewEvents \/ AdvanceCursor
    BY <1>3 DEF ReadNewEvents, AdvanceCursor, EndCycle, EndPass, driverVars
  <1>4. CASE ResolveParents \/ UpsertAlert \/ UpsertIncident \/ NotifyIncidentCreated
    <2>1. pc # "idle" /\ pc' # "idle" /\ UNCHANGED driver
      BY <1>4 DEF ResolveParents, UpsertAlert, UpsertIncident, Create, NotifyIncidentCreated, driverVars
    <2>. QED  BY <2>1
  <1>5. CASE RunPlaybooks \/ PlaybookFault
    <2>1. UNCHANGED driver
      BY <1>5 DEF RunPlaybooks, PlaybookFault, driverVars
    <2>2. pc # "idle" /\ pc' # "idle"
      BY <1>5 DEF RunPlaybooks, PlaybookFault, SoarNext, SoarFault, Claim, RunStep, Complete, Finished,
                  ClaimFails, CompleteFails, NextPlaybook
    <2>. QED  BY <2>1, <2>2
  <1>6. CASE Abort \/ Crash
    BY <1>6 DEF Abort, Crash, EndPass
  <1>. QED  BY <1>1, <1>2, <1>3, <1>4, <1>5, <1>6 DEF Next, Cycle, Closed

(* The driver starts between two passes.                                   *)
LEMMA DriverInit == Init => DriverInv
  BY DEF Init, DriverInv

(* A closed driver runs no cycle, so nothing is written and no email       *)
(* leaves (driver.ts stop).                                                *)
LEMMA QuietStep ==
    ASSUME DriverInv, [Next]_vars, driver = "closed"
    PROVE  UNCHANGED <<storeVars, mails, pc>>
  <1>1. pc = "idle"
    BY DEF DriverInv
  <1>2. ~(Cycle \/ Abort \/ PlaybookFault)
    BY <1>1 DEF Cycle, ReadNewEvents, ResolveParents, UpsertAlert, UpsertIncident, NotifyIncidentCreated,
                AdvanceCursor, RunPlaybooks, PlaybookFault, SoarNext, SoarFault, Claim, RunStep, Complete,
                Finished, ClaimFails, CompleteFails, Abort
  <1>. QED  BY <1>2 DEF Next, StartPass, Crash, Table, Stop, Closed, vars, storeVars

(***************************************************************************)
(* After stop() has resolved no cycle writes (driver.ts stop, server.ts    *)
(* close).                                                                 *)
(***************************************************************************)
THEOREM QuietWhenClosed == Spec => ClosedIsQuiet
  <1>1. DriverInv /\ [Next]_vars => [driver = "closed" => UNCHANGED <<storeVars, mails, pc>>]_vars
    BY QuietStep
  <1>. QED  BY <1>1, DriverInit, DriverStep, PTL DEF Spec, ClosedIsQuiet

-----------------------------------------------------------------------------
(* The playbooks and the emails.                                           *)

(* Where a run stands: an incident that exists, playbooks to run.          *)
QueueInv ==
    /\ queue \subseteq Playbook
    /\ pc \in {"claim", "steps"} => queue # {}
    /\ outcomes \in Seq(Outcome)
    /\ pc # "steps" => outcomes = <<>>
    /\ pc \in {"notify", "claim", "steps"} => incident.key \in DOMAIN incidents
    /\ pc = "steps" => Run \in DOMAIN executions

(* An email that left is of a created incident or a claimed run, and what  *)
(* is still to be sent has not left.                                       *)
MailInv ==
    /\ \A m \in DOMAIN mails : mails[m] = 1
    /\ \A k : <<k, 0, 0>> \in DOMAIN mails =>
                  k \in DOMAIN incidents /\ ~(pc = "notify" /\ incident.key = k)
    /\ \A k, n : \A p \in Playbook : <<k, p, n>> \in DOMAIN mails =>
                  /\ <<p, k>> \in DOMAIN executions /\ n \in Nat
                  /\ pc = "steps" /\ Run = <<p, k>> => n <= Len(outcomes)

(* The playbook being run is one of those queued.                          *)
LEMMA CurrentIn ==
    ASSUME QueueInv, queue # {}
    PROVE  Current \in queue /\ Current \in Playbook /\ Current \in Nat /\ Current # 0
  <1>1. queue \in SUBSET Nat /\ queue \subseteq Playbook /\ Playbook \subseteq Nat \ {0}
    BY SoarAssumption DEF QueueInv
  <1>2. \E x \in queue : \A y \in queue : x =< y
    BY <1>1, LeastNatural
  <1>3. Min(queue) \in queue
    BY <1>2 DEF Min
  <1>. QED  BY <1>1, <1>3 DEF Current

(* On to the next playbook, or back to the matches.                        *)
LEMMA NextRun ==
    ASSUME QueueInv, pc \in {"claim", "steps"}, NextPlaybook
    PROVE  /\ outcomes' = <<>> /\ queue' \subseteq Playbook /\ pc' \in {"claim", "match"}
           /\ pc' = "claim" => queue' # {} /\ incident' = incident
  <1>1. Current \in queue /\ queue \subseteq Playbook
    BY CurrentIn DEF QueueInv
  <1>. QED  BY <1>1 DEF NextPlaybook

(* Sending an email that has not left leaves every email sent once.        *)
LEMMA SentOnce ==
    ASSUME NEW m, m \notin DOMAIN mails, mails' = Sent(m),
           \A x \in DOMAIN mails : mails[x] = 1
    PROVE  /\ DOMAIN mails' = DOMAIN mails \cup {m}
           /\ \A x \in DOMAIN mails' : mails'[x] = 1
  <1>1. mails' = [x \in DOMAIN mails \cup {m} |->
                     (IF x \in DOMAIN mails THEN mails[x] ELSE 0) + (IF x \in {m} THEN 1 ELSE 0)]
    BY DEF Sent, SetToBag, (+)
  <1>. QED  BY <1>1

(* Without an email: a run that starts was not claimed, an incident that   *)
(* is notified was not there.                                              *)
LEMMA MailFrame ==
    ASSUME MailInv, UNCHANGED mails,
           DOMAIN incidents \subseteq DOMAIN incidents',
           DOMAIN executions \subseteq DOMAIN executions',
           pc' = "notify" => \/ pc = "notify" /\ UNCHANGED incident
                             \/ incident'.key \notin DOMAIN incidents,
           pc' = "steps" => /\ UNCHANGED <<incident, queue>>
                            /\ \/ pc = "steps" /\ UNCHANGED outcomes
                               \/ Run \notin DOMAIN executions
    PROVE  MailInv'
  <1>1. \A m \in DOMAIN mails' : mails'[m] = 1
    BY DEF MailInv
  <1>2. ASSUME NEW k, <<k, 0, 0>> \in DOMAIN mails'
        PROVE  k \in DOMAIN incidents' /\ ~(pc' = "notify" /\ incident'.key = k)
    BY <1>2 DEF MailInv
  <1>3. ASSUME NEW k, NEW n, NEW p \in Playbook, <<k, p, n>> \in DOMAIN mails'
        PROVE  /\ <<p, k>> \in DOMAIN executions' /\ n \in Nat
               /\ pc' = "steps" /\ Run' = <<p, k>> => n <= Len(outcomes')
    <2>1. /\ <<p, k>> \in DOMAIN executions /\ n \in Nat
          /\ pc = "steps" /\ Run = <<p, k>> => n <= Len(outcomes)
      BY <1>3 DEF MailInv
    <2>2. pc' = "steps" => Run' = Run
      BY DEF Run, Current
    <2>. QED  BY <2>1, <2>2
  <1>. QED  BY <1>1, <1>2, <1>3 DEF MailInv

(* The notification leaves for an incident that had none.                  *)
LEMMA NotifyMails ==
    ASSUME QueueInv, MailInv, NotifyIncidentCreated
    PROVE  QueueInv' /\ MailInv'
  <1>1. /\ pc = "notify" /\ pc' \in {"claim", "match"} /\ UNCHANGED <<queue, outcomes, incidents, executions>>
        /\ pc' = "claim" => queue # {} /\ UNCHANGED incident
    BY DEF NotifyIncidentCreated, storeVars
  <1>2. QueueInv'
    BY <1>1 DEF QueueInv
  <1>3. CASE UNCHANGED mails
    BY <1>1, <1>2, <1>3, MailFrame
  <1>4. CASE mails' = Sent(<<incident.key, 0, 0>>)
    <2>. DEFINE key == incident.key
    <2>1. <<key, 0, 0>> \notin DOMAIN mails /\ key \in DOMAIN incidents
      BY <1>1 DEF MailInv, QueueInv
    <2>. HIDE DEF key
    <2>2. /\ DOMAIN mails' = DOMAIN mails \cup {<<key, 0, 0>>}
          /\ \A x \in DOMAIN mails' : mails'[x] = 1
      BY <1>4, <2>1, SentOnce DEF MailInv, key
    <2>3. ASSUME NEW k, <<k, 0, 0>> \in DOMAIN mails'
          PROVE  k \in DOMAIN incidents' /\ ~(pc' = "notify" /\ incident'.key = k)
      BY <1>1, <2>1, <2>2, <2>3 DEF MailInv
    <2>4. ASSUME NEW k, NEW n, NEW p \in Playbook, <<k, p, n>> \in DOMAIN mails'
          PROVE  <<p, k>> \in DOMAIN executions' /\ n \in Nat
      <3>1. p # 0
        BY SoarAssumption
      <3>2. <<k, p, n>> \in DOMAIN mails
        BY <2>2, <2>4, <3>1
      <3>. QED  BY <1>1, <3>2 DEF MailInv
    <2>. QED  BY <1>1, <1>2, <2>2, <2>3, <2>4 DEF MailInv
  <1>. QED  BY <1>2, <1>3, <1>4 DEF NotifyIncidentCreated

(* A step's email leaves in a run that was claimed once, one step further. *)
LEMMA StepMails ==
    ASSUME QueueInv, MailInv, RunStep, UNCHANGED incidents
    PROVE  QueueInv' /\ MailInv'
  <1>. DEFINE n == Len(outcomes) + 1
              key == incident.key
              m == <<key, Current, n>>
  <1>0. PICK o \in Outcome : /\ outcomes' = Append(outcomes, o)
                             /\ mails' \in {mails, Sent(m)}
    BY DEF RunStep
  <1>1. /\ pc = "steps" /\ UNCHANGED <<pc, incident, queue, executions>>
        /\ Run' = Run /\ Run = <<Current, key>> /\ Run \in DOMAIN executions
    BY DEF RunStep, Run, Current, QueueInv
  <1>2. Current \in Playbook /\ Current # 0
    BY <1>1, CurrentIn DEF QueueInv
  <1>3. /\ outcomes' \in Seq(Outcome) /\ Len(outcomes') = n /\ Len(outcomes) \in Nat /\ n \in Nat
        /\ n = Len(outcomes) + 1
    BY <1>0, AppendProperties, LenProperties DEF QueueInv
  <1>4. QueueInv'
    BY <1>1, <1>3 DEF QueueInv
  <1>. HIDE DEF n, key
  <1>5. m \notin DOMAIN mails
    <2>1. m \in DOMAIN mails => n <= Len(outcomes)
      BY <1>1, <1>2 DEF MailInv
    <2>. QED  BY <1>3, <2>1
  <1>6. /\ DOMAIN mails' \in {DOMAIN mails, DOMAIN mails \cup {m}}
        /\ \A x \in DOMAIN mails' : mails'[x] = 1
    <2>1. CASE UNCHANGED mails
      BY <2>1 DEF MailInv
    <2>2. CASE mails' = Sent(m)
      <3>. HIDE DEF m
      <3>. QED  BY <1>5, <2>2, SentOnce DEF MailInv
    <2>. QED  BY <1>0, <2>1, <2>2
  <1>7. ASSUME NEW k, <<k, 0, 0>> \in DOMAIN mails'
        PROVE  k \in DOMAIN incidents' /\ ~(pc' = "notify" /\ incident'.key = k)
    <2>1. <<k, 0, 0>> \in DOMAIN mails
      BY <1>2, <1>6, <1>7
    <2>. QED  BY <1>1, <2>1 DEF MailInv
  <1>8. ASSUME NEW k, NEW x, NEW p \in Playbook, <<k, p, x>> \in DOMAIN mails'
        PROVE  /\ <<p, k>> \in DOMAIN executions' /\ x \in Nat
               /\ pc' = "steps" /\ Run' = <<p, k>> => x <= Len(outcomes')
    <2>1. CASE <<k, p, x>> \in DOMAIN mails
      <3>1. /\ <<p, k>> \in DOMAIN executions /\ x \in Nat
            /\ Run = <<p, k>> => x <= Len(outcomes)
        BY <1>1, <2>1 DEF MailInv
      <3>. QED  BY <1>1, <1>3, <3>1
    <2>2. CASE <<k, p, x>> = m
      <3>1. k = key /\ p = Current /\ x = n
        BY <2>2
      <3>. QED  BY <1>1, <1>3, <3>1
    <2>. QED  BY <1>6, <1>8, <2>1, <2>2
  <1>. QED  BY <1>4, <1>6, <1>7, <1>8 DEF MailInv

(* The claim and the completion send nothing.                              *)
LEMMA ClaimMails ==
    ASSUME QueueInv, MailInv, UNCHANGED incidents,
           Claim \/ ClaimFails \/ Complete \/ CompleteFails
    PROVE  QueueInv' /\ MailInv'
  <1>1. /\ UNCHANGED <<mails, incidents>> /\ pc \in {"claim", "steps"}
        /\ DOMAIN executions \subseteq DOMAIN executions'
    <2>1. CASE Claim \/ ClaimFails
      BY <2>1 DEF Claim, ClaimFails, Claimed, With
    <2>2. CASE Complete \/ CompleteFails
      BY <2>2 DEF Complete, CompleteFails, Finished
    <2>. QED  BY <2>1, <2>2
  <1>2. CASE NextPlaybook
    <2>1. /\ outcomes' = <<>> /\ queue' \subseteq Playbook /\ pc' \in {"claim", "match"}
          /\ pc' = "claim" => queue' # {} /\ incident' = incident
      BY <1>1, <1>2, NextRun
    <2>2. incident.key \in DOMAIN incidents /\ <<>> \in Seq(Outcome)
      BY <1>1 DEF QueueInv
    <2>3. QueueInv'
      BY <1>1, <2>1, <2>2 DEF QueueInv
    <2>. QED  BY <1>1, <2>1, <2>3, MailFrame
  <1>3. CASE /\ pc = "claim" /\ Run \notin DOMAIN executions /\ executions' = Claimed
             /\ pc' = "steps" /\ UNCHANGED runVars
    <2>1. UNCHANGED <<incident, queue, outcomes>> /\ Run' = Run
      BY <1>3 DEF runVars, Run, Current
    <2>2. Run \in DOMAIN executions'
      BY <1>3 DEF Claimed, With
    <2>3. QueueInv'
      BY <1>1, <1>3, <2>1, <2>2 DEF QueueInv
    <2>. QED  BY <1>1, <1>3, <2>1, <2>3, MailFrame
  <1>. QED  BY <1>2, <1>3 DEF Claim, ClaimFails, Complete, CompleteFails

(* A new incident has sent no email yet; an old one sends no more.         *)
LEMMA CreateMails ==
    ASSUME QueueInv, MailInv, UpsertIncident
    PROVE  QueueInv' /\ MailInv'
  <1>. DEFINE key == GroupingKey(alert)
  <1>1. /\ pc = "group" /\ UNCHANGED <<mails, executions, outcomes>> /\ outcomes = <<>>
        /\ DOMAIN incidents' = DOMAIN incidents \cup {key}
    BY DEF UpsertIncident, Create, With, QueueInv
  <1>2. CASE key \in DOMAIN incidents
    <2>1. pc' = "match" /\ UNCHANGED <<incident, queue>>
      BY <1>2 DEF UpsertIncident
    <2>2. QueueInv'
      BY <1>1, <2>1 DEF QueueInv
    <2>. QED  BY <1>1, <2>1, <2>2, MailFrame
  <1>3. CASE key \notin DOMAIN incidents
    <2>. DEFINE severity == Severity[alert[2]]
                runs == Triggered(severity)
    <2>1. /\ queue' = runs
          /\ incident' = IF Notify \/ runs # {} THEN [key |-> key, severity |-> severity] ELSE NoIncident
          /\ pc' = IF Notify THEN "notify" ELSE IF runs # {} THEN "claim" ELSE "match"
      BY <1>3 DEF UpsertIncident, Create
    <2>2. runs \subseteq Playbook
      BY DEF Triggered
    <2>. HIDE DEF runs, key
    <2>3. /\ pc' \in {"notify", "claim", "match"} /\ queue' \subseteq Playbook
          /\ pc' \in {"notify", "claim"} => incident'.key = key
          /\ pc' = "claim" => queue' # {}
      BY <2>1, <2>2
    <2>4. QueueInv'
      BY <1>1, <2>3 DEF QueueInv
    <2>. QED  BY <1>1, <1>3, <2>3, <2>4, MailFrame DEF key
  <1>. QED  BY <1>2, <1>3

(* QueueInv and MailInv are inductive (notify/index.ts; run.ts, the claim  *)
(* before the steps).                                                      *)
LEMMA MailStep == DriverInv /\ QueueInv /\ MailInv /\ [Next]_vars => QueueInv' /\ MailInv'
  <1>. SUFFICES ASSUME DriverInv, QueueInv, MailInv, [Next]_vars
                PROVE  QueueInv' /\ MailInv'
    OBVIOUS
  <1>1. CASE UpsertIncident
    BY <1>1, CreateMails
  <1>2. CASE NotifyIncidentCreated
    BY <1>2, NotifyMails
  <1>3. CASE RunPlaybooks \/ PlaybookFault
    BY <1>3, StepMails, ClaimMails DEF RunPlaybooks, PlaybookFault, SoarNext, SoarFault
  <1>4. CASE Table \/ Stop \/ UNCHANGED vars
    <2>1. UNCHANGED <<mails, incidents, executions, pc, incident, queue, outcomes>>
      BY <1>4 DEF Table, Stop, vars, cycleVars, storeVars, runVars
    <2>2. QueueInv'
      BY <2>1 DEF QueueInv, Run, Current
    <2>. QED  BY <2>1, <2>2, MailFrame
  <1>5. CASE StartPass \/ ReadNewEvents \/ ResolveParents \/ UpsertAlert \/ AdvanceCursor \/ Abort \/ Crash
    <2>1. UNCHANGED <<mails, incidents, executions>>
      BY <1>5 DEF StartPass, ReadNewEvents, ResolveParents, UpsertAlert, AdvanceCursor, Abort, Crash, storeVars
    <2>2. pc' \notin {"notify", "claim", "steps"}
      BY <1>5 DEF StartPass, ReadNewEvents, ResolveParents, UpsertAlert, AdvanceCursor, Abort, Crash,
                  EndCycle, EndPass
    <2>3. outcomes' = <<>> /\ queue' \subseteq Playbook
      <3>1. CASE Abort \/ Crash
        BY <3>1 DEF Abort, Crash, EndPass, Forget
      <3>2. CASE StartPass \/ ReadNewEvents \/ ResolveParents \/ UpsertAlert \/ AdvanceCursor
        <4>1. \/ UNCHANGED <<queue, outcomes>>
              \/ queue' = {} /\ outcomes' = <<>>
          BY <3>2 DEF StartPass, ReadNewEvents, ResolveParents, UpsertAlert, AdvanceCursor,
                      EndCycle, EndPass, Forget, cycleVars, runVars
        <4>2. CASE ReadNewEvents \/ ResolveParents \/ UpsertAlert \/ AdvanceCursor
          <5>1. outcomes = <<>>
            BY <4>2 DEF ReadNewEvents, ResolveParents, UpsertAlert, AdvanceCursor, QueueInv
          <5>. QED  BY <4>1, <5>1 DEF QueueInv
        <4>3. CASE StartPass
          <5>1. outcomes = <<>>
            BY <4>3 DEF StartPass, DriverInv, QueueInv
          <5>. QED  BY <4>1, <5>1 DEF QueueInv
        <4>. QED  BY <3>2, <4>2, <4>3
      <3>. QED  BY <1>5, <3>1, <3>2
    <2>4. QueueInv'
      BY <2>2, <2>3 DEF QueueInv
    <2>. QED  BY <2>1, <2>2, <2>4, MailFrame
  <1>. QED  BY <1>1, <1>2, <1>3, <1>4, <1>5 DEF Next, Cycle, Closed

(* At the start nothing has been sent.                                     *)
LEMMA MailInit == Init => QueueInv /\ MailInv
  <1>. SUFFICES ASSUME Init
                PROVE  QueueInv /\ MailInv
    OBVIOUS
  <1>1. /\ queue = {} /\ outcomes = <<>> /\ pc = "idle" /\ DOMAIN mails = {}
    BY DEF Init, SoarInit, EmptyBag, SetToBag
  <1>2. <<>> \in Seq(Outcome)
    OBVIOUS
  <1>. QED  BY <1>1, <1>2 DEF QueueInv, MailInv

(***************************************************************************)
(* Each email leaves at most once, through errors, crashes and repeated    *)
(* passes (index.ts, incidents.ts created, run.ts claim).                  *)
(***************************************************************************)
THEOREM MailsOnce == Spec => []MailOnce
  <1>1. MailInv => MailOnce
    BY DEF MailInv, MailOnce, BagToSet
  <1>. QED  BY <1>1, DriverInit, DriverStep, MailInit, MailStep, PTL DEF Spec

-----------------------------------------------------------------------------
(* The execution records.                                                  *)

(* What the outcomes of playbook p for incident k may say.                 *)
Truthful(steps, k, p) ==
    /\ steps \in Seq(Outcome)
    /\ \A i \in 1..Len(steps) : steps[i] = "done" => <<k, p, i>> \in DOMAIN mails
    /\ \A i \in 1..Len(steps), j \in 1..Len(steps) :
           j < i /\ steps[j] = "failed" => steps[i] = "skipped"

(* What a record that is no longer running says.                           *)
Ended(record, run) ==
    /\ Truthful(record.steps, run[2], run[1])
    /\ Len(record.steps) = Len(Steps[run[1]])
    /\ record.status = "failed" <=> "failed" \in Range(record.steps)

(* The outcomes of the run under way and every ended record are true.      *)
RecordInv ==
    /\ pc = "steps" => Truthful(outcomes, incident.key, Current)
    /\ \A run \in DOMAIN executions :
           executions[run].status # "running" => Ended(executions[run], run)

(* RecordInv gives RunRecords.                                             *)
LEMMA RecordsTell == RecordInv => RunRecords
  <1>. SUFFICES ASSUME RecordInv, NEW run \in DOMAIN executions, executions[run].status # "running"
                PROVE  LET record == executions[run]
                           failed == {i \in DOMAIN record.steps : record.steps[i] = "failed"}
                       IN  /\ Len(record.steps) = Len(Steps[run[1]])
                           /\ (record.status = "failed") <=> (failed # {})
                           /\ \A i \in DOMAIN record.steps :
                                /\ record.steps[i] = "done" => BagIn(<<run[2], run[1], i>>, mails)
                                /\ \A j \in failed : j < i => record.steps[i] = "skipped"
    BY DEF RunRecords
  <1>. DEFINE steps == executions[run].steps
  <1>1. Ended(executions[run], run)
    BY DEF RecordInv
  <1>2. DOMAIN steps = 1..Len(steps)
    BY <1>1, LenProperties DEF Ended, Truthful
  <1>. QED  BY <1>1, <1>2 DEF Ended, Truthful, Range, BagIn, BagToSet

(* An email does not come back: what the outcomes say stays true.          *)
LEMMA StillTruthful ==
    ASSUME NEW steps, NEW k, NEW p, Truthful(steps, k, p), DOMAIN mails \subseteq DOMAIN mails'
    PROVE  Truthful(steps, k, p)'
  BY DEF Truthful

(* A step that completes no record keeps RecordInv.                        *)
LEMMA RecordFrame ==
    ASSUME RecordInv, DOMAIN mails \subseteq DOMAIN mails',
           pc' = "steps" => Truthful(outcomes, incident.key, Current)',
           NEW run, UNCHANGED executions
                    \/ executions' = With(executions, run, [status |-> "running", steps |-> <<>>])
    PROVE  RecordInv'
  <1>1. ASSUME NEW x \in DOMAIN executions', executions'[x].status # "running"
        PROVE  Ended(executions[x], x)'
    <2>1. x \in DOMAIN executions /\ executions'[x] = executions[x]
      BY <1>1 DEF With
    <2>2. Ended(executions[x], x)
      BY <1>1, <2>1 DEF RecordInv
    <2>. QED  BY <2>1, <2>2, StillTruthful DEF Ended
  <1>. QED  BY <1>1 DEF RecordInv

(* A step adds its outcome, and a failure makes the rest skipped.          *)
LEMMA StepRecord ==
    ASSUME QueueInv, MailInv, RecordInv, RunStep, UNCHANGED incidents
    PROVE  RecordInv'
  <1>. DEFINE n == Len(outcomes) + 1
              key == incident.key
              m == <<key, Current, n>>
  <1>0. PICK o \in Outcome : /\ outcomes' = Append(outcomes, o)
                             /\ mails' \in {mails, Sent(m)}
                             /\ o = "done" => mails' = Sent(m)
                             /\ Failed => o = "skipped"
    BY DEF RunStep
  <1>1. /\ pc = "steps" /\ UNCHANGED <<pc, incident, queue, executions>> /\ Current' = Current
    BY DEF RunStep, Current
  <1>2. /\ outcomes' \in Seq(Outcome) /\ Len(outcomes') = n /\ Len(outcomes) \in Nat
        /\ \A i \in 1..Len(outcomes) : outcomes'[i] = outcomes[i]
        /\ outcomes'[n] = o
    BY <1>0, AppendProperties, LenProperties DEF QueueInv
  <1>3. /\ DOMAIN mails \subseteq DOMAIN mails'
        /\ o = "done" => m \in DOMAIN mails'
    BY <1>0 DEF Sent, SetToBag, (+)
  <1>4. Truthful(outcomes, key, Current)
    BY <1>1 DEF RecordInv
  <1>5. \A j \in 1..Len(outcomes) : outcomes[j] = "failed" => o = "skipped"
    <2>1. DOMAIN outcomes = 1..Len(outcomes)
      BY LenProperties DEF QueueInv
    <2>. QED  BY <1>0, <2>1 DEF Failed, Range
  <1>. HIDE DEF key
  <1>6. ASSUME NEW i \in 1..n, outcomes'[i] = "done"
        PROVE  <<key, Current, i>> \in DOMAIN mails'
    <2>1. CASE i \in 1..Len(outcomes)
      BY <1>2, <1>3, <1>4, <1>6, <2>1 DEF Truthful
    <2>2. CASE i = n
      BY <1>2, <1>3, <1>6, <2>2
    <2>. QED  BY <1>2, <2>1, <2>2
  <1>7. ASSUME NEW i \in 1..n, NEW j \in 1..n, j < i, outcomes'[j] = "failed"
        PROVE  outcomes'[i] = "skipped"
    <2>1. j \in 1..Len(outcomes) /\ outcomes[j] = "failed"
      BY <1>2, <1>7
    <2>2. CASE i \in 1..Len(outcomes)
      BY <1>2, <1>4, <1>7, <2>1, <2>2 DEF Truthful
    <2>3. CASE i = n
      BY <1>2, <1>5, <2>1, <2>3
    <2>. QED  BY <1>2, <2>2, <2>3
  <1>8. Truthful(outcomes, incident.key, Current)'
    BY <1>1, <1>2, <1>6, <1>7 DEF Truthful, key
  <1>. QED  BY <1>1, <1>3, <1>8, RecordFrame

(* The completion records the outcomes, all of them.                       *)
LEMMA CompleteRecord ==
    ASSUME QueueInv, RecordInv, Complete
    PROVE  RecordInv'
  <1>. DEFINE record == [status |-> IF Failed THEN "failed" ELSE "completed", steps |-> outcomes]
  <1>1. /\ pc = "steps" /\ Len(outcomes) = Len(Steps[Current]) /\ UNCHANGED mails
        /\ executions' = [executions EXCEPT ![Run] = record] /\ NextPlaybook
    BY DEF Complete, Finished
  <1>2. pc' # "steps"
    BY <1>1, NextRun
  <1>3. Run[1] = Current /\ Run[2] = incident.key
    BY DEF Run
  <1>4. record.steps = outcomes /\ record.status = IF Failed THEN "failed" ELSE "completed"
    OBVIOUS
  <1>. HIDE DEF record
  <1>5. Ended(record, Run)
    BY <1>1, <1>3, <1>4 DEF RecordInv, Ended, Failed
  <1>6. ASSUME NEW x \in DOMAIN executions', executions'[x].status # "running"
        PROVE  Ended(executions[x], x)'
    <2>1. x \in DOMAIN executions
      BY <1>1
    <2>2. CASE x = Run
      <3>1. executions'[x] = record
        BY <1>1, <2>1, <2>2
      <3>. QED  BY <1>1, <1>5, <2>2, <3>1 DEF Ended, Truthful
    <2>3. CASE x # Run
      <3>1. executions'[x] = executions[x]
        BY <1>1, <2>1, <2>3
      <3>2. Ended(executions[x], x)
        BY <1>6, <2>1, <3>1 DEF RecordInv
      <3>. QED  BY <1>1, <3>1, <3>2 DEF Ended, Truthful
    <2>. QED  BY <2>2, <2>3
  <1>. QED  BY <1>2, <1>6 DEF RecordInv

(* RecordInv is inductive (run.ts runOne).                                 *)
LEMMA RecordStep == QueueInv /\ MailInv /\ RecordInv /\ [Next]_vars => RecordInv'
  <1>. SUFFICES ASSUME QueueInv, MailInv, RecordInv, [Next]_vars
                PROVE  RecordInv'
    OBVIOUS
  <1>1. CASE RunPlaybooks \/ PlaybookFault
    <2>1. UNCHANGED incidents
      BY <1>1 DEF RunPlaybooks, PlaybookFault
    <2>2. CASE RunStep
      BY <2>1, <2>2, StepRecord
    <2>3. CASE Complete
      BY <2>3, CompleteRecord
    <2>4. CASE Claim /\ pc' = "steps"
      <3>1. /\ UNCHANGED mails /\ executions' = Claimed /\ UNCHANGED <<incident, queue, outcomes>>
            /\ pc = "claim"
        BY <2>4 DEF Claim, runVars, NextPlaybook
      <3>2. outcomes = <<>>
        BY <3>1 DEF QueueInv
      <3>3. outcomes' = <<>> /\ Len(outcomes') = 0 /\ outcomes' \in Seq(Outcome)
        BY <3>1, <3>2
      <3>4. Truthful(outcomes, incident.key, Current)'
        BY <3>3 DEF Truthful
      <3>. QED  BY <3>1, <3>4, RecordFrame DEF Claimed
    <2>5. CASE (Claim /\ pc' # "steps") \/ ClaimFails \/ CompleteFails
      <3>1. UNCHANGED mails /\ (UNCHANGED executions \/ executions' = Claimed)
        BY <2>5 DEF Claim, ClaimFails, CompleteFails
      <3>2. pc' # "steps"
        BY <2>5, NextRun DEF ClaimFails, CompleteFails, Finished
      <3>. QED  BY <3>1, <3>2, RecordFrame DEF Claimed
    <2>. QED  BY <1>1, <2>2, <2>3, <2>4, <2>5 DEF RunPlaybooks, PlaybookFault, SoarNext, SoarFault
  <1>2. CASE Table \/ Stop \/ UNCHANGED vars
    <2>1. UNCHANGED <<mails, executions, pc, incident, queue, outcomes>>
      BY <1>2 DEF Table, Stop, vars, cycleVars, storeVars, runVars
    <2>2. pc' = "steps" => Truthful(outcomes, incident.key, Current)'
      BY <2>1 DEF RecordInv, Truthful, Current
    <2>. QED  BY <2>1, <2>2, RecordFrame
  <1>3. CASE \/ StartPass \/ ReadNewEvents \/ ResolveParents \/ UpsertAlert \/ AdvanceCursor \/ Abort \/ Crash
             \/ UpsertIncident
    <2>1. UNCHANGED <<mails, executions>>
      BY <1>3 DEF StartPass, ReadNewEvents, ResolveParents, UpsertAlert, AdvanceCursor, Abort, Crash,
                  UpsertIncident, storeVars
    <2>2. pc' # "steps"
      BY <1>3 DEF StartPass, ReadNewEvents, ResolveParents, UpsertAlert, AdvanceCursor, Abort, Crash,
                  EndCycle, EndPass, UpsertIncident, Create
    <2>. QED  BY <2>1, <2>2, RecordFrame
  <1>4. CASE NotifyIncidentCreated
    <2>1. UNCHANGED executions /\ pc' # "steps"
      BY <1>4 DEF NotifyIncidentCreated, storeVars
    <2>2. DOMAIN mails \subseteq DOMAIN mails'
      BY <1>4 DEF NotifyIncidentCreated, Sent, SetToBag, (+)
    <2>. QED  BY <2>1, <2>2, RecordFrame
  <1>. QED  BY <1>1, <1>2, <1>3, <1>4 DEF Next, Cycle, Closed

(* Without executions RecordInv holds.                                     *)
LEMMA RecordInit == Init => RecordInv
  BY DEF Init, SoarInit, RecordInv

(***************************************************************************)
(* A completed execution record tells what happened: all steps, an email   *)
(* behind every "done", nothing but "skipped" after a failure (run.ts      *)
(* runOne).                                                                *)
(***************************************************************************)
THEOREM RecordsTrue == Spec => []RunRecords
  BY RecordsTell, DriverInit, DriverStep, MailInit, MailStep, RecordInit, RecordStep, PTL DEF Spec

-----------------------------------------------------------------------------
(* What the faults cost.                                                   *)

(* Where the cycle handles the incident it created.                        *)
Handling == {"notify", "claim", "steps"}

(* The playbooks an incident triggered when it was created.                *)
Due(key) == Triggered(Severity[incidents[key].alert_ids[1][2]])

(* Some playbook of S has no completed run for the incident.               *)
Lacking(key, S) ==
    \E p \in S : \/ <<p, key>> \notin DOMAIN executions
                 \/ executions[<<p, key>>].status = "running"

(* The incident being handled has a playbook it will not come back to.     *)
Hurt == pc \in Handling /\ Lacking(incident.key, Due(incident.key) \ queue)

(* Where the alert and the incident in hand are, and which runs are not    *)
(* claimed yet: those of the created incident that wait in the queue.      *)
HandInv ==
    /\ IsFiniteSet(alerts) /\ IsFiniteSet(DOMAIN incidents) /\ faults \in Nat
    /\ pc # "group" => alert = NoAlert
    /\ pc \notin Handling => incident = NoIncident
    /\ \A p, k : <<p, k>> \in DOMAIN executions => k \in DOMAIN incidents
    /\ pc \in Handling =>
         /\ queue \subseteq Due(incident.key)
         /\ \A p \in queue : \/ <<p, incident.key>> \notin DOMAIN executions
                             \/ pc = "steps" /\ p = Current

(* Each fault pays for one loss at most, the one in hand included.         *)
Bill == Cardinality(Ungrouped) + Cardinality(Neglected) + (IF Hurt THEN 1 ELSE 0) <= faults

(* The neglected incidents are the others that lack a run they were due.   *)
LEMMA NeglectedIs == Neglected = {key \in DOMAIN incidents \ {incident.key} : Lacking(key, Due(key))}
  BY DEF Neglected, Lacking, Due

(* Losses are counted in finite sets.                                      *)
LEMMA LossesFinite ==
    ASSUME HandInv
    PROVE  /\ IsFiniteSet(Ungrouped) /\ Cardinality(Ungrouped) \in Nat
           /\ IsFiniteSet(Neglected) /\ Cardinality(Neglected) \in Nat
  <1>1. Ungrouped \subseteq alerts /\ Neglected \subseteq DOMAIN incidents
    BY DEF Ungrouped, Neglected
  <1>2. IsFiniteSet(Ungrouped) /\ IsFiniteSet(Neglected)
    BY <1>1, FS_Subset DEF HandInv
  <1>. QED  BY <1>2, FS_CardinalityType

(* A subset of a finite set has no more elements.                          *)
LEMMA NoMore ==
    ASSUME NEW S, IsFiniteSet(S), NEW T, T \subseteq S
    PROVE  Cardinality(T) \in Nat /\ Cardinality(S) \in Nat /\ Cardinality(T) <= Cardinality(S)
  BY FS_Subset, FS_CardinalityType

(* What is within a set and one element has at most one element more.      *)
LEMMA AtMostOneMore ==
    ASSUME NEW S, IsFiniteSet(S), NEW x, NEW T, T \subseteq S \cup {x}
    PROVE  Cardinality(T) \in Nat /\ Cardinality(S) \in Nat /\ Cardinality(T) <= Cardinality(S) + 1
  <1>1. /\ IsFiniteSet(S \cup {x}) /\ Cardinality(S) \in Nat
        /\ Cardinality(S \cup {x}) = IF x \in S THEN Cardinality(S) ELSE Cardinality(S) + 1
    BY FS_AddElement, FS_CardinalityType
  <1>2. Cardinality(T) \in Nat /\ Cardinality(T) <= Cardinality(S \cup {x})
    BY <1>1, NoMore
  <1>. QED  BY <1>1, <1>2

(* The steps that cost something, and those that cost nothing.             *)
LEMMA BillStep ==
    ASSUME HandInv, Bill, faults' \in {faults, faults + 1}, NEW x,
           \/ Ungrouped' \subseteq Ungrouped /\ Neglected' \subseteq Neglected /\ (Hurt' => Hurt)
           \/ Ungrouped' \subseteq Ungrouped /\ Neglected' \subseteq Neglected /\ faults' = faults + 1
           \/ /\ Ungrouped' \subseteq Ungrouped /\ Neglected' \subseteq Neglected \cup {x} /\ ~Hurt'
              /\ Hurt \/ faults' = faults + 1
           \/ /\ Ungrouped' \subseteq Ungrouped \cup {x} /\ Neglected' \subseteq Neglected /\ ~Hurt'
              /\ faults' = faults + 1
    PROVE  Bill'
  <1>. DEFINE u == Cardinality(Ungrouped)
              n == Cardinality(Neglected)
              v == Cardinality(Ungrouped')
              o == Cardinality(Neglected')
  <1>1. IsFiniteSet(Ungrouped) /\ IsFiniteSet(Neglected) /\ u \in Nat /\ n \in Nat /\ faults \in Nat
    BY LossesFinite DEF HandInv
  <1>2. /\ u + n + (IF Hurt THEN 1 ELSE 0) <= faults
        /\ Bill' <=> v + o + (IF Hurt' THEN 1 ELSE 0) <= faults'
    BY DEF Bill
  <1>3. /\ Ungrouped' \subseteq Ungrouped => v \in Nat /\ v <= u
        /\ Neglected' \subseteq Neglected => o \in Nat /\ o <= n
    BY <1>1, NoMore
  <1>4. /\ Ungrouped' \subseteq Ungrouped \cup {x} => v \in Nat /\ v <= u + 1
        /\ Neglected' \subseteq Neglected \cup {x} => o \in Nat /\ o <= n + 1
    BY <1>1, AtMostOneMore
  <1>. HIDE DEF u, n, v, o
  <1>. QED  BY <1>1, <1>2, <1>3, <1>4

(* No key is empty, and no alert.                                          *)
LEMMA NoneIsNone ==
    ASSUME IncidentInv
    PROVE  NoIncident.key \notin DOMAIN incidents /\ NoAlert \notin alerts
  <1>1. ASSUME NEW key \in DOMAIN incidents
        PROVE  key # <<>>
    <2>1. \E a : GroupingKey(a) = key
      BY DEF IncidentInv, RowAgrees
    <2>. QED  BY <2>1 DEF GroupingKey
  <1>2. ASSUME NEW a \in alerts
        PROVE  a # <<>>
    <2>1. a \in Event \X Rule
      BY DetectionAssumption DEF IncidentInv
    <2>. QED  BY <2>1
  <1>. QED  BY <1>1, <1>2 DEF NoIncident, NoAlert

(* The losses are what the tables say and what is in hand.                 *)
LEMMA LossFrame ==
    ASSUME UNCHANGED <<alerts, incidents, executions>>
    PROVE  /\ Ungrouped' = {a \in alerts \ {alert'} : ~Grouped(a)}
           /\ Neglected' = {key \in DOMAIN incidents \ {incident'.key} : Lacking(key, Due(key))}
           /\ \A key, S : Lacking(key, S)' <=> Lacking(key, S)
           /\ \A key : Due(key)' = Due(key)
  BY DEF Ungrouped, Neglected, Grouped, GroupingKey, Lacking, Due

(* A step that leaves alerts, incidents, runs and faults alone keeps the   *)
(* bill.                                                                   *)
LEMMA HandFrame ==
    ASSUME HandInv, Bill, UNCHANGED <<alerts, alert, incidents, executions, incident, faults>>,
           \/ UNCHANGED <<pc, queue>>
           \/ pc \notin Handling \cup {"group"} /\ pc' \notin Handling \cup {"group"}
    PROVE  HandInv' /\ Bill'
  <1>1. \A key : Due(key)' = Due(key)
    BY LossFrame
  <1>2. HandInv'
    <2>1. CASE UNCHANGED <<pc, queue>>
      <3>1. Current' = Current
        BY <2>1 DEF Current
      <3>. QED  BY <1>1, <2>1, <3>1 DEF HandInv
    <2>2. CASE pc \notin Handling \cup {"group"} /\ pc' \notin Handling \cup {"group"}
      BY <2>2 DEF HandInv
    <2>. QED  BY <2>1, <2>2
  <1>3. Ungrouped' = Ungrouped /\ Neglected' = Neglected
    BY LossFrame, NeglectedIs DEF Ungrouped
  <1>4. Hurt' => Hurt
    BY LossFrame, <1>1 DEF Hurt
  <1>5. Bill'
    BY <1>3, <1>4, BillStep
  <1>. QED  BY <1>2, <1>5

(* A fault in hand: the alert is not grouped, the incident not handled.    *)
LEMMA FaultBill ==
    ASSUME IncidentInv, HandInv, Bill, UNCHANGED <<alerts, incidents, executions>>,
           alert' = NoAlert, incident' = NoIncident, pc' = "idle", faults' = faults + 1
    PROVE  HandInv' /\ Bill'
  <1>1. HandInv'
    BY DEF HandInv, Handling
  <1>2. ~Hurt'
    BY DEF Hurt, Handling
  <1>3. Ungrouped' \subseteq Ungrouped \cup {alert}
    BY LossFrame DEF Ungrouped
  <1>4. Neglected' \subseteq Neglected \cup {incident.key}
    BY LossFrame, NeglectedIs
  <1>5. CASE pc = "group"
    <2>1. incident = NoIncident
      BY <1>5 DEF HandInv, Handling
    <2>2. Neglected' \subseteq Neglected
      BY <2>1, LossFrame, NeglectedIs
    <2>. QED  BY <1>1, <1>2, <1>3, <2>2, BillStep
  <1>6. CASE pc # "group"
    <2>1. alert = NoAlert
      BY <1>6 DEF HandInv
    <2>2. Ungrouped' \subseteq Ungrouped
      BY <2>1, LossFrame DEF Ungrouped
    <2>. QED  BY <1>1, <1>2, <1>4, <2>2, BillStep
  <1>. QED  BY <1>5, <1>6

(* A new alert is in hand.                                                 *)
LEMMA AlertBill ==
    ASSUME IncidentInv, HandInv, Bill, NEW a, a \notin alerts, alerts' = alerts \cup {a}, alert' = a,
           pc = "match", pc' = "group", UNCHANGED <<incidents, executions, incident, faults>>
    PROVE  HandInv' /\ Bill'
  <1>1. alert = NoAlert /\ alert \notin alerts
    BY NoneIsNone DEF HandInv
  <1>2. IsFiniteSet(alerts')
    BY FS_AddElement DEF HandInv
  <1>3. HandInv'
    BY <1>2 DEF HandInv, Handling
  <1>4. Ungrouped' = Ungrouped
    BY <1>1 DEF Ungrouped, Grouped, GroupingKey
  <1>5. Neglected' = Neglected
    BY DEF Neglected
  <1>6. ~Hurt'
    BY DEF Hurt, Handling
  <1>. QED  BY <1>3, <1>4, <1>5, <1>6, BillStep

(* An incident's first alert stays the first, so what it was due does not  *)
(* change.                                                                 *)
LEMMA FirstStays ==
    ASSUME NEW row, NEW key, RowAgrees(row, key), NEW a \in Matches
    PROVE  /\ WithAlert(row, a).alert_ids[1] = row.alert_ids[1]
           /\ Range(row.alert_ids) \subseteq Range(WithAlert(row, a).alert_ids)
           /\ a \in Range(WithAlert(row, a).alert_ids)
  <1>. DEFINE ids == row.alert_ids
              new == WithAlert(row, a).alert_ids
  <1>1. ids \in Seq(Matches) /\ Range(ids) # {} /\ IsInjective(ids)
    BY DEF RowAgrees
  <1>2. CASE a \in Range(ids)
    <2>1. new = ids
      BY <1>2 DEF WithAlert
    <2>. QED  BY <1>2, <2>1
  <1>3. CASE a \notin Range(ids)
    <2>1. new = Append(ids, a)
      BY <1>3 DEF WithAlert
    <2>2. Len(ids) \in Nat /\ DOMAIN ids = 1..Len(ids)
      BY <1>1, LenProperties
    <2>3. 1 \in 1..Len(ids)
      BY <1>1, <2>2 DEF Range
    <2>4. new[1] = ids[1]
      BY <1>1, <2>1, <2>3, AppendProperties
    <2>5. Range(new) = Range(ids) \cup {a}
      BY <1>1, <1>3, <2>1, AppendNew
    <2>. QED  BY <2>4, <2>5
  <1>. QED  BY <1>2, <1>3

(* Grouping the alert in hand loses nothing: the alert is grouped, the new *)
(* incident in hand.                                                       *)
LEMMA GroupBill ==
    ASSUME IncidentInv, HandInv, Bill, UpsertIncident
    PROVE  HandInv' /\ Bill'
  <1>0. PICK key : key = GroupingKey(alert)
    OBVIOUS
  <1>. DEFINE old == WithAlert(incidents[key], alert)
              new == [alert_ids |-> <<alert>>, severity |-> Severity[alert[2]]]
              row == IF key \in DOMAIN incidents THEN old ELSE new
  <1>1. /\ pc = "group" /\ alert' = NoAlert /\ UNCHANGED <<alerts, executions, faults>>
        /\ incidents' = With(incidents, key, row)
    BY <1>0 DEF UpsertIncident, Create
  <1>2. /\ DOMAIN incidents' = DOMAIN incidents \cup {key} /\ incidents'[key] = row
        /\ \A x \in DOMAIN incidents : x # key => incidents'[x] = incidents[x]
    <2>. HIDE DEF row
    <2>. QED  BY <1>1 DEF With
  <1>3. alert \in alerts /\ alert \in Matches /\ incident = NoIncident
    BY <1>1 DEF IncidentInv, HandInv, Handling
  <1>4. /\ alert \in Range(row.alert_ids)
        /\ key \in DOMAIN incidents => /\ row.alert_ids[1] = incidents[key].alert_ids[1]
                                       /\ Range(incidents[key].alert_ids) \subseteq Range(row.alert_ids)
        /\ key \notin DOMAIN incidents => row.alert_ids[1] = alert
    <2>1. CASE key \in DOMAIN incidents
      <3>1. RowAgrees(incidents[key], key) /\ row = old
        BY <2>1 DEF IncidentInv
      <3>. HIDE DEF row
      <3>. QED  BY <1>3, <2>1, <3>1, FirstStays
    <2>2. CASE key \notin DOMAIN incidents
      <3>1. row.alert_ids = <<alert>>
        BY <2>2
      <3>. QED  BY <2>2, <3>1 DEF Range
    <2>. QED  BY <2>1, <2>2
  <1>5. Ungrouped' \subseteq Ungrouped
    <2>. SUFFICES ASSUME NEW a \in alerts, ~Grouped(a)'
                  PROVE  a \in Ungrouped
      BY <1>1 DEF Ungrouped
    <2>1. a # alert
      <3>. SUFFICES ASSUME a = alert
                    PROVE  Grouped(a)'
        OBVIOUS
      <3>1. GroupingKey(a)' = key
        BY <1>0 DEF GroupingKey
      <3>. HIDE DEF row
      <3>. QED  BY <1>2, <1>4, <3>1 DEF Grouped, GroupingKey
    <2>2. ~Grouped(a)
      <3>. SUFFICES ASSUME Grouped(a)
                    PROVE  Grouped(a)'
        OBVIOUS
      <3>. DEFINE k == GroupingKey(a)
      <3>1. k \in DOMAIN incidents /\ a \in Range(incidents[k].alert_ids)
        BY DEF Grouped
      <3>2. k \in DOMAIN incidents' /\ a \in Range(incidents'[k].alert_ids)
        <4>. HIDE DEF k, row
        <4>. QED  BY <1>2, <1>4, <3>1
      <3>. QED  BY <3>2 DEF Grouped, GroupingKey
    <2>. QED  BY <2>1, <2>2 DEF Ungrouped
  <1>6. \A x \in DOMAIN incidents : Due(x)' = Due(x)
    <2>. HIDE DEF row
    <2>. QED  BY <1>2, <1>4 DEF Due
  <1>7. /\ NoIncident.key \notin DOMAIN incidents
        /\ \A x, S : Lacking(x, S)' <=> Lacking(x, S)
    BY <1>1, NoneIsNone DEF Lacking
  <1>8. IsFiniteSet(DOMAIN incidents')
    <2>. HIDE DEF row
    <2>. QED  BY <1>2, FS_AddElement DEF HandInv
  <1>9. CASE key \in DOMAIN incidents
    <2>1. pc' = "match" /\ UNCHANGED incident
      BY <1>0, <1>9 DEF UpsertIncident
    <2>2. HandInv'
      BY <1>1, <1>2, <1>8, <2>1 DEF HandInv, Handling
    <2>3. Neglected' \subseteq Neglected
      <3>1. DOMAIN incidents' = DOMAIN incidents
        BY <1>2, <1>9
      <3>2. Neglected' = {x \in DOMAIN incidents' \ {incident'.key} : Lacking(x, Due(x))'}
        BY DEF Neglected, Lacking, Due
      <3>. QED  BY <1>6, <1>7, <2>1, <3>1, <3>2, NeglectedIs
    <2>4. ~Hurt'
      BY <2>1 DEF Hurt, Handling
    <2>. QED  BY <1>1, <1>5, <2>2, <2>3, <2>4, BillStep
  <1>10. CASE key \notin DOMAIN incidents
    <2>. DEFINE severity == Severity[alert[2]]
                runs == Triggered(severity)
    <2>1. /\ queue' = runs
          /\ incident' = IF Notify \/ runs # {} THEN [key |-> key, severity |-> severity] ELSE NoIncident
          /\ pc' = IF Notify THEN "notify" ELSE IF runs # {} THEN "claim" ELSE "match"
      BY <1>0, <1>10 DEF UpsertIncident, Create
    <2>2. Due(key)' = runs
      BY <1>2, <1>4, <1>10 DEF Due
    <2>3. \A p : <<p, key>> \notin DOMAIN executions
      BY <1>10 DEF HandInv
    <2>. HIDE DEF runs, row
    <2>4. /\ pc' \in {"notify", "claim", "match"}
          /\ pc' \in Handling => incident'.key = key
          /\ pc' \notin Handling => incident' = NoIncident /\ runs = {}
      BY <2>1 DEF Handling
    <2>5. pc' \in Handling => Due(incident.key)' = runs
      BY <2>2, <2>4 DEF Due
    <2>6. HandInv'
      BY <1>1, <1>2, <1>8, <2>1, <2>3, <2>4, <2>5 DEF HandInv, Handling
    <2>7. ~Hurt'
      BY <2>1, <2>5 DEF Hurt, Lacking
    <2>8. Neglected' \subseteq Neglected
      <3>1. Neglected' = {x \in DOMAIN incidents' \ {incident'.key} : Lacking(x, Due(x))'}
        BY DEF Neglected, Lacking, Due
      <3>2. ASSUME NEW x \in Neglected'
            PROVE  x \in Neglected
        <4>1. x \in DOMAIN incidents \cup {key} /\ x # incident'.key /\ Lacking(x, Due(x))'
          BY <1>2, <3>1, <3>2
        <4>2. x # key
          <5>. SUFFICES ASSUME x = key
                        PROVE  FALSE
            OBVIOUS
          <5>1. pc' \notin Handling
            BY <2>4, <4>1
          <5>2. Due(x)' = {}
            BY <2>2, <2>4, <5>1
          <5>. QED  BY <4>1, <5>2 DEF Lacking
        <4>3. x \in DOMAIN incidents /\ Lacking(x, Due(x)) /\ x # incident.key
          BY <1>3, <1>6, <1>7, <4>1, <4>2
        <4>. QED  BY <4>3, NeglectedIs
      <3>. QED  BY <3>2
    <2>. QED  BY <1>1, <1>5, <2>6, <2>7, <2>8, BillStep
  <1>. QED  BY <1>9, <1>10

(* The notified incident goes on to its playbooks, or has none left.       *)
LEMMA NotifyBill ==
    ASSUME IncidentInv, QueueInv, HandInv, Bill, NotifyIncidentCreated
    PROVE  HandInv' /\ Bill'
  <1>1. /\ pc = "notify" /\ UNCHANGED <<alerts, alert, incidents, executions, queue, faults>>
        /\ \/ pc' = "claim" /\ UNCHANGED incident
           \/ pc' = "match" /\ incident' = NoIncident /\ queue = {}
    BY DEF NotifyIncidentCreated, storeVars
  <1>2. Ungrouped' = Ungrouped
    BY <1>1, LossFrame DEF Ungrouped
  <1>3. CASE pc' = "claim" /\ UNCHANGED incident
    <2>1. HandInv'
      BY <1>1, <1>3, LossFrame DEF HandInv, Handling
    <2>2. Neglected' = Neglected
      BY <1>1, <1>3, LossFrame, NeglectedIs
    <2>3. Hurt' => Hurt
      BY <1>1, <1>3, LossFrame DEF Hurt, Handling
    <2>. QED  BY <1>1, <1>2, <2>1, <2>2, <2>3, BillStep
  <1>4. CASE pc' = "match" /\ incident' = NoIncident /\ queue = {}
    <2>1. HandInv'
      BY <1>1, <1>4 DEF HandInv, Handling
    <2>2. ~Hurt'
      BY <1>4 DEF Hurt, Handling
    <2>3. Neglected' \subseteq Neglected \cup {incident.key}
      BY <1>1, <1>4, LossFrame, NeglectedIs
    <2>4. CASE Hurt
      BY <1>1, <1>2, <2>1, <2>2, <2>3, <2>4, BillStep
    <2>5. CASE ~Hurt
      <3>1. ~Lacking(incident.key, Due(incident.key))
        <4>1. Due(incident.key) \ queue = Due(incident.key)
          BY <1>4
        <4>. QED  BY <1>1, <2>5, <4>1 DEF Hurt, Handling
      <3>2. Neglected' \subseteq Neglected
        BY <1>1, <1>4, <3>1, LossFrame, NeglectedIs
      <3>. QED  BY <1>1, <1>2, <2>1, <2>2, <3>2, BillStep
    <2>. QED  BY <2>4, <2>5
  <1>. QED  BY <1>1, <1>3, <1>4

(* A step of the playbooks changes the record of its run only.             *)
LEMMA RunFrame ==
    ASSUME NEW k, NEW p, UNCHANGED <<alerts, alert, incidents>>,
           \A x : x # <<p, k>> =>
               /\ x \in DOMAIN executions' <=> x \in DOMAIN executions
               /\ x \in DOMAIN executions => executions'[x] = executions[x]
    PROVE  /\ Ungrouped' = Ungrouped
           /\ \A key : Due(key)' = Due(key)
           /\ \A key, S : key # k => (Lacking(key, S)' <=> Lacking(key, S))
           /\ \A S : p \notin S => (Lacking(k, S)' <=> Lacking(k, S))
           /\ Neglected' = {key \in DOMAIN incidents \ {incident'.key} : Lacking(key, Due(key))'}
  <1>1. Ungrouped' = Ungrouped
    BY DEF Ungrouped, Grouped, GroupingKey
  <1>2. \A key : Due(key)' = Due(key)
    BY DEF Due
  <1>3. ASSUME NEW key, NEW S, key # k \/ p \notin S
        PROVE  Lacking(key, S)' <=> Lacking(key, S)
    <2>1. \A q \in S : <<q, key>> # <<p, k>>
      BY <1>3
    <2>. QED  BY <2>1 DEF Lacking
  <1>4. Neglected' = {key \in DOMAIN incidents \ {incident'.key} : Lacking(key, Due(key))'}
    BY DEF Neglected, Lacking, Due
  <1>. QED  BY <1>1, <1>2, <1>3, <1>4

(* The run of the current playbook is over: its record is there and        *)
(* complete, or a fault has struck.                                        *)
LEMMA NextBill ==
    ASSUME QueueInv, HandInv, Bill, NextPlaybook, pc \in {"claim", "steps"},
           UNCHANGED <<alerts, alert, incidents>>,
           \A x : x # Run =>
               /\ x \in DOMAIN executions' <=> x \in DOMAIN executions
               /\ x \in DOMAIN executions => executions'[x] = executions[x],
           \/ faults' = faults + 1
           \/ faults' = faults /\ Run \in DOMAIN executions' /\ executions'[Run].status # "running"
    PROVE  HandInv' /\ Bill'
  <1>0. PICK k, p : k = incident.key /\ p = Current
    OBVIOUS
  <1>1. p \in queue /\ Run = <<p, k>> /\ k \in DOMAIN incidents /\ pc \in Handling
    BY <1>0, CurrentIn DEF Run, QueueInv, Handling
  <1>2. /\ Ungrouped' = Ungrouped
        /\ \A key : Due(key)' = Due(key)
        /\ \A key, S : key # k => (Lacking(key, S)' <=> Lacking(key, S))
        /\ \A S : p \notin S => (Lacking(k, S)' <=> Lacking(k, S))
        /\ Neglected' = {key \in DOMAIN incidents \ {incident'.key} : Lacking(key, Due(key))'}
    BY <1>1, RunFrame
  <1>3. /\ queue' = queue \ {p}
        /\ \/ pc' = "claim" /\ UNCHANGED incident
           \/ pc' = "match" /\ incident' = NoIncident /\ queue = {p}
    BY <1>0 DEF NextPlaybook
  <1>4. HandInv'
    <2>1. \A q, x : <<q, x>> \in DOMAIN executions' => x \in DOMAIN incidents
      BY <1>1 DEF HandInv
    <2>2. ASSUME pc' = "claim"
          PROVE  /\ queue' \subseteq Due(incident.key)'
                 /\ \A q \in queue' : <<q, incident'.key>> \notin DOMAIN executions'
      <3>1. incident'.key = k /\ Due(incident.key)' = Due(k)
        BY <1>0, <1>2, <1>3, <2>2 DEF Due
      <3>2. queue \subseteq Due(k) /\ \A q \in queue : q # p => <<q, k>> \notin DOMAIN executions
        BY <1>0, <1>1 DEF HandInv
      <3>. QED  BY <1>1, <1>3, <3>1, <3>2
    <2>3. IsFiniteSet(alerts') /\ IsFiniteSet(DOMAIN incidents') /\ faults' \in Nat
      BY DEF HandInv
    <2>4. alert' = NoAlert
      BY <1>1 DEF HandInv, Handling
    <2>. QED  BY <1>3, <2>1, <2>2, <2>3, <2>4 DEF HandInv, Handling
  <1>5. ASSUME faults' = faults, NEW S, Lacking(k, S)'
        PROVE  Lacking(k, S \ {p})
    <2>1. PICK q \in S : \/ <<q, k>> \notin DOMAIN executions'
                         \/ executions'[<<q, k>>].status = "running"
      BY <1>5 DEF Lacking
    <2>2. q # p
      BY <1>1, <1>5, <2>1 DEF HandInv
    <2>3. Lacking(k, S \ {p})'
      BY <2>1, <2>2 DEF Lacking
    <2>. QED  BY <1>2, <2>3
  <1>6. CASE pc' = "claim" /\ UNCHANGED incident
    <2>1. Neglected' = Neglected
      BY <1>0, <1>2, <1>6, NeglectedIs
    <2>2. ASSUME faults' = faults, Hurt'
          PROVE  Hurt
      <3>1. PICK S : S = Due(k) \ queue'
        OBVIOUS
      <3>2. incident'.key = k /\ Due(incident.key)' = Due(k)
        BY <1>0, <1>2, <1>6 DEF Due
      <3>3. Lacking(k, S)'
        BY <2>2, <3>1, <3>2 DEF Hurt, Lacking
      <3>4. Lacking(k, S \ {p}) /\ S \ {p} = Due(k) \ queue
        BY <1>1, <1>3, <1>5, <2>2, <3>1, <3>3
      <3>. QED  BY <1>0, <1>1, <3>4 DEF Hurt
    <2>. QED  BY <1>2, <1>4, <2>1, <2>2, BillStep
  <1>7. CASE pc' = "match" /\ incident' = NoIncident /\ queue = {p}
    <2>1. ~Hurt'
      BY <1>7 DEF Hurt, Handling
    <2>2. Neglected' \subseteq Neglected \cup {k}
      BY <1>0, <1>2, <1>7, NeglectedIs
    <2>3. CASE faults' = faults + 1
      BY <1>2, <1>4, <2>1, <2>2, <2>3, BillStep
    <2>4. CASE faults' = faults /\ Hurt
      BY <1>2, <1>4, <2>1, <2>2, <2>4, BillStep
    <2>5. CASE faults' = faults /\ ~Hurt
      <3>1. ~Lacking(k, Due(k))'
        <4>1. Lacking(k, Due(k))' => Lacking(k, Due(k) \ {p})
          <5>1. Lacking(k, Due(k))' => \E S : S = Due(k) /\ Lacking(k, S)'
            BY <1>2 DEF Lacking, Due
          <5>. QED  BY <1>5, <2>5, <5>1
        <4>. QED  BY <1>0, <1>1, <1>7, <2>5, <4>1 DEF Hurt
      <3>2. Neglected' \subseteq Neglected
        BY <1>2, <2>2, <3>1
      <3>. QED  BY <1>2, <1>4, <2>1, <2>5, <3>2, BillStep
    <2>. QED  BY <2>3, <2>4, <2>5
  <1>. QED  BY <1>3, <1>6, <1>7

(* A playbook's steps keep the bill: a run is completed, or a fault pays   *)
(* for it (run.ts).                                                        *)
LEMMA PlaybookBill ==
    ASSUME QueueInv, HandInv, Bill, UNCHANGED <<alerts, alert, incidents>>,
           \/ (Claim \/ RunStep \/ Complete) /\ UNCHANGED faults
           \/ (ClaimFails \/ CompleteFails) /\ faults' = faults + 1
    PROVE  HandInv' /\ Bill'
  <1>1. CASE RunStep /\ UNCHANGED faults
    <2>1. UNCHANGED <<pc, incident, queue, executions, faults>>
      BY <1>1 DEF RunStep
    <2>. QED  BY <2>1, HandFrame
  <1>2. CASE ClaimFails /\ faults' = faults + 1
    <2>1. NextPlaybook /\ pc = "claim"
      BY <1>2 DEF ClaimFails
    <2>2. \A x : x # Run => /\ x \in DOMAIN executions' <=> x \in DOMAIN executions
                            /\ x \in DOMAIN executions => executions'[x] = executions[x]
      BY <1>2 DEF ClaimFails, Claimed, With
    <2>. QED  BY <1>2, <2>1, <2>2, NextBill
  <1>3. CASE CompleteFails /\ faults' = faults + 1
    <2>1. NextPlaybook /\ pc = "steps" /\ UNCHANGED executions
      BY <1>3 DEF CompleteFails, Finished
    <2>. QED  BY <1>3, <2>1, NextBill
  <1>4. CASE Complete /\ UNCHANGED faults
    <2>. DEFINE record == [status |-> IF Failed THEN "failed" ELSE "completed", steps |-> outcomes]
    <2>1. NextPlaybook /\ pc = "steps" /\ executions' = [executions EXCEPT ![Run] = record]
      BY <1>4 DEF Complete, Finished
    <2>2. Run \in DOMAIN executions
      BY <2>1 DEF QueueInv
    <2>3. record.status # "running"
      OBVIOUS
    <2>. HIDE DEF record
    <2>4. /\ Run \in DOMAIN executions' /\ executions'[Run].status # "running"
          /\ \A x : x # Run => /\ x \in DOMAIN executions' <=> x \in DOMAIN executions
                               /\ x \in DOMAIN executions => executions'[x] = executions[x]
      BY <2>1, <2>2, <2>3
    <2>. QED  BY <1>4, <2>1, <2>4, NextBill
  <1>5. CASE Claim /\ UNCHANGED faults
    <2>0. PICK k, p : k = incident.key /\ p = Current
      OBVIOUS
    <2>1. pc = "claim" /\ p \in queue /\ Run = <<p, k>> /\ Run \notin DOMAIN executions
      <3>1. pc = "claim" /\ p \in queue /\ Run = <<p, k>>
        BY <1>5, <2>0, CurrentIn DEF Claim, Run, QueueInv
      <3>. QED  BY <2>0, <3>1 DEF HandInv, Handling
    <2>2. executions' = Claimed /\ pc' = "steps" /\ UNCHANGED <<incident, queue>>
      BY <1>5, <2>1 DEF Claim, runVars
    <2>3. \A x : x # Run => /\ x \in DOMAIN executions' <=> x \in DOMAIN executions
                            /\ x \in DOMAIN executions => executions'[x] = executions[x]
      BY <2>2 DEF Claimed, With
    <2>4. /\ Ungrouped' = Ungrouped
          /\ \A key : Due(key)' = Due(key)
          /\ \A key, S : key # k => (Lacking(key, S)' <=> Lacking(key, S))
          /\ \A S : p \notin S => (Lacking(k, S)' <=> Lacking(k, S))
          /\ Neglected' = {key \in DOMAIN incidents \ {incident'.key} : Lacking(key, Due(key))'}
      BY <2>1, <2>3, RunFrame
    <2>5. Current' = Current
      BY <2>2 DEF Current
    <2>6. HandInv'
      <3>1. k \in DOMAIN incidents
        BY <2>0, <2>1 DEF QueueInv
      <3>2. \A q, x : <<q, x>> \in DOMAIN executions' => x \in DOMAIN incidents
        BY <2>1, <2>3, <3>1 DEF HandInv
      <3>3. queue' \subseteq Due(incident.key)'
        BY <2>0, <2>1, <2>2, <2>4 DEF HandInv, Handling, Due
      <3>4. ASSUME NEW q \in queue', q # p
            PROVE  <<q, k>> \notin DOMAIN executions'
        BY <2>0, <2>1, <2>2, <2>3, <3>4 DEF HandInv, Handling
      <3>5. \A q \in queue' : <<q, incident'.key>> \notin DOMAIN executions' \/ q = Current'
        BY <2>0, <2>2, <2>5, <3>4
      <3>. QED  BY <1>5, <2>1, <2>2, <3>2, <3>3, <3>5 DEF HandInv, Handling
    <2>7. Neglected' = Neglected
      BY <2>0, <2>2, <2>4, NeglectedIs
    <2>8. Hurt' => Hurt
      <3>1. PICK S : S = Due(k) \ queue
        OBVIOUS
      <3>2. Hurt' => Lacking(k, S)'
        BY <2>0, <2>2, <2>4, <3>1 DEF Hurt, Lacking, Due
      <3>. QED  BY <2>0, <2>1, <2>4, <3>1, <3>2 DEF Hurt, Handling
    <2>. QED  BY <1>5, <2>4, <2>6, <2>7, <2>8, BillStep
  <1>. QED  BY <1>1, <1>2, <1>3, <1>4, <1>5

(* HandInv and Bill are inductive.                                         *)
LEMMA BillNext ==
    ASSUME DriverInv, IncidentInv, QueueInv, HandInv, Bill, [Next]_vars
    PROVE  HandInv' /\ Bill'
  <1>1. CASE UpsertIncident
    BY <1>1, GroupBill
  <1>2. CASE NotifyIncidentCreated
    BY <1>2, NotifyBill
  <1>3. CASE RunPlaybooks \/ PlaybookFault
    BY <1>3, PlaybookBill DEF RunPlaybooks, PlaybookFault, SoarNext, SoarFault, Fault
  <1>4. CASE Abort \/ Crash
    BY <1>4, FaultBill DEF Abort, Crash, EndPass, Forget, Fault, storeVars
  <1>5. CASE Table \/ Stop \/ UNCHANGED vars
    BY <1>5, HandFrame DEF Table, Stop, vars, cycleVars, storeVars, runVars
  <1>6. CASE StartPass \/ ReadNewEvents \/ ResolveParents \/ AdvanceCursor
    <2>1. pc \notin Handling \cup {"group"} /\ pc' \notin Handling \cup {"group"}
      BY <1>6 DEF StartPass, ReadNewEvents, ResolveParents, AdvanceCursor, EndCycle, EndPass, Handling, DriverInv
    <2>2. alert = NoAlert /\ incident = NoIncident
      BY <2>1 DEF HandInv
    <2>3. UNCHANGED <<alerts, incidents, executions, faults>>
      BY <1>6 DEF StartPass, ReadNewEvents, ResolveParents, AdvanceCursor, storeVars
    <2>4. UNCHANGED <<alert, incident>>
      BY <1>6, <2>2 DEF StartPass, ReadNewEvents, ResolveParents, AdvanceCursor, EndCycle, EndPass, Forget,
                        cycleVars, runVars
    <2>. QED  BY <2>1, <2>3, <2>4, HandFrame
  <1>7. CASE UpsertAlert
    <2>1. PICK m \in work :
              IF Known(Match(m)) THEN UNCHANGED <<alerts, alert, pc>>
              ELSE alerts' = alerts \cup {Match(m)} /\ alert' = Match(m) /\ pc' = "group"
      BY <1>7 DEF UpsertAlert
    <2>2. pc = "match" /\ UNCHANGED <<incidents, executions, incident, queue, faults>>
      BY <1>7 DEF UpsertAlert, runVars
    <2>3. CASE Known(Match(m))
      BY <2>1, <2>2, <2>3, HandFrame
    <2>4. CASE ~Known(Match(m))
      <3>1. Match(m) \notin alerts
        BY <2>4 DEF Known
      <3>. HIDE DEF Match
      <3>. QED  BY <2>1, <2>2, <2>4, <3>1, AlertBill
    <2>. QED  BY <2>3, <2>4
  <1>. QED  BY <1>1, <1>2, <1>3, <1>4, <1>5, <1>6, <1>7 DEF Next, Cycle, Closed

(* Nothing is lost at the start.                                           *)
LEMMA BillInit == Init => HandInv /\ Bill
  <1>. SUFFICES ASSUME Init
                PROVE  HandInv /\ Bill
    OBVIOUS
  <1>1. /\ alerts = {} /\ incidents = <<>> /\ executions = <<>> /\ faults = 0 /\ pc = "idle"
        /\ alert = NoAlert /\ incident = NoIncident
    BY DEF Init, SoarInit
  <1>2. DOMAIN incidents = {} /\ DOMAIN executions = {}
    BY <1>1
  <1>3. HandInv
    BY <1>1, <1>2, FS_EmptySet DEF HandInv, Handling
  <1>4. Ungrouped = {} /\ Neglected = {} /\ ~Hurt
    BY <1>1, <1>2 DEF Ungrouped, Neglected, Hurt, Handling
  <1>. QED  BY <1>1, <1>3, <1>4, FS_EmptySet DEF Bill

(***************************************************************************)
(* A fault, whenever it comes, leaves at most one alert outside every      *)
(* incident or one incident without a completed playbook (index.ts         *)
(* runDetectionCycle, run.ts runOne).                                      *)
(***************************************************************************)
THEOREM LossesPerFault == Spec => []OneLossPerFault
  <1>1. HandInv /\ Bill => OneLossPerFault
    <2>. SUFFICES ASSUME HandInv, Bill
                  PROVE  OneLossPerFault
      OBVIOUS
    <2>1. Cardinality(Ungrouped) \in Nat /\ Cardinality(Neglected) \in Nat /\ faults \in Nat
      BY LossesFinite DEF HandInv
    <2>. QED  BY <2>1 DEF Bill, OneLossPerFault
  <1>2. DriverInv /\ IncidentInv /\ QueueInv /\ HandInv /\ Bill /\ [Next]_vars => HandInv' /\ Bill'
    BY BillNext
  <1>. QED  BY <1>1, <1>2, BillInit, DriverInit, DriverStep, IncidentInit, IncidentStep,
               MailInit, MailStep, PTL DEF Spec
=============================================================================
