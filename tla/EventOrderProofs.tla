--------------------------- MODULE EventOrderProofs ---------------------------
(***************************************************************************)
(* More proofs about EventPipeline, for every capacity, batch size, retry  *)
(* limit and bound: events leave the agent and reach the table in the      *)
(* order of capture (OrderKept), a sequence number names one batch         *)
(* (OneBatchPerSequence), a stop reports what is lost (StopReportsLoss),   *)
(* and the pipeline implements AtLeastOnce.                                *)
(*                                                                         *)
(* All four rest on one invariant.  The events captured are those          *)
(* acknowledged, in the POST in flight, in the ring and discarded, the     *)
(* first three in this order; what the wire and the table have of older    *)
(* POSTs is older than everything the agent still holds.                   *)
(***************************************************************************)
EXTENDS EventPipelineProofs, FiniteSetTheorems

Acked == Range(delivered)
Flying == Range(pending.events)
Waiting == Range(ring)

Increasing(s) == \A i, j \in 1..Len(s) : i < j => s[i] < s[j]
Below(S, T) == \A e \in S : \A f \in T : e < f

(***************************************************************************)
(* The agent's events, in order and complete.                              *)
(***************************************************************************)
InLine ==
    /\ Increasing(delivered) /\ Increasing(pending.events) /\ Increasing(ring)
    /\ Below(Acked, Flying) /\ Below(Acked, Waiting) /\ Below(Flying, Waiting)

Complete == Captured = Acked \cup Flying \cup Waiting \cup discarded

(***************************************************************************)
(* The POST in flight has the last sequence number.                        *)
(***************************************************************************)
Numbered ==
    /\ pc \in {"attempt", "backoff", "final"} => InFlight
    /\ InFlight => pending.sequence = sequence
    /\ \A r \in requests : 1 <= r.sequence /\ r.sequence <= sequence

(***************************************************************************)
(* What is on the wire: attempts at the POST in flight, or older events    *)
(* than any the agent holds.                                               *)
(***************************************************************************)
OnWire ==
    \A r \in requests :
        /\ Range(r.events) \subseteq Captured
        /\ r.sequence = pending.sequence => r.events = pending.events
        /\ r.sequence # pending.sequence => Below(Range(r.events), Flying \cup Waiting)
        /\ \A q \in requests :
             IF q.sequence = r.sequence THEN q.events = r.events
             ELSE Range(q.events) \cap Range(r.events) = {}

InTable ==
    /\ stored \subseteq Captured
    /\ \A e \in stored : e \in Flying \/ Below({e}, Flying \cup Waiting)

Reported == pc = "stopped" => undelivered = Len(ring) + Len(pending.events)

OrderInv == InLine /\ Complete /\ Numbered /\ OnWire /\ InTable /\ Reported

-----------------------------------------------------------------------------
(***************************************************************************)
(* Increasing sequences of events: what the ring and the batches are.      *)
(***************************************************************************)

(***************************************************************************)
(* The events of a sequence are its elements.                              *)
(***************************************************************************)
LEMMA ElementsLemma ==
    ASSUME NEW s \in Seq(Nat)
    PROVE  /\ Len(s) \in Nat
           /\ \A i \in 1..Len(s) : s[i] \in Nat /\ s[i] \in Range(s)
           /\ \A e \in Range(s) : e \in Nat /\ \E i \in 1..Len(s) : e = s[i]
<1>1. Len(s) \in Nat /\ \A i \in 1..Len(s) : s[i] \in Nat
  BY LenProperties, ElementOfSeq
<1>2. Range(s) = {s[i] : i \in 1..Len(s)}
  BY RangeEquality
<1>. QED
  BY <1>1, <1>2

(***************************************************************************)
(* No events.                                                              *)
(***************************************************************************)
LEMMA EmptyLemma == Range(<<>>) = {} /\ Increasing(<<>>) /\ Len(<<>>) = 0
<1>1. Len(<<>>) = 0
  BY EmptySeq
<1>2. Range(<<>>) = {}
  BY DEF Range
<1>. QED
  BY <1>1, <1>2 DEF Increasing

(***************************************************************************)
(* A batch drained from the front of the ring and what it leaves.          *)
(***************************************************************************)
LEMMA CutOrder ==
    ASSUME NEW s \in Seq(Nat), Increasing(s), NEW n \in 0..Len(s)
    PROVE  /\ Increasing(SubSeq(s, 1, n)) /\ Increasing(SubSeq(s, n + 1, Len(s)))
           /\ Range(SubSeq(s, 1, n)) \cup Range(SubSeq(s, n + 1, Len(s))) = Range(s)
           /\ Below(Range(SubSeq(s, 1, n)), Range(SubSeq(s, n + 1, Len(s))))
<1>. DEFINE a == SubSeq(s, 1, n)
            b == SubSeq(s, n + 1, Len(s))
<1>1. /\ a \in Seq(Nat) /\ b \in Seq(Nat) /\ Len(a) = n /\ Len(b) = Len(s) - n
      /\ \A i \in 1..n : a[i] = s[i]
      /\ \A i \in 1..(Len(s) - n) : b[i] = s[n + i]
  BY CutLemma
<1>. HIDE DEF a, b
<1>2. Len(s) \in Nat /\ n \in Nat /\ n <= Len(s)
  BY LenProperties
<1>3. /\ \A e \in Range(a) : \E i \in 1..n : e = a[i]
      /\ \A e \in Range(b) : \E i \in 1..(Len(s) - n) : e = b[i]
      /\ \A i \in 1..n : a[i] \in Range(a)
      /\ \A i \in 1..(Len(s) - n) : b[i] \in Range(b)
  <2>1. /\ \A e \in Range(a) : \E i \in 1..Len(a) : e = a[i]
        /\ \A i \in 1..Len(a) : a[i] \in Range(a)
    BY <1>1, ElementsLemma
  <2>2. /\ \A e \in Range(b) : \E i \in 1..Len(b) : e = b[i]
        /\ \A i \in 1..Len(b) : b[i] \in Range(b)
    BY <1>1, ElementsLemma
  <2>. QED
    BY <1>1, <2>1, <2>2
<1>4. Increasing(a)
  <2>. SUFFICES ASSUME NEW i \in 1..n, NEW j \in 1..n, i < j PROVE a[i] < a[j]
    BY <1>1 DEF Increasing
  <2>1. i \in 1..Len(s) /\ j \in 1..Len(s) /\ a[i] = s[i] /\ a[j] = s[j]
    BY <1>1, <1>2
  <2>. QED
    BY <2>1 DEF Increasing
<1>5. Increasing(b)
  <2>. SUFFICES ASSUME NEW i \in 1..(Len(s) - n), NEW j \in 1..(Len(s) - n), i < j
                PROVE  b[i] < b[j]
    BY <1>1 DEF Increasing
  <2>1. n + i \in 1..Len(s) /\ n + j \in 1..Len(s) /\ n + i < n + j
    BY <1>2
  <2>2. b[i] = s[n + i] /\ b[j] = s[n + j]
    BY <1>1
  <2>. QED
    BY <2>1, <2>2 DEF Increasing
<1>6. Below(Range(a), Range(b))
  <2>. SUFFICES ASSUME NEW e \in Range(a), NEW g \in Range(b) PROVE e < g
    BY DEF Below
  <2>1. PICK i \in 1..n : e = a[i]
    BY <1>3
  <2>2. PICK j \in 1..(Len(s) - n) : g = b[j]
    BY <1>3
  <2>3. i < n + j /\ i \in 1..Len(s) /\ n + j \in 1..Len(s)
    BY <1>2
  <2>. QED
    BY <1>1, <2>1, <2>2, <2>3 DEF Increasing
<1>7. Range(a) \cup Range(b) = Range(s)
  <2>1. ASSUME NEW e \in Range(s) PROVE e \in Range(a) \cup Range(b)
    <3>1. PICK i \in 1..Len(s) : e = s[i]
      BY ElementsLemma
    <3>2. CASE i <= n
      BY <1>1, <1>2, <1>3, <3>1, <3>2
    <3>3. CASE ~(i <= n)
      <4>1. i - n \in 1..(Len(s) - n) /\ n + (i - n) = i
        BY <1>2, <3>3
      <4>2. b[i - n] = s[i]
        BY <1>1, <4>1
      <4>. QED
        BY <1>3, <3>1, <4>1, <4>2
    <3>. QED
      BY <3>2, <3>3
  <2>2. ASSUME NEW e \in Range(a) PROVE e \in Range(s)
    <3>1. PICK i \in 1..n : e = a[i]
      BY <1>3
    <3>2. i \in 1..Len(s) /\ e = s[i]
      BY <1>1, <1>2, <3>1
    <3>. QED
      BY <3>2, ElementsLemma
  <2>3. ASSUME NEW e \in Range(b) PROVE e \in Range(s)
    <3>1. PICK i \in 1..(Len(s) - n) : e = b[i]
      BY <1>3
    <3>2. n + i \in 1..Len(s) /\ e = s[n + i]
      BY <1>1, <1>2, <3>1
    <3>. QED
      BY <3>2, ElementsLemma
  <2>. QED
    BY <2>1, <2>2, <2>3
<1>. QED
  BY <1>4, <1>5, <1>6, <1>7 DEF a, b

(***************************************************************************)
(* A newer event at the back of the ring (enqueue_or_drop).                *)
(***************************************************************************)
LEMMA AppendOrder ==
    ASSUME NEW s \in Seq(Nat), Increasing(s), NEW e \in Nat, Below(Range(s), {e})
    PROVE  Increasing(Append(s, e)) /\ Range(Append(s, e)) = Range(s) \cup {e}
<1>1. Len(s) \in Nat /\ Append(s, e) \in Seq(Nat) /\ Len(Append(s, e)) = Len(s) + 1
  BY AppendProperties, LenProperties
<1>2. /\ \A i \in 1..Len(s) : Append(s, e)[i] = s[i]
      /\ Append(s, e)[Len(s) + 1] = e
  BY AppendProperties
<1>3. \A i \in 1..Len(s) : s[i] < e
  BY ElementsLemma DEF Below
<1>. DEFINE t == Append(s, e)
<1>. HIDE DEF t
<1>4. Increasing(t)
  <2>. SUFFICES ASSUME NEW i \in 1..Len(t), NEW j \in 1..Len(t), i < j PROVE t[i] < t[j]
    BY DEF Increasing
  <2>1. i \in 1..Len(s) /\ (j \in 1..Len(s) \/ j = Len(s) + 1)
    BY <1>1 DEF t
  <2>. QED
    BY <1>2, <1>3, <2>1 DEF Increasing, t
<1>5. Range(t) = Range(s) \cup {e}
  <2>1. ASSUME NEW x \in Range(t) PROVE x \in Range(s) \cup {e}
    <3>1. PICK i \in 1..Len(t) : x = t[i]
      BY <1>1, ElementsLemma DEF t
    <3>2. i \in 1..Len(s) \/ i = Len(s) + 1
      BY <1>1 DEF t
    <3>. QED
      BY <1>2, <3>1, <3>2, ElementsLemma DEF t
  <2>2. e \in Range(t)
    <3>1. Len(s) + 1 \in 1..Len(t)
      BY <1>1 DEF t
    <3>. QED
      BY <1>1, <1>2, <3>1, ElementsLemma DEF t
  <2>3. ASSUME NEW x \in Range(s) PROVE x \in Range(t)
    <3>1. PICK i \in 1..Len(s) : x = s[i]
      BY ElementsLemma
    <3>2. i \in 1..Len(t) /\ t[i] = x
      BY <1>1, <1>2, <3>1 DEF t
    <3>. QED
      BY <1>1, <3>2, ElementsLemma DEF t
  <2>. QED
    BY <2>1, <2>2, <2>3
<1>. QED
  BY <1>4, <1>5 DEF t

(***************************************************************************)
(* A full ring loses its oldest event.                                     *)
(***************************************************************************)
LEMMA TailOrder ==
    ASSUME NEW s \in Seq(Nat), Increasing(s), s # <<>>
    PROVE  /\ Tail(s) \in Seq(Nat) /\ Head(s) \in Nat /\ Increasing(Tail(s))
           /\ Range(s) = {Head(s)} \cup Range(Tail(s))
           /\ Below({Head(s)}, Range(Tail(s)))
<1>1. /\ Tail(s) \in Seq(Nat) /\ Head(s) \in Nat /\ Len(Tail(s)) = Len(s) - 1
      /\ \A i \in 1..Len(Tail(s)) : Tail(s)[i] = s[i + 1]
  BY HeadTailProperties
<1>2. Len(s) \in Nat /\ Len(s) # 0 /\ Head(s) = s[1]
  BY LenProperties, EmptySeq
<1>. DEFINE t == Tail(s)
            h == Head(s)
<1>3. t \in Seq(Nat) /\ Len(t) = Len(s) - 1 /\ (\A i \in 1..Len(t) : t[i] = s[i + 1]) /\ h = s[1]
  BY <1>1, <1>2
<1>. HIDE DEF t, h
<1>4. Increasing(t)
  <2>. SUFFICES ASSUME NEW i \in 1..Len(t), NEW j \in 1..Len(t), i < j PROVE t[i] < t[j]
    BY DEF Increasing
  <2>1. i + 1 \in 1..Len(s) /\ j + 1 \in 1..Len(s) /\ i + 1 < j + 1
    BY <1>2, <1>3
  <2>2. t[i] = s[i + 1] /\ t[j] = s[j + 1]
    BY <1>3
  <2>. QED
    BY <2>1, <2>2 DEF Increasing
<1>5. Below({h}, Range(t))
  <2>. SUFFICES ASSUME NEW e \in Range(t) PROVE h < e
    BY DEF Below
  <2>1. PICK i \in 1..Len(t) : e = t[i]
    BY <1>3, ElementsLemma
  <2>2. i + 1 \in 1..Len(s) /\ 1 \in 1..Len(s) /\ 1 < i + 1
    BY <1>2, <1>3
  <2>. QED
    BY <1>3, <2>1, <2>2 DEF Increasing
<1>6. Range(s) = {h} \cup Range(t)
  <2>1. ASSUME NEW e \in Range(s) PROVE e \in {h} \cup Range(t)
    <3>1. PICK i \in 1..Len(s) : e = s[i]
      BY ElementsLemma
    <3>2. CASE i = 1
      BY <1>3, <3>1, <3>2
    <3>3. CASE i # 1
      <4>1. i - 1 \in 1..Len(t) /\ (i - 1) + 1 = i
        BY <1>2, <1>3, <3>3
      <4>2. t[i - 1] = e
        BY <1>3, <3>1, <4>1
      <4>. QED
        BY <1>3, <4>1, <4>2, ElementsLemma
    <3>. QED
      BY <3>2, <3>3
  <2>2. h \in Range(s)
    BY <1>2, <1>3, ElementsLemma
  <2>3. ASSUME NEW e \in Range(t) PROVE e \in Range(s)
    <3>1. PICK i \in 1..Len(t) : e = t[i]
      BY <1>3, ElementsLemma
    <3>2. i + 1 \in 1..Len(s) /\ e = s[i + 1]
      BY <1>2, <1>3, <3>1
    <3>. QED
      BY <3>2, ElementsLemma
  <2>. QED
    BY <2>1, <2>2, <2>3
<1>. QED
  BY <1>1, <1>4, <1>5, <1>6 DEF t, h

(***************************************************************************)
(* One after the other.                                                    *)
(***************************************************************************)
LEMMA ConcatOrder ==
    ASSUME NEW s \in Seq(Nat), NEW t \in Seq(Nat), Increasing(s), Increasing(t),
           Below(Range(s), Range(t))
    PROVE  Increasing(s \o t) /\ s \o t \in Seq(Nat) /\ Range(s \o t) = Range(s) \cup Range(t)
<1>1. /\ s \o t \in Seq(Nat) /\ Len(s \o t) = Len(s) + Len(t)
      /\ \A i \in 1..(Len(s) + Len(t)) : (s \o t)[i] = IF i <= Len(s) THEN s[i] ELSE t[i - Len(s)]
  BY ConcatProperties
<1>2. Range(s \o t) = Range(s) \cup Range(t)
  BY RangeConcatenation
<1>3. Len(s) \in Nat /\ Len(t) \in Nat
  BY LenProperties
<1>4. \A i \in 1..Len(s) : \A j \in 1..Len(t) : s[i] < t[j]
  BY ElementsLemma DEF Below
<1>. DEFINE c == s \o t
<1>5. Len(c) = Len(s) + Len(t)
      /\ \A i \in 1..(Len(s) + Len(t)) : c[i] = IF i <= Len(s) THEN s[i] ELSE t[i - Len(s)]
  BY <1>1
<1>. HIDE DEF c
<1>6. Increasing(c)
  <2>. SUFFICES ASSUME NEW i \in 1..Len(c), NEW j \in 1..Len(c), i < j PROVE c[i] < c[j]
    BY DEF Increasing
  <2>1. CASE j <= Len(s)
    <3>1. i \in 1..Len(s) /\ j \in 1..Len(s) /\ c[i] = s[i] /\ c[j] = s[j]
      BY <1>3, <1>5, <2>1
    <3>. QED
      BY <3>1 DEF Increasing
  <2>2. CASE i <= Len(s) /\ ~(j <= Len(s))
    <3>1. i \in 1..Len(s) /\ j - Len(s) \in 1..Len(t) /\ c[i] = s[i] /\ c[j] = t[j - Len(s)]
      BY <1>3, <1>5, <2>2
    <3>. QED
      BY <1>4, <3>1
  <2>3. CASE ~(i <= Len(s))
    <3>1. /\ i - Len(s) \in 1..Len(t) /\ j - Len(s) \in 1..Len(t) /\ i - Len(s) < j - Len(s)
          /\ c[i] = t[i - Len(s)] /\ c[j] = t[j - Len(s)]
      BY <1>3, <1>5, <2>3
    <3>. QED
      BY <3>1 DEF Increasing
  <2>. QED
    BY <1>3, <1>5, <2>1, <2>2, <2>3
<1>. QED
  BY <1>1, <1>2, <1>6 DEF c

(***************************************************************************)
(* An increasing sequence has as many events as places.                    *)
(***************************************************************************)
LEMMA CountLemma ==
    ASSUME NEW s \in Seq(Nat)
    PROVE  /\ IsFiniteSet(Range(s)) /\ Cardinality(Range(s)) \in Nat
           /\ Cardinality(Range(s)) <= Len(s)
           /\ Increasing(s) => Cardinality(Range(s)) = Len(s)
<1>1. Len(s) \in Nat /\ s \in [1..Len(s) -> Nat]
  BY LenProperties
<1>2. s \in [1..Len(s) -> Range(s)]
  BY <1>1, ElementsLemma
<1>3. s \in Surjection(1..Len(s), Range(s))
  BY <1>2, ElementsLemma DEF Surjection
<1>4. IsFiniteSet(1..Len(s)) /\ Cardinality(1..Len(s)) = Len(s)
  <2>1. ASSUME NEW n \in Nat PROVE IsFiniteSet(1..n) /\ Cardinality(1..n) = n
    <3>1. IsFiniteSet(1..n) /\ Cardinality(1..n) = IF 1 > n THEN 0 ELSE n - 1 + 1
      BY FS_Interval
    <3>. QED
      BY <3>1
  <2>. QED
    BY <1>1, <2>1
<1>5. IsFiniteSet(Range(s)) /\ Cardinality(Range(s)) <= Len(s)
      /\ (s \in Injection(1..Len(s), Range(s)) => Cardinality(Range(s)) = Len(s))
  BY <1>3, <1>4, FS_Surjection
<1>6. Cardinality(Range(s)) \in Nat
  BY <1>5, FS_CardinalityType
<1>7. ASSUME Increasing(s) PROVE s \in Injection(1..Len(s), Range(s))
  <2>1. ASSUME NEW i \in 1..Len(s), NEW j \in 1..Len(s), i # j PROVE s[i] # s[j]
    <3>1. s[i] \in Nat /\ s[j] \in Nat /\ i \in Nat /\ j \in Nat
      BY <1>1
    <3>2. i < j \/ j < i
      BY <2>1, <3>1
    <3>. QED
      BY <1>7, <3>1, <3>2 DEF Increasing
  <2>. QED
    BY <1>1, <1>2, <2>1 DEF Injection, IsInjective
<1>. QED
  BY <1>5, <1>6, <1>7

-----------------------------------------------------------------------------
(***************************************************************************)
(* The shapes of a step.                                                   *)
(***************************************************************************)

(***************************************************************************)
(* Events are numbers, and an event captured now is the largest.           *)
(***************************************************************************)
LEMMA EventsTyped ==
    ASSUME TypeOK
    PROVE  /\ pending.events \in Seq(Nat) /\ Acked \subseteq Nat /\ Flying \subseteq Nat
           /\ Waiting \subseteq Nat
           /\ \A r \in requests : r.events \in Seq(Nat) /\ Range(r.events) \subseteq Nat
  BY RangeOfSeq DEF TypeOK, Post, Request, Acked, Flying, Waiting

(***************************************************************************)
(* A new event goes to the back of the ring, and may push out its front    *)
(* (ring.rs enqueue_or_drop).                                              *)
(***************************************************************************)
LEMMA EnqueueLemma ==
    ASSUME TypeOK, OrderInv, EnqueueOrDrop
    PROVE  /\ Increasing(ring')
           /\ \E lost \in SUBSET Waiting :
                /\ Waiting' = (Waiting \ lost) \cup {captured + 1}
                /\ discarded' = discarded \cup lost
                /\ \/ lost = {} /\ dropped_total' = dropped_total
                   \/ lost = {Head(ring)} /\ dropped_total' = dropped_total + 1
<1>. USE DEF OrderInv
<1>1. ring \in Seq(Nat) /\ Increasing(ring) /\ captured \in Nat /\ captured + 1 \in Nat
  BY DEF TypeOK, InLine
<1>2. Below(Waiting, {captured + 1})
  BY <1>1, EventsTyped DEF Below, Complete, Captured
<1>3. CASE Len(ring) >= Capacity
  <2>1. /\ ring' = Append(Tail(ring), captured + 1) /\ discarded' = discarded \cup {Head(ring)}
        /\ dropped_total' = dropped_total + 1
    BY <1>3 DEF EnqueueOrDrop, Enqueue
  <2>2. ring # <<>>
    BY <1>3, EmptyLemma, ConstantsLemma
  <2>3. /\ Tail(ring) \in Seq(Nat) /\ Head(ring) \in Nat /\ Increasing(Tail(ring))
        /\ Range(ring) = {Head(ring)} \cup Range(Tail(ring))
        /\ Below({Head(ring)}, Range(Tail(ring)))
    BY <1>1, <2>2, TailOrder
  <2>4. Below(Range(Tail(ring)), {captured + 1})
    BY <1>2, <2>3 DEF Below, Waiting
  <2>5. Increasing(ring') /\ Range(ring') = Range(Tail(ring)) \cup {captured + 1}
    BY <1>1, <2>1, <2>3, <2>4, AppendOrder
  <2>6. Head(ring) \notin Range(Tail(ring))
    BY <2>3 DEF Below
  <2>7. Range(Tail(ring)) = Waiting \ {Head(ring)} /\ {Head(ring)} \in SUBSET Waiting
    BY <2>3, <2>6 DEF Waiting
  <2>8. Waiting' = (Waiting \ {Head(ring)}) \cup {captured + 1}
    BY <2>5, <2>7 DEF Waiting
  <2>. QED
    BY <2>1, <2>5, <2>7, <2>8
<1>4. CASE ~(Len(ring) >= Capacity)
  <2>1. /\ ring' = Append(ring, captured + 1) /\ discarded' = discarded
        /\ dropped_total' = dropped_total
    BY <1>4 DEF EnqueueOrDrop, Enqueue
  <2>2. Increasing(ring') /\ Range(ring') = Range(ring) \cup {captured + 1}
    BY <1>1, <1>2, <2>1, AppendOrder DEF Waiting
  <2>3. Waiting' = (Waiting \ {}) \cup {captured + 1} /\ {} \in SUBSET Waiting
    BY <2>2 DEF Waiting
  <2>4. discarded' = discarded \cup {}
    BY <2>1
  <2>. QED
    BY <2>1, <2>2, <2>3, <2>4
<1>. QED
  BY <1>3, <1>4

(***************************************************************************)
(* An event captured keeps the invariant.                                  *)
(***************************************************************************)
LEMMA EnqueueKeeps ==
    ASSUME TypeOK, OrderInv, EnqueueOrDrop, UNCHANGED stored
    PROVE  OrderInv'
<1>. USE DEF OrderInv
<1>1. PICK lost \in SUBSET Waiting :
         Waiting' = (Waiting \ lost) \cup {captured + 1} /\ discarded' = discarded \cup lost
  BY EnqueueLemma
<1>2. /\ pc' = pc /\ pending' = pending /\ delivered' = delivered /\ requests' = requests
      /\ sequence' = sequence /\ undelivered' = undelivered /\ captured' = captured + 1
      /\ pc # "stopped"
  BY DEF EnqueueOrDrop, Enqueue, Capturing, loopVars, doneVars, netVars
<1>3. Acked' = Acked /\ Flying' = Flying
  BY <1>2 DEF Acked, Flying
<1>4. captured \in Nat
  BY DEF TypeOK
<1>5. Captured' = Captured \cup {captured + 1}
  BY <1>2, <1>4 DEF Captured
<1>6. \A e \in Captured : e < captured + 1
  BY <1>4 DEF Captured
<1>7. Acked \subseteq Captured /\ Flying \subseteq Captured /\ Waiting \subseteq Captured
  BY DEF Complete
<1>8. InLine'
  <2>1. Increasing(delivered') /\ Increasing(pending'.events) /\ Increasing(ring')
    BY <1>2, EnqueueLemma DEF InLine
  <2>2. Below(Acked, Flying) /\ Below(Acked, Waiting') /\ Below(Flying, Waiting')
    BY <1>1, <1>6, <1>7 DEF InLine, Below
  <2>. QED
    BY <1>3, <2>1, <2>2 DEF InLine
<1>9. Complete'
  BY <1>1, <1>3, <1>5 DEF Complete
<1>10. Numbered'
  BY <1>2 DEF Numbered, InFlight
<1>11. OnWire'
  <2>. SUFFICES ASSUME NEW r \in requests
                PROVE  /\ Range(r.events) \subseteq Captured'
                       /\ r.sequence # pending.sequence =>
                            Below(Range(r.events), Flying \cup Waiting')
    BY <1>2, <1>3 DEF OnWire
  <2>1. Range(r.events) \subseteq Captured
    BY DEF OnWire
  <2>2. ASSUME r.sequence # pending.sequence
        PROVE  Below(Range(r.events), Flying \cup Waiting')
    <3>1. Below(Range(r.events), Flying \cup Waiting)
      BY <2>2 DEF OnWire
    <3>. QED
      BY <1>1, <1>6, <2>1, <3>1 DEF Below
  <2>. QED
    BY <1>5, <2>1, <2>2
<1>12. InTable'
  <2>1. stored \subseteq Captured /\ stored' = stored
    BY DEF InTable
  <2>2. ASSUME NEW e \in stored PROVE e \in Flying \/ Below({e}, Flying \cup Waiting')
    <3>1. e \in Flying \/ Below({e}, Flying \cup Waiting)
      BY DEF InTable
    <3>. QED
      BY <1>1, <1>6, <2>1, <3>1 DEF Below
  <2>. QED
    BY <1>3, <1>5, <2>1, <2>2 DEF InTable
<1>13. Reported'
  BY <1>2 DEF Reported
<1>. QED
  BY <1>8, <1>9, <1>10, <1>11, <1>12, <1>13

(***************************************************************************)
(* A POST is formed from the front of the ring, when none is in flight,    *)
(* and sent (delivery.rs form_batch; finish).                              *)
(***************************************************************************)
LEMMA BatchLemma ==
    ASSUME TypeOK, OrderInv, ~InFlight, pending.events = <<>>,
           pending' = FormBatch, ring' = AfterDrain(MaxBatch)
    PROVE  /\ Increasing(pending'.events) /\ Increasing(ring')
           /\ Flying = {} /\ Flying' \cup Waiting' = Waiting /\ Below(Flying', Waiting')
<1>1. ring \in Seq(Nat) /\ Increasing(ring) /\ sequence \in Nat
  BY DEF TypeOK, OrderInv, InLine
<1>2. DrainCount(MaxBatch) \in 0..Len(ring)
  BY <1>1, LenProperties, ConstantsLemma DEF DrainCount
<1>3. pending'.events = SubSeq(ring, 1, DrainCount(MaxBatch))
  BY <1>1, FormBatchLemma DEF Drained
<1>4. ring' = SubSeq(ring, DrainCount(MaxBatch) + 1, Len(ring))
  BY DEF AfterDrain
<1>5. Flying = {}
  BY EmptyLemma DEF Flying
<1>. QED
  BY <1>1, <1>2, <1>3, <1>4, <1>5, CutOrder DEF Flying, Waiting

(***************************************************************************)
(* A new POST keeps the invariant.                                         *)
(***************************************************************************)
LEMMA BatchKeeps ==
    ASSUME TypeOK, OrderInv, ~InFlight, pending.events = <<>>,
           pending' = FormBatch, ring' = AfterDrain(MaxBatch), Send(FormBatch),
           sequence' = sequence + 1, pc' # "stopped",
           UNCHANGED <<discarded, captured, delivered, stored>>
    PROVE  OrderInv'
<1>. USE DEF OrderInv
<1>1. /\ Increasing(pending'.events) /\ Increasing(ring')
      /\ Flying = {} /\ Flying' \cup Waiting' = Waiting /\ Below(Flying', Waiting')
  BY BatchLemma
<1>2. Acked' = Acked /\ Captured' = Captured /\ discarded' = discarded /\ stored' = stored
  BY DEF Acked, Captured
<1>3. sequence \in Nat /\ pending'.sequence = sequence + 1 /\ ring \in Seq(Nat)
  BY FormBatchLemma DEF TypeOK
<1>. DEFINE new == [nonce |-> nonces + 1, sequence |-> FormBatch.sequence,
                    events |-> FormBatch.events, stage |-> "sent"]
<1>4. new.sequence = pending'.sequence /\ new.events = pending'.events
      /\ requests' = requests \cup {new}
  BY DEF Send
<1>. HIDE DEF new
<1>5. \A r \in requests : /\ r.sequence # 0 /\ r.sequence # sequence + 1
                          /\ 1 <= r.sequence /\ r.sequence <= sequence
                          /\ r.sequence \in Nat
  BY <1>3 DEF Numbered, TypeOK, Request
<1>6. InLine'
  <2>1. Below(Acked, Flying') /\ Below(Acked, Waiting')
    BY <1>1 DEF InLine, Below
  <2>. QED
    BY <1>1, <1>2, <2>1 DEF InLine
<1>7. Complete'
  BY <1>1, <1>2 DEF Complete
<1>8. Numbered'
  BY <1>3, <1>4, <1>5 DEF Numbered, InFlight
<1>9. \A r \in requests : Below(Range(r.events), Waiting)
  BY <1>1, <1>5 DEF OnWire, InFlight
<1>10. \A r \in requests : Range(r.events) \cap Flying' = {}
  <2>. SUFFICES ASSUME NEW r \in requests, NEW e, e \in Range(r.events), e \in Flying'
                PROVE  FALSE
    OBVIOUS
  <2>1. e \in Waiting /\ e \in Nat
    BY <1>1, EventsTyped
  <2>. QED
    BY <1>9, <2>1 DEF Below
<1>11. OnWire'
  <2>1. Range(new.events) = Flying'
    BY <1>4 DEF Flying
  <2>2. Flying' \subseteq Captured
    BY <1>1 DEF Complete
  <2>3. ASSUME NEW r \in requests
        PROVE  /\ Range(r.events) \subseteq Captured /\ r.sequence # pending'.sequence
               /\ Below(Range(r.events), Flying' \cup Waiting')
    BY <1>1, <1>3, <1>5, <1>9 DEF OnWire
  <2>4. ASSUME NEW r \in requests, NEW q \in requests
        PROVE  IF q.sequence = r.sequence THEN q.events = r.events
               ELSE Range(q.events) \cap Range(r.events) = {}
    BY DEF OnWire
  <2>. SUFFICES ASSUME NEW r \in requests'
                PROVE  /\ Range(r.events) \subseteq Captured'
                       /\ r.sequence = pending'.sequence => r.events = pending'.events
                       /\ r.sequence # pending'.sequence =>
                            Below(Range(r.events), Flying' \cup Waiting')
                       /\ \A q \in requests' :
                            IF q.sequence = r.sequence THEN q.events = r.events
                            ELSE Range(q.events) \cap Range(r.events) = {}
    BY DEF OnWire
  <2>5. CASE r \in requests
    BY <1>2, <1>4, <1>10, <2>1, <2>3, <2>4, <2>5
  <2>6. CASE r = new
    BY <1>2, <1>4, <1>10, <2>1, <2>2, <2>3, <2>6
  <2>. QED
    BY <1>4, <2>5, <2>6
<1>12. InTable'
  BY <1>1, <1>2 DEF InTable
<1>13. Reported'
  BY DEF Reported
<1>. QED
  BY <1>6, <1>7, <1>8, <1>11, <1>12, <1>13

(***************************************************************************)
(* Another attempt at the POST in flight.                                  *)
(***************************************************************************)
LEMMA ResendKeeps ==
    ASSUME TypeOK, OrderInv, InFlight, Send(pending), pc' # "stopped",
           pending'.sequence = pending.sequence, pending'.events = pending.events,
           UNCHANGED <<ring, sequence, discarded, captured, delivered, stored>>
    PROVE  OrderInv'
<1>. USE DEF OrderInv
<1>1. /\ Acked' = Acked /\ Captured' = Captured /\ Flying' = Flying /\ Waiting' = Waiting
      /\ discarded' = discarded /\ stored' = stored
  BY DEF Acked, Captured, Flying, Waiting
<1>. DEFINE new == [nonce |-> nonces + 1, sequence |-> pending.sequence,
                    events |-> pending.events, stage |-> "sent"]
<1>2. new.sequence = pending.sequence /\ new.events = pending.events
      /\ requests' = requests \cup {new}
  BY DEF Send
<1>. HIDE DEF new
<1>3. InLine' /\ Complete'
  BY <1>1 DEF InLine, Complete
<1>4. Numbered'
  <2>1. sequence \in Nat /\ pending.sequence \in Nat
    BY DEF TypeOK, Post
  <2>. QED
    BY <1>2, <2>1 DEF Numbered, InFlight
<1>5. OnWire'
  <2>1. Range(new.events) = Flying /\ Flying \subseteq Captured
    BY <1>2 DEF Flying, Complete
  <2>2. \A r \in requests : r.sequence # pending.sequence => Range(r.events) \cap Flying = {}
    <3>. SUFFICES ASSUME NEW r \in requests, r.sequence # pending.sequence,
                         NEW e, e \in Range(r.events), e \in Flying
                  PROVE  FALSE
      OBVIOUS
    <3>1. e \in Nat
      BY EventsTyped
    <3>. QED
      BY <3>1 DEF OnWire, Below
  <2>. SUFFICES ASSUME NEW r \in requests'
                PROVE  /\ Range(r.events) \subseteq Captured
                       /\ r.sequence = pending.sequence => r.events = pending.events
                       /\ r.sequence # pending.sequence =>
                            Below(Range(r.events), Flying \cup Waiting)
                       /\ \A q \in requests' :
                            IF q.sequence = r.sequence THEN q.events = r.events
                            ELSE Range(q.events) \cap Range(r.events) = {}
    BY <1>1 DEF OnWire
  <2>3. CASE r \in requests
    BY <1>2, <2>1, <2>2, <2>3 DEF OnWire
  <2>4. CASE r = new
    BY <1>2, <2>1, <2>2, <2>4 DEF OnWire
  <2>. QED
    BY <1>2, <2>3, <2>4
<1>6. InTable' /\ Reported'
  BY <1>1 DEF InTable, Reported
<1>. QED
  BY <1>3, <1>4, <1>5, <1>6

(***************************************************************************)
(* The POST in flight is let go of: acknowledged, dropped, or empty.       *)
(***************************************************************************)
LEMMA LetGoKeeps ==
    ASSUME TypeOK, OrderInv, pending' = NoPost, requests' \subseteq requests,
           pc' \notin {"attempt", "backoff", "final"},
           pc' = "stopped" => undelivered' = Len(ring),
           UNCHANGED <<ring, sequence, captured, stored>>,
           \/ delivered' = delivered \o pending.events /\ UNCHANGED discarded
           \/ UNCHANGED delivered /\ discarded' = discarded \cup Flying
    PROVE  OrderInv'
<1>. USE DEF OrderInv
<1>1. NoPost.events = <<>> /\ NoPost.sequence = 0
  BY DEF NoPost
<1>2. Flying' = {} /\ Waiting' = Waiting /\ Captured' = Captured /\ stored' = stored
      /\ Len(pending'.events) = 0 /\ Increasing(pending'.events) /\ pending'.sequence = 0
  BY <1>1, EmptyLemma DEF Flying, Waiting, Captured
<1>3. /\ Increasing(delivered') /\ Acked' \cup discarded' = Acked \cup Flying \cup discarded
      /\ Acked' \subseteq Acked \cup Flying
  <2>1. CASE delivered' = delivered \o pending.events /\ UNCHANGED discarded
    <3>1. Increasing(delivered') /\ Range(delivered') = Range(delivered) \cup Range(pending.events)
      BY <2>1, EventsTyped, ConcatOrder DEF InLine, TypeOK, Acked, Flying
    <3>. QED
      BY <2>1, <3>1 DEF Acked, Flying
  <2>2. CASE UNCHANGED delivered /\ discarded' = discarded \cup Flying
    BY <2>2 DEF Acked, InLine
  <2>. QED
    BY <2>1, <2>2
<1>4. InLine'
  <2>1. Increasing(ring') /\ Below(Acked', Waiting)
    BY <1>3 DEF InLine, Below
  <2>. QED
    BY <1>2, <1>3, <2>1 DEF InLine, Below
<1>5. Complete'
  BY <1>2, <1>3 DEF Complete
<1>6. Numbered'
  BY <1>2 DEF Numbered, InFlight
<1>7. OnWire'
  <2>. SUFFICES ASSUME NEW r \in requests
                PROVE  /\ r.sequence # 0
                       /\ Below(Range(r.events), Waiting)
    BY <1>2 DEF OnWire
  <2>1. r.sequence # 0
    BY DEF Numbered
  <2>2. CASE r.sequence = pending.sequence
    <3>1. Range(r.events) = Flying
      BY <2>2 DEF OnWire, Flying
    <3>. QED
      BY <2>1, <3>1 DEF InLine
  <2>3. CASE r.sequence # pending.sequence
    <3>1. Below(Range(r.events), Flying \cup Waiting)
      BY <2>3 DEF OnWire
    <3>. QED
      BY <2>1, <3>1 DEF Below
  <2>. QED
    BY <2>1, <2>2, <2>3
<1>8. InTable'
  <2>1. ASSUME NEW e \in stored PROVE Below({e}, Waiting)
    BY DEF InTable, InLine, Below
  <2>. QED
    BY <1>2, <2>1 DEF InTable
<1>9. Reported'
  <2>1. Len(ring) \in Nat
    BY LenProperties DEF TypeOK
  <2>. QED
    BY <1>2, <2>1 DEF Reported
<1>. QED
  BY <1>4, <1>5, <1>6, <1>7, <1>8, <1>9

(***************************************************************************)
(* The agent's events stay where they are; requests may be answered or     *)
(* lost, and the table may gain what the wire carries.                     *)
(***************************************************************************)
LEMMA StayKeeps ==
    ASSUME TypeOK, OrderInv,
           pending'.sequence = pending.sequence, pending'.events = pending.events,
           UNCHANGED <<ring, sequence, captured, delivered, discarded>>,
           pc' \in {"attempt", "backoff", "final"} => InFlight,
           pc' = "stopped" => undelivered' = Len(ring) + Len(pending.events),
           \A q \in requests' : \E r \in requests : q.sequence = r.sequence /\ q.events = r.events,
           \A e \in stored' : e \in stored \/ \E r \in requests : e \in Range(r.events)
    PROVE  OrderInv'
<1>. USE DEF OrderInv
<1>1. /\ Acked' = Acked /\ Captured' = Captured /\ Flying' = Flying /\ Waiting' = Waiting
      /\ discarded' = discarded
  BY DEF Acked, Captured, Flying, Waiting
<1>2. InLine' /\ Complete'
  BY <1>1 DEF InLine, Complete
<1>3. Numbered'
  BY DEF Numbered, InFlight
<1>4. OnWire'
  <2>. SUFFICES ASSUME NEW r \in requests'
                PROVE  /\ Range(r.events) \subseteq Captured
                       /\ r.sequence = pending.sequence => r.events = pending.events
                       /\ r.sequence # pending.sequence =>
                            Below(Range(r.events), Flying \cup Waiting)
                       /\ \A q \in requests' :
                            IF q.sequence = r.sequence THEN q.events = r.events
                            ELSE Range(q.events) \cap Range(r.events) = {}
    BY <1>1 DEF OnWire
  <2>1. PICK r0 \in requests : r.sequence = r0.sequence /\ r.events = r0.events
    OBVIOUS
  <2>2. ASSUME NEW q \in requests'
        PROVE  IF q.sequence = r.sequence THEN q.events = r.events
               ELSE Range(q.events) \cap Range(r.events) = {}
    <3>1. PICK q0 \in requests : q.sequence = q0.sequence /\ q.events = q0.events
      OBVIOUS
    <3>. QED
      BY <2>1, <3>1 DEF OnWire
  <2>3. /\ Range(r.events) \subseteq Captured
        /\ r.sequence = pending.sequence => r.events = pending.events
        /\ r.sequence # pending.sequence => Below(Range(r.events), Flying \cup Waiting)
    BY <2>1 DEF OnWire
  <2>. QED
    BY <2>2, <2>3
<1>5. InTable'
  <2>. SUFFICES ASSUME NEW e \in stored'
                PROVE  e \in Captured /\ (e \in Flying \/ Below({e}, Flying \cup Waiting))
    BY <1>1 DEF InTable
  <2>1. CASE e \in stored
    BY <2>1 DEF InTable
  <2>2. CASE \E r \in requests : e \in Range(r.events)
    <3>1. PICK r \in requests : e \in Range(r.events)
      BY <2>2
    <3>2. e \in Captured
      BY <3>1 DEF OnWire
    <3>3. CASE r.sequence = pending.sequence
      BY <3>1, <3>2, <3>3 DEF OnWire, Flying
    <3>4. CASE r.sequence # pending.sequence
      BY <3>1, <3>2, <3>4 DEF OnWire, Below
    <3>. QED
      BY <3>3, <3>4
  <2>. QED
    BY <2>1, <2>2
<1>6. Reported'
  BY DEF Reported
<1>. QED
  BY <1>2, <1>3, <1>4, <1>5, <1>6

-----------------------------------------------------------------------------
(***************************************************************************)
(* A POST that failed for the moment is kept for its next attempt, or let  *)
(* go of when it is empty and out of attempts.                             *)
(***************************************************************************)
LEMMA TransientLemma ==
    ASSUME TypeOK, OrderInv, TransientFailure, pc = "attempt"
    PROVE  /\ UNCHANGED <<ring, sequence, captured, delivered, discarded, dropped_total, undelivered>>
           /\ \/ pending' = NoPost /\ pc' = "loop" /\ pending.events = <<>>
              \/ /\ pending'.sequence = pending.sequence /\ pending'.events = pending.events
                 /\ pc' = "backoff" /\ InFlight
<1>. DEFINE failures == IF pending.transient_failures < MaxRetries
                        THEN pending.transient_failures + 1 ELSE MaxRetries
<1>1. UNCHANGED <<ring, sequence, captured, delivered, discarded, dropped_total, undelivered>>
  BY DEF TransientFailure, doneVars, ringVars
<1>2. failures \in Nat /\ pending \in Post /\ InFlight
  BY ConstantsLemma DEF TypeOK, Post, OrderInv, Numbered
<1>3. CASE pending.events = <<>> /\ failures >= MaxRetries
  BY <1>1, <1>3 DEF TransientFailure
<1>4. CASE ~(pending.events = <<>> /\ failures >= MaxRetries)
  <2>1. pending' = [pending EXCEPT !.transient_failures = failures] /\ pc' = "backoff"
    BY <1>4 DEF TransientFailure
  <2>. HIDE DEF failures
  <2>2. pending'.sequence = pending.sequence /\ pending'.events = pending.events
    BY <1>2, <2>1, PostUpdateLemma
  <2>. QED
    BY <1>1, <1>2, <2>1, <2>2
<1>. QED
  BY <1>3, <1>4

(***************************************************************************)
(* A rejected POST is kept, or dropped and counted (drop_rejected).        *)
(***************************************************************************)
LEMMA RejectedLemma ==
    ASSUME TypeOK, OrderInv, Rejected
    PROVE  /\ UNCHANGED <<ring, sequence, captured, delivered, undelivered>> /\ pc = "attempt"
           /\ requests' \subseteq requests
           /\ \/ /\ pending' = NoPost /\ pc' = "loop" /\ discarded' = discarded \cup Flying
                 /\ dropped_total' = dropped_total + Len(pending.events)
              \/ /\ pending'.sequence = pending.sequence /\ pending'.events = pending.events
                 /\ pc' = "backoff" /\ InFlight /\ UNCHANGED <<discarded, dropped_total>>
<1>1. UNCHANGED <<ring, sequence, captured, delivered, undelivered>> /\ pc = "attempt"
      /\ requests' \subseteq requests
  BY DEF Rejected, doneVars
<1>2. pending.rejections + 1 \in Nat /\ pending \in Post /\ InFlight
  BY <1>1 DEF TypeOK, Post, OrderInv, Numbered
<1>3. CASE pending.rejections + 1 >= MaxRetries
  BY <1>1, <1>3 DEF Rejected, AddDropped, Flying
<1>4. CASE ~(pending.rejections + 1 >= MaxRetries)
  <2>1. /\ pending' = [pending EXCEPT !.rejections = pending.rejections + 1] /\ pc' = "backoff"
        /\ UNCHANGED <<discarded, dropped_total>>
    BY <1>4 DEF Rejected
  <2>2. pending'.sequence = pending.sequence /\ pending'.events = pending.events
    BY <1>2, <2>1, PostUpdateLemma
  <2>. QED
    BY <1>1, <1>2, <2>1, <2>2
<1>. QED
  BY <1>3, <1>4

(***************************************************************************)
(* A handler moves a request on, or it is lost: no new content on the      *)
(* wire, and the table gains only what a request carries (heartbeat.ts).   *)
(***************************************************************************)
LEMMA ServerLemma ==
    ASSUME TypeOK, ServerStep
    PROVE  /\ UNCHANGED <<ring, dropped_total, discarded, captured, pc, pending, sequence,
                          undelivered, delivered>>
           /\ \A q \in requests' : \E r \in requests : q.sequence = r.sequence /\ q.events = r.events
           /\ stored \subseteq stored'
           /\ \A e \in stored' : e \in stored \/ \E r \in requests : e \in Range(r.events)
<1>1. UNCHANGED <<ring, dropped_total, discarded, captured, pc, pending, sequence, undelivered,
                  delivered>>
  BY DEF ServerStep, agentVars, ringVars, loopVars, doneVars
<1>2. ASSUME NEW r \in requests, NEW stage, Server!Move(r, stage)
      PROVE  \A q \in requests' : \E p \in requests : q.sequence = p.sequence /\ q.events = p.events
  <2>1. r \in Request
    BY DEF TypeOK
  <2>. DEFINE m == [r EXCEPT !.stage = stage]
  <2>2. m.sequence = r.sequence /\ m.events = r.events
    BY <2>1 DEF Request
  <2>3. \A q \in requests' : q \in requests \/ q = m
    BY <1>2 DEF Server!Move
  <2>. HIDE DEF m
  <2>. QED
    BY <2>2, <2>3
<1>3. ASSUME NEW r \in requests, Server!Handle(r) \/ Server!Fail(r)
      PROVE  /\ \A q \in requests' : \E p \in requests : q.sequence = p.sequence /\ q.events = p.events
             /\ stored \subseteq stored'
             /\ \A e \in stored' : e \in stored \/ \E p \in requests : e \in Range(p.events)
  <2>1. CASE Server!Validate(r) \/ Server!Unavailable(r) \/ Server!InsertHeartbeat(r)
    <3>1. stored' = stored /\ \E stage : Server!Move(r, stage)
      BY <2>1 DEF Server!Validate, Server!Unavailable, Server!InsertHeartbeat
    <3>. QED
      BY <1>2, <3>1
  <2>2. CASE Server!InsertEvents(r) \/ Server!InsertEventsFails(r)
    <3>1. \E stage : Server!Move(r, stage)
      BY <2>2 DEF Server!InsertEvents, Server!InsertEventsFails
    <3>2. \E S \in SUBSET Range(r.events) : stored' = stored \cup S
      BY <2>2, RangeLemma DEF Server!InsertEvents, Server!InsertEventsFails
    <3>. QED
      BY <1>2, <3>1, <3>2
  <2>3. CASE Server!Lose(r)
    BY <2>3 DEF Server!Lose
  <2>. QED
    BY <1>3, <2>1, <2>2, <2>3 DEF Server!Handle, Server!Fail
<1>4. CASE Server!Crash
  BY <1>1, <1>4 DEF Server!Crash
<1>. QED
  BY <1>1, <1>3, <1>4 DEF ServerStep, Server!ServerNext

(***************************************************************************)
(* Every step keeps the invariant.                                         *)
(***************************************************************************)
LEMMA OrderStep == TypeOK /\ PostInv /\ OrderInv /\ [Next]_vars => OrderInv'
<1>. SUFFICES ASSUME TypeOK, PostInv, OrderInv, [Next]_vars PROVE OrderInv'
  OBVIOUS
<1>a. /\ \A r \in requests : \E q \in requests : r.sequence = q.sequence /\ r.events = q.events
      /\ pc \in {"attempt", "backoff", "final"} => InFlight
      /\ pc = "stopped" => undelivered = Len(ring) + Len(pending.events)
  BY DEF OrderInv, Numbered, Reported
<1>b. discarded \cup {} = discarded /\ (pending.events = <<>> => Flying = {})
  BY EmptyLemma DEF Flying
<1>1. CASE EnqueueOrDrop /\ UNCHANGED stored
  BY <1>1, EnqueueKeeps
<1>2. CASE FormPost /\ UNCHANGED stored
  <2>1. /\ pc = "loop" /\ pc' = "attempt" /\ Send(FormBatch) /\ sequence' = sequence + 1
        /\ pending' = FormBatch /\ ring' = AfterDrain(MaxBatch)
        /\ UNCHANGED <<discarded, captured, delivered>>
    BY <1>2 DEF FormPost, doneVars
  <2>2. ~InFlight /\ pending.events = <<>>
    BY <2>1 DEF PostInv
  <2>. QED
    BY <1>2, <2>1, <2>2, BatchKeeps
<1>3. CASE Resend /\ UNCHANGED stored
  <2>1. /\ pc = "backoff" /\ pc' = "attempt" /\ Send(pending)
        /\ pending' = [pending EXCEPT !.attempts = pending.attempts + 1]
        /\ UNCHANGED <<ring, sequence, discarded, captured, delivered>>
    BY <1>3 DEF Resend, ringVars, doneVars
  <2>2. pending.attempts + 1 \in Nat /\ pending \in Post
    BY DEF TypeOK, Post
  <2>3. pending'.sequence = pending.sequence /\ pending'.events = pending.events
    BY <2>1, <2>2, PostUpdateLemma
  <2>. QED
    BY <1>3, <1>a, <2>1, <2>3, ResendKeeps
<1>4. CASE Finish /\ UNCHANGED stored
  <2>1. pc' = "final" /\ UNCHANGED <<discarded, captured, delivered>>
    BY <1>4 DEF Finish, doneVars
  <2>2. CASE InFlight
    <3>1. pending' = pending /\ Send(pending) /\ UNCHANGED <<sequence, ring>>
      BY <1>4, <2>2 DEF Finish
    <3>. QED
      BY <1>4, <2>1, <2>2, <3>1, ResendKeeps
  <2>3. CASE ~InFlight
    <3>1. /\ pending' = FormBatch /\ ring' = AfterDrain(MaxBatch) /\ Send(FormBatch)
          /\ sequence' = sequence + 1
      BY <1>4, <2>3 DEF Finish
    <3>2. pending.events = <<>>
      BY <2>3 DEF PostInv
    <3>. QED
      BY <1>4, <2>1, <2>3, <3>1, <3>2, BatchKeeps
  <2>. QED
    BY <2>2, <2>3
<1>5. CASE (Delivered \/ FinalDelivered) /\ UNCHANGED stored
  <2>1. /\ delivered' = delivered \o pending.events /\ pending' = NoPost
        /\ requests' \subseteq requests /\ pc' \in {"loop", "stopped"}
        /\ pc' = "stopped" => undelivered' = Len(ring)
        /\ UNCHANGED <<ring, sequence, captured, discarded>>
    BY <1>5 DEF Delivered, FinalDelivered, ringVars
  <2>. QED
    BY <1>5, <2>1, LetGoKeeps
<1>6. CASE (ServerUnavailable \/ TimedOut) /\ UNCHANGED stored
  <2>1. pc = "attempt" /\ TransientFailure /\ requests' \subseteq requests
    BY <1>6 DEF ServerUnavailable, TimedOut, Unanswered
  <2>2. /\ UNCHANGED <<ring, sequence, captured, delivered, discarded, undelivered>>
        /\ \/ pending' = NoPost /\ pc' = "loop" /\ pending.events = <<>>
           \/ /\ pending'.sequence = pending.sequence /\ pending'.events = pending.events
              /\ pc' = "backoff" /\ InFlight
    BY <2>1, TransientLemma
  <2>3. CASE pending' = NoPost /\ pc' = "loop" /\ pending.events = <<>>
    BY <1>6, <1>b, <2>1, <2>2, <2>3, LetGoKeeps
  <2>4. CASE /\ pending'.sequence = pending.sequence /\ pending'.events = pending.events
             /\ pc' = "backoff" /\ InFlight
    BY <1>6, <2>1, <2>2, <2>4, StayKeeps
  <2>. QED
    BY <2>2, <2>3, <2>4
<1>7. CASE Rejected /\ UNCHANGED stored
  <2>1. /\ UNCHANGED <<ring, sequence, captured, delivered, undelivered>>
        /\ requests' \subseteq requests
    BY <1>7, RejectedLemma
  <2>2. CASE pending' = NoPost /\ pc' = "loop" /\ discarded' = discarded \cup Flying
    BY <1>7, <2>1, <2>2, LetGoKeeps
  <2>3. CASE /\ pending'.sequence = pending.sequence /\ pending'.events = pending.events
             /\ pc' = "backoff" /\ InFlight /\ UNCHANGED discarded
    BY <1>7, <2>1, <2>3, StayKeeps
  <2>. QED
    BY <1>7, <2>2, <2>3, RejectedLemma
<1>8. CASE (Idle \/ Fatal \/ Shutdown \/ TeardownExpired \/ FinalFailed) /\ UNCHANGED stored
  <2>1. /\ UNCHANGED <<pending, ring, sequence, captured, delivered, discarded>>
        /\ requests' \subseteq requests
    BY <1>8 DEF Idle, Fatal, Unanswered, Shutdown, TeardownExpired, FinalFailed, ringVars,
                doneVars, loopVars, netVars
  <2>2. /\ pc' = "stopped" => undelivered' = Len(ring) + Len(pending.events)
        /\ pc' \in {"attempt", "backoff", "final"} => pc' = pc
    BY <1>8 DEF Idle, Fatal, Shutdown, TeardownExpired, FinalFailed
  <2>. QED
    BY <1>8, <1>a, <2>1, <2>2, StayKeeps
<1>9. CASE ServerStep
  BY <1>9, <1>a, ServerLemma, StayKeeps
<1>10. CASE Unread \/ UNCHANGED vars
  <2>1. /\ UNCHANGED <<pc, pending, ring, sequence, captured, delivered, discarded, undelivered,
                       stored>>
        /\ requests' \subseteq requests
    BY <1>10 DEF Unread, vars, agentVars, ringVars, loopVars, doneVars, netVars
  <2>. QED
    BY <1>a, <2>1, StayKeeps
<1>. QED
  BY <1>1, <1>2, <1>3, <1>4, <1>5, <1>6, <1>7, <1>8, <1>9, <1>10
  DEF Next, AgentStep, DeliveryNext, Terminated

(***************************************************************************)
(* Every reachable state has the invariants of both modules.               *)
(***************************************************************************)
THEOREM OrderInvariant ==
    Spec => [](TypeOK /\ PostInv /\ WireInv /\ AcknowledgedIsStored /\ OrderInv)
<1>1. Init => PostInv /\ NoEventUnaccounted /\ WireInv /\ AcknowledgedIsStored /\ OrderInv
  <2>. SUFFICES ASSUME Init
                PROVE  PostInv /\ NoEventUnaccounted /\ WireInv /\ AcknowledgedIsStored /\ OrderInv
    OBVIOUS
  <2>1. /\ ring = <<>> /\ delivered = <<>> /\ pending = NoPost /\ requests = {} /\ stored = {}
        /\ discarded = {} /\ captured = 0 /\ pc = "loop" /\ sequence = 0 /\ dropped_total = 0
    BY DEF Init, RingInit, DeliveryInit, Server!ServerInit
  <2>2. NoPost.sequence = 0 /\ NoPost.events = <<>>
    BY DEF NoPost
  <2>3. Acked = {} /\ Flying = {} /\ Waiting = {} /\ Captured = {}
    BY <2>1, <2>2, EmptyLemma DEF Acked, Flying, Waiting, Captured
  <2>4. InLine /\ Complete
    BY <2>1, <2>2, <2>3, EmptyLemma DEF InLine, Complete, Below
  <2>5. Numbered /\ OnWire /\ InTable /\ Reported
    BY <2>1, <2>2 DEF Numbered, InFlight, OnWire, InTable, Reported
  <2>6. PostInv /\ WireInv /\ AcknowledgedIsStored
    BY <2>1, <2>2, EmptyLemma DEF PostInv, InFlight, WireInv, Current, AcknowledgedIsStored
  <2>7. NoEventUnaccounted
    BY <2>1, <2>2, EmptyLemma DEF NoEventUnaccounted
  <2>. QED
    BY <2>4, <2>5, <2>6, <2>7 DEF OrderInv
<1>. QED
  BY <1>1, OrderStep, AccountStep, WireStep, TypeCorrect, PTL DEF Spec

-----------------------------------------------------------------------------
(***************************************************************************)
(* Acknowledged, in flight and buffered is the order of capture, and an    *)
(* event in the table has each earlier one in the table, counted as        *)
(* dropped, or beside it in the POST in flight: no retry, overflow, late   *)
(* request or partial insert lets a later event overtake an earlier one    *)
(* (ring.rs, delivery.rs, heartbeat.ts; SPEC-017 Risks).                   *)
(***************************************************************************)
THEOREM EventOrder == Spec => []OrderKept
<1>1. TypeOK /\ AcknowledgedIsStored /\ OrderInv => OrderKept
  <2>. SUFFICES ASSUME TypeOK, AcknowledgedIsStored, OrderInv PROVE OrderKept
    OBVIOUS
  <2>. USE DEF OrderInv
  <2>1. CaptureOrder
    <3>1. delivered \in Seq(Nat) /\ pending.events \in Seq(Nat) /\ ring \in Seq(Nat)
      BY EventsTyped DEF TypeOK
    <3>2. /\ Increasing(delivered \o pending.events) /\ delivered \o pending.events \in Seq(Nat)
          /\ Range(delivered \o pending.events) = Acked \cup Flying
      BY <3>1, ConcatOrder DEF InLine, Acked, Flying
    <3>3. Below(Range(delivered \o pending.events), Range(ring))
      BY <3>2 DEF InLine, Below, Waiting
    <3>4. Increasing(ring)
      BY DEF InLine
    <3>. HIDE DEF OrderInv
    <3>5. Increasing((delivered \o pending.events) \o ring)
      BY <3>1, <3>2, <3>3, <3>4, ConcatOrder
    <3>. QED
      BY <3>5 DEF CaptureOrder, Increasing
  <2>2. NoOvertaking
    <3>. SUFFICES ASSUME NEW e \in stored, NEW g \in Captured, g < e,
                         g \notin stored \cup discarded
                  PROVE  e \in Flying /\ g \in Flying
      BY DEF NoOvertaking, Flying
    <3>1. g \in Flying \cup Waiting
      BY DEF Complete, AcknowledgedIsStored, Acked
    <3>2. e \in Nat /\ g \in Nat
      BY DEF InTable, Captured, TypeOK
    <3>3. e \in Flying
      BY <3>1, <3>2 DEF InTable, Below
    <3>4. g \notin Waiting
      BY <3>2, <3>3 DEF InLine, Below
    <3>. QED
      BY <3>1, <3>3, <3>4
  <2>. QED
    BY <2>1, <2>2 DEF OrderKept
<1>. QED
  BY <1>1, OrderInvariant, PTL

(***************************************************************************)
(* Every attempt at a sequence number still on the wire carries the same   *)
(* events, and no two sequence numbers share one (delivery.rs: a retry is  *)
(* the same POST).                                                         *)
(***************************************************************************)
THEOREM SequenceNamesBatch == Spec => []OneBatchPerSequence
<1>1. TypeOK /\ OrderInv => OneBatchPerSequence
  <2>. SUFFICES ASSUME TypeOK, OrderInv, NEW r \in requests
                PROVE  /\ r.sequence = pending.sequence => r.events = pending.events
                       /\ r.sequence # pending.sequence =>
                            Range(r.events) \cap (Range(pending.events) \cup Range(ring)) = {}
                       /\ \A q \in requests :
                            IF q.sequence = r.sequence THEN q.events = r.events
                            ELSE Range(q.events) \cap Range(r.events) = {}
    BY DEF OneBatchPerSequence
  <2>1. ASSUME r.sequence # pending.sequence, NEW e \in Range(r.events), e \in Flying \cup Waiting
        PROVE  FALSE
    <3>1. Below(Range(r.events), Flying \cup Waiting) /\ e \in Nat
      BY <2>1, EventsTyped DEF OrderInv, OnWire
    <3>. QED
      BY <2>1, <3>1 DEF Below
  <2>. QED
    BY <2>1 DEF OrderInv, OnWire, Flying, Waiting
<1>. QED
  BY <1>1, OrderInvariant, PTL

(***************************************************************************)
(* A stop reports at least what is lost: each captured event that is       *)
(* neither in the table nor counted as dropped (delivery.rs finish).       *)
(***************************************************************************)
THEOREM LossReported == Spec => []StopReportsLoss
<1>1. TypeOK /\ AcknowledgedIsStored /\ OrderInv => StopReportsLoss
  <2>. SUFFICES ASSUME TypeOK, AcknowledgedIsStored, OrderInv, pc = "stopped"
                PROVE  Cardinality(Captured \ (stored \cup discarded)) <= undelivered
    BY DEF StopReportsLoss
  <2>1. undelivered = Len(ring) + Len(pending.events)
    BY DEF OrderInv, Reported
  <2>2. Captured \ (stored \cup discarded) \in SUBSET (Flying \cup Waiting)
    BY DEF OrderInv, Complete, AcknowledgedIsStored, Acked
  <2>3. /\ IsFiniteSet(Flying) /\ Cardinality(Flying) \in Nat /\ Cardinality(Flying) <= Len(pending.events)
        /\ IsFiniteSet(Waiting) /\ Cardinality(Waiting) \in Nat /\ Cardinality(Waiting) <= Len(ring)
    BY EventsTyped, CountLemma DEF TypeOK, Flying, Waiting
  <2>4. /\ IsFiniteSet(Flying \cup Waiting)
        /\ Cardinality(Flying \cup Waiting) =
             Cardinality(Flying) + Cardinality(Waiting) - Cardinality(Flying \cap Waiting)
    BY <2>3, FS_Union
  <2>5. Cardinality(Flying \cap Waiting) \in Nat
    BY <2>3, FS_Intersection, FS_CardinalityType
  <2>6. /\ Cardinality(Captured \ (stored \cup discarded)) <= Cardinality(Flying \cup Waiting)
        /\ Cardinality(Captured \ (stored \cup discarded)) \in Nat
    BY <2>2, <2>4, FS_Subset, FS_CardinalityType
  <2>7. Len(ring) \in Nat /\ Len(pending.events) \in Nat
    BY EventsTyped, LenProperties DEF TypeOK
  <2>. QED
    BY <2>1, <2>3, <2>4, <2>5, <2>6, <2>7
<1>. QED
  BY <1>1, OrderInvariant, PTL

-----------------------------------------------------------------------------
(***************************************************************************)
(* The refinement: what the agent answers for, and each step as a step of  *)
(* AtLeastOnce.                                                            *)
(***************************************************************************)
Held == Range(ring) \cup Range(pending.events)

(***************************************************************************)
(* The events of the ring and of the POST in flight are as many as their   *)
(* places.                                                                 *)
(***************************************************************************)
LEMMA HeldLemma ==
    ASSUME TypeOK, OrderInv
    PROVE  /\ Held = Waiting \cup Flying /\ Waiting \cap Flying = {}
           /\ IsFiniteSet(Flying) /\ Cardinality(Flying) = Len(pending.events)
           /\ IsFiniteSet(Waiting) /\ Cardinality(Waiting) = Len(ring)
           /\ Cardinality(Held) = Len(ring) + Len(pending.events)
<1>1. Held = Waiting \cup Flying
  BY DEF Held, Waiting, Flying
<1>2. Waiting \cap Flying = {}
  <2>. SUFFICES ASSUME NEW e, e \in Waiting, e \in Flying PROVE FALSE
    OBVIOUS
  <2>1. e \in Nat
    BY EventsTyped
  <2>. QED
    BY <2>1 DEF OrderInv, InLine, Below
<1>3. /\ IsFiniteSet(Flying) /\ Cardinality(Flying) = Len(pending.events)
      /\ IsFiniteSet(Waiting) /\ Cardinality(Waiting) = Len(ring)
  BY EventsTyped, CountLemma DEF TypeOK, OrderInv, InLine, Flying, Waiting
<1>4. Cardinality(Waiting \cup Flying) =
        Cardinality(Waiting) + Cardinality(Flying) - Cardinality(Waiting \cap Flying)
  BY <1>3, FS_Union
<1>5. Cardinality(Waiting \cap Flying) = 0
  BY <1>2, FS_EmptySet
<1>6. Len(ring) \in Nat /\ Len(pending.events) \in Nat
  BY EventsTyped, LenProperties DEF TypeOK
<1>7. Cardinality(Held) = Len(ring) + Len(pending.events)
  BY <1>1, <1>3, <1>4, <1>5, <1>6
<1>. QED
  BY <1>1, <1>2, <1>3, <1>7

(***************************************************************************)
(* The instance of AtLeastOnce has its own copy of Cardinality: the same.  *)
(***************************************************************************)
LEMMA CardinalityLemma == \A S : Promise!Cardinality(S) = Cardinality(S)
  BY DEF Promise!Cardinality, Cardinality

(***************************************************************************)
(* Nothing AtLeastOnce speaks of changes.                                  *)
(***************************************************************************)
LEMMA PromiseStutter ==
    ASSUME Captured' = Captured, Held' = Held,
           stored' = stored, dropped_total' = dropped_total, Ended' = Ended,
           undelivered' = undelivered
    PROVE  UNCHANGED Promise!vars
  BY DEF Promise!vars, Held

(***************************************************************************)
(* enqueue_or_drop is Capture.                                             *)
(***************************************************************************)
LEMMA PromiseCapture ==
    ASSUME TypeOK, OrderInv, EnqueueOrDrop, UNCHANGED stored
    PROVE  Promise!Next
<1>1. PICK lost \in SUBSET Waiting :
        /\ Waiting' = (Waiting \ lost) \cup {captured + 1}
        /\ \/ lost = {} /\ dropped_total' = dropped_total
           \/ lost = {Head(ring)} /\ dropped_total' = dropped_total + 1
  BY EnqueueLemma
<1>2. /\ captured' = captured + 1 /\ captured < MaxEvents /\ pending' = pending /\ pc' = pc
      /\ undelivered' = undelivered
  BY DEF EnqueueOrDrop, Enqueue, loopVars, doneVars
<1>3. captured \in Nat /\ MaxEvents \in Nat
  BY ConstantsLemma DEF TypeOK
<1>4. captured + 1 \in (1..MaxEvents) \ Captured /\ Captured' = Captured \cup {captured + 1}
  BY <1>2, <1>3 DEF Captured
<1>5. Ended' = Ended /\ Flying' = Flying
  BY <1>2 DEF Ended, Flying
<1>6. Held = Waiting \cup Flying /\ Held' = Waiting' \cup Flying'
  BY DEF Held, Waiting, Flying
<1>7. Waiting \cap Flying = {}
  BY HeldLemma
<1>8. \/ Held' = Held \cup {captured + 1} /\ dropped_total' = dropped_total
      \/ \E x \in Held : /\ Held' = (Held \ {x}) \cup {captured + 1}
                         /\ dropped_total' = dropped_total + 1
  <2>1. CASE lost = {} /\ dropped_total' = dropped_total
    BY <1>1, <1>5, <1>6, <2>1
  <2>2. CASE lost = {Head(ring)} /\ dropped_total' = dropped_total + 1
    <3>1. Head(ring) \in Held /\ Head(ring) \notin Flying
      BY <1>1, <1>6, <1>7, <2>2
    <3>2. Held' = (Held \ {Head(ring)}) \cup {captured + 1}
      BY <1>1, <1>5, <1>6, <2>2, <3>1
    <3>. QED
      BY <2>2, <3>1, <3>2
  <2>. QED
    BY <1>1, <2>1, <2>2
<1>. QED
  BY <1>2, <1>4, <1>5, <1>8 DEF Promise!Next, Promise!Capture, Held

(***************************************************************************)
(* An acknowledgement is Release; the final one is Stop.                   *)
(***************************************************************************)
LEMMA PromiseRelease ==
    ASSUME TypeOK, OrderInv, WireInv, Delivered \/ FinalDelivered, UNCHANGED stored
    PROVE  Promise!Next
<1>1. /\ pending' = NoPost /\ UNCHANGED <<ring, captured, dropped_total>>
      /\ pc \in {"attempt", "final"}
  BY DEF Delivered, FinalDelivered, ringVars
<1>2. Flying \subseteq stored
  <2>1. PICK r \in Current : r.stage = "ok"
    BY DEF Delivered, FinalDelivered, Answered
  <2>2. r \in requests
    BY DEF Current
  <2>. QED
    BY <1>1, <2>1, <2>2 DEF WireInv, Flying
<1>3. Held = Waiting \cup Flying /\ Held' = Waiting /\ Captured' = Captured
  <2>1. NoPost.events = <<>>
    BY DEF NoPost
  <2>2. Range(pending'.events) = {}
    BY <1>1, <2>1, EmptyLemma
  <2>. QED
    BY <1>1, <2>2 DEF Held, Waiting, Flying, Captured
<1>4. ~Ended /\ Held' \subseteq Held /\ Held \ Held' \subseteq stored
  BY <1>1, <1>2, <1>3 DEF Ended
<1>5. CASE Delivered
  <2>1. Ended' = Ended /\ undelivered' = undelivered
    BY <1>5 DEF Delivered, Ended
  <2>. QED
    BY <1>1, <1>3, <1>4, <2>1 DEF Promise!Next, Promise!Release, Held
<1>6. CASE FinalDelivered
  <2>1. Ended' = TRUE /\ undelivered' = Len(ring)
    BY <1>6 DEF FinalDelivered, Ended
  <2>2. undelivered' = Cardinality(Held')
    BY <1>3, <2>1, HeldLemma
  <2>. QED
    BY <1>1, <1>3, <1>4, <2>1, <2>2, CardinalityLemma DEF Promise!Next, Promise!Stop, Held
<1>. QED
  BY <1>5, <1>6

(***************************************************************************)
(* A rejected batch that is dropped is Drop: the total grows by what the   *)
(* agent no longer holds.                                                  *)
(***************************************************************************)
LEMMA PromiseRejected ==
    ASSUME TypeOK, OrderInv, Rejected, UNCHANGED stored
    PROVE  Promise!Next \/ UNCHANGED Promise!vars
<1>1. UNCHANGED <<ring, captured, undelivered>> /\ ~Ended /\ Captured' = Captured
  BY RejectedLemma DEF Ended, Captured
<1>2. CASE /\ pending' = NoPost /\ pc' = "loop"
           /\ dropped_total' = dropped_total + Len(pending.events)
  <2>1. NoPost.events = <<>>
    BY DEF NoPost
  <2>2. Range(pending'.events) = {}
    BY <1>2, <2>1, EmptyLemma
  <2>3. Held = Waiting \cup Flying /\ Held' = Waiting
    BY <1>1, <2>2 DEF Held, Waiting, Flying
  <2>4. Held \ Held' = Flying /\ Held' \subseteq Held
    BY <2>3, HeldLemma
  <2>5. dropped_total' = dropped_total + Cardinality(Held \ Held')
    BY <1>2, <2>4, HeldLemma
  <2>6. Ended' = Ended
    BY <1>2, RejectedLemma DEF Ended
  <2>. QED
    BY <1>1, <2>4, <2>5, <2>6, CardinalityLemma DEF Promise!Next, Promise!Drop, Held
<1>3. CASE pending'.events = pending.events /\ pc' = "backoff" /\ UNCHANGED dropped_total
  <2>1. Held' = Held /\ Ended' = Ended
    BY <1>1, <1>3, RejectedLemma DEF Held, Ended
  <2>. QED
    BY <1>1, <1>3, <2>1, PromiseStutter
<1>. QED
  BY <1>2, <1>3, RejectedLemma

(***************************************************************************)
(* The deadline or a failed final request is Stop, which reports all that  *)
(* is held; a fatal error is Fail.                                         *)
(***************************************************************************)
LEMMA PromiseStop ==
    ASSUME TypeOK, OrderInv, TeardownExpired \/ FinalFailed \/ Fatal, UNCHANGED stored
    PROVE  Promise!Next
<1>1. /\ UNCHANGED <<ring, pending, captured, dropped_total>> /\ ~Ended /\ Ended' = TRUE
  BY DEF TeardownExpired, FinalFailed, Fatal, loopVars, ringVars, Ended
<1>2. Held' = Held /\ Captured' = Captured
  BY <1>1 DEF Held, Captured
<1>3. CASE TeardownExpired \/ FinalFailed
  <2>1. undelivered' = Len(ring) + Len(pending.events)
    BY <1>3 DEF TeardownExpired, FinalFailed
  <2>2. undelivered' = Cardinality(Held') /\ Held \ Held' \subseteq stored
    BY <1>2, <2>1, HeldLemma
  <2>. QED
    BY <1>1, <1>2, <2>2, CardinalityLemma DEF Promise!Next, Promise!Stop, Held
<1>4. CASE Fatal
  <2>1. undelivered' = undelivered
    BY <1>4 DEF Fatal, doneVars
  <2>. QED
    BY <1>1, <1>2, <2>1 DEF Promise!Next, Promise!Fail, Held
<1>. QED
  BY <1>3, <1>4

(***************************************************************************)
(* Every step of the pipeline is a step of AtLeastOnce or none.            *)
(***************************************************************************)
LEMMA PromiseStep ==
    TypeOK /\ PostInv /\ WireInv /\ OrderInv /\ OrderInv' /\ [Next]_vars
        => [Promise!Next]_(Promise!vars)
<1>. SUFFICES ASSUME TypeOK, PostInv, WireInv, OrderInv, OrderInv', [Next]_vars
              PROVE  Promise!Next \/ UNCHANGED Promise!vars
  OBVIOUS
<1>1. CASE EnqueueOrDrop /\ UNCHANGED stored
  BY <1>1, PromiseCapture
<1>2. ASSUME ~InFlight, pending.events = <<>>, pending' = FormBatch,
             ring' = AfterDrain(MaxBatch), pc \in {"loop", "teardown"},
             pc' \in {"attempt", "final"},
             UNCHANGED <<captured, stored, dropped_total, undelivered>>
      PROVE  UNCHANGED Promise!vars
  <2>1. Flying = {} /\ Flying' \cup Waiting' = Waiting
    BY <1>2, BatchLemma
  <2>2. Held = Waiting \cup Flying /\ Held' = Waiting' \cup Flying'
    BY DEF Held, Waiting, Flying
  <2>3. Held' = Held
    BY <2>1, <2>2
  <2>4. Ended' = Ended /\ Captured' = Captured
    BY <1>2 DEF Ended, Captured
  <2>. QED
    BY <1>2, <2>3, <2>4, PromiseStutter
<1>3. ASSUME pending'.events = pending.events, Ended' = Ended,
             UNCHANGED <<ring, captured, stored, dropped_total, undelivered>>
      PROVE  UNCHANGED Promise!vars
  <2>1. Held' = Held /\ Captured' = Captured
    BY <1>3 DEF Held, Captured
  <2>. QED
    BY <1>3, <2>1, PromiseStutter
<1>4. CASE FormPost /\ UNCHANGED stored
  <2>1. ~InFlight /\ pending.events = <<>>
    BY <1>4 DEF FormPost, PostInv
  <2>. QED
    BY <1>2, <1>4, <2>1 DEF FormPost, doneVars
<1>5. CASE Finish /\ UNCHANGED stored
  <2>1. CASE InFlight
    <3>1. pending' = pending /\ ring' = ring /\ UNCHANGED <<captured, dropped_total, undelivered>>
          /\ Ended' = Ended
      BY <1>5, <2>1 DEF Finish, doneVars, Ended
    <3>. QED
      BY <1>3, <1>5, <3>1
  <2>2. CASE ~InFlight
    <3>1. pending.events = <<>>
      BY <2>2 DEF PostInv
    <3>. QED
      BY <1>2, <1>5, <2>2, <3>1 DEF Finish, doneVars
  <2>. QED
    BY <2>1, <2>2
<1>6. CASE Resend /\ UNCHANGED stored
  <2>1. /\ pending' = [pending EXCEPT !.attempts = pending.attempts + 1] /\ Ended' = Ended
        /\ UNCHANGED <<ring, captured, dropped_total, undelivered>>
    BY <1>6 DEF Resend, ringVars, doneVars, Ended
  <2>2. pending'.events = pending.events
    BY <2>1 DEF TypeOK, Post
  <2>. QED
    BY <1>3, <1>6, <2>1, <2>2
<1>7. CASE (Delivered \/ FinalDelivered) /\ UNCHANGED stored
  BY <1>7, PromiseRelease
<1>8. CASE (ServerUnavailable \/ TimedOut) /\ UNCHANGED stored
  <2>1. pc = "attempt" /\ TransientFailure
    BY <1>8 DEF ServerUnavailable, TimedOut
  <2>2. NoPost.events = <<>>
    BY DEF NoPost
  <2>3. /\ UNCHANGED <<ring, captured, dropped_total, undelivered>>
        /\ pending'.events = pending.events /\ pc' \in {"loop", "backoff"}
    BY <2>1, <2>2, TransientLemma
  <2>4. Ended' = Ended
    BY <2>1, <2>3 DEF Ended
  <2>. QED
    BY <1>3, <1>8, <2>3, <2>4
<1>9. CASE Rejected /\ UNCHANGED stored
  BY <1>9, PromiseRejected
<1>10. CASE (Fatal \/ TeardownExpired \/ FinalFailed) /\ UNCHANGED stored
  BY <1>10, PromiseStop
<1>11. CASE ((Idle \/ Shutdown) /\ UNCHANGED stored) \/ Unread \/ UNCHANGED vars
  <2>1. UNCHANGED <<pending, ring, captured, dropped_total, undelivered, stored>>
    BY <1>11 DEF Idle, Shutdown, Unread, vars, agentVars, loopVars, ringVars, doneVars
  <2>2. pc' = pc \/ (pc \in {"loop", "attempt", "backoff"} /\ pc' = "teardown")
    BY <1>11 DEF Idle, Shutdown, Unread, vars, agentVars
  <2>3. Ended' = Ended
    BY <2>2 DEF Ended
  <2>. QED
    BY <1>3, <2>1, <2>3
<1>12. CASE ServerStep
  <2>1. /\ UNCHANGED <<ring, captured, pc, pending, undelivered, dropped_total>>
        /\ stored \subseteq stored'
    BY <1>12, ServerLemma
  <2>2. Held' = Held /\ Captured' = Captured /\ Ended' = Ended
    BY <2>1 DEF Held, Captured, Ended
  <2>3. stored' \subseteq Captured
    BY <2>2 DEF OrderInv, InTable
  <2>. QED
    BY <2>1, <2>2, <2>3 DEF Promise!Next, Promise!Store, Held
<1>. QED
  BY <1>1, <1>4, <1>5, <1>6, <1>7, <1>8, <1>9, <1>10, <1>11, <1>12
  DEF Next, AgentStep, DeliveryNext, Terminated

(***************************************************************************)
(* The pipeline implements AtLeastOnce: the agent holds every event it     *)
(* captured until the table has it or the total counts it, and a stop      *)
(* reports what it still holds (ring.rs, delivery.rs, heartbeat.ts).       *)
(***************************************************************************)
THEOREM Refinement == Spec => ImplementsAtLeastOnce
<1>1. Init => Promise!Init
  <2>. SUFFICES ASSUME Init PROVE Promise!Init
    OBVIOUS
  <2>1. /\ ring = <<>> /\ pending = NoPost /\ stored = {} /\ captured = 0 /\ pc = "loop"
        /\ dropped_total = 0 /\ undelivered = 0
    BY DEF Init, RingInit, DeliveryInit, Server!ServerInit
  <2>2. Held = {} /\ Captured = {} /\ ~Ended
    BY <2>1, EmptyLemma DEF Held, Captured, Ended, NoPost
  <2>. QED
    BY <2>1, <2>2 DEF Promise!Init, Held
<1>. QED
  BY <1>1, PromiseStep, OrderInvariant, PTL DEF Spec, ImplementsAtLeastOnce
=============================================================================
