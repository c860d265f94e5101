----------------------------- MODULE CaptureProofs -----------------------------
(***************************************************************************)
(* Proofs about module Capture: whatever order processes start and end in, *)
(* records are dispatched or lost and the sweep runs, for every set of     *)
(* PIDs and every bound, an event carries the creation time of its own     *)
(* process (CreationTimesTrue) or lacks it for a known reason              *)
(* (MissesExplained).                                                      *)
(*                                                                         *)
(* The argument is about the records that wait in the session's buffers:   *)
(* under one PID they are in the order of the processes' lives, a process  *)
(* that has a successor there has its Terminate there too or lost it, and  *)
(* what the cache will hold when a record's turn comes is fixed by the     *)
(* records before it.  The two properties speak of the moment of dispatch, *)
(* where no record is left in front.                                       *)
(***************************************************************************)
EXTENDS Capture, SequenceTheorems, TLAPS

Record == [kind : {"Launch", "Terminate", "Connect"}, pid : Pids, born : Nat \ {0}]

Typed ==
    /\ clock \in Nat
    /\ proc \in [Pids -> Nat]
    /\ queue \in Seq(Record)
    /\ cache \in [Pids -> Nat]
    /\ sweep \in [at : {"none", "idle", "ask"}, snap : [Pids -> Nat], ask : SUBSET Pids, gone : SUBSET Pids]

(* No creation time is ahead of the clock.                                 *)
Bounded ==
    /\ \A p \in Pids : proc[p] <= clock /\ cache[p] <= clock /\ sweep.snap[p] <= clock
    /\ \A i \in 1..Len(queue) : queue[i].born <= clock
    /\ \A t \in swept : t \in Nat \ {0} /\ t <= clock

(* A creation time that is running belongs to one PID only, in the cache   *)
(* and in the records too, and the sweep did not take it.                  *)
Unique ==
    /\ \A p, q \in Pids : p # q /\ proc[q] # 0 => proc[p] # proc[q] /\ cache[p] # proc[q]
    /\ \A i \in 1..Len(queue), q \in Pids : queue[i].born = proc[q] => queue[i].pid = q
    /\ \A p \in Pids : proc[p] \notin swept

(* The end of process t is known: lost, or waiting in positions m to n-1.  *)
Over(t, p, m, n) ==
    \/ t \in unended
    \/ \E k \in m..(n - 1) :
           queue[k].kind = "Terminate" /\ queue[k].pid = p /\ queue[k].born = t

(* The records of one PID follow its processes' lives.                     *)
Ordered ==
    \A j \in 1..Len(queue) : \A i \in 1..(j - 1) :
        queue[i].pid = queue[j].pid =>
            /\ queue[i].born <= queue[j].born
            /\ queue[i].born = queue[j].born => queue[i].kind # "Terminate"
            /\ queue[i].born # queue[j].born => Over(queue[i].born, queue[i].pid, i, j)

(* And so does the process that runs under the PID now.                    *)
OrderedNow ==
    \A i \in 1..Len(queue) :
        LET p == queue[i].pid IN
        /\ proc[p] # 0 => queue[i].born <= proc[p]
        /\ queue[i].born = proc[p] => queue[i].kind # "Terminate"
        /\ queue[i].born # proc[p] => Over(queue[i].born, p, i, Len(queue) + 1)

(* When position n's turn comes, the cache knows process t, or its Launch  *)
(* was not dispatched, or the sweep took its entry.                        *)
Known(t, p, n) ==
    \/ t \in unseen
    \/ \E j \in 1..(n - 1) :
           queue[j].kind = "Launch" /\ queue[j].pid = p /\ queue[j].born = t
    \/ /\ cache[p] = t \/ (cache[p] = 0 /\ t \in swept)
       /\ \A j \in 1..(n - 1) : queue[j].pid = p => queue[j].born = t

AllKnown ==
    /\ \A i \in 1..Len(queue) :
           queue[i].kind # "Launch" => Known(queue[i].born, queue[i].pid, i)
    /\ \A p \in Pids : proc[p] # 0 => Known(proc[p], p, Len(queue) + 1)

(* An entry of another process than t will have been purged by then, or    *)
(* its Terminate was lost.                                                 *)
Fresh(t, p, n) == cache[p] \in {0, t} \/ Over(cache[p], p, 1, n)

AllFresh ==
    /\ \A i \in 1..Len(queue) : Fresh(queue[i].born, queue[i].pid, i)
    /\ \A p \in Pids : Fresh(proc[p], p, Len(queue) + 1)

(* A PID the sweep found gone does not run the process of the snapshot.    *)
SweepSound == \A p \in sweep.gone : sweep.snap[p] # 0 => proc[p] # sweep.snap[p]

LastExplained ==
    /\ CreationTimesTrue
    /\ last.created = 0 /\ last.kind # "none" => last.born \in unseen \cup swept

CaptureInv ==
    /\ Typed /\ Bounded /\ Unique /\ Ordered /\ OrderedNow
    /\ AllKnown /\ AllFresh /\ SweepSound /\ LastExplained

-----------------------------------------------------------------------------
(* The two things that happen to the buffers.                              *)

(* Every record in the buffers is one.                                     *)
LEMMA RecordsTyped ==
    ASSUME Typed PROVE Len(queue) \in Nat /\ \A i \in 1..Len(queue) : queue[i] \in Record
  BY ElementOfSeq, LenProperties DEF Typed

(* A record that enters the session's buffers goes behind the others.      *)
LEMMA AppendStep ==
    ASSUME Typed, NEW r \in Record, queue' = Append(queue, r)
    PROVE  /\ queue' \in Seq(Record)
           /\ Len(queue) \in Nat /\ Len(queue') = Len(queue) + 1
           /\ \A i \in 1..Len(queue) : queue'[i] = queue[i] /\ queue[i] \in Record
           /\ queue'[Len(queue) + 1] = r
  BY AppendProperties, LenProperties, ElementOfSeq DEF Typed

(* A record that is pumped was the first (etw/dispatch.rs, the callbacks). *)
LEMMA PopStep ==
    ASSUME Typed, Pumped
    PROVE  /\ queue' \in Seq(Record)
           /\ Len(queue) \in Nat \ {0} /\ Len(queue') = Len(queue) - 1
           /\ \A i \in 1..Len(queue') : queue'[i] = queue[i + 1]
           /\ \A i \in 1..Len(queue) : queue[i] \in Record
           /\ Head(queue) = queue[1] /\ queue[1] \in Record
  <1>1. queue \in Seq(Record) /\ queue # <<>> /\ queue' = Tail(queue)
    BY DEF Typed, Pumped
  <1>2. \A i \in 1..Len(queue) : queue[i] \in Record
    BY <1>1, ElementOfSeq
  <1>3. Len(queue) \in Nat \ {0}
    BY <1>1, EmptySeq, LenProperties
  <1>. QED  BY <1>1, <1>2, <1>3, HeadTailProperties

(* No process yet: nothing to explain.                                     *)
LEMMA CaptureInit == Init => CaptureInv
  <1>. SUFFICES ASSUME Init PROVE CaptureInv
    OBVIOUS
  <1>. USE CaptureAssumption DEF Init, NoEntry, NoEvent, Idle, Unspawned
  <1>1. proc \in [Pids -> {0, 1}] /\ \A p, q \in Pids : p # q => proc[p] = 0 \/ proc[q] = 0
    OBVIOUS
  <1>2. Typed
    BY <1>1 DEF Typed
  <1>3. Bounded
    BY <1>1 DEF Bounded
  <1>4. Unique
    BY <1>1 DEF Unique
  <1>5. Ordered /\ OrderedNow
    BY DEF Ordered, OrderedNow
  <1>6. AllKnown
    BY <1>1 DEF AllKnown, Known
  <1>7. AllFresh
    BY <1>1 DEF AllFresh, Fresh
  <1>8. SweepSound /\ LastExplained
    BY DEF SweepSound, LastExplained, CreationTimesTrue
  <1>. QED  BY <1>2, <1>3, <1>4, <1>5, <1>6, <1>7, <1>8 DEF CaptureInv

-----------------------------------------------------------------------------
(* What is known of a process's end and of the cache survives the changes. *)

(* A record more, and nothing else.                                        *)
LEMMA GrowLemma ==
    ASSUME Typed, NEW r \in Record, queue' = Append(queue, r),
           UNCHANGED <<unseen, unended, cache, swept>>
    PROVE  /\ \A t, q, m, k : k \in 1..(Len(queue) + 1) /\ m \in 1..k /\ Over(t, q, m, k)
                                  => Over(t, q, m, k)'
           /\ \A t, q, m : m \in 1..(Len(queue) + 1) /\ Over(t, q, m, Len(queue) + 1)
                                  => Over(t, q, m, Len(queue) + 1)'
           /\ \A t, q, k : k \in 1..(Len(queue) + 1) /\ Known(t, q, k) => Known(t, q, k)'
           /\ \A t, q : (q # r.pid \/ t = r.born) /\ Known(t, q, Len(queue) + 1)
                                  => Known(t, q, Len(queue) + 1)'
           /\ \A t, q, k : k \in 1..(Len(queue) + 1) /\ Fresh(t, q, k) => Fresh(t, q, k)'
           /\ \A t, q : Fresh(t, q, Len(queue) + 1) => Fresh(t, q, Len(queue) + 1)'
  <1>. DEFINE n == Len(queue)
  <1>1. /\ n \in Nat /\ Len(queue') = n + 1
        /\ \A i \in 1..n : queue'[i] = queue[i]
        /\ queue'[n + 1] = r
    BY AppendStep
  <1>. HIDE DEF n
  <1>2. \A t, q, m, k : k \in 1..(n + 1) /\ m \in 1..k /\ Over(t, q, m, k) => Over(t, q, m, k)'
    BY <1>1 DEF Over
  <1>3. \A t, q, m : m \in 1..(n + 1) /\ Over(t, q, m, n + 1) => Over(t, q, m, Len(queue) + 1)'
    BY <1>1 DEF Over
  <1>4. \A t, q, k : k \in 1..(n + 1) /\ Known(t, q, k) => Known(t, q, k)'
    BY <1>1 DEF Known
  <1>5. \A t, q : (q # r.pid \/ t = r.born) /\ Known(t, q, n + 1) => Known(t, q, Len(queue) + 1)'
    BY <1>1 DEF Known
  <1>6. \A t, q, k : k \in 1..(n + 1) /\ Fresh(t, q, k) => Fresh(t, q, k)'
    BY <1>1, <1>2 DEF Fresh
  <1>7. \A t, q : Fresh(t, q, n + 1) => Fresh(t, q, Len(queue) + 1)'
    BY <1>1, <1>3 DEF Fresh
  <1>. QED  BY <1>2, <1>3, <1>4, <1>5, <1>6, <1>7 DEF n

(* A record lost: more of it is known.                                     *)
LEMMA LoseLemma ==
    ASSUME UNCHANGED <<queue, cache, swept>>, unseen \subseteq unseen', unended \subseteq unended'
    PROVE  /\ \A t, q, m, k : Over(t, q, m, k) => Over(t, q, m, k)'
           /\ \A t, q, k : Known(t, q, k) => Known(t, q, k)'
           /\ \A t, q, k : Fresh(t, q, k) => Fresh(t, q, k)'
  <1>1. \A t, q, m, k : Over(t, q, m, k) => Over(t, q, m, k)'
    BY DEF Over
  <1>2. \A t, q, k : Known(t, q, k) => Known(t, q, k)'
    BY DEF Known
  <1>. QED  BY <1>1, <1>2 DEF Fresh

(* A record dispatched or dropped: the rest moves forward, and only what   *)
(* rested on the first record can change.                                  *)
LEMMA PopLemma ==
    ASSUME Typed, Pumped, unended \subseteq unended'
    PROVE  /\ \A t, q, m, k : m \in 2..(Len(queue) + 1) /\ k \in m..(Len(queue) + 1) /\ Over(t, q, m, k)
                                  => Over(t, q, m - 1, k - 1)'
           /\ \A t, q, k : k \in 2..(Len(queue) + 1) /\ Over(t, q, 1, k)
                                  => \/ Over(t, q, 1, k - 1)'
                                     \/ /\ queue[1].kind = "Terminate"
                                        /\ queue[1].pid = q /\ queue[1].born = t
  <1>. DEFINE n == Len(queue)
  <1>1. /\ n \in Nat \ {0} /\ Len(queue') = n - 1
        /\ \A i \in 1..(n - 1) : queue'[i] = queue[i + 1]
    BY PopStep
  <1>. HIDE DEF n
  <1>2. \A i \in 2..n : queue[i] = queue'[i - 1]
    BY <1>1
  <1>3. ASSUME NEW t, NEW q, NEW m \in 2..(n + 1), NEW k \in m..(n + 1), Over(t, q, m, k)
        PROVE  Over(t, q, m - 1, k - 1)'
    <2>1. CASE t \in unended
      BY <2>1 DEF Over
    <2>2. CASE t \notin unended
      <3>1. PICK i \in m..(k - 1) :
                queue[i].kind = "Terminate" /\ queue[i].pid = q /\ queue[i].born = t
        BY <1>3, <2>2 DEF Over
      <3>2. i - 1 \in (m - 1)..((k - 1) - 1) /\ queue'[i - 1] = queue[i]
        BY <1>1, <1>2
      <3>. QED  BY <3>1, <3>2 DEF Over
    <2>. QED  BY <2>1, <2>2
  <1>4. ASSUME NEW t, NEW q, NEW k \in 2..(n + 1), Over(t, q, 1, k)
        PROVE  \/ Over(t, q, 1, k - 1)'
               \/ queue[1].kind = "Terminate" /\ queue[1].pid = q /\ queue[1].born = t
    <2>1. CASE t \in unended
      BY <2>1 DEF Over
    <2>2. CASE t \notin unended
      <3>1. PICK i \in 1..(k - 1) :
                queue[i].kind = "Terminate" /\ queue[i].pid = q /\ queue[i].born = t
        BY <1>4, <2>2 DEF Over
      <3>2. i = 1 \/ (i - 1 \in 1..((k - 1) - 1) /\ queue'[i - 1] = queue[i])
        BY <1>1, <1>2
      <3>. QED  BY <3>1, <3>2 DEF Over
    <2>. QED  BY <2>1, <2>2
  <1>. QED  BY <1>1, <1>3, <1>4 DEF n

-----------------------------------------------------------------------------
(* The kernel's steps.                                                     *)

(* A process starts, and its record waits or is lost.                      *)
LEMMA LaunchKeeps ==
    ASSUME CaptureInv, NEW p \in Pids, Launch(p)
    PROVE  CaptureInv'
  <1>. DEFINE r == [kind |-> "Launch", pid |-> p, born |-> clock + 1]
              n == Len(queue)
  <1>. USE DEF CaptureInv
  <1>1. /\ proc[p] = 0 /\ clock \in Nat /\ clock' = clock + 1
        /\ proc' = [proc EXCEPT ![p] = clock + 1]
        /\ UNCHANGED <<cache, last, sweep, swept>>
    BY DEF Launch, cacheVars, Typed
  <1>2. \A q \in Pids : /\ proc'[q] = IF q = p THEN clock + 1 ELSE proc[q]
                        /\ proc[q] \in Nat /\ cache[q] \in Nat /\ sweep.snap[q] \in Nat
    BY <1>1 DEF Typed
  <1>3. CASE Deliver("Launch", p, clock + 1)
    <2>1. r \in Record /\ queue' = Append(queue, r) /\ UNCHANGED <<unseen, unended>>
      BY <1>1, <1>3 DEF Deliver, Record
    <2>2. /\ queue' \in Seq(Record)
          /\ n \in Nat /\ Len(queue') = n + 1
          /\ \A i \in 1..n : queue'[i] = queue[i] /\ queue[i] \in Record
          /\ queue'[n + 1] = r
      BY <2>1, AppendStep
    <2>. HIDE DEF r, n
    <2>3. r.kind = "Launch" /\ r.pid = p /\ r.born = clock + 1
      BY DEF r
    <2>4. \A i \in 1..n : queue[i].born \in Nat \ {0} /\ queue[i].born <= clock /\ queue[i].pid \in Pids
      BY <2>2 DEF Bounded, Record, n
    <2>5. /\ \A t, q, m, k : k \in 1..(n + 1) /\ m \in 1..k /\ Over(t, q, m, k) => Over(t, q, m, k)'
          /\ \A t, q, m : m \in 1..(n + 1) /\ Over(t, q, m, n + 1) => Over(t, q, m, Len(queue) + 1)'
      BY <1>1, <2>1, GrowLemma DEF n
    <2>6. /\ \A t, q, k : k \in 1..(n + 1) /\ Known(t, q, k) => Known(t, q, k)'
          /\ \A t, q : q # r.pid /\ Known(t, q, n + 1) => Known(t, q, Len(queue) + 1)'
          /\ \A t, q, k : k \in 1..(n + 1) /\ Fresh(t, q, k) => Fresh(t, q, k)'
          /\ \A t, q : Fresh(t, q, n + 1) => Fresh(t, q, Len(queue) + 1)'
      BY <1>1, <2>1, GrowLemma DEF n
    <2>7. Typed'
      BY <1>1, <2>2 DEF Typed
    <2>8. Bounded'
      BY <1>1, <1>2, <2>2, <2>3, <2>4 DEF Bounded
    <2>9. Unique'
      <3>1. ASSUME NEW x \in Pids, NEW y \in Pids, x # y, proc'[y] # 0
            PROVE  proc'[x] # proc'[y] /\ cache'[x] # proc'[y]
        <4>1. /\ proc[x] <= clock /\ proc[y] <= clock /\ cache[x] <= clock
              /\ proc[y] # 0 => proc[x] # proc[y] /\ cache[x] # proc[y]
          BY <3>1 DEF Bounded, Unique
        <4>. QED  BY <1>1, <1>2, <3>1, <4>1
      <3>2. ASSUME NEW i \in 1..(n + 1), NEW y \in Pids, queue'[i].born = proc'[y]
            PROVE  queue'[i].pid = y
        <4>1. CASE i \in 1..n
          <5>1. queue'[i] = queue[i] /\ queue[i].born <= clock /\ queue[i].born \in Nat
            BY <2>2, <2>4, <4>1
          <5>2. y # p
            BY <1>1, <1>2, <3>2, <5>1
          <5>. QED  BY <1>2, <3>2, <4>1, <5>1, <5>2 DEF Unique, n
        <4>2. CASE i = n + 1
          <5>1. proc[y] <= clock
            BY DEF Bounded
          <5>. QED  BY <1>1, <1>2, <2>2, <2>3, <3>2, <4>2, <5>1
        <4>. QED  BY <2>2, <4>1, <4>2
      <3>3. ASSUME NEW y \in Pids
            PROVE  proc'[y] \notin swept'
        <4>1. clock + 1 \notin swept /\ proc[y] \notin swept
          BY <1>1 DEF Bounded, Unique
        <4>. QED  BY <1>1, <1>2, <4>1
      <3>. QED  BY <2>2, <3>1, <3>2, <3>3 DEF Unique
    <2>10. Ordered'
      <3>1. ASSUME NEW j \in 1..n, NEW i \in 1..(j - 1), queue'[i].pid = queue'[j].pid
            PROVE  /\ queue'[i].born <= queue'[j].born
                   /\ queue'[i].born = queue'[j].born => queue'[i].kind # "Terminate"
                   /\ queue'[i].born # queue'[j].born => Over(queue[i].born, queue[i].pid, i, j)'
        BY <2>2, <2>5, <3>1 DEF Ordered, n
      <3>2. ASSUME NEW i \in 1..n, queue'[i].pid = p
            PROVE  queue'[i].born < clock + 1 /\ Over(queue[i].born, p, i, Len(queue))'
        <4>1. queue'[i] = queue[i] /\ queue[i].pid = p /\ i \in 1..(n + 1) /\ n + 1 \in 1..(n + 1)
          BY <2>2, <3>2
        <4>2. queue[i].born \in Nat \ {0} /\ queue[i].born <= clock
          BY <2>4
        <4>3. Over(queue[i].born, p, i, n + 1)
          BY <1>1, <4>1, <4>2 DEF OrderedNow, n
        <4>4. \A t, k : k = n + 1 /\ Over(t, p, i, k) => Over(t, p, i, k)'
          BY <2>2, <2>5, <4>1
        <4>5. Over(queue[i].born, p, i, Len(queue))'
          BY <2>2, <4>1, <4>3, <4>4
        <4>. QED  BY <1>1, <4>1, <4>2, <4>5
      <3>3. ASSUME NEW i \in 1..n, queue'[i].pid = queue'[n + 1].pid
            PROVE  /\ queue'[i].born < queue'[n + 1].born
                   /\ Over(queue[i].born, queue[i].pid, i, Len(queue))'
        BY <1>1, <2>2, <2>3, <2>4, <3>2, <3>3
      <3>. SUFFICES ASSUME NEW j \in 1..(n + 1), NEW i \in 1..(j - 1), queue'[i].pid = queue'[j].pid
                    PROVE  /\ queue'[i].born <= queue'[j].born
                           /\ queue'[i].born = queue'[j].born => queue'[i].kind # "Terminate"
                           /\ queue'[i].born # queue'[j].born => Over(queue[i].born, queue[i].pid, i, j)'
        BY <2>2 DEF Ordered
      <3>4. CASE j \in 1..n
        BY <3>1, <3>4
      <3>5. CASE j = Len(queue')
        <4>1. i \in 1..n /\ j = n + 1
          BY <2>2, <3>5
        <4>2. queue'[i].born < queue'[j].born /\ Over(queue[i].born, queue[i].pid, i, j)'
          BY <3>3, <3>5, <4>1
        <4>3. queue'[i].born \in Nat /\ queue'[j].born \in Nat
          BY <1>1, <2>2, <2>3, <2>4, <4>1
        <4>. QED  BY <4>2, <4>3
      <3>. QED  BY <2>2, <3>4, <3>5
    <2>11. OrderedNow'
      <3>1. ASSUME NEW i \in 1..n
            PROVE  LET q == queue'[i].pid IN
                   /\ proc'[q] # 0 => queue'[i].born <= proc'[q]
                   /\ queue'[i].born = proc'[q] => queue'[i].kind # "Terminate"
                   /\ queue'[i].born # proc'[q] => Over(queue[i].born, queue[i].pid, i, Len(queue) + 1)'
        <4>1. queue'[i] = queue[i] /\ queue[i].pid \in Pids /\ queue[i].born \in Nat \ {0} /\ queue[i].born <= clock
          BY <2>2, <2>4
        <4>2. /\ proc[queue[i].pid] # 0 => queue[i].born <= proc[queue[i].pid]
              /\ queue[i].born = proc[queue[i].pid] => queue[i].kind # "Terminate"
              /\ queue[i].born # proc[queue[i].pid] =>
                     Over(queue[i].born, queue[i].pid, i, Len(queue) + 1)'
          BY <2>2, <2>5, <4>1 DEF OrderedNow, n
        <4>. QED  BY <1>1, <1>2, <4>1, <4>2
      <3>. QED  BY <1>1, <1>2, <2>2, <2>3, <3>1 DEF OrderedNow
    <2>12. AllKnown'
      <3>1. Known(clock, p, Len(queue) + 1)'
        BY <1>1, <2>2, <2>3 DEF Known
      <3>. QED  BY <1>1, <1>2, <2>2, <2>3, <2>6, <3>1 DEF AllKnown, n
    <2>13. AllFresh'
      <3>1. Fresh(0, p, n + 1) => Fresh(clock, p, Len(queue))' /\ Fresh(clock, p, Len(queue) + 1)'
        BY <1>1, <2>2, <2>5 DEF Fresh
      <3>. QED  BY <1>1, <1>2, <2>2, <2>3, <2>6, <3>1 DEF AllFresh, n
    <2>14. SweepSound' /\ LastExplained'
      <3>1. ASSUME NEW q \in sweep'.gone, sweep'.snap[q] # 0
            PROVE  proc'[q] # sweep'.snap[q]
        <4>1. q \in Pids /\ proc[q] # sweep.snap[q] /\ sweep.snap[q] # 0
          BY <1>1, <3>1 DEF SweepSound, Typed
        <4>2. sweep.snap[q] <= clock
          BY <4>1 DEF Bounded
        <4>. QED  BY <1>1, <1>2, <4>1, <4>2
      <3>2. SweepSound'
        BY <3>1 DEF SweepSound
      <3>3. LastExplained'
        BY <1>1, <2>1 DEF LastExplained, CreationTimesTrue
      <3>. QED  BY <3>2, <3>3
    <2>. QED  BY <2>7, <2>8, <2>9, <2>10, <2>11, <2>12, <2>13, <2>14
  <1>4. CASE Drop("Launch", clock + 1)
    <2>1. /\ UNCHANGED queue /\ unended' = unended
          /\ unseen' = unseen \cup {clock + 1}
      BY <1>1, <1>4 DEF Drop
    <2>2. /\ \A t, q, m, k : Over(t, q, m, k) => Over(t, q, m, k)'
          /\ \A t, q, k : Known(t, q, k) => Known(t, q, k)'
          /\ \A t, q, k : Fresh(t, q, k) => Fresh(t, q, k)'
      BY <1>1, <2>1, LoseLemma
    <2>3. \A i \in 1..n : queue[i].born \in Nat \ {0} /\ queue[i].born <= clock /\ queue[i].pid \in Pids
      BY RecordsTyped DEF Bounded, Record
    <2>4. Typed' /\ Bounded'
      BY <1>1, <1>2, <2>1, <2>3 DEF Typed, Bounded
    <2>5. Unique'
      BY <1>1, <1>2, <2>1, <2>3 DEF Unique, Bounded
    <2>6. Ordered'
      BY <2>1, <2>2 DEF Ordered
    <2>7. OrderedNow'
      <3>. SUFFICES ASSUME NEW i \in 1..n
                    PROVE  LET q == queue[i].pid IN
                           /\ proc'[q] # 0 => queue[i].born <= proc'[q]
                           /\ queue[i].born = proc'[q] => queue[i].kind # "Terminate"
                           /\ queue[i].born # proc'[q] => Over(queue[i].born, q, i, n + 1)'
        BY <2>1 DEF OrderedNow
      <3>1. /\ proc[queue[i].pid] # 0 => queue[i].born <= proc[queue[i].pid]
            /\ queue[i].born = proc[queue[i].pid] => queue[i].kind # "Terminate"
            /\ queue[i].born # proc[queue[i].pid] => Over(queue[i].born, queue[i].pid, i, n + 1)'
        BY <2>1, <2>2 DEF OrderedNow
      <3>. QED  BY <1>1, <1>2, <2>1, <2>3, <3>1
    <2>8. AllKnown'
      <3>1. Known(clock, p, Len(queue) + 1)'
        BY <1>1, <2>1 DEF Known
      <3>. QED  BY <1>1, <1>2, <2>1, <2>2, <3>1 DEF AllKnown
    <2>9. AllFresh'
      <3>1. Fresh(0, p, n + 1) => Fresh(clock, p, Len(queue) + 1)'
        BY <1>1, <2>1, <2>2 DEF Fresh
      <3>. QED  BY <1>1, <1>2, <2>1, <2>2, <3>1 DEF AllFresh
    <2>10. SweepSound' /\ LastExplained'
      BY <1>1, <1>2, <2>1 DEF SweepSound, LastExplained, CreationTimesTrue, Bounded, Typed
    <2>. QED  BY <2>4, <2>5, <2>6, <2>7, <2>8, <2>9, <2>10
  <1>. QED  BY <1>3, <1>4 DEF Launch

(* A process ends, and its record waits or is lost.                        *)
LEMMA TerminateKeeps ==
    ASSUME CaptureInv, NEW p \in Pids, Terminate(p)
    PROVE  CaptureInv'
  <1>. USE DEF CaptureInv
  <1>0. PICK b \in Nat \ {0} : b = proc[p]
    BY DEF Terminate, Typed
  <1>. DEFINE r == [kind |-> "Terminate", pid |-> p, born |-> b]
              n == Len(queue)
  <1>1. /\ proc[p] = b /\ proc' = [proc EXCEPT ![p] = 0]
        /\ UNCHANGED <<clock, cache, last, sweep, swept>>
    BY <1>0 DEF Terminate, cacheVars, Typed
  <1>2. \A q \in Pids : /\ proc'[q] = IF q = p THEN 0 ELSE proc[q]
                        /\ proc[q] \in Nat /\ cache[q] \in Nat /\ sweep.snap[q] \in Nat
    BY <1>1 DEF Typed
  <1>3. CASE Deliver("Terminate", p, b)
    <2>1. r \in Record /\ queue' = Append(queue, r) /\ UNCHANGED <<unseen, unended>>
      BY <1>0, <1>1, <1>3 DEF Deliver, Record
    <2>2. /\ queue' \in Seq(Record)
          /\ n \in Nat /\ Len(queue') = n + 1
          /\ \A i \in 1..n : queue'[i] = queue[i] /\ queue[i] \in Record
          /\ queue'[n + 1] = r
      BY <2>1, AppendStep
    <2>. HIDE DEF r, n
    <2>3. r.kind = "Terminate" /\ r.pid = p /\ r.born = b
      BY DEF r
    <2>4. \A i \in 1..n : queue[i].born \in Nat \ {0} /\ queue[i].born <= clock /\ queue[i].pid \in Pids
      BY <2>2 DEF Bounded, Record, n
    <2>5. /\ \A t, q, m, k : k \in 1..(n + 1) /\ m \in 1..k /\ Over(t, q, m, k) => Over(t, q, m, k)'
          /\ \A t, q, m : m \in 1..(n + 1) /\ Over(t, q, m, n + 1) => Over(t, q, m, Len(queue) + 1)'
      BY <1>1, <2>1, GrowLemma DEF n
    <2>6. /\ \A t, q, k : k \in 1..(n + 1) /\ Known(t, q, k) => Known(t, q, k)'
          /\ \A t, q : q # r.pid /\ Known(t, q, n + 1) => Known(t, q, Len(queue) + 1)'
          /\ \A t, q, k : k \in 1..(n + 1) /\ Fresh(t, q, k) => Fresh(t, q, k)'
          /\ \A t, q : Fresh(t, q, n + 1) => Fresh(t, q, Len(queue) + 1)'
      BY <1>1, <2>1, GrowLemma DEF n
    <2>7. \A m \in 1..(n + 1) : Over(b, p, m, Len(queue) + 1)'
      <3>. SUFFICES ASSUME NEW m \in 1..(n + 1)
                    PROVE  Over(b, p, m, Len(queue) + 1)'
        OBVIOUS
      <3>1. /\ (Len(queue) + 1)' = n + 2 /\ n + 1 \in m..((n + 2) - 1)
            /\ queue'[n + 1].kind = "Terminate" /\ queue'[n + 1].pid = p /\ queue'[n + 1].born = b
        BY <2>2, <2>3
      <3>. QED  BY <3>1 DEF Over
    <2>8. Typed' /\ Bounded'
      <3>1. Typed'
        BY <1>0, <1>1, <2>2 DEF Typed
      <3>2. b <= clock /\ clock \in Nat
        BY <1>0 DEF Bounded, Typed
      <3>3. ASSUME NEW q \in Pids
            PROVE  proc'[q] <= clock' /\ cache'[q] <= clock' /\ sweep'.snap[q] <= clock'
        <4>1. proc[q] <= clock /\ cache[q] <= clock /\ sweep.snap[q] <= clock
          BY DEF Bounded
        <4>. QED  BY <1>1, <1>2, <3>2, <4>1
      <3>4. ASSUME NEW i \in 1..(n + 1)
            PROVE  queue'[i].born <= clock'
        <4>1. CASE i \in 1..n
          BY <1>1, <2>2, <2>4, <4>1
        <4>2. CASE i = n + 1
          BY <1>1, <2>2, <2>3, <3>2, <4>2
        <4>. QED  BY <2>2, <4>1, <4>2
      <3>5. ASSUME NEW t \in swept'
            PROVE  t \in Nat \ {0} /\ t <= clock'
        BY <1>1, <3>5 DEF Bounded
      <3>6. Bounded'
        BY <2>2, <3>3, <3>4, <3>5 DEF Bounded
      <3>. QED  BY <3>1, <3>6
    <2>9. Unique'
      <3>1. ASSUME NEW x \in Pids, NEW y \in Pids, x # y, proc'[y] # 0
            PROVE  proc'[x] # proc'[y] /\ cache'[x] # proc'[y]
        <4>1. proc[y] # 0 => proc[x] # proc[y] /\ cache[x] # proc[y]
          BY <3>1 DEF Unique
        <4>. QED  BY <1>1, <1>2, <3>1, <4>1
      <3>2. ASSUME NEW i \in 1..(n + 1), NEW y \in Pids, queue'[i].born = proc'[y]
            PROVE  queue'[i].pid = y
        <4>1. CASE i \in 1..n
          <5>1. queue'[i] = queue[i] /\ queue[i].born # 0
            BY <2>2, <2>4, <4>1
          <5>2. y # p
            BY <1>2, <3>2, <5>1
          <5>. QED  BY <1>2, <3>2, <4>1, <5>1, <5>2 DEF Unique, n
        <4>2. CASE i = n + 1
          <5>1. proc'[y] = b /\ y # p => proc[y] # b
            BY <1>0, <1>1, <1>2 DEF Unique
          <5>. QED  BY <1>0, <1>2, <2>2, <2>3, <3>2, <4>2, <5>1
        <4>. QED  BY <2>2, <4>1, <4>2
      <3>3. ASSUME NEW y \in Pids
            PROVE  proc'[y] \notin swept'
        <4>1. 0 \notin swept /\ proc[y] \notin swept
          BY DEF Bounded, Unique
        <4>. QED  BY <1>1, <1>2, <4>1
      <3>. QED  BY <2>2, <3>1, <3>2, <3>3 DEF Unique
    <2>10. Ordered'
      <3>. SUFFICES ASSUME NEW j \in 1..(n + 1), NEW i \in 1..(j - 1), queue'[i].pid = queue'[j].pid
                    PROVE  /\ queue'[i].born <= queue'[j].born
                           /\ queue'[i].born = queue'[j].born => queue'[i].kind # "Terminate"
                           /\ queue'[i].born # queue'[j].born => Over(queue[i].born, queue[i].pid, i, j)'
        BY <2>2 DEF Ordered
      <3>1. CASE j \in 1..n
        <4>1. i \in 1..n /\ queue'[i] = queue[i] /\ queue'[j] = queue[j]
          BY <2>2, <3>1
        <4>2. /\ queue[i].born <= queue[j].born
              /\ queue[i].born = queue[j].born => queue[i].kind # "Terminate"
              /\ queue[i].born # queue[j].born => Over(queue[i].born, queue[i].pid, i, j)
          BY <3>1, <4>1 DEF Ordered, n
        <4>3. Over(queue[i].born, queue[i].pid, i, j) => Over(queue[i].born, queue[i].pid, i, j)'
          BY <2>2, <2>5, <3>1, <4>1
        <4>. QED  BY <4>1, <4>2, <4>3
      <3>2. CASE j = n + 1
        <4>1. i \in 1..n /\ queue'[i] = queue[i] /\ queue[i].pid = p /\ queue'[j].born = b
          BY <2>2, <2>3, <3>2
        <4>2. /\ queue[i].born <= b
              /\ queue[i].born = b => queue[i].kind # "Terminate"
              /\ queue[i].born # b => Over(queue[i].born, p, i, n + 1)
          BY <1>0, <4>1 DEF OrderedNow, n
        <4>3. Over(queue[i].born, p, i, n + 1) => Over(queue[i].born, queue[i].pid, i, j)'
          BY <2>2, <2>5, <3>2, <4>1
        <4>. QED  BY <4>1, <4>2, <4>3
      <3>. QED  BY <2>2, <3>1, <3>2
    <2>11. OrderedNow'
      <3>. SUFFICES ASSUME NEW i \in 1..(n + 1)
                    PROVE  LET q == queue'[i].pid IN
                           /\ proc'[q] # 0 => queue'[i].born <= proc'[q]
                           /\ queue'[i].born = proc'[q] => queue'[i].kind # "Terminate"
                           /\ queue'[i].born # proc'[q] => Over(queue[i].born, queue[i].pid, i, Len(queue) + 1)'
        BY <2>2 DEF OrderedNow
      <3>1. CASE i \in 1..n
        <4>1. queue'[i] = queue[i] /\ queue[i].pid \in Pids /\ queue[i].born \in Nat \ {0}
          BY <2>2, <2>4, <3>1
        <4>2. /\ proc[queue[i].pid] # 0 => queue[i].born <= proc[queue[i].pid]
              /\ queue[i].born = proc[queue[i].pid] => queue[i].kind # "Terminate"
              /\ queue[i].born # proc[queue[i].pid] =>
                     Over(queue[i].born, queue[i].pid, i, Len(queue) + 1)'
          BY <2>2, <2>5, <3>1, <4>1 DEF OrderedNow, n
        <4>3. queue[i].pid = p /\ queue[i].born = b => Over(queue[i].born, queue[i].pid, i, Len(queue) + 1)'
          BY <2>7, <4>1
        <4>. QED  BY <1>0, <1>1, <1>2, <4>1, <4>2, <4>3
      <3>2. CASE i = n + 1
        BY <1>0, <1>1, <1>2, <2>2, <2>3, <2>7, <3>2
      <3>. QED  BY <2>2, <3>1, <3>2
    <2>12. AllKnown'
      <3>1. Known(b, p, Len(queue))'
        BY <1>0, <2>2, <2>6 DEF AllKnown, n
      <3>. QED  BY <1>0, <1>1, <1>2, <2>2, <2>3, <2>6, <3>1 DEF AllKnown, n
    <2>13. AllFresh'
      <3>1. Fresh(b, p, n + 1)
        BY <1>0 DEF AllFresh, n
      <3>2. Fresh(0, p, Len(queue) + 1)'
        BY <1>1, <2>2, <2>5, <2>7, <3>1 DEF Fresh
      <3>3. ASSUME NEW i \in 1..(n + 1)
            PROVE  Fresh(queue[i].born, queue[i].pid, i)'
        <4>1. CASE i \in 1..n
          <5>1. queue'[i] = queue[i] /\ Fresh(queue[i].born, queue[i].pid, i)
            BY <2>2, <4>1 DEF AllFresh, n
          <5>. QED  BY <2>2, <2>6, <4>1, <5>1
        <4>2. CASE i = n + 1
          BY <2>2, <2>3, <2>6, <3>1, <4>2
        <4>. QED  BY <2>2, <4>1, <4>2
      <3>4. ASSUME NEW q \in Pids
            PROVE  Fresh(proc[q], q, Len(queue) + 1)'
        <4>1. Fresh(proc[q], q, n + 1)
          BY DEF AllFresh, n
        <4>. QED  BY <1>2, <2>6, <3>2, <4>1
      <3>. QED  BY <2>2, <3>3, <3>4 DEF AllFresh
    <2>14. SweepSound' /\ LastExplained'
      <3>1. ASSUME NEW q \in sweep'.gone, sweep'.snap[q] # 0
            PROVE  proc'[q] # sweep'.snap[q]
        <4>1. q \in Pids /\ proc[q] # sweep.snap[q] /\ sweep.snap[q] # 0
          BY <1>1, <3>1 DEF SweepSound, Typed
        <4>2. sweep.snap[q] <= clock
          BY <4>1 DEF Bounded
        <4>. QED  BY <1>1, <1>2, <4>1, <4>2
      <3>2. SweepSound'
        BY <3>1 DEF SweepSound
      <3>3. LastExplained'
        BY <1>1, <2>1 DEF LastExplained, CreationTimesTrue
      <3>. QED  BY <3>2, <3>3
    <2>. QED  BY <2>8, <2>9, <2>10, <2>11, <2>12, <2>13, <2>14
  <1>4. CASE Drop("Terminate", b)
    <2>1. /\ UNCHANGED queue /\ unseen' = unseen
          /\ unended' = unended \cup {b}
      BY <1>1, <1>4 DEF Drop
    <2>2. /\ \A t, q, m, k : Over(t, q, m, k) => Over(t, q, m, k)'
          /\ \A t, q, k : Known(t, q, k) => Known(t, q, k)'
          /\ \A t, q, k : Fresh(t, q, k) => Fresh(t, q, k)'
      BY <1>1, <2>1, LoseLemma
    <2>3. \A i \in 1..n : queue[i].born \in Nat \ {0} /\ queue[i].born <= clock /\ queue[i].pid \in Pids
      BY RecordsTyped DEF Bounded, Record
    <2>4. Typed' /\ Bounded'
      BY <1>0, <1>1, <1>2, <2>1, <2>3 DEF Typed, Bounded
    <2>5. Unique'
      BY <1>0, <1>1, <1>2, <2>1, <2>3 DEF Unique, Bounded
    <2>6. Ordered'
      BY <2>1, <2>2 DEF Ordered
    <2>7. OrderedNow'
      <3>. SUFFICES ASSUME NEW i \in 1..n
                    PROVE  LET q == queue[i].pid IN
                           /\ proc'[q] # 0 => queue[i].born <= proc'[q]
                           /\ queue[i].born = proc'[q] => queue[i].kind # "Terminate"
                           /\ queue[i].born # proc'[q] => Over(queue[i].born, queue[i].pid, i, Len(queue) + 1)'
        BY <2>1 DEF OrderedNow
      <3>1. /\ proc[queue[i].pid] # 0 => queue[i].born <= proc[queue[i].pid]
            /\ queue[i].born = proc[queue[i].pid] => queue[i].kind # "Terminate"
            /\ queue[i].born # proc[queue[i].pid] => Over(queue[i].born, queue[i].pid, i, Len(queue) + 1)'
        BY <2>1, <2>2 DEF OrderedNow
      <3>2. queue[i].born = b => Over(queue[i].born, queue[i].pid, i, Len(queue) + 1)'
        BY <2>1 DEF Over
      <3>. QED  BY <1>0, <1>1, <1>2, <2>1, <2>3, <3>1, <3>2
    <2>8. AllKnown'
      BY <1>1, <1>2, <2>1, <2>2 DEF AllKnown
    <2>9. AllFresh'
      <3>1. Fresh(b, p, n + 1)'
        BY <1>0, <2>1, <2>2 DEF AllFresh
      <3>2. Fresh(0, p, Len(queue) + 1)'
        BY <2>1, <3>1 DEF Fresh, Over
      <3>. QED  BY <1>1, <1>2, <2>1, <2>2, <3>2 DEF AllFresh
    <2>10. SweepSound' /\ LastExplained'
      BY <1>1, <1>2, <2>1 DEF SweepSound, LastExplained, CreationTimesTrue, Bounded, Typed
    <2>. QED  BY <2>4, <2>5, <2>6, <2>7, <2>8, <2>9, <2>10
  <1>. QED  BY <1>0, <1>3, <1>4 DEF Terminate

(* A process connects: nothing changes but the records that wait.          *)
LEMMA ConnectKeeps ==
    ASSUME CaptureInv, NEW p \in Pids, Connect(p)
    PROVE  CaptureInv'
  <1>. USE DEF CaptureInv
  <1>0. PICK b \in Nat \ {0} : b = proc[p]
    BY DEF Connect, Typed
  <1>. DEFINE r == [kind |-> "Connect", pid |-> p, born |-> b]
              n == Len(queue)
  <1>1. /\ r \in Record /\ queue' = Append(queue, r)
        /\ UNCHANGED <<clock, proc, unseen, unended, cache, last, sweep, swept>>
    BY <1>0 DEF Connect, Deliver, cacheVars, Typed, Record
  <1>2. /\ queue' \in Seq(Record)
        /\ n \in Nat /\ Len(queue') = n + 1
        /\ \A i \in 1..n : queue'[i] = queue[i] /\ queue[i] \in Record
        /\ queue'[n + 1] = r
    BY <1>1, AppendStep
  <1>. HIDE DEF r, n
  <1>3. r.kind = "Connect" /\ r.pid = p /\ r.born = b
    BY DEF r
  <1>4. \A i \in 1..n : queue[i].born \in Nat \ {0} /\ queue[i].born <= clock /\ queue[i].pid \in Pids
    BY <1>2 DEF Bounded, Record, n
  <1>5. /\ \A t, q, m, k : k \in 1..(n + 1) /\ m \in 1..k /\ Over(t, q, m, k) => Over(t, q, m, k)'
        /\ \A t, q, m : m \in 1..(n + 1) /\ Over(t, q, m, n + 1) => Over(t, q, m, Len(queue) + 1)'
    BY <1>1, GrowLemma DEF n
  <1>6. /\ \A t, q, k : k \in 1..(n + 1) /\ Known(t, q, k) => Known(t, q, k)'
        /\ \A t, q : (q # r.pid \/ t = r.born) /\ Known(t, q, n + 1) => Known(t, q, Len(queue) + 1)'
        /\ \A t, q, k : k \in 1..(n + 1) /\ Fresh(t, q, k) => Fresh(t, q, k)'
        /\ \A t, q : Fresh(t, q, n + 1) => Fresh(t, q, Len(queue) + 1)'
    BY <1>1, GrowLemma DEF n
  <1>7. Typed'
    BY <1>1, <1>2 DEF Typed
  <1>8. Bounded'
    <2>1. b <= clock
      BY <1>0 DEF Bounded
    <2>. QED  BY <1>1, <1>2, <1>3, <1>4, <2>1 DEF Bounded
  <1>9. Unique'
    BY <1>0, <1>1, <1>2, <1>3, <1>4 DEF Unique, Bounded, n
  <1>10. Ordered'
    <2>. SUFFICES ASSUME NEW j \in 1..(n + 1), NEW i \in 1..(j - 1), queue'[i].pid = queue'[j].pid
                  PROVE  /\ queue'[i].born <= queue'[j].born
                         /\ queue'[i].born = queue'[j].born => queue'[i].kind # "Terminate"
                         /\ queue'[i].born # queue'[j].born => Over(queue[i].born, queue[i].pid, i, j)'
      BY <1>2 DEF Ordered
    <2>1. CASE j \in 1..n
      BY <1>2, <1>5, <2>1 DEF Ordered, n
    <2>2. CASE j = n + 1
      <3>1. i \in 1..n /\ queue'[i] = queue[i] /\ queue[i].pid = p /\ queue'[j].born = b
        BY <1>2, <1>3, <2>2
      <3>2. /\ queue[i].born <= b
            /\ queue[i].born = b => queue[i].kind # "Terminate"
            /\ queue[i].born # b => Over(queue[i].born, p, i, n + 1)
        BY <1>0, <3>1 DEF OrderedNow, n
      <3>3. Over(queue[i].born, p, i, n + 1) => Over(queue[i].born, queue[i].pid, i, j)'
        BY <1>2, <1>5, <2>2, <3>1
      <3>. QED  BY <3>1, <3>2, <3>3
    <2>. QED  BY <1>2, <2>1, <2>2
  <1>11. OrderedNow'
    <2>1. ASSUME NEW i \in 1..n
          PROVE  LET q == queue'[i].pid IN
                 /\ proc'[q] # 0 => queue'[i].born <= proc'[q]
                 /\ queue'[i].born = proc'[q] => queue'[i].kind # "Terminate"
                 /\ queue'[i].born # proc'[q] => Over(queue[i].born, queue[i].pid, i, Len(queue) + 1)'
      BY <1>1, <1>2, <1>5 DEF OrderedNow, n
    <2>. QED  BY <1>0, <1>1, <1>2, <1>3, <2>1 DEF OrderedNow
  <1>12. AllKnown'
    <2>1. Known(b, p, Len(queue))'
      BY <1>0, <1>2, <1>6 DEF AllKnown, n
    <2>. QED  BY <1>0, <1>1, <1>2, <1>3, <1>6, <2>1 DEF AllKnown, n
  <1>13. AllFresh'
    <2>1. Fresh(b, p, Len(queue))'
      BY <1>0, <1>2, <1>6 DEF AllFresh, n
    <2>. QED  BY <1>0, <1>1, <1>2, <1>3, <1>6, <2>1 DEF AllFresh, n
  <1>14. SweepSound' /\ LastExplained'
    BY <1>1 DEF SweepSound, LastExplained, CreationTimesTrue
  <1>. QED  BY <1>7, <1>8, <1>9, <1>10, <1>11, <1>12, <1>13, <1>14

-----------------------------------------------------------------------------
(* The pump's steps.                                                       *)

(* The records that stay keep their order.                                 *)
LEMMA PopKeepsOrder ==
    ASSUME CaptureInv, Pumped, unended \subseteq unended'
    PROVE  Ordered' /\ OrderedNow'
  <1>. USE DEF CaptureInv
  <1>. DEFINE n == Len(queue)
  <1>1. /\ n \in Nat \ {0} /\ Len(queue') = n - 1
        /\ \A i \in 1..(n - 1) : queue'[i] = queue[i + 1]
    BY PopStep
  <1>2. \A t, q, m, k : m \in 2..(n + 1) /\ k \in m..(n + 1) /\ Over(t, q, m, k)
                            => Over(t, q, m - 1, k - 1)'
    BY PopLemma
  <1>3. UNCHANGED proc
    BY DEF Pumped
  <1>. HIDE DEF n
  <1>4. Ordered'
    <2>. SUFFICES ASSUME NEW j \in 1..(n - 1), NEW i \in 1..(j - 1), queue'[i].pid = queue'[j].pid
                  PROVE  /\ queue'[i].born <= queue'[j].born
                         /\ queue'[i].born = queue'[j].born => queue'[i].kind # "Terminate"
                         /\ queue'[i].born # queue'[j].born => Over(queue[i].born, queue[i].pid, i, j)'
      BY <1>1 DEF Ordered
    <2>1. /\ j + 1 \in 1..n /\ i + 1 \in 1..((j + 1) - 1)
          /\ queue'[i] = queue[i + 1] /\ queue'[j] = queue[j + 1]
      BY <1>1
    <2>2. /\ queue[i + 1].born <= queue[j + 1].born
          /\ queue[i + 1].born = queue[j + 1].born => queue[i + 1].kind # "Terminate"
          /\ queue[i + 1].born # queue[j + 1].born =>
                 Over(queue[i + 1].born, queue[i + 1].pid, i + 1, j + 1)
      BY <2>1 DEF Ordered, n
    <2>3. \A t, q : Over(t, q, i + 1, j + 1) => Over(t, q, i, j)'
      <3>1. i + 1 \in 2..(n + 1) /\ j + 1 \in (i + 1)..(n + 1) /\ (i + 1) - 1 = i /\ (j + 1) - 1 = j
        BY <1>1
      <3>. QED  BY <1>2, <3>1
    <2>. QED  BY <2>1, <2>2, <2>3
  <1>5. OrderedNow'
    <2>. SUFFICES ASSUME NEW i \in 1..(n - 1)
                  PROVE  LET q == queue'[i].pid IN
                         /\ proc[q] # 0 => queue'[i].born <= proc[q]
                         /\ queue'[i].born = proc[q] => queue'[i].kind # "Terminate"
                         /\ queue'[i].born # proc[q] => Over(queue[i].born, queue[i].pid, i, Len(queue) + 1)'
      BY <1>1, <1>3 DEF OrderedNow
    <2>1. i + 1 \in 1..n /\ queue'[i] = queue[i + 1]
      BY <1>1
    <2>2. LET q == queue[i + 1].pid IN
          /\ proc[q] # 0 => queue[i + 1].born <= proc[q]
          /\ queue[i + 1].born = proc[q] => queue[i + 1].kind # "Terminate"
          /\ queue[i + 1].born # proc[q] => Over(queue[i + 1].born, queue[i + 1].pid, i + 1, n + 1)
      BY <2>1 DEF OrderedNow, n
    <2>3. \A t, q : Over(t, q, i + 1, n + 1) => Over(t, q, i, Len(queue) + 1)'
      <3>1. i + 1 \in 2..(n + 1) /\ n + 1 \in (i + 1)..(n + 1) /\ (i + 1) - 1 = i
        BY <1>1
      <3>2. Len(queue') + 1 = (n + 1) - 1 /\ (n + 1) - 1 = n
        BY <1>1
      <3>3. \A t, q : Over(t, q, i + 1, n + 1) => (\A k : k = (n + 1) - 1 => Over(t, q, i, k)')
        BY <1>2, <3>1
      <3>. QED  BY <3>2, <3>3
    <2>. QED  BY <2>1, <2>2, <2>3
  <1>. QED  BY <1>4, <1>5

(* A Launch is dispatched: the entry becomes its process's, and a later    *)
(* record of the PID is about this process, or this process's Terminate is *)
(* in front of it or lost (etw/cache.rs, insert).                          *)
LEMMA DispatchLaunchKeeps ==
    ASSUME CaptureInv, DispatchLaunch
    PROVE  CaptureInv'
  <1>. USE DEF CaptureInv
  <1>0. PICK h \in Record : h = queue[1]
    BY PopStep DEF DispatchLaunch
  <1>. DEFINE n == Len(queue)
  <1>1. /\ n \in Nat \ {0} /\ Len(queue') = n - 1 /\ queue' \in Seq(Record)
        /\ \A i \in 1..(n - 1) : queue'[i] = queue[i + 1]
        /\ \A i \in 1..n : queue[i] \in Record
        /\ Head(queue) = h
    BY <1>0, PopStep DEF DispatchLaunch
  <1>2. /\ h.kind = "Launch" /\ h.pid \in Pids /\ h.born \in Nat \ {0}
        /\ cache' = [cache EXCEPT ![h.pid] = h.born]
        /\ last' = [kind |-> "Launch", pid |-> h.pid, born |-> h.born, created |-> h.born]
        /\ UNCHANGED <<clock, proc, sweep, swept, unseen, unended>>
    BY <1>1 DEF DispatchLaunch, Enqueue, Pumped, Record
  <1>3. /\ \A q \in Pids : cache'[q] = IF q = h.pid THEN h.born ELSE cache[q]
        /\ \A q \in Pids : cache[q] \in Nat /\ proc[q] \in Nat
        /\ clock \in Nat /\ h.born <= clock
        /\ \A q \in Pids : proc[q] # 0 /\ q # h.pid => proc[q] # h.born
    BY <1>0, <1>1, <1>2 DEF Typed, Bounded, Unique
  <1>4. Ordered' /\ OrderedNow'
    BY <1>2, PopKeepsOrder DEF DispatchLaunch
  <1>5. /\ \A t, q, m, k : m \in 2..(n + 1) /\ k \in m..(n + 1) /\ Over(t, q, m, k)
                              => Over(t, q, m - 1, k - 1)'
        /\ \A t, q, k : k \in 2..(n + 1) /\ Over(t, q, 1, k) => Over(t, q, 1, k - 1)'
    BY <1>0, <1>2, PopLemma DEF DispatchLaunch
  <1>. HIDE DEF n
  <1>6. Typed'
    BY <1>1, <1>2 DEF Typed
  <1>7. Bounded'
    BY <1>1, <1>2, <1>3 DEF Bounded, n
  <1>8. Unique'
    BY <1>1, <1>2, <1>3 DEF Unique, n
  <1>9. \A t, q, k : /\ k \in 2..(n + 1) /\ q \in Pids /\ Known(t, q, k)
                     /\ h.pid = q => t # h.born
                     => Known(t, q, k - 1)'
    <2>. SUFFICES ASSUME NEW t, NEW q \in Pids, NEW k \in 2..(n + 1), Known(t, q, k), h.pid = q => t # h.born
                  PROVE  Known(t, q, k - 1)'
      OBVIOUS
    <2>1. CASE t \in unseen
      BY <1>2, <2>1 DEF Known
    <2>2. ASSUME NEW j \in 1..(k - 1), queue[j].kind = "Launch", queue[j].pid = q, queue[j].born = t
          PROVE  Known(t, q, k - 1)'
      <3>1. j # 1
        BY <1>0, <2>2
      <3>2. j - 1 \in 1..((k - 1) - 1) /\ j - 1 \in 1..(n - 1) /\ queue'[j - 1] = queue[j]
        BY <1>1, <3>1
      <3>. QED  BY <2>2, <3>2 DEF Known
    <2>3. ASSUME cache[q] = t \/ (cache[q] = 0 /\ t \in swept),
                 \A j \in 1..(k - 1) : queue[j].pid = q => queue[j].born = t
          PROVE  Known(t, q, k - 1)'
      <3>1. h.pid # q
        BY <1>0, <2>3
      <3>2. \A j \in 1..((k - 1) - 1) : j + 1 \in 1..(k - 1) /\ queue'[j] = queue[j + 1]
        BY <1>1
      <3>3. cache'[q] = cache[q]
        BY <1>3, <3>1
      <3>4. \A j \in 1..((k - 1) - 1) : queue'[j].pid = q => queue'[j].born = t
        BY <2>3, <3>2
      <3>. QED  BY <1>2, <2>3, <3>3, <3>4 DEF Known
    <2>. QED  BY <2>1, <2>2, <2>3 DEF Known
  <1>10. AllKnown'
    <2>1. ASSUME NEW i \in 1..(n - 1), queue'[i].kind # "Launch"
          PROVE  Known(queue[i].born, queue[i].pid, i)'
      <3>1. i + 1 \in 2..(n + 1) /\ i + 1 \in 1..n /\ queue'[i] = queue[i + 1] /\ queue[i + 1] \in Record
        BY <1>1
      <3>2. Known(queue[i + 1].born, queue[i + 1].pid, i + 1)
        BY <2>1, <3>1 DEF AllKnown, n
      <3>3. CASE queue[i + 1].pid = h.pid /\ queue[i + 1].born = h.born
        <4>1. ASSUME NEW j \in 1..(i - 1), queue'[j].pid = h.pid
              PROVE  queue'[j].born = h.born
          <5>1. /\ j + 1 \in 1..n /\ queue'[j] = queue[j + 1] /\ queue[j + 1] \in Record
                /\ j + 1 \in 1..((i + 1) - 1) /\ 1 \in 1..((j + 1) - 1)
            BY <1>1
          <5>2. queue[1].born <= queue[j + 1].born /\ queue[j + 1].born <= queue[i + 1].born
            BY <1>0, <3>1, <3>3, <4>1, <5>1 DEF Ordered, n
          <5>. QED  BY <1>0, <1>2, <3>3, <5>1, <5>2 DEF Record
        <4>. QED  BY <1>2, <1>3, <3>1, <3>3, <4>1 DEF Known
      <3>4. CASE ~(queue[i + 1].pid = h.pid /\ queue[i + 1].born = h.born)
        <4>1. queue[i + 1].pid \in Pids /\ (i + 1) - 1 = i
          BY <3>1 DEF Record
        <4>2. \A k : k = (i + 1) - 1 => Known(queue[i].born, queue[i].pid, k)'
          BY <1>9, <3>1, <3>2, <3>4, <4>1
        <4>. QED  BY <4>1, <4>2
      <3>. QED  BY <3>3, <3>4
    <2>2. ASSUME NEW q \in Pids, proc[q] # 0
          PROVE  Known(proc[q], q, Len(queue) + 1)'
      <3>1. Known(proc[q], q, n + 1)
        BY <2>2 DEF AllKnown, n
      <3>3. CASE q = h.pid /\ proc[q] = h.born
        <4>1. ASSUME NEW j \in 1..(n - 1), queue'[j].pid = q
              PROVE  queue'[j].born = h.born
          <5>1. /\ j + 1 \in 1..n /\ queue'[j] = queue[j + 1] /\ queue[j + 1] \in Record
                /\ 1 \in 1..((j + 1) - 1)
            BY <1>1
          <5>2. queue[1].born <= queue[j + 1].born /\ queue[j + 1].born <= proc[q]
            BY <1>0, <2>2, <3>3, <4>1, <5>1 DEF Ordered, OrderedNow, n
          <5>. QED  BY <1>0, <1>2, <3>3, <5>1, <5>2 DEF Record
        <4>. QED  BY <1>1, <1>2, <1>3, <3>3, <4>1 DEF Known
      <3>4. CASE ~(q = h.pid /\ proc[q] = h.born)
        <4>1. \A k : k = (n + 1) - 1 => Known(proc[q], q, k)'
          BY <1>1, <1>2, <1>9, <3>1, <3>4
        <4>. QED  BY <1>1, <4>1
      <3>. QED  BY <3>3, <3>4
    <2>. QED  BY <1>1, <1>2, <2>1, <2>2 DEF AllKnown
  <1>11. \A t, q, k : k \in 2..(n + 1) /\ q \in Pids /\ q # h.pid /\ Fresh(t, q, k) => Fresh(t, q, k - 1)'
    BY <1>3, <1>5 DEF Fresh
  <1>12. AllFresh'
    <2>1. ASSUME NEW i \in 1..(n - 1)
          PROVE  Fresh(queue[i].born, queue[i].pid, i)'
      <3>1. /\ i + 1 \in 2..(n + 1) /\ i + 1 \in 1..n /\ queue'[i] = queue[i + 1]
            /\ queue[i + 1].pid \in Pids /\ (i + 1) - 1 = i /\ 1 \in 1..((i + 1) - 1)
        BY <1>1 DEF Record
      <3>2. CASE queue[i + 1].pid = h.pid
        <4>1. h.born = queue[i + 1].born \/ Over(h.born, h.pid, 1, i + 1)
          BY <1>0, <3>1, <3>2 DEF Ordered, n
        <4>2. Over(h.born, h.pid, 1, i + 1) => (\A k : k = (i + 1) - 1 => Over(h.born, h.pid, 1, k)')
          BY <1>5, <3>1
        <4>. QED  BY <1>2, <1>3, <3>1, <3>2, <4>1, <4>2 DEF Fresh
      <3>3. CASE queue[i + 1].pid # h.pid
        <4>1. Fresh(queue[i + 1].born, queue[i + 1].pid, i + 1)
          BY <3>1 DEF AllFresh, n
        <4>2. \A k : k = (i + 1) - 1 => Fresh(queue[i].born, queue[i].pid, k)'
          BY <1>11, <3>1, <3>3, <4>1
        <4>. QED  BY <3>1, <4>2
      <3>. QED  BY <3>2, <3>3
    <2>2. ASSUME NEW q \in Pids
          PROVE  Fresh(proc[q], q, Len(queue) + 1)'
      <3>1. n + 1 \in 2..(n + 1) /\ Len(queue') + 1 = (n + 1) - 1 /\ 1 \in 1..n
        BY <1>1
      <3>2. CASE q = h.pid
        <4>1. h.born = proc[q] \/ Over(h.born, h.pid, 1, n + 1)
          BY <1>0, <3>1, <3>2 DEF OrderedNow, n
        <4>2. Over(h.born, h.pid, 1, n + 1) => (\A k : k = (n + 1) - 1 => Over(h.born, h.pid, 1, k)')
          BY <1>5, <3>1
        <4>. QED  BY <1>2, <1>3, <3>1, <3>2, <4>1, <4>2 DEF Fresh
      <3>3. CASE q # h.pid
        <4>1. Fresh(proc[q], q, n + 1)
          BY DEF AllFresh, n
        <4>2. \A k : k = (n + 1) - 1 => Fresh(proc[q], q, k)'
          BY <1>2, <1>11, <3>1, <3>3, <4>1
        <4>. QED  BY <3>1, <4>2
      <3>. QED  BY <3>2, <3>3
    <2>. QED  BY <1>1, <2>1, <2>2 DEF AllFresh
  <1>13. SweepSound' /\ LastExplained'
    BY <1>2 DEF SweepSound, LastExplained, CreationTimesTrue
  <1>. QED  BY <1>4, <1>6, <1>7, <1>8, <1>10, <1>12, <1>13

(* The other records: a Launch that is not dispatched counts as unseen,    *)
(* and a Terminate purges the entry or counts as lost.                     *)
LEMMA PopKeeps ==
    ASSUME CaptureInv, Pumped, UNCHANGED swept,
           unseen \subseteq unseen', unended \subseteq unended',
           queue[1].kind = "Launch" => queue[1].born \in unseen',
           \/ /\ queue[1].kind = "Terminate"
              /\ cache' = [cache EXCEPT ![queue[1].pid] = 0]
           \/ /\ queue[1].kind = "Terminate" => queue[1].born \in unended'
              /\ cache' = cache,
           LastExplained'
    PROVE  CaptureInv'
  <1>. USE DEF CaptureInv
  <1>0. PICK h \in Record : h = queue[1]
    BY PopStep
  <1>. DEFINE n == Len(queue)
  <1>1. /\ n \in Nat \ {0} /\ Len(queue') = n - 1 /\ queue' \in Seq(Record)
        /\ \A i \in 1..(n - 1) : queue'[i] = queue[i + 1]
        /\ \A i \in 1..n : queue[i] \in Record
    BY <1>0, PopStep
  <1>2. /\ h.pid \in Pids /\ h.born \in Nat \ {0}
        /\ UNCHANGED <<clock, proc, sweep>>
        /\ \A q \in Pids : cache[q] \in Nat /\ proc[q] \in Nat
        /\ \A q \in Pids : \/ cache'[q] = cache[q]
                           \/ q = h.pid /\ h.kind = "Terminate" /\ cache'[q] = 0
        /\ \A q \in Pids : q = h.pid /\ h.kind = "Terminate" => cache'[q] = 0 \/ h.born \in unended'
    BY <1>0 DEF Pumped, Record, Typed
  <1>3. Typed'
    <2>1. cache \in [Pids -> Nat]
      BY DEF Typed
    <2>2. cache' \in [Pids -> Nat]
      BY <2>1
    <2>. QED  BY <1>1, <1>2, <2>2 DEF Typed
  <1>4. Ordered' /\ OrderedNow'
    BY PopKeepsOrder
  <1>5. \A t, q, k : k \in 2..(n + 1) /\ Over(t, q, 1, k)
                         => \/ Over(t, q, 1, k - 1)'
                            \/ h.kind = "Terminate" /\ h.pid = q /\ h.born = t
    BY <1>0, PopLemma
  <1>. HIDE DEF n
  <1>6. Bounded'
    <2>1. clock \in Nat
      BY DEF Typed
    <2>. QED  BY <1>1, <1>2, <2>1 DEF Bounded, n
  <1>7. Unique'
    <2>1. ASSUME NEW x \in Pids, NEW y \in Pids, x # y, proc'[y] # 0
          PROVE  proc'[x] # proc'[y] /\ cache'[x] # proc'[y]
      BY <1>2, <2>1 DEF Unique
    <2>2. ASSUME NEW i \in 1..(n - 1), NEW y \in Pids, queue'[i].born = proc'[y]
          PROVE  queue'[i].pid = y
      <3>1. i + 1 \in 1..n /\ queue'[i] = queue[i + 1]
        BY <1>1
      <3>. QED  BY <1>2, <2>2, <3>1 DEF Unique, n
    <2>3. swept' = swept
      BY DEF Pumped
    <2>4. ASSUME NEW y \in Pids
          PROVE  proc'[y] \notin swept'
      BY <1>2, <2>3 DEF Unique
    <2>. QED  BY <1>1, <2>1, <2>2, <2>4 DEF Unique
  <1>8. ASSUME NEW t, NEW q \in Pids, NEW k \in 2..(n + 1), Known(t, q, k),
               h.pid = q /\ h.kind = "Terminate" => t # h.born
        PROVE  Known(t, q, k - 1)'
    <2>1. CASE t \in unseen
      BY <2>1 DEF Known
    <2>2. ASSUME NEW j \in 1..(k - 1), queue[j].kind = "Launch", queue[j].pid = q, queue[j].born = t
          PROVE  Known(t, q, k - 1)'
      <3>1. CASE j = 1
        BY <2>2, <3>1 DEF Known
      <3>2. CASE j # 1
        <4>1. j - 1 \in 1..((k - 1) - 1) /\ j - 1 \in 1..(n - 1) /\ queue'[j - 1] = queue[j]
          BY <1>1, <3>2
        <4>. QED  BY <2>2, <4>1 DEF Known
      <3>. QED  BY <3>1, <3>2
    <2>3. ASSUME cache[q] = t \/ (cache[q] = 0 /\ t \in swept),
                 \A j \in 1..(k - 1) : queue[j].pid = q => queue[j].born = t
          PROVE  Known(t, q, k - 1)'
      <3>1. ~(h.pid = q /\ h.kind = "Terminate")
        BY <1>0, <1>8, <2>3
      <3>2. \A j \in 1..((k - 1) - 1) : j + 1 \in 1..(k - 1) /\ queue'[j] = queue[j + 1]
        BY <1>1
      <3>3. cache'[q] = cache[q]
        BY <1>2, <3>1
      <3>4. \A j \in 1..((k - 1) - 1) : queue'[j].pid = q => queue'[j].born = t
        BY <2>3, <3>2
      <3>. QED  BY <1>2, <2>3, <3>3, <3>4 DEF Known
    <2>. QED  BY <1>8, <2>1, <2>2, <2>3 DEF Known
  <1>9. AllKnown'
    <2>1. ASSUME NEW i \in 1..(n - 1), queue'[i].kind # "Launch"
          PROVE  Known(queue[i].born, queue[i].pid, i)'
      <3>1. /\ i + 1 \in 2..(n + 1) /\ i + 1 \in 1..n /\ queue'[i] = queue[i + 1]
            /\ queue[i + 1].pid \in Pids /\ (i + 1) - 1 = i /\ 1 \in 1..((i + 1) - 1)
        BY <1>1 DEF Record
      <3>2. Known(queue[i + 1].born, queue[i + 1].pid, i + 1)
        BY <2>1, <3>1 DEF AllKnown, n
      <3>3. queue[i + 1].pid = h.pid /\ h.kind = "Terminate" => queue[i + 1].born # h.born
        BY <1>0, <3>1 DEF Ordered, n
      <3>4. \A k : k = (i + 1) - 1 => Known(queue[i].born, queue[i].pid, k)'
        BY <1>8, <3>1, <3>2, <3>3
      <3>. QED  BY <3>1, <3>4
    <2>2. ASSUME NEW q \in Pids, proc[q] # 0
          PROVE  Known(proc[q], q, Len(queue) + 1)'
      <3>1. n + 1 \in 2..(n + 1) /\ Len(queue') + 1 = (n + 1) - 1 /\ 1 \in 1..n
        BY <1>1
      <3>2. Known(proc[q], q, n + 1)
        BY <2>2 DEF AllKnown, n
      <3>3. q = h.pid /\ h.kind = "Terminate" => proc[q] # h.born
        BY <1>0, <3>1 DEF OrderedNow, n
      <3>4. \A k : k = (n + 1) - 1 => Known(proc[q], q, k)'
        BY <1>2, <1>8, <3>1, <3>2, <3>3
      <3>. QED  BY <3>1, <3>4
    <2>. QED  BY <1>1, <1>2, <2>1, <2>2 DEF AllKnown
  <1>10. ASSUME NEW t, NEW q \in Pids, NEW k \in 2..(n + 1), Fresh(t, q, k)
         PROVE  Fresh(t, q, k - 1)'
    <2>1. CASE cache'[q] = 0
      BY <2>1 DEF Fresh
    <2>2. CASE cache'[q] = cache[q] /\ cache'[q] # 0
      <3>1. CASE cache[q] = t
        BY <2>2, <3>1 DEF Fresh
      <3>2. CASE Over(cache[q], q, 1, k)
        <4>1. \/ Over(cache[q], q, 1, k - 1)'
              \/ h.kind = "Terminate" /\ h.pid = q /\ h.born = cache'[q]
          <5>1. \A c : c = cache[q] => \/ Over(c, q, 1, k - 1)'
                                       \/ h.kind = "Terminate" /\ h.pid = q /\ h.born = c
            BY <1>5, <3>2
          <5>. QED  BY <2>2, <5>1
        <4>2. h.kind = "Terminate" /\ h.pid = q /\ h.born = cache'[q] => Over(cache[q], q, 1, k - 1)'
          BY <1>2, <2>2 DEF Over
        <4>. QED  BY <4>1, <4>2 DEF Fresh
      <3>. QED  BY <1>10, <2>2, <3>1, <3>2 DEF Fresh
    <2>. QED  BY <1>2, <2>1, <2>2
  <1>11. AllFresh'
    <2>1. ASSUME NEW i \in 1..(n - 1)
          PROVE  Fresh(queue[i].born, queue[i].pid, i)'
      <3>1. /\ i + 1 \in 2..(n + 1) /\ i + 1 \in 1..n /\ queue'[i] = queue[i + 1]
            /\ queue[i + 1].pid \in Pids /\ (i + 1) - 1 = i
        BY <1>1 DEF Record
      <3>2. Fresh(queue[i + 1].born, queue[i + 1].pid, i + 1)
        BY <3>1 DEF AllFresh, n
      <3>3. \A k : k = (i + 1) - 1 => Fresh(queue[i].born, queue[i].pid, k)'
        BY <1>10, <3>1, <3>2
      <3>. QED  BY <3>1, <3>3
    <2>2. ASSUME NEW q \in Pids
          PROVE  Fresh(proc[q], q, Len(queue) + 1)'
      <3>1. n + 1 \in 2..(n + 1) /\ Len(queue') + 1 = (n + 1) - 1
        BY <1>1
      <3>2. Fresh(proc[q], q, n + 1)
        BY DEF AllFresh, n
      <3>3. \A k : k = (n + 1) - 1 => Fresh(proc[q], q, k)'
        BY <1>2, <1>10, <3>1, <3>2
      <3>. QED  BY <3>1, <3>3
    <2>. QED  BY <1>1, <2>1, <2>2 DEF AllFresh
  <1>12. SweepSound'
    BY <1>2 DEF SweepSound
  <1>. QED  BY <1>3, <1>4, <1>6, <1>7, <1>9, <1>11, <1>12

(* A Terminate or a connection is dispatched: with no record in front,     *)
(* the entry is the process's own unless two records were lost, and there  *)
(* is one unless its Launch was lost or the sweep took it (etw/cache.rs,   *)
(* consult_and_purge and created_time).                                    *)
LEMMA DispatchKeeps ==
    ASSUME CaptureInv, DispatchTerminate \/ DispatchConnect
    PROVE  CaptureInv'
  <1>. USE DEF CaptureInv
  <1>1. Pumped /\ UNCHANGED <<unseen, unended, swept>>
    BY DEF DispatchTerminate, DispatchConnect, Pumped
  <1>2. PICK h \in Record : h = queue[1]
    BY <1>1, PopStep
  <1>3. /\ Head(queue) = h /\ 1 \in 1..Len(queue)
        /\ h.pid \in Pids /\ h.born \in Nat \ {0}
    BY <1>1, <1>2, PopStep DEF Record
  <1>4. /\ last' = [kind |-> h.kind, pid |-> h.pid, born |-> h.born, created |-> cache[h.pid]]
        /\ h.kind \in {"Terminate", "Connect"}
    BY <1>3 DEF DispatchTerminate, DispatchConnect, Enqueue
  <1>5. h.born \in unseen \/ cache[h.pid] = h.born \/ (cache[h.pid] = 0 /\ h.born \in swept)
    BY <1>2, <1>3, <1>4 DEF AllKnown, Known
  <1>6. cache[h.pid] \in {0, h.born} \/ cache[h.pid] \in unended
    BY <1>2, <1>3 DEF AllFresh, Fresh, Over
  <1>7. LastExplained'
    BY <1>1, <1>3, <1>4, <1>5, <1>6 DEF LastExplained, CreationTimesTrue
  <1>8. CASE DispatchTerminate
    <2>1. queue[1].kind = "Terminate" /\ cache' = [cache EXCEPT ![queue[1].pid] = 0]
      BY <1>2, <1>3, <1>8 DEF DispatchTerminate
    <2>. QED  BY <1>1, <1>7, <2>1, PopKeeps
  <1>9. CASE DispatchConnect
    <2>1. queue[1].kind = "Connect" /\ cache' = cache
      BY <1>2, <1>3, <1>9 DEF DispatchConnect
    <2>. QED  BY <1>1, <1>7, <2>1, PopKeeps
  <1>. QED  BY <1>8, <1>9

(* A record the callbacks drop (etw/dispatch.rs, a discarded connection or *)
(* an anomalous timestamp) changes no entry.                               *)
LEMMA DropKeeps ==
    ASSUME CaptureInv, DropConnect \/ DropAnomaly
    PROVE  CaptureInv'
  <1>. USE DEF CaptureInv
  <1>1. Pumped /\ UNCHANGED <<cache, swept, last>>
    BY DEF DropConnect, DropAnomaly, Pumped
  <1>2. Head(queue) = queue[1]
    BY <1>1, PopStep
  <1>3. /\ unseen \subseteq unseen' /\ unended \subseteq unended'
        /\ queue[1].kind = "Launch" => queue[1].born \in unseen'
        /\ queue[1].kind = "Terminate" => queue[1].born \in unended'
    BY <1>2 DEF DropConnect, DropAnomaly
  <1>4. LastExplained'
    BY <1>1, <1>3 DEF LastExplained, CreationTimesTrue
  <1>. QED  BY <1>1, <1>3, <1>4, PopKeeps

-----------------------------------------------------------------------------
(* The sweep's steps.                                                      *)

(* An answer is noted: a PID without a process does not run the snapshot's *)
(* process, and a later one under the same PID is younger.                 *)
LEMMA SweepAskKeeps ==
    ASSUME CaptureInv, SweepBegin \/ \E p \in Pids : SweepAsk(p)
    PROVE  CaptureInv'
  <1>. USE DEF CaptureInv
  <1>1. UNCHANGED <<clock, proc, queue, unseen, unended, cache, last, swept>>
    BY DEF SweepBegin, SweepAsk, processVars
  <1>2. /\ \A t, q, m, k : Over(t, q, m, k) => Over(t, q, m, k)'
        /\ \A t, q, k : Known(t, q, k) => Known(t, q, k)'
        /\ \A t, q, k : Fresh(t, q, k) => Fresh(t, q, k)'
    BY <1>1, LoseLemma
  <1>3. Unique' /\ LastExplained'
    BY <1>1 DEF Unique, LastExplained, CreationTimesTrue
  <1>4. Ordered' /\ OrderedNow'
    BY <1>1, <1>2 DEF Ordered, OrderedNow
  <1>5. AllKnown' /\ AllFresh'
    BY <1>1, <1>2 DEF AllKnown, AllFresh
  <1>6. CASE SweepBegin
    <2>1. sweep' = [at |-> "ask", snap |-> cache, ask |-> {p \in Pids : cache[p] # 0}, gone |-> {}]
      BY <1>6 DEF SweepBegin
    <2>. QED  BY <1>1, <1>3, <1>4, <1>5, <2>1 DEF Typed, Bounded, SweepSound
  <1>7. ASSUME NEW p \in Pids, SweepAsk(p)
        PROVE  CaptureInv'
    <2>1. /\ sweep' \in [at : {"none", "idle", "ask"}, snap : [Pids -> Nat], ask : SUBSET Pids, gone : SUBSET Pids]
          /\ sweep'.snap = sweep.snap
          /\ sweep'.gone \in {sweep.gone, IF proc[p] = 0 THEN sweep.gone \cup {p} ELSE sweep.gone}
      <3>1. CASE sweep' = [sweep EXCEPT !.ask = @ \ {p},
                                       !.gone = IF proc[p] = 0 THEN @ \cup {p} ELSE @]
        BY <3>1 DEF Typed
      <3>2. CASE sweep' = [sweep EXCEPT !.ask = @ \ {p}]
        BY <3>2 DEF Typed
      <3>. QED  BY <1>7, <3>1, <3>2 DEF SweepAsk
    <2>. QED  BY <1>1, <1>3, <1>4, <1>5, <2>1 DEF Typed, Bounded, SweepSound
  <1>. QED  BY <1>6, <1>7

(* The eviction: what it takes is the snapshot's process, which no longer  *)
(* runs, even if its PID is in use again (etw/cache.rs, sweep).            *)
LEMMA SweepEndKeeps ==
    ASSUME CaptureInv, SweepEnd
    PROVE  CaptureInv'
  <1>. USE DEF CaptureInv
  <1>1. /\ UNCHANGED <<clock, proc, queue, unseen, unended, last>>
        /\ swept' = swept \cup {cache[p] : p \in Evicted}
        /\ sweep' = Idle
        /\ cache' = [p \in Pids |-> IF p \in Evicted THEN 0 ELSE cache[p]]
    BY DEF SweepEnd, processVars
  <1>2. /\ \A p \in Evicted : p \in Pids /\ cache[p] # 0 /\ proc[p] # cache[p]
        /\ \A p \in Pids : cache[p] \in Nat /\ proc[p] \in Nat /\ cache[p] <= clock
        /\ clock \in Nat
    BY DEF Evicted, SweepSound, Typed, Bounded
  <1>3. /\ \A p \in Pids : cache'[p] = cache[p] \/ (cache'[p] = 0 /\ cache[p] \in swept')
        /\ \A t \in swept' \ swept : t \in Nat \ {0} /\ t <= clock /\ \A q \in Pids : proc[q] # t
    BY <1>1, <1>2 DEF Unique
  <1>. HIDE DEF Evicted
  <1>4. Typed' /\ Bounded'
    <2>1. cache' \in [Pids -> Nat]
      BY <1>1, <1>2
    <2>2. Idle \in [at : {"none", "idle", "ask"}, snap : [Pids -> Nat], ask : SUBSET Pids, gone : SUBSET Pids]
      BY DEF Idle, NoEntry
    <2>3. \A p \in Pids : Idle.snap[p] = 0
      BY DEF Idle, NoEntry
    <2>4. Typed'
      BY <1>1, <2>1, <2>2 DEF Typed
    <2>. QED  BY <1>1, <1>2, <1>3, <2>3, <2>4 DEF Bounded
  <1>5. Unique'
    BY <1>1, <1>2, <1>3 DEF Unique
  <1>6. \A t, q, m, k : Over(t, q, m, k) <=> Over(t, q, m, k)'
    BY <1>1 DEF Over
  <1>7. Ordered' /\ OrderedNow'
    BY <1>1, <1>6 DEF Ordered, OrderedNow
  <1>8. \A t, k : \A q \in Pids : Known(t, q, k) => Known(t, q, k)'
    <2>. SUFFICES ASSUME NEW t, NEW k, NEW q \in Pids, Known(t, q, k)
                  PROVE  Known(t, q, k)'
      OBVIOUS
    <2>1. cache[q] = t \/ (cache[q] = 0 /\ t \in swept) =>
              cache'[q] = t \/ (cache'[q] = 0 /\ t \in swept')
      BY <1>1, <1>3
    <2>. QED  BY <1>1, <2>1 DEF Known
  <1>9. \A t, k : \A q \in Pids : Fresh(t, q, k) => Fresh(t, q, k)'
    <2>. SUFFICES ASSUME NEW t, NEW k, NEW q \in Pids, Fresh(t, q, k)
                  PROVE  Fresh(t, q, k)'
      OBVIOUS
    <2>1. Over(cache[q], q, 1, k) /\ cache'[q] = cache[q] => Over(cache[q], q, 1, k)'
      BY <1>1 DEF Over
    <2>. QED  BY <1>3, <2>1 DEF Fresh
  <1>10. \A i \in 1..Len(queue) : queue[i].pid \in Pids
    BY RecordsTyped DEF Record
  <1>11. AllKnown' /\ AllFresh'
    BY <1>1, <1>8, <1>9, <1>10 DEF AllKnown, AllFresh
  <1>12. SweepSound' /\ LastExplained'
    BY <1>1 DEF SweepSound, Idle, LastExplained, CreationTimesTrue
  <1>. QED  BY <1>4, <1>5, <1>7, <1>11, <1>12

-----------------------------------------------------------------------------

(* The steps of the logon thread and of the teardown touch none of this.   *)
LEMMA QuietKeeps ==
    ASSUME CaptureInv,
           UNCHANGED <<clock, proc, queue, unseen, unended, cache, last, sweep, swept>>
    PROVE  CaptureInv'
  <1>. USE DEF CaptureInv
  <1>1. /\ \A t, q, m, k : Over(t, q, m, k) => Over(t, q, m, k)'
        /\ \A t, q, k : Known(t, q, k) => Known(t, q, k)'
        /\ \A t, q, k : Fresh(t, q, k) => Fresh(t, q, k)'
    BY LoseLemma
  <1>2. Typed' /\ Bounded' /\ Unique' /\ SweepSound' /\ LastExplained'
    BY DEF Typed, Bounded, Unique, SweepSound, LastExplained, CreationTimesTrue
  <1>3. Ordered' /\ OrderedNow' /\ AllKnown' /\ AllFresh'
    BY <1>1 DEF Ordered, OrderedNow, AllKnown, AllFresh
  <1>. QED  BY <1>2, <1>3

(* Every step keeps the invariant.                                         *)
LEMMA CaptureStep == CaptureInv /\ [Next]_vars => CaptureInv'
  <1>. SUFFICES ASSUME CaptureInv, [Next]_vars PROVE CaptureInv'
    OBVIOUS
  <1>1. CASE Next
    <2>1. CASE System
      <3>1. CASE WriteLogon
        BY <3>1, QuietKeeps DEF WriteLogon, processVars, cacheVars
      <3>. QED  BY <2>1, <3>1, LaunchKeeps, TerminateKeeps, ConnectKeeps DEF System
    <2>2. CASE Pump
      BY <2>2, DispatchLaunchKeeps, DispatchKeeps, DropKeeps DEF Pump
    <2>3. CASE Hygiene
      BY <2>3, SweepAskKeeps, SweepEndKeeps DEF Hygiene
    <2>4. CASE LogonThread
      BY <2>4, QuietKeeps
      DEF LogonThread, Wake, Drain, ReadFails, Delay, Reopen, processVars, cacheVars
    <2>5. CASE Stop \/ Teardown
      BY <2>5, QuietKeeps DEF Stop, Teardown, StopLogons, StopSession, JoinPump, processVars, cacheVars
    <2>. QED  BY <1>1, <2>1, <2>2, <2>3, <2>4, <2>5 DEF Next
  <1>2. CASE UNCHANGED vars
    BY <1>2, QuietKeeps DEF vars, processVars, cacheVars
  <1>. QED  BY <1>1, <1>2

(* Each reachable state has the invariant.                                 *)
THEOREM CaptureInvariant == Spec => []CaptureInv
  <1>. QED  BY CaptureInit, CaptureStep, PTL DEF Spec

(* Whatever is dispatched late, lost or evicted, and however PIDs are      *)
(* reused, an event never carries another process's creation time unless   *)
(* the Launch of its own process and the Terminate of the other were both  *)
(* lost (etw/cache.rs, etw/dispatch.rs).                                   *)
THEOREM CreationTimes == Spec => []CreationTimesTrue
  <1>1. CaptureInv => CreationTimesTrue
    BY DEF CaptureInv, LastExplained
  <1>. QED  BY <1>1, CaptureInvariant, PTL

(* An event lacks its creation time only if its Launch was not dispatched  *)
(* or the sweep took the entry, and the sweep takes no entry of a process  *)
(* that runs (etw/cache.rs, etw/hygiene.rs).                               *)
THEOREM Misses == Spec => []MissesExplained
  <1>1. CaptureInv => MissesExplained
    BY DEF CaptureInv, LastExplained, MissesExplained, Unique
  <1>. QED  BY <1>1, CaptureInvariant, PTL
=============================================================================
