------------------------- MODULE EventPipelineProofs -------------------------
(***************************************************************************)
(* Proofs about EventPipeline, for every capacity, batch size, retry limit *)
(* and bound.                                                              *)
(***************************************************************************)
EXTENDS EventPipeline, SequenceTheorems, TLAPS

(***************************************************************************)
(* A sequence cut in two: the lengths add up and the elements stay.        *)
(***************************************************************************)
LEMMA CutLemma ==
    ASSUME NEW s \in Seq(Nat), NEW n \in 0..Len(s)
    PROVE  /\ SubSeq(s, 1, n) \in Seq(Nat)
           /\ SubSeq(s, n + 1, Len(s)) \in Seq(Nat)
           /\ Len(SubSeq(s, 1, n)) = n
           /\ Len(SubSeq(s, n + 1, Len(s))) = Len(s) - n
           /\ \A i \in 1..n : SubSeq(s, 1, n)[i] = s[i]
           /\ \A i \in 1..(Len(s) - n) :
                SubSeq(s, n + 1, Len(s))[i] = s[n + i]
<1>1. Len(s) \in Nat /\ n \in Nat /\ n <= Len(s)
  BY LenProperties
<1>2. \A i \in 1..Len(s) : s[i] \in Nat
  BY ElementOfSeq
<1>3. \A i \in 1..n : s[i] \in Nat
  BY <1>1, <1>2
<1>4. \A i \in (n + 1)..Len(s) : s[i] \in Nat
  BY <1>1, <1>2
<1>5. /\ SubSeq(s, 1, n) \in Seq(Nat)
      /\ Len(SubSeq(s, 1, n)) = IF 1 <= n THEN n - 1 + 1 ELSE 0
      /\ \A i \in 1 .. n - 1 + 1 : SubSeq(s, 1, n)[i] = s[1 + i - 1]
  BY <1>1, <1>3, SubSeqProperties
<1>6. /\ SubSeq(s, n + 1, Len(s)) \in Seq(Nat)
      /\ Len(SubSeq(s, n + 1, Len(s))) =
           IF n + 1 <= Len(s) THEN Len(s) - (n + 1) + 1 ELSE 0
      /\ \A i \in 1 .. Len(s) - (n + 1) + 1 :
           SubSeq(s, n + 1, Len(s))[i] = s[n + 1 + i - 1]
  BY <1>1, <1>4, SubSeqProperties
<1>7. Len(SubSeq(s, 1, n)) = n
  BY <1>1, <1>5
<1>8. Len(SubSeq(s, n + 1, Len(s))) = Len(s) - n
  BY <1>1, <1>6
<1>9. \A i \in 1..n : SubSeq(s, 1, n)[i] = s[i]
  BY <1>1, <1>5
<1>10. \A i \in 1..(Len(s) - n) : SubSeq(s, n + 1, Len(s))[i] = s[n + i]
  BY <1>1, <1>6
<1>. QED
  BY <1>5, <1>6, <1>7, <1>8, <1>9, <1>10

(***************************************************************************)
(* What draining the ring returns and leaves.                              *)
(***************************************************************************)
LEMMA DrainLemma ==
    ASSUME ring \in Seq(Nat), NEW max \in Nat
    PROVE  /\ Drained(max) \in Seq(Nat)
           /\ AfterDrain(max) \in Seq(Nat)
           /\ Len(Drained(max)) \in Nat /\ Len(AfterDrain(max)) \in Nat
           /\ Len(Drained(max)) <= max
           /\ Len(Drained(max)) + Len(AfterDrain(max)) = Len(ring)
<1>1. Len(ring) \in Nat
  BY LenProperties
<1>2. DrainCount(max) \in 0..Len(ring) /\ DrainCount(max) <= max
  BY <1>1 DEF DrainCount
<1>3. /\ Drained(max) \in Seq(Nat)
      /\ AfterDrain(max) \in Seq(Nat)
      /\ Len(Drained(max)) = DrainCount(max)
      /\ Len(AfterDrain(max)) = Len(ring) - DrainCount(max)
  BY <1>2, CutLemma DEF Drained, AfterDrain
<1>. QED
  BY <1>1, <1>2, <1>3

(***************************************************************************)
(* A batch is a POST of at most MaxBatch events with the next sequence     *)
(* number.                                                                 *)
(***************************************************************************)
LEMMA FormBatchLemma ==
    ASSUME ring \in Seq(Nat), sequence \in Nat
    PROVE  /\ FormBatch \in Post
           /\ FormBatch.events = Drained(MaxBatch)
           /\ FormBatch.sequence = sequence + 1
           /\ FormBatch.rejections = 0 /\ FormBatch.transient_failures = 0
<1>1. Drained(MaxBatch) \in Seq(Nat)
  BY DrainLemma, DeliveryAssumption, CapacityAssumption
<1>. QED
  BY <1>1 DEF FormBatch, Post

(***************************************************************************)
(* Updating one counter of a POST keeps the others.                        *)
(***************************************************************************)
LEMMA PostUpdateLemma ==
    ASSUME NEW p \in Post, NEW n \in Nat
    PROVE  /\ LET q == [p EXCEPT !.attempts = n]
              IN  /\ q \in Post /\ q.events = p.events
                  /\ q.sequence = p.sequence
                  /\ q.rejections = p.rejections
                  /\ q.transient_failures = p.transient_failures
           /\ LET q == [p EXCEPT !.transient_failures = n]
              IN  /\ q \in Post /\ q.events = p.events
                  /\ q.sequence = p.sequence
                  /\ q.rejections = p.rejections /\ q.transient_failures = n
           /\ LET q == [p EXCEPT !.rejections = n]
              IN  /\ q \in Post /\ q.events = p.events
                  /\ q.sequence = p.sequence
                  /\ q.rejections = n
                  /\ q.transient_failures = p.transient_failures
  BY DEF Post

(***************************************************************************)
(* The instance of IngestHeartbeat has its own copy of Range: the same.    *)
(***************************************************************************)
LEMMA RangeLemma == \A s : Server!Range(s) = Range(s)
  BY DEF Server!Range, Range

(***************************************************************************)
(* A request that moves to another stage is still a request.               *)
(***************************************************************************)
LEMMA MoveLemma ==
    ASSUME requests \subseteq Request, NEW r \in requests, NEW stage \in Stage,
           Server!Move(r, stage)
    PROVE  requests' \subseteq Request
<1>1. [r EXCEPT !.stage = stage] \in Request
  BY DEF Request
<1>. QED
  BY <1>1 DEF Server!Move

(***************************************************************************)
(* An attempt adds a well-formed request and draws one nonce               *)
(* (delivery.rs attempt_within).                                           *)
(***************************************************************************)
LEMMA SendLemma ==
    ASSUME requests \subseteq Request, nonces \in Nat,
           NEW batch \in Post, Send(batch)
    PROVE  requests' \subseteq Request /\ nonces' \in Nat
  BY DEF Send, Request, Post, Stage

(***************************************************************************)
(* What the assumptions on the constants give, in the form SMT uses.       *)
(***************************************************************************)
LEMMA ConstantsLemma ==
    /\ Capacity \in Nat /\ 0 < Capacity
    /\ MaxBatch \in Nat /\ 0 < MaxBatch /\ MaxBatch <= Capacity
    /\ MaxRetries \in Nat /\ 0 < MaxRetries
    /\ MaxFaults \in Nat /\ MaxEvents \in Nat
  BY CapacityAssumption, DeliveryAssumption

(***************************************************************************)
(* Type correctness of every reachable state: the ring stays within its    *)
(* capacity and a POST within MaxBatch events (ring.rs, delivery.rs).      *)
(***************************************************************************)
THEOREM TypeCorrect == Spec => []TypeOK
<1>. USE ConstantsLemma
<1>1. Init => TypeOK
  <2>. SUFFICES ASSUME Init PROVE TypeOK
    OBVIOUS
  <2>1. NoPost \in Post /\ Len(NoPost.events) = 0 /\ NoPost.rejections = 0
        /\ NoPost.transient_failures = 0
    BY DEF NoPost, Post
  <2>2. <<>> \in Seq(Nat) /\ Len(<<>>) = 0
    BY EmptySeq
  <2>. USE DEF Init, RingInit, DeliveryInit, Server!ServerInit
  <2>3. ring \in Seq(Nat) /\ Len(ring) <= Capacity
    BY <2>2
  <2>4. /\ pending \in Post /\ Len(pending.events) <= MaxBatch
        /\ pending.transient_failures <= MaxRetries
        /\ pending.rejections < MaxRetries
    BY <2>1
  <2>5. delivered \in Seq(Nat)
    BY <2>2
  <2>. QED
    BY <2>3, <2>4, <2>5 DEF TypeOK
<1>2. TypeOK /\ [Next]_vars => TypeOK'
  <2>. SUFFICES ASSUME TypeOK, [Next]_vars PROVE TypeOK'
    OBVIOUS
  <2>. USE DEF TypeOK
  <2>a. /\ Len(ring) \in Nat /\ Len(pending.events) \in Nat
        /\ pending.events \in Seq(Nat)
    BY LenProperties DEF Post
  <2>b. NoPost \in Post /\ Len(NoPost.events) = 0 /\ NoPost.rejections = 0
        /\ NoPost.transient_failures = 0
    BY DEF NoPost, Post
  <2>c. /\ FormBatch \in Post /\ Len(FormBatch.events) <= MaxBatch
        /\ FormBatch.rejections = 0 /\ FormBatch.transient_failures = 0
        /\ AfterDrain(MaxBatch) \in Seq(Nat)
        /\ Len(AfterDrain(MaxBatch)) <= Capacity
    <3>1. /\ Len(Drained(MaxBatch)) <= MaxBatch
          /\ AfterDrain(MaxBatch) \in Seq(Nat)
          /\ Len(Drained(MaxBatch)) + Len(AfterDrain(MaxBatch)) = Len(ring)
          /\ Len(Drained(MaxBatch)) \in Nat /\ Len(AfterDrain(MaxBatch)) \in Nat
      BY DrainLemma
    <3>2. Len(AfterDrain(MaxBatch)) <= Capacity
      BY <2>a, <3>1
    <3>. QED
      BY <3>1, <3>2, FormBatchLemma
  <2>1. CASE EnqueueOrDrop /\ UNCHANGED stored
    <3>1. captured + 1 \in Nat
      OBVIOUS
    <3>2. CASE Len(ring) >= Capacity
      <4>1. ring # <<>>
        BY <3>2
      <4>2. Tail(ring) \in Seq(Nat) /\ Len(Tail(ring)) = Len(ring) - 1
            /\ Head(ring) \in Nat
        BY <4>1, HeadTailProperties
      <4>3. /\ Append(Tail(ring), captured + 1) \in Seq(Nat)
            /\ Len(Append(Tail(ring), captured + 1)) = Len(ring)
        BY <2>a, <3>1, <4>2, AppendProperties
      <4>. QED
        <5>1. /\ ring' = Append(Tail(ring), captured + 1)
              /\ dropped_total' = dropped_total + 1
              /\ discarded' = discarded \cup {Head(ring)}
              /\ captured' = captured + 1
          BY <2>1, <3>2 DEF EnqueueOrDrop, Enqueue
        <5>2. ring' \in Seq(Nat) /\ Len(ring') <= Capacity
          BY <4>3, <5>1
        <5>3. dropped_total' \in Nat /\ captured' \in Nat
          BY <5>1
        <5>4. discarded' \subseteq Nat
          BY <4>2, <5>1, Zenon
        <5>. QED
          BY <2>1, <5>2, <5>3, <5>4 DEF EnqueueOrDrop, loopVars, doneVars, netVars
    <3>3. CASE ~(Len(ring) >= Capacity)
      <4>1. /\ Append(ring, captured + 1) \in Seq(Nat)
            /\ Len(Append(ring, captured + 1)) = Len(ring) + 1
        BY <3>1, AppendProperties
      <4>. QED
        BY <2>1, <2>a, <3>3, <4>1
        DEF EnqueueOrDrop, Enqueue, loopVars, doneVars, netVars
    <3>. QED
      BY <3>2, <3>3
  <2>2. CASE Idle /\ UNCHANGED stored
    <3>1. heartbeat_due' \in BOOLEAN /\ batch_post_since_tick' \in BOOLEAN
      BY <2>2, Zenon DEF Idle
    <3>2. ticks' \in Nat
      BY <2>2 DEF Idle, Tick
    <3>. QED
      BY <2>2, <3>1, <3>2 DEF Idle, ringVars, doneVars, netVars
  <2>3. CASE FormPost /\ UNCHANGED stored
    <3>1. requests' \subseteq Request /\ nonces' \in Nat
      BY <2>3, <2>c, SendLemma DEF FormPost
    <3>2. heartbeat_due' \in BOOLEAN /\ batch_post_since_tick' \in BOOLEAN
      BY <2>3, Zenon DEF FormPost
    <3>3. ticks' \in Nat
      BY <2>3 DEF FormPost, Tick
    <3>. QED
      BY <2>3, <2>c, <3>1, <3>2, <3>3 DEF FormPost, Send, doneVars
  <2>4. CASE Resend /\ UNCHANGED stored
    <3>1. requests' \subseteq Request /\ nonces' \in Nat
      BY <2>4, SendLemma DEF Resend
    <3>2. /\ pending' \in Post /\ pending'.events = pending.events
          /\ pending'.rejections = pending.rejections
          /\ pending'.transient_failures = pending.transient_failures
      <4>1. pending' = [pending EXCEPT !.attempts = pending.attempts + 1]
        BY <2>4 DEF Resend
      <4>2. pending.attempts + 1 \in Nat
        BY DEF Post
      <4>. QED
        BY <4>1, <4>2, PostUpdateLemma
    <3>3. heartbeat_due' \in BOOLEAN /\ batch_post_since_tick' \in BOOLEAN
      BY <2>4, Zenon DEF Resend, DueAfter
    <3>4. ticks' \in Nat
      BY <2>4 DEF Resend, Tick
    <3>. QED
      BY <2>4, <3>1, <3>2, <3>3, <3>4 DEF Resend, Send, ringVars, doneVars
  <2>5. CASE Delivered /\ UNCHANGED stored
    <3>1. delivered \o pending.events \in Seq(Nat)
      BY <2>a, ConcatProperties
    <3>. QED
      BY <2>5, <2>b, <3>1 DEF Delivered, ringVars
  <2>6. ASSUME TransientFailure, UNCHANGED stored, requests' \subseteq Request,
               faults' \in Nat
        PROVE  TypeOK'
    <3>1. pending' \in Post /\ Len(pending'.events) <= MaxBatch
          /\ pending'.transient_failures <= MaxRetries
          /\ pending'.rejections < MaxRetries
      <4>. DEFINE failures == IF pending.transient_failures < MaxRetries
                              THEN pending.transient_failures + 1
                              ELSE MaxRetries
      <4>1. failures \in Nat /\ failures <= MaxRetries
        BY DEF Post
      <4>2. \/ pending' = NoPost
            \/ pending' = [pending EXCEPT !.transient_failures = failures]
        BY <2>6 DEF TransientFailure
      <4>. HIDE DEF failures
      <4>3. CASE pending' = NoPost
        BY <2>b, <4>3
      <4>4. CASE pending' = [pending EXCEPT !.transient_failures = failures]
        <5>1. /\ pending' \in Post /\ pending'.events = pending.events
              /\ pending'.rejections = pending.rejections
              /\ pending'.transient_failures = failures
          BY <4>1, <4>4, PostUpdateLemma
        <5>. QED
          BY <4>1, <5>1
      <4>. QED
        BY <4>2, <4>3, <4>4
    <3>. QED
      BY <2>6, <3>1 DEF TransientFailure, ringVars, doneVars
  <2>7. CASE ServerUnavailable /\ UNCHANGED stored
    BY <2>6, <2>7 DEF ServerUnavailable
  <2>8. CASE TimedOut /\ UNCHANGED stored
    BY <2>6, <2>8 DEF TimedOut, Unanswered
  <2>9. CASE Rejected /\ UNCHANGED stored
    <3>1. Range(pending.events) \subseteq Nat
      BY <2>a, RangeOfSeq
    <3>2. CASE pending.rejections + 1 >= MaxRetries
      <4>1. /\ pending' = NoPost /\ pc' = "loop"
            /\ dropped_total' = dropped_total + Len(pending.events)
            /\ discarded' = discarded \cup Range(pending.events)
        BY <2>9, <3>2 DEF Rejected, AddDropped
      <4>2. /\ pending' \in Post /\ Len(pending'.events) <= MaxBatch
            /\ pending'.transient_failures <= MaxRetries
            /\ pending'.rejections < MaxRetries
        BY <2>b, <4>1
      <4>3. dropped_total' \in Nat
        BY <2>a, <4>1
      <4>4. discarded' \subseteq Nat
        BY <3>1, <4>1, Zenon
      <4>. QED
        BY <2>9, <4>1, <4>2, <4>3, <4>4 DEF Rejected, doneVars
    <3>3. CASE ~(pending.rejections + 1 >= MaxRetries)
      <4>1. pending' \in Post /\ pending'.events = pending.events
            /\ pending'.rejections = pending.rejections + 1
            /\ pending'.transient_failures = pending.transient_failures
        <5>1. pending' = [pending EXCEPT !.rejections = pending.rejections + 1]
          BY <2>9, <3>3 DEF Rejected
        <5>2. pending \in Post /\ pending.rejections + 1 \in Nat
          BY DEF Post
        <5>. DEFINE m == pending.rejections + 1
                    q == [pending EXCEPT !.rejections = m]
        <5>3. m \in Nat
          BY <5>2
        <5>. HIDE DEF m
        <5>4. /\ q \in Post /\ q.events = pending.events /\ q.rejections = m
              /\ q.transient_failures = pending.transient_failures
          BY <5>2, <5>3, PostUpdateLemma
        <5>. QED
          BY <5>1, <5>4 DEF m
      <4>2. pending'.rejections < MaxRetries
        BY <3>3, <4>1 DEF Post
      <4>. QED
        BY <2>9, <3>3, <4>1, <4>2 DEF Rejected, doneVars
    <3>. QED
      BY <3>2, <3>3
  <2>10. CASE Fatal /\ UNCHANGED stored
    BY <2>10 DEF Fatal, Unanswered, loopVars, doneVars, ringVars
  <2>11. CASE Shutdown /\ UNCHANGED stored
    BY <2>11 DEF Shutdown, loopVars, doneVars, netVars, ringVars
  <2>12. CASE TeardownExpired /\ UNCHANGED stored
    BY <2>12, <2>a DEF TeardownExpired, loopVars, netVars, ringVars
  <2>13. CASE Finish /\ UNCHANGED stored
    <3>1. requests' \subseteq Request /\ nonces' \in Nat
      BY <2>13, <2>c, SendLemma DEF Finish
    <3>. QED
      BY <2>13, <2>c, <3>1 DEF Finish, Send, doneVars
  <2>14. CASE FinalDelivered /\ UNCHANGED stored
    <3>1. delivered \o pending.events \in Seq(Nat)
      BY <2>a, ConcatProperties
    <3>. QED
      BY <2>14, <2>a, <2>b, <3>1 DEF FinalDelivered, ringVars
  <2>15. CASE FinalFailed /\ UNCHANGED stored
    BY <2>15, <2>a DEF FinalFailed, loopVars, ringVars
  <2>16. CASE ServerStep
    <3>1. ASSUME NEW r \in requests, Server!Handle(r) \/ Server!Fail(r)
          PROVE  /\ requests' \subseteq Request
                 /\ stored' \subseteq Nat /\ faults' \in Nat
      <4>0. r \in Request /\ Range(r.events) \subseteq Nat
        BY RangeOfSeq DEF Request
      <4>. USE DEF Stage
      <4>1. CASE Server!Validate(r)
        BY <4>1, MoveLemma DEF Server!Validate
      <4>2. CASE Server!InsertHeartbeat(r)
        BY <4>2, MoveLemma DEF Server!InsertHeartbeat
      <4>3. CASE Server!InsertEvents(r)
        BY <4>0, <4>3, MoveLemma, RangeLemma DEF Server!InsertEvents
      <4>4. CASE Server!Unavailable(r)
        BY <4>4, MoveLemma DEF Server!Unavailable, Server!Fault
      <4>5. CASE Server!InsertEventsFails(r)
        <5>1. requests' \subseteq Request
          BY <4>5, MoveLemma DEF Server!InsertEventsFails
        <5>2. stored' \subseteq Nat
          <6>1. PICK S \in SUBSET Server!Range(r.events) :
                  stored' = stored \cup S
            BY <4>5 DEF Server!InsertEventsFails
          <6>. QED
            BY <4>0, <6>1, RangeLemma
        <5>3. faults' \in Nat
          BY <4>5 DEF Server!InsertEventsFails, Server!Fault
        <5>. QED
          BY <5>1, <5>2, <5>3
      <4>6. CASE Server!Lose(r)
        BY <4>6 DEF Server!Lose, Server!Fault
      <4>. QED
        BY <3>1, <4>1, <4>2, <4>3, <4>4, <4>5, <4>6
        DEF Server!Handle, Server!Fail
    <3>2. ASSUME Server!Crash
          PROVE  /\ requests' \subseteq Request
                 /\ stored' \subseteq Nat /\ faults' \in Nat
      BY <3>2 DEF Server!Crash, Server!Fault
    <3>3. /\ requests' \subseteq Request
          /\ stored' \subseteq Nat /\ faults' \in Nat
      BY <2>16, <3>1, <3>2 DEF ServerStep, Server!ServerNext
    <3>. QED
      BY <2>16, <3>3 DEF ServerStep, agentVars, ringVars, loopVars, doneVars
  <2>17. CASE Unread
    BY <2>17 DEF Unread, agentVars, ringVars, loopVars, doneVars
  <2>18. CASE UNCHANGED vars
    BY <2>18 DEF vars, ringVars, loopVars, doneVars, netVars
  <2>. QED
    BY <2>1, <2>2, <2>3, <2>4, <2>5, <2>7, <2>8, <2>9, <2>10, <2>11, <2>12,
       <2>13, <2>14, <2>15, <2>16, <2>17, <2>18
    DEF Next, AgentStep, DeliveryNext, Terminated
<1>. QED
  BY <1>1, <1>2, PTL DEF Spec

(***************************************************************************)
(* The sums the accounting steps need.                                     *)
(***************************************************************************)
LEMMA SumLemma ==
    ASSUME NEW c \in Nat, NEW x \in Nat, NEW d \in Nat, NEW p \in Nat,
           NEW r \in Nat, NEW q \in Nat, NEW t \in Nat, c = d + p + r + x
    PROVE  /\ c + 1 = d + p + r + (x + 1)
           /\ c + 1 = d + p + (r + 1) + x
           /\ c = (d + p) + 0 + r + x
           /\ c = d + 0 + r + (x + p)
           /\ p = 0 /\ q + t = r => c = d + q + t + x
  OBVIOUS

(***************************************************************************)
(* Every action of the agent, and no step of the server or the network,    *)
(* moves events; and each moves them without losing one.  PostInv is what  *)
(* makes forming a batch safe: there is no batch to overwrite.             *)
(***************************************************************************)
LEMMA AccountStep ==
    TypeOK /\ PostInv /\ NoEventUnaccounted /\ [Next]_vars
        => PostInv' /\ NoEventUnaccounted'
<1>. SUFFICES ASSUME TypeOK, PostInv, NoEventUnaccounted, [Next]_vars
              PROVE  PostInv' /\ NoEventUnaccounted'
  OBVIOUS
<1>. USE ConstantsLemma DEF PostInv, InFlight
<1>a. /\ ring \in Seq(Nat) /\ pending.events \in Seq(Nat)
      /\ delivered \in Seq(Nat)
      /\ captured \in Nat /\ dropped_total \in Nat /\ sequence \in Nat
      /\ pending \in Post /\ pending.sequence \in Nat
  BY LenProperties DEF TypeOK, Post
<1>b. NoPost.sequence = 0 /\ NoPost.events = <<>> /\ Len(NoPost.events) = 0
  BY DEF NoPost
<1>c. /\ FormBatch.sequence = sequence + 1
      /\ FormBatch.events = Drained(MaxBatch)
      /\ Drained(MaxBatch) \in Seq(Nat) /\ AfterDrain(MaxBatch) \in Seq(Nat)
      /\ Len(Drained(MaxBatch)) + Len(AfterDrain(MaxBatch)) = Len(ring)
  BY <1>a, FormBatchLemma, DrainLemma
<1>d. Len(delivered \o pending.events) = Len(delivered) + Len(pending.events)
  BY <1>a, ConcatProperties
<1>e. Len(<<>>) = 0
  BY EmptySeq
<1>g. ASSUME pending' = NoPost
      PROVE  PostInv' /\ Len(pending'.events) = 0
  BY <1>b, <1>g
<1>h. captured = Len(delivered) + Len(pending.events) + Len(ring) + dropped_total
  BY DEF NoEventUnaccounted
<1>i. LET c == captured  d == Len(delivered)  p == Len(pending.events)
          r == Len(ring)  x == dropped_total
          q == Len(Drained(MaxBatch))  t == Len(AfterDrain(MaxBatch))
      IN  /\ c + 1 = d + p + r + (x + 1)
          /\ c + 1 = d + p + (r + 1) + x
          /\ c = (d + p) + 0 + r + x
          /\ c = d + 0 + r + (x + p)
          /\ pending.events = <<>> => c = d + q + t + x
  <2>. DEFINE d == Len(delivered)  p == Len(pending.events)  r == Len(ring)
              q == Len(Drained(MaxBatch))  t == Len(AfterDrain(MaxBatch))
  <2>1. d \in Nat /\ p \in Nat /\ r \in Nat /\ q \in Nat /\ t \in Nat
    BY <1>a, <1>c, LenProperties
  <2>2. captured = d + p + r + dropped_total /\ q + t = r
    BY <1>c, <1>h, Zenon
  <2>3. pending.events = <<>> => p = 0
    BY <1>e
  <2>. HIDE DEF d, p, r, q, t
  <2>4. /\ captured + 1 = d + p + r + (dropped_total + 1)
        /\ captured + 1 = d + p + (r + 1) + dropped_total
        /\ captured = (d + p) + 0 + r + dropped_total
        /\ captured = d + 0 + r + (dropped_total + p)
        /\ p = 0 => captured = d + q + t + dropped_total
    BY <1>a, <2>1, <2>2, SumLemma
  <2>. QED
    BY <2>3, <2>4, Zenon DEF d, p, r, q, t
<1>1. CASE EnqueueOrDrop
  <2>1. UNCHANGED <<pc, pending, delivered>>
    BY <1>1 DEF EnqueueOrDrop, loopVars, doneVars
  <2>2. CASE Len(ring) >= Capacity
    <3>1. ring # <<>>
      BY <2>2, <1>e
    <3>2. Tail(ring) \in Seq(Nat) /\ Len(Tail(ring)) = Len(ring) - 1
      BY <1>a, <3>1, HeadTailProperties
    <3>3. Len(Append(Tail(ring), captured + 1)) = Len(ring) - 1 + 1
      BY <1>a, <3>2, AppendProperties
    <3>4. /\ Len(ring') = Len(ring)
          /\ dropped_total' = dropped_total + 1 /\ captured' = captured + 1
      BY <1>1, <1>a, <2>2, <3>3 DEF EnqueueOrDrop, Enqueue
    <3>5. NoEventUnaccounted'
      <4>1. captured + 1 = Len(delivered) + Len(pending.events) + Len(ring)
                             + (dropped_total + 1)
        BY <1>i, Zenon
      <4>. QED
        BY <2>1, <3>4, <4>1, Zenon DEF NoEventUnaccounted
    <3>. QED
      BY <2>1, <3>5
  <2>3. CASE ~(Len(ring) >= Capacity)
    <3>1. Len(Append(ring, captured + 1)) = Len(ring) + 1
      BY <1>a, AppendProperties
    <3>2. /\ Len(ring') = Len(ring) + 1
          /\ dropped_total' = dropped_total /\ captured' = captured + 1
      BY <1>1, <2>3, <3>1 DEF EnqueueOrDrop, Enqueue
    <3>3. NoEventUnaccounted'
      <4>1. captured + 1 = Len(delivered) + Len(pending.events)
                             + (Len(ring) + 1) + dropped_total
        BY <1>i, Zenon
      <4>. QED
        BY <2>1, <3>2, <4>1, Zenon DEF NoEventUnaccounted
    <3>. QED
      BY <2>1, <3>3
  <2>. QED
    BY <2>2, <2>3
<1>2. CASE FormPost
  <2>1. /\ pending' = FormBatch /\ ring' = AfterDrain(MaxBatch)
        /\ pc' = "attempt" /\ pc = "loop"
        /\ UNCHANGED <<dropped_total, captured, delivered>>
    BY <1>2 DEF FormPost, doneVars
  <2>2. pending.events = <<>>
    BY <2>1
  <2>3. captured = Len(delivered) + Len(FormBatch.events)
                     + Len(AfterDrain(MaxBatch)) + dropped_total
    BY <1>c, <1>i, <2>2, Zenon
  <2>4. NoEventUnaccounted'
    BY <2>1, <2>3, Zenon DEF NoEventUnaccounted
  <2>5. PostInv'
    BY <1>a, <1>c, <2>1
  <2>. QED
    BY <2>4, <2>5
<1>3. CASE Finish
  <2>1. CASE InFlight
    BY <1>3, <2>1, <1>a DEF Finish, doneVars, NoEventUnaccounted
  <2>2. CASE ~InFlight
    <3>1. /\ pending' = FormBatch /\ ring' = AfterDrain(MaxBatch)
          /\ pc' = "final"
          /\ UNCHANGED <<dropped_total, captured, delivered>>
      BY <1>3, <2>2 DEF Finish, doneVars
    <3>2. pending.events = <<>>
      BY <2>2
    <3>3. captured = Len(delivered) + Len(FormBatch.events)
                       + Len(AfterDrain(MaxBatch)) + dropped_total
      BY <1>c, <1>i, <3>2, Zenon
    <3>4. NoEventUnaccounted'
      BY <3>1, <3>3, Zenon DEF NoEventUnaccounted
    <3>5. PostInv'
      BY <1>a, <1>c, <3>1
    <3>. QED
      BY <3>4, <3>5
  <2>. QED
    BY <2>1, <2>2
<1>4. CASE Resend
  <2>1. /\ pending' = [pending EXCEPT !.attempts = pending.attempts + 1]
        /\ pc' = "attempt"
        /\ UNCHANGED <<ring, dropped_total, captured, delivered>>
    BY <1>4 DEF Resend, ringVars, doneVars
  <2>2. pending'.events = pending.events /\ pending'.sequence = pending.sequence
    BY <1>a, <2>1, PostUpdateLemma DEF Post
  <2>. QED
    BY <1>a, <2>1, <2>2 DEF NoEventUnaccounted
<1>5. CASE Delivered \/ FinalDelivered
  <2>1. /\ pending' = NoPost /\ delivered' = delivered \o pending.events
        /\ UNCHANGED <<ring, dropped_total, captured>>
    BY <1>5 DEF Delivered, FinalDelivered, ringVars
  <2>2. Len(delivered') = Len(delivered) + Len(pending.events)
    BY <1>d, <2>1
  <2>3. captured = (Len(delivered) + Len(pending.events)) + 0 + Len(ring)
                     + dropped_total
    BY <1>i, Zenon
  <2>4. NoEventUnaccounted'
    BY <1>g, <2>1, <2>2, <2>3, Zenon DEF NoEventUnaccounted
  <2>. QED
    BY <1>g, <2>1, <2>4
<1>6. CASE ServerUnavailable \/ TimedOut
  <2>. DEFINE failures == IF pending.transient_failures < MaxRetries
                          THEN pending.transient_failures + 1 ELSE MaxRetries
  <2>1. /\ TransientFailure
        /\ UNCHANGED <<ring, dropped_total, captured, delivered>>
    BY <1>6 DEF ServerUnavailable, TimedOut, TransientFailure, ringVars, doneVars
  <2>2. failures \in Nat
    BY DEF TypeOK, Post
  <2>3. CASE pending.events = <<>> /\ failures >= MaxRetries
    <3>1. pending' = NoPost
      BY <2>1, <2>3 DEF TransientFailure
    <3>. QED
      BY <1>a, <1>b, <1>e, <2>1, <2>3, <3>1 DEF NoEventUnaccounted
  <2>4. CASE ~(pending.events = <<>> /\ failures >= MaxRetries)
    <3>1. /\ pending' = [pending EXCEPT !.transient_failures = failures]
          /\ pc' = "backoff"
      BY <2>1, <2>4 DEF TransientFailure
    <3>2. pending'.events = pending.events /\ pending'.sequence = pending.sequence
      <4>. HIDE DEF failures
      <4>. QED
        BY <1>a, <2>2, <3>1, PostUpdateLemma
    <3>. QED
      BY <1>a, <2>1, <3>1, <3>2 DEF NoEventUnaccounted
  <2>. QED
    BY <2>3, <2>4
<1>7. CASE Rejected
  <2>0. UNCHANGED <<ring, captured, delivered>>
    BY <1>7 DEF Rejected, doneVars
  <2>1. CASE pending.rejections + 1 >= MaxRetries
    <3>1. /\ dropped_total' = dropped_total + Len(pending.events)
          /\ pending' = NoPost
      BY <1>7, <2>1 DEF Rejected, AddDropped
    <3>2. captured = Len(delivered) + 0 + Len(ring)
                       + (dropped_total + Len(pending.events))
      BY <1>i, Zenon
    <3>3. NoEventUnaccounted'
      BY <1>g, <2>0, <3>1, <3>2, Zenon DEF NoEventUnaccounted
    <3>. QED
      BY <1>g, <3>1, <3>3
  <2>2. CASE ~(pending.rejections + 1 >= MaxRetries)
    <3>1. /\ dropped_total' = dropped_total /\ pc' = "backoff"
          /\ pending' = [pending EXCEPT !.rejections = pending.rejections + 1]
      BY <1>7, <2>2 DEF Rejected
    <3>2. pending.rejections + 1 \in Nat
      BY DEF TypeOK, Post
    <3>3. pending'.events = pending.events /\ pending'.sequence = pending.sequence
      BY <1>a, <3>1, <3>2, PostUpdateLemma
    <3>. QED
      BY <1>a, <2>0, <3>1, <3>3 DEF NoEventUnaccounted
  <2>. QED
    BY <2>1, <2>2
<1>8. CASE Idle \/ Fatal \/ Shutdown \/ TeardownExpired \/ FinalFailed
  <2>1. /\ UNCHANGED <<pending, ring, dropped_total, captured, delivered>>
        /\ pc' = pc \/ pc' # "loop"
    BY <1>8 DEF Idle, Fatal, Shutdown, TeardownExpired, FinalFailed, ringVars,
                doneVars, loopVars
  <2>. QED
    BY <2>1 DEF NoEventUnaccounted
<1>9. CASE ServerStep \/ Unread \/ UNCHANGED vars
  <2>1. UNCHANGED <<pc, pending, ring, dropped_total, captured, delivered>>
    BY <1>9 DEF ServerStep, Unread, agentVars, vars, ringVars, doneVars, loopVars
  <2>. QED
    BY <2>1 DEF NoEventUnaccounted
<1>. QED
  BY <1>1, <1>2, <1>3, <1>4, <1>5, <1>6, <1>7, <1>8, <1>9
  DEF Next, AgentStep, DeliveryNext, Terminated

(***************************************************************************)
(* No event goes missing: captured is delivered, in flight, buffered or in *)
(* the dropped total (ring.rs, delivery.rs).                               *)
(***************************************************************************)
THEOREM EventsAccounted == Spec => []NoEventUnaccounted
<1>1. Init => PostInv /\ NoEventUnaccounted
  <2>1. Len(<<>>) = 0
    BY EmptySeq
  <2>2. NoPost.sequence = 0 /\ NoPost.events = <<>>
    BY DEF NoPost
  <2>. QED
    BY <2>1, <2>2 DEF Init, RingInit, DeliveryInit, PostInv, NoEventUnaccounted,
                      InFlight
<1>. QED
  BY <1>1, AccountStep, TypeCorrect, PTL DEF Spec

(***************************************************************************)
(* A new attempt is the only one with the last nonce, and carries its      *)
(* POST's events.                                                          *)
(***************************************************************************)
LEMMA SendKeepsWire ==
    ASSUME TypeOK, WireInv, NEW batch \in Post, Send(batch),
           UNCHANGED stored, pending'.events = batch.events
    PROVE  WireInv'
<1>. DEFINE new == [nonce |-> nonces + 1, sequence |-> batch.sequence,
                    events |-> batch.events, stage |-> "sent"]
<1>1. requests' = requests \cup {new} /\ nonces' = nonces + 1
  BY DEF Send
<1>2. nonces \in Nat /\ \A r \in requests : r.nonce \in Nat /\ r.nonce <= nonces
  BY DEF TypeOK, WireInv, Request
<1>3. \A r \in requests' : r.nonce <= nonces'
  BY <1>1, <1>2
<1>4. \A r \in requests' : r.nonce = nonces' => r = new
  BY <1>1, <1>2
<1>5. new.events = pending'.events /\ new.stage = "sent"
  OBVIOUS
<1>6. \A r \in requests' : r.stage = "ok" => Range(r.events) \subseteq stored'
  BY <1>1, <1>5 DEF WireInv
<1>. HIDE DEF new
<1>. QED
  BY <1>3, <1>4, <1>5, <1>6 DEF WireInv, Current

(***************************************************************************)
(* A handler's step keeps a request's identity and content, and answers    *)
(* 200 only when its events are stored.                                    *)
(***************************************************************************)
LEMMA MoveKeepsWire ==
    ASSUME TypeOK, WireInv, NEW r \in requests, NEW stage \in Stage,
           Server!Move(r, stage), stored \subseteq stored',
           stage = "ok" => Range(r.events) \subseteq stored',
           UNCHANGED <<pc, pending, nonces>>
    PROVE  WireInv'
<1>. DEFINE m == [r EXCEPT !.stage = stage]
<1>1. m.nonce = r.nonce /\ m.events = r.events /\ m.stage = stage
  BY DEF TypeOK, Request
<1>2. \A q \in requests' : q \in requests \/ q = m
  BY DEF Server!Move
<1>. HIDE DEF m
<1>. QED
  BY <1>1, <1>2 DEF WireInv, Current

(***************************************************************************)
(* Requests that are answered, lost or dropped by a crash only make the    *)
(* set smaller, which keeps WireInv as long as no attempt is started.      *)
(***************************************************************************)
LEMMA FewerRequestsKeepWire ==
    ASSUME WireInv, requests' \subseteq requests, nonces' = nonces,
           stored \subseteq stored',
           pc' \in {"attempt", "final"} => pc' = pc /\ pending' = pending
    PROVE  WireInv'
  BY DEF WireInv, Current

(***************************************************************************)
(* Every step keeps WireInv and AcknowledgedIsStored: an answer is taken   *)
(* for the POST in flight only when its nonce is the last one drawn, and   *)
(* the handler moves a request to "ok" only with its events stored         *)
(* (delivery.rs run_until and finish, heartbeat.ts).                       *)
(***************************************************************************)
LEMMA WireStep ==
    TypeOK /\ WireInv /\ AcknowledgedIsStored /\ [Next]_vars
        => WireInv' /\ AcknowledgedIsStored'
<1>. SUFFICES ASSUME TypeOK, WireInv, AcknowledgedIsStored, [Next]_vars
              PROVE  WireInv' /\ AcknowledgedIsStored'
  OBVIOUS
<1>. USE DEF AcknowledgedIsStored
<1>a. ring \in Seq(Nat) /\ sequence \in Nat /\ pending \in Post
  BY DEF TypeOK
<1>1. CASE AgentStep /\ (FormPost \/ Resend \/ Finish)
  <2>0. UNCHANGED <<delivered, stored>>
    BY <1>1 DEF AgentStep, FormPost, Resend, Finish, doneVars
  <2>1. CASE FormPost
    <3>1. FormBatch \in Post
      BY <1>a, FormBatchLemma
    <3>2. Send(FormBatch) /\ pending' = FormBatch
      BY <2>1 DEF FormPost
    <3>. QED
      BY <2>0, <3>1, <3>2, SendKeepsWire
  <2>2. CASE Resend
    <3>1. /\ Send(pending)
          /\ pending' = [pending EXCEPT !.attempts = pending.attempts + 1]
      BY <2>2 DEF Resend
    <3>2. pending'.events = pending.events
      BY <1>a, <3>1 DEF Post
    <3>. QED
      BY <1>a, <2>0, <3>1, <3>2, SendKeepsWire
  <2>3. CASE Finish
    <3>1. FormBatch \in Post
      BY <1>a, FormBatchLemma
    <3>2. PICK batch \in {pending, FormBatch} : Send(batch) /\ pending' = batch
      BY <2>3 DEF Finish
    <3>. QED
      BY <1>a, <2>0, <3>1, <3>2, SendKeepsWire
  <2>. QED
    BY <1>1, <2>1, <2>2, <2>3
<1>2. CASE AgentStep /\ (Delivered \/ FinalDelivered)
  <2>1. /\ delivered' = delivered \o pending.events
        /\ requests' \subseteq requests /\ nonces' = nonces /\ stored' = stored
        /\ pc' \notin {"attempt", "final"}
    BY <1>2 DEF AgentStep, Delivered, FinalDelivered
  <2>2. PICK r \in Current : r.stage = "ok"
    BY <1>2 DEF Delivered, FinalDelivered, Answered
  <2>3. pc \in {"attempt", "final"} /\ r \in requests
    BY <1>2 DEF Delivered, FinalDelivered, Current
  <2>4. Range(pending.events) \subseteq stored
    BY <2>2, <2>3 DEF WireInv
  <2>5. Range(delivered \o pending.events)
          = Range(delivered) \cup Range(pending.events)
    <3>1. delivered \in Seq(Nat) /\ pending.events \in Seq(Nat)
      BY DEF TypeOK, Post
    <3>. QED
      BY <3>1, RangeConcatenation
  <2>6. WireInv'
    BY <2>1, FewerRequestsKeepWire
  <2>. QED
    BY <2>1, <2>4, <2>5, <2>6
<1>3. CASE AgentStep /\ (EnqueueOrDrop \/ Idle \/ Fatal \/ Shutdown
                         \/ TeardownExpired \/ FinalFailed
                         \/ ServerUnavailable \/ TimedOut \/ Rejected)
  <2>1. /\ UNCHANGED <<delivered, stored, nonces>>
        /\ requests' \subseteq requests
    BY <1>3 DEF AgentStep, EnqueueOrDrop, Idle, Fatal, Shutdown,
                TeardownExpired, FinalFailed, ServerUnavailable, TimedOut,
                Rejected, TransientFailure, Unanswered, doneVars, netVars
  <2>2. pc' \in {"attempt", "final"} => pc' = pc /\ pending' = pending
    BY <1>3 DEF AgentStep, EnqueueOrDrop, Idle, Fatal, Shutdown,
                TeardownExpired, FinalFailed, ServerUnavailable, TimedOut,
                Rejected, TransientFailure, loopVars
  <2>. QED
    BY <2>1, <2>2, FewerRequestsKeepWire
<1>4. CASE ServerStep
  <2>0. UNCHANGED <<pc, pending, nonces, delivered>>
    BY <1>4 DEF ServerStep, agentVars, loopVars, doneVars
  <2>1. ASSUME NEW r \in requests, Server!Handle(r) \/ Server!Fail(r)
        PROVE  WireInv' /\ stored \subseteq stored'
    <3>. USE DEF Stage
    <3>1. CASE Server!Validate(r)
      BY <2>0, <3>1, MoveKeepsWire DEF Server!Validate
    <3>2. CASE Server!InsertHeartbeat(r)
      BY <2>0, <3>2, MoveKeepsWire DEF Server!InsertHeartbeat
    <3>3. CASE Server!InsertEvents(r)
      <4>1. stored' = stored \cup Range(r.events) /\ Server!Move(r, "ok")
        BY <3>3, RangeLemma DEF Server!InsertEvents
      <4>. QED
        BY <2>0, <4>1, MoveKeepsWire
    <3>4. CASE Server!Unavailable(r)
      BY <2>0, <3>4, MoveKeepsWire DEF Server!Unavailable
    <3>5. CASE Server!InsertEventsFails(r)
      <4>1. stored \subseteq stored' /\ Server!Move(r, "unavailable")
        BY <3>5 DEF Server!InsertEventsFails
      <4>. QED
        BY <2>0, <4>1, MoveKeepsWire
    <3>6. CASE Server!Lose(r)
      BY <2>0, <3>6, FewerRequestsKeepWire DEF Server!Lose
    <3>. QED
      BY <2>1, <3>1, <3>2, <3>3, <3>4, <3>5, <3>6
      DEF Server!Handle, Server!Fail
  <2>2. ASSUME Server!Crash
        PROVE  WireInv' /\ stored \subseteq stored'
    BY <2>0, <2>2, FewerRequestsKeepWire DEF Server!Crash
  <2>3. WireInv' /\ stored \subseteq stored'
    BY <1>4, <2>1, <2>2 DEF ServerStep, Server!ServerNext
  <2>. QED
    BY <2>0, <2>3
<1>5. CASE Unread \/ UNCHANGED vars
  <2>1. /\ UNCHANGED <<pc, pending, nonces, delivered, stored>>
        /\ requests' \subseteq requests
    BY <1>5 DEF Unread, vars, agentVars, loopVars, doneVars, netVars
  <2>. QED
    BY <2>1, FewerRequestsKeepWire
<1>. QED
  BY <1>1, <1>2, <1>3, <1>4, <1>5
  DEF Next, AgentStep, DeliveryNext, Terminated

(***************************************************************************)
(* At-least-once delivery: an event the agent has let go of as delivered   *)
(* is in ClickHouse (delivery.rs run_until and finish, heartbeat.ts).      *)
(***************************************************************************)
THEOREM AtLeastOnceDelivery == Spec => []AcknowledgedIsStored
<1>1. Init => WireInv /\ AcknowledgedIsStored
  <2>. SUFFICES ASSUME Init PROVE WireInv /\ AcknowledgedIsStored
    OBVIOUS
  <2>1. Range(<<>>) = {}
    BY DEF Range
  <2>. QED
    BY <2>1 DEF Init, DeliveryInit, Server!ServerInit, WireInv, Current,
                AcknowledgedIsStored
<1>. QED
  BY <1>1, WireStep, TypeCorrect, PTL DEF Spec
=============================================================================
