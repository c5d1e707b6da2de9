---------------------------- MODULE Outbox_proofs ----------------------------
(***************************************************************************)
(* Proofs about Outbox, for any number of deliveries and publishers: its   *)
(* inductive invariant, that the broker gets a second task for a delivery  *)
(* only with a reason, that a stale publisher marks nothing, and that the  *)
(* outbox implements Handoff.                                              *)
(***************************************************************************)
EXTENDS Outbox, FiniteSetTheorems, TLAPS

-----------------------------------------------------------------------------
(* Sets of publishers *)

\* How the number of publishers in a set changes.
LEMMA PublisherSets ==
  ASSUME NEW S \in SUBSET Publishers, NEW T \in SUBSET Publishers, NEW p \in Publishers
  PROVE  /\ Cardinality(S) \in Nat
         /\ S \subseteq T => Cardinality(S) <= Cardinality(T)
         /\ T = S \union {p} => Cardinality(T) <= Cardinality(S) + 1
         /\ p \in S /\ T = S \ {p} => Cardinality(T) + 1 = Cardinality(S)
<1>1. IsFiniteSet(S) /\ IsFiniteSet(T)
  BY FS_Subset, OutboxAssumption DEF OutboxAssumption
<1>2. Cardinality(S) \in Nat /\ Cardinality(T) \in Nat
  BY <1>1, FS_CardinalityType
<1>3. S \subseteq T => Cardinality(S) <= Cardinality(T)
  BY <1>1, FS_Subset
<1>4. T = S \union {p} => Cardinality(T) <= Cardinality(S) + 1
  BY <1>1, <1>2, FS_AddElement
<1>5. p \in S /\ T = S \ {p} => Cardinality(T) + 1 = Cardinality(S)
  BY <1>1, <1>2, FS_RemoveElement
<1> QED
  BY <1>2, <1>3, <1>4, <1>5

\* Nothing else than a lease adds a publisher to those that may still send d.
LEMMA UnsentShrinks ==
  ASSUME NEW d \in Deliveries, Unsent(d)' \subseteq Unsent(d)
  PROVE  /\ Cardinality(Unsent(d)) \in Nat /\ Cardinality(Unsent(d)') \in Nat
         /\ Cardinality(Unsent(d)') <= Cardinality(Unsent(d))
<1>1. Unsent(d) \in SUBSET Publishers /\ Unsent(d)' \in SUBSET Publishers
  BY DEF Unsent
<1>2. CASE Publishers = {}
  <2>1. Unsent(d) = {} /\ Unsent(d)' = {}
    BY <1>1, <1>2
  <2> QED
    BY <2>1, FS_EmptySet
<1>3. CASE Publishers # {}
  <2>1. PICK p : p \in Publishers
    BY <1>3
  <2> QED
    BY <1>1, <2>1, PublisherSets
<1> QED
  BY <1>2, <1>3

-----------------------------------------------------------------------------
(* The invariant *)

\* Initially nothing was written, leased or sent.
LEMMA InitInv == Init => OutboxInv
<1> SUFFICES ASSUME Init PROVE OutboxInv
  OBVIOUS
<1> USE DEF Init
<1>1. TypeOK
  BY OutboxAssumption DEF TypeOK, RowType, WorkType, States, Idle, OutboxAssumption
<1>2. LeaseInv /\ WorkInv
  BY DEF LeaseInv, WorkInv, Idle
<1>3. CountInv
  <2> SUFFICES ASSUME NEW d \in Deliveries PROVE Counted(d)
    BY DEF CountInv
  <2>1. Unsent(d) = {}
    BY DEF Unsent, Idle
  <2> QED
    BY <2>1, FS_EmptySet DEF Counted, Standing
<1> QED
  BY <1>1, <1>2, <1>3 DEF OutboxInv

\* The writing of the delivery, its recovery and the clock: work is left alone.
LEMMA RowStep ==
  ASSUME OutboxInv, NEW d \in Deliveries,
         Enqueue(d) \/ Supersede(d) \/ BecomesDue(d) \/ LeaseExpires(d)
  PROVE  OutboxInv'
<1> USE DEF OutboxInv
<1>1. TypeOK'
  <2>1. row' \in [Deliveries -> RowType]
    <3> USE DEF TypeOK, RowType, States
    <3>1. CASE Enqueue(d)
      BY <3>1, ZenonT(60) DEF Enqueue
    <3>2. CASE Supersede(d)
      BY <3>2 DEF Supersede
    <3>3. CASE BecomesDue(d)
      BY <3>3 DEF BecomesDue
    <3>4. CASE LeaseExpires(d)
      BY <3>4, ZenonT(60) DEF LeaseExpires
    <3> QED
      BY <3>1, <3>2, <3>3, <3>4
  <2>2. open' \subseteq Deliveries /\ UNCHANGED <<batch, work, swept, copies, takebacks>>
    BY DEF Enqueue, Supersede, BecomesDue, LeaseExpires, TypeOK
  <2>3. faults' \in Nat
    BY DEF Enqueue, Supersede, BecomesDue, LeaseExpires, Fault, TypeOK
  <2> QED
    BY <2>1, <2>2, <2>3 DEF TypeOK
<1>2. UNCHANGED <<work, copies, takebacks>>
  BY DEF Enqueue, Supersede, BecomesDue, LeaseExpires
<1>3. \A e \in Deliveries : e # d => row'[e] = row[e]
  BY DEF Enqueue, Supersede, BecomesDue, LeaseExpires, TypeOK
<1>4. /\ row'[d].gen = row[d].gen /\ row'[d].owner = row[d].owner
      /\ \/ row'[d].state = row[d].state
         \/ row[d].state = "none" /\ row'[d].state = "PENDING"
         \/ row[d].state \in Active /\ row'[d].state = "SUPERSEDED"
  <2> USE DEF TypeOK, RowType
  <2>1. CASE Enqueue(d)
    BY <2>1 DEF Enqueue
  <2>2. CASE Supersede(d)
    BY <2>2 DEF Supersede
  <2>3. CASE BecomesDue(d)
    BY <2>3 DEF BecomesDue
  <2>4. CASE LeaseExpires(d)
    BY <2>4 DEF LeaseExpires
  <2> QED
    BY <2>1, <2>2, <2>3, <2>4
<1>5. LeaseInv'
  BY <1>3, <1>4 DEF LeaseInv, Active, Claimable
<1>6. WorkInv'
  BY <1>2, <1>3, <1>4 DEF WorkInv
<1>7. CountInv'
  <2> SUFFICES ASSUME NEW e \in Deliveries PROVE Counted(e)'
    BY DEF CountInv
  <2>1. Unsent(e)' = Unsent(e)
    BY <1>2 DEF Unsent
  <2>2. row[e].gen \in Nat /\ takebacks[e] \in Nat
    BY DEF TypeOK, RowType
  <2> QED
    BY <1>2, <1>3, <1>4, <2>1, <2>2 DEF CountInv, Counted, Standing, Claimable
<1> QED
  BY <1>1, <1>5, <1>6, <1>7

\* Reading, failing and dying: a publisher may only stop working.
LEMMA StopStep ==
  ASSUME OutboxInv, NEW p \in Publishers,
         \/ ReadPending(p) \/ MarkFails(p) \/ Crash(p) \/ ReadStale(p)
         \/ \E d \in Deliveries : LeaseFails(p, d)
  PROVE  OutboxInv'
<1> USE DEF OutboxInv
<1>1. UNCHANGED <<row, open, copies, takebacks>>
  BY DEF ReadPending, MarkFails, Crash, ReadStale, LeaseFails
<1>2. UNCHANGED work \/ work' = [work EXCEPT ![p] = Idle]
  BY DEF ReadPending, MarkFails, Crash, ReadStale, LeaseFails
<1>3. TypeOK'
  <2>1. work' \in [Publishers -> WorkType]
    <3>1. Idle \in WorkType
      BY DEF Idle, WorkType
    <3> QED
      BY <1>2, <3>1 DEF TypeOK
  <2>2. batch' \in [Publishers -> SUBSET Deliveries] /\ swept' \in [Publishers -> SUBSET Deliveries]
    BY DEF ReadPending, MarkFails, Crash, ReadStale, LeaseFails, TypeOK
  <2>3. faults' \in Nat
    BY DEF ReadPending, MarkFails, Crash, ReadStale, LeaseFails, Fault, TypeOK
  <2> QED
    BY <1>1, <2>1, <2>2, <2>3 DEF TypeOK
<1>4. LeaseInv'
  BY <1>1 DEF LeaseInv
<1>5. WorkInv'
  BY <1>1, <1>2 DEF WorkInv, TypeOK, Idle
<1>6. CountInv'
  <2> SUFFICES ASSUME NEW d \in Deliveries PROVE Counted(d)'
    BY DEF CountInv
  <2>1. Unsent(d)' \subseteq Unsent(d)
    BY <1>2 DEF Unsent, Idle, TypeOK
  <2>2. copies[d] \in Nat /\ row[d].gen \in Nat
    BY DEF TypeOK, RowType
  <2> QED
    BY <1>1, <2>1, <2>2, UnsentShrinks DEF CountInv, Counted, Standing
<1> QED
  BY <1>3, <1>4, <1>5, <1>6

\* A lease adds one publisher that may send, and one generation.
LEMMA LeaseStep ==
  ASSUME OutboxInv, NEW p \in Publishers, NEW d \in Deliveries, Lease(p, d)
  PROVE  OutboxInv'
<1> USE DEF OutboxInv
<1>1. CASE ~Leasable(d)
  <2>1. UNCHANGED <<row, work, open, swept, copies, takebacks, faults>>
    BY <1>1 DEF Lease
  <2>2. TypeOK'
    BY <2>1 DEF TypeOK, Lease
  <2>3. \A e \in Deliveries : Unsent(e)' = Unsent(e)
    BY <2>1 DEF Unsent
  <2> QED
    BY <2>1, <2>2, <2>3 DEF LeaseInv, WorkInv, CountInv, Counted, Standing
<1>2. CASE Leasable(d)
  <2> DEFINE new == [row[d] EXCEPT !.state = "LEASED", !.owner = p,
                                   !.gen = row[d].gen + 1, !.expired = FALSE]
             job == [pc |-> "leased", d |-> d, gen |-> row[d].gen + 1]
  <2>1. /\ row' = [row EXCEPT ![d] = new]
        /\ work' = [work EXCEPT ![p] = job]
        /\ UNCHANGED <<open, swept, copies, takebacks, faults>>
    BY <1>2 DEF Lease, TypeOK, RowType
  <2>2. new \in RowType /\ job \in WorkType
    <3>1. row[d] \in RowType /\ row[d].gen + 1 \in Nat
      BY DEF TypeOK, RowType
    <3> QED
      BY <3>1 DEF RowType, WorkType, States
  <2>3. /\ new.state = "LEASED" /\ new.owner = p /\ new.gen = row[d].gen + 1
        /\ job.pc = "leased" /\ job.d = d
    BY DEF TypeOK, RowType
  <2> HIDE DEF new, job
  <2>4. TypeOK'
    BY <2>1, <2>2 DEF TypeOK, Lease
  <2>5. LeaseInv'
    BY <2>1, <2>3, OutboxAssumption DEF LeaseInv, TypeOK, OutboxAssumption
  <2>6. WorkInv'
    BY <2>1, <2>3 DEF WorkInv, TypeOK, Idle
  <2>7. CountInv'
    <3> SUFFICES ASSUME NEW e \in Deliveries PROVE Counted(e)'
      BY DEF CountInv
    <3>1. copies[e] \in Nat /\ row[e].gen \in Nat /\ takebacks[e] \in Nat
      BY DEF TypeOK, RowType
    <3>2. CASE e = d
      <4>1. work[p] = Idle
        BY DEF Lease
      <4>2. Unsent(e)' = Unsent(e) \union {p}
        BY <2>1, <2>3, <3>2, <4>1 DEF Unsent, TypeOK, Idle
      <4>3. Unsent(e) \in SUBSET Publishers /\ Unsent(e)' \in SUBSET Publishers
        BY DEF Unsent
      <4>4. Cardinality(Unsent(e)') <= Cardinality(Unsent(e)) + 1
        BY <4>2, <4>3, PublisherSets
      <4>5. Cardinality(Unsent(e)) \in Nat /\ Cardinality(Unsent(e)') \in Nat
        BY <4>3, PublisherSets
      <4>6. row'[e].gen = row[e].gen + 1 /\ row'[e].state = "LEASED"
        BY <2>1, <2>3, <3>2 DEF TypeOK
      <4>7. Standing(e) = 0 /\ Standing(e)' = 1
        BY <1>2, <3>2, <4>6 DEF Standing, Leasable, Claimable
      <4>8. UNCHANGED <<copies, takebacks>>
        BY <2>1
      <4> QED
        BY <3>1, <4>4, <4>5, <4>6, <4>7, <4>8 DEF CountInv, Counted
    <3>3. CASE e # d
      <4>1. Unsent(e)' \subseteq Unsent(e)
        BY <2>1, <2>3, <3>3 DEF Unsent, TypeOK
      <4>2. row'[e] = row[e]
        BY <2>1, <3>3 DEF TypeOK
      <4> QED
        BY <2>1, <3>1, <4>1, <4>2, UnsentShrinks DEF CountInv, Counted, Standing
    <3> QED
      BY <3>2, <3>3
  <2> QED
    BY <2>4, <2>5, <2>6, <2>7
<1> QED
  BY <1>1, <1>2

\* Sending uses the lease up, whether or not the publisher hears of a success.
LEMMA SendStep ==
  ASSUME OutboxInv, NEW p \in Publishers, SendTask(p)
  PROVE  OutboxInv'
<1> USE DEF OutboxInv
<1> DEFINE d == work[p].d
<1>1. d \in Deliveries /\ work[p].pc = "leased"
  BY DEF SendTask, WorkInv
<1>2. PICK pc \in {"sent", "failed"}, n \in {0, 1} :
        /\ n = 1 \/ pc = "failed"
        /\ IF n = 1 /\ pc = "sent" THEN UNCHANGED faults ELSE Fault
        /\ work' = [work EXCEPT ![p].pc = pc]
        /\ copies' = [copies EXCEPT ![d] = copies[d] + n]
  BY DEF SendTask, OnFailure
<1>3. UNCHANGED <<row, open, batch, swept, takebacks>>
  BY DEF SendTask
<1>4. /\ \A q \in Publishers : q # p => work'[q] = work[q]
      /\ work'[p].pc = pc /\ work'[p].d = d /\ work'[p].gen = work[p].gen
  BY <1>2 DEF TypeOK, WorkType
<1>5. /\ \A e \in Deliveries : e # d => copies'[e] = copies[e]
      /\ copies[d] \in Nat /\ copies'[d] = copies[d] + n
  BY <1>1, <1>2 DEF TypeOK
<1> HIDE DEF d
<1>6. TypeOK'
  <2>1. work' \in [Publishers -> WorkType]
    BY <1>2 DEF TypeOK, WorkType
  <2>2. copies' \in [Deliveries -> Nat]
    <3>1. copies[d] + n \in Nat
      BY <1>5
    <3> QED
      BY <1>2, <3>1 DEF TypeOK
  <2>3. faults' \in Nat
    BY <1>2 DEF Fault, TypeOK
  <2> QED
    BY <1>3, <2>1, <2>2, <2>3 DEF TypeOK
<1>7. LeaseInv'
  BY <1>3 DEF LeaseInv
<1>8. WorkInv'
  <2> SUFFICES ASSUME NEW q \in Publishers
               PROVE  /\ work'[q].pc = "idle" <=> work'[q] = Idle
                      /\ work'[q].pc # "idle" =>
                           work'[q].d \in Deliveries /\ row'[work'[q].d].state # "none"
                      /\ work'[q].pc = "sent" => copies'[work'[q].d] > 0
    BY DEF WorkInv, Idle
  <2>1. CASE q = p
    <3>1. row[d].state # "none"
      BY <1>1 DEF WorkInv, d
    <3> QED
      BY <1>1, <1>2, <1>3, <1>4, <1>5, <2>1, <3>1 DEF Idle
  <2>2. CASE q # p
    <3>1. work[q].pc = "sent" => copies'[work[q].d] > 0
      BY <1>5 DEF WorkInv, TypeOK
    <3> QED
      BY <1>3, <1>4, <2>2, <3>1 DEF WorkInv
  <2> QED
    BY <2>1, <2>2
<1>9. CountInv'
  <2> SUFFICES ASSUME NEW e \in Deliveries PROVE Counted(e)'
    BY DEF CountInv
  <2>1. copies[e] \in Nat /\ row[e].gen \in Nat /\ takebacks[e] \in Nat
    BY DEF TypeOK, RowType
  <2>2. Standing(e)' = Standing(e)
    BY <1>3 DEF Standing
  <2>3. CASE e = d
    <3>1. p \in Unsent(e) /\ Unsent(e)' = Unsent(e) \ {p}
      BY <1>1, <1>4, <2>3 DEF Unsent, d
    <3>2. Unsent(e) \in SUBSET Publishers /\ Unsent(e)' \in SUBSET Publishers
      BY DEF Unsent
    <3>3. /\ Cardinality(Unsent(e)') + 1 = Cardinality(Unsent(e))
          /\ Cardinality(Unsent(e)) \in Nat /\ Cardinality(Unsent(e)') \in Nat
      BY <3>1, <3>2, PublisherSets
    <3> QED
      BY <1>3, <1>5, <2>1, <2>2, <2>3, <3>3 DEF CountInv, Counted
  <2>4. CASE e # d
    <3>1. Unsent(e)' \subseteq Unsent(e)
      BY <1>1, <1>4, <2>4 DEF Unsent, d
    <3> QED
      BY <1>3, <1>5, <2>1, <2>2, <2>4, <3>1, UnsentShrinks DEF CountInv, Counted
  <2> QED
    BY <2>3, <2>4
<1> QED
  BY <1>6, <1>7, <1>8, <1>9

\* A publisher that marks the row becomes idle; if it still owned the lease, the
\* lease is over.
LEMMA MarkStep ==
  ASSUME OutboxInv, NEW p \in Publishers, MarkPublished(p) \/ MarkRetry(p)
  PROVE  OutboxInv'
<1> USE DEF OutboxInv
<1> DEFINE d == work[p].d
<1>1. d \in Deliveries /\ (StillOwns(p) => row[d].owner # NoOne)
  BY OutboxAssumption DEF MarkPublished, MarkRetry, WorkInv, StillOwns, OutboxAssumption
<1>2. work' = [work EXCEPT ![p] = Idle] /\ UNCHANGED <<open, batch, swept, copies, faults>>
  BY DEF MarkPublished, MarkRetry
<1>3. /\ \A e \in Deliveries : e # d => row'[e] = row[e] /\ takebacks'[e] = takebacks[e]
      /\ row' \in [Deliveries -> RowType] /\ takebacks' \in [Deliveries -> Nat]
      /\ row'[d].gen = row[d].gen
      /\ \/ row'[d] = row[d] /\ takebacks'[d] = takebacks[d]
         \/ /\ row'[d].state = "PUBLISHED" /\ takebacks'[d] = takebacks[d]
            /\ row[d].owner # NoOne /\ row'[d].owner = NoOne
         \/ /\ row'[d].state = "RETRY" /\ takebacks'[d] = takebacks[d] + 1
            /\ row'[d].owner = NoOne
  <2>1. CASE ~StillOwns(p)
    BY <2>1 DEF MarkPublished, MarkRetry, TypeOK
  <2>2. CASE StillOwns(p) /\ MarkPublished(p)
    <3> DEFINE new == [row[d] EXCEPT !.state = "PUBLISHED", !.owner = NoOne, !.expired = FALSE]
    <3>1. row' = [row EXCEPT ![d] = new] /\ UNCHANGED takebacks
      BY <2>2 DEF MarkPublished
    <3>2. /\ new \in RowType /\ new.state = "PUBLISHED" /\ new.owner = NoOne
          /\ new.gen = row[d].gen
      <4>1. row[d] \in RowType
        BY <1>1 DEF TypeOK
      <4> QED
        BY <4>1 DEF RowType, States
    <3> HIDE DEF new
    <3> QED
      BY <1>1, <2>2, <3>1, <3>2 DEF TypeOK
  <2>3. CASE StillOwns(p) /\ MarkRetry(p)
    <3> DEFINE new == [row[d] EXCEPT !.state = "RETRY", !.owner = NoOne,
                                     !.expired = FALSE, !.due = FALSE]
    <3>1. /\ row' = [row EXCEPT ![d] = new]
          /\ takebacks' = [takebacks EXCEPT ![d] = takebacks[d] + 1]
      BY <2>3 DEF MarkRetry
    <3>2. /\ new \in RowType /\ new.state = "RETRY" /\ new.owner = NoOne
          /\ new.gen = row[d].gen
      <4>1. row[d] \in RowType
        BY <1>1 DEF TypeOK
      <4> QED
        BY <4>1 DEF RowType, States
    <3> HIDE DEF new
    <3> QED
      BY <1>1, <3>1, <3>2 DEF TypeOK
  <2> QED
    BY <2>1, <2>2, <2>3
<1> HIDE DEF d
<1>4. TypeOK'
  <2>1. Idle \in WorkType
    BY DEF Idle, WorkType
  <2> QED
    BY <1>2, <1>3, <2>1 DEF TypeOK
<1>5. LeaseInv'
  BY <1>3 DEF LeaseInv
<1>6. WorkInv'
  <2>1. \A e \in Deliveries : row[e].state # "none" => row'[e].state # "none"
    BY <1>3
  <2> QED
    BY <1>2, <2>1 DEF WorkInv, TypeOK, Idle
<1>7. CountInv'
  <2> SUFFICES ASSUME NEW e \in Deliveries PROVE Counted(e)'
    BY DEF CountInv
  <2>1. /\ copies[e] \in Nat /\ row[e].gen \in Nat /\ takebacks[e] \in Nat
        /\ copies'[e] = copies[e] /\ row'[e].gen = row[e].gen
    BY <1>2, <1>3 DEF TypeOK, RowType
  <2>2. Unsent(e)' \subseteq Unsent(e)
    BY <1>2 DEF Unsent, Idle, TypeOK
  <2>3. /\ Cardinality(Unsent(e)) \in Nat /\ Cardinality(Unsent(e)') \in Nat
        /\ Cardinality(Unsent(e)') <= Cardinality(Unsent(e))
    BY <2>2, UnsentShrinks
  <2>4. Standing(e) \in {0, 1} /\ Standing(e)' \in {0, 1}
    BY DEF Standing
  <2>5. takebacks[e] + Standing(e) <= takebacks'[e] + Standing(e)'
    <3>1. \/ row'[e] = row[e] /\ takebacks'[e] = takebacks[e]
          \/ row'[e].state = "PUBLISHED" /\ takebacks'[e] = takebacks[e]
          \/ takebacks'[e] = takebacks[e] + 1
      BY <1>3
    <3>2. CASE row'[e] = row[e] /\ takebacks'[e] = takebacks[e]
      BY <2>1, <2>4, <3>2 DEF Standing
    <3>3. CASE row'[e].state = "PUBLISHED" /\ takebacks'[e] = takebacks[e]
      <4>1. Standing(e)' = 1
        BY <3>3 DEF Standing, Claimable
      <4> QED
        BY <2>1, <2>4, <3>3, <4>1
    <3>4. CASE takebacks'[e] = takebacks[e] + 1
      BY <2>1, <2>4, <3>4
    <3> QED
      BY <3>1, <3>2, <3>3, <3>4
  <2>6. takebacks'[e] \in Nat
    BY <1>3
  <2> QED
    BY <2>1, <2>3, <2>4, <2>5, <2>6 DEF CountInv, Counted
<1> QED
  BY <1>4, <1>5, <1>6, <1>7

\* The sweep settles nothing: it gives leases back and counts them.
LEMMA ReclaimStep ==
  ASSUME OutboxInv, NEW p \in Publishers, Reclaim(p)
  PROVE  OutboxInv'
<1> USE DEF OutboxInv
<1> DEFINE back == {d \in swept[p] : Reclaimable(d)}
           new(d) == [row[d] EXCEPT !.state = "RETRY", !.owner = NoOne, !.expired = FALSE, !.due = TRUE]
<1>1. /\ row' = [d \in Deliveries |-> IF d \in back THEN new(d) ELSE row[d]]
      /\ takebacks' = [d \in Deliveries |-> takebacks[d] + (IF d \in back THEN 1 ELSE 0)]
      /\ swept' = [swept EXCEPT ![p] = {}]
      /\ UNCHANGED <<open, batch, work, copies, faults>>
  BY DEF Reclaim
<1>2. ASSUME NEW d \in Deliveries
      PROVE  /\ new(d) \in RowType /\ new(d).state = "RETRY" /\ new(d).owner = NoOne
             /\ new(d).gen = row[d].gen
  <2>1. row[d] \in RowType
    BY DEF TypeOK
  <2> QED
    BY <2>1 DEF RowType, States
<1> HIDE DEF back, new
<1>3. ASSUME NEW d \in Deliveries
      PROVE  /\ row'[d] \in RowType /\ takebacks'[d] \in Nat
             /\ row'[d].gen = row[d].gen
             /\ \/ row'[d] = row[d] /\ takebacks'[d] = takebacks[d]
                \/ /\ row'[d].state = "RETRY" /\ row'[d].owner = NoOne
                   /\ takebacks'[d] = takebacks[d] + 1
  BY <1>1, <1>2 DEF TypeOK
<1>4. TypeOK'
  <2>1. row' \in [Deliveries -> RowType]
    BY <1>1, <1>2 DEF TypeOK
  <2>2. takebacks' \in [Deliveries -> Nat]
    BY <1>1, <1>3
  <2> QED
    BY <1>1, <2>1, <2>2 DEF TypeOK
<1>5. LeaseInv'
  BY <1>3 DEF LeaseInv
<1>6. WorkInv'
  <2>1. \A e \in Deliveries : row[e].state # "none" => row'[e].state # "none"
    BY <1>3
  <2> QED
    BY <1>1, <2>1 DEF WorkInv
<1>7. CountInv'
  <2> SUFFICES ASSUME NEW e \in Deliveries PROVE Counted(e)'
    BY DEF CountInv
  <2>1. copies[e] \in Nat /\ row[e].gen \in Nat /\ takebacks[e] \in Nat
    BY DEF TypeOK, RowType
  <2>2. Unsent(e)' = Unsent(e)
    BY <1>1 DEF Unsent
  <2>3. Standing(e) \in {0, 1} /\ Standing(e)' \in {0, 1}
    BY DEF Standing
  <2>4. takebacks[e] + Standing(e) <= takebacks'[e] + Standing(e)'
    <3>1. CASE row'[e] = row[e] /\ takebacks'[e] = takebacks[e]
      BY <2>1, <2>3, <3>1 DEF Standing
    <3>2. CASE takebacks'[e] = takebacks[e] + 1
      BY <2>1, <2>3, <3>2
    <3> QED
      BY <1>3, <3>1, <3>2
  <2>5. takebacks'[e] \in Nat /\ row'[e].gen = row[e].gen
    BY <1>3
  <2>6. row[e].gen - 1 <= takebacks[e] + Standing(e)
    BY DEF CountInv, Counted
  <2>7. row[e].gen - 1 <= takebacks'[e] + Standing(e)'
    BY <2>1, <2>3, <2>4, <2>5, <2>6
  <2> QED
    BY <1>1, <2>2, <2>5, <2>7 DEF CountInv, Counted
<1> QED
  BY <1>4, <1>5, <1>6, <1>7

\* Every step keeps the invariant.
LEMMA NextInv == OutboxInv /\ [Next]_vars => OutboxInv'
<1> SUFFICES ASSUME OutboxInv, [Next]_vars PROVE OutboxInv'
  OBVIOUS
<1>1. CASE UNCHANGED vars
  BY <1>1 DEF vars, OutboxInv, TypeOK, LeaseInv, WorkInv, CountInv, Counted, Standing, Unsent
<1>2. ASSUME NEW d \in Deliveries,
             Enqueue(d) \/ Supersede(d) \/ BecomesDue(d) \/ LeaseExpires(d)
      PROVE  OutboxInv'
  BY <1>2, RowStep
<1>3. ASSUME NEW p \in Publishers,
             \/ Publish(p) \/ Sweep(p) \/ MarkFails(p) \/ Crash(p)
             \/ \E d \in Deliveries : LeaseFails(p, d)
      PROVE  OutboxInv'
  <2>1. CASE \/ ReadPending(p) \/ MarkFails(p) \/ Crash(p) \/ ReadStale(p)
             \/ \E d \in Deliveries : LeaseFails(p, d)
    BY <2>1, StopStep
  <2>2. ASSUME NEW d \in Deliveries, Lease(p, d) PROVE OutboxInv'
    BY <2>2, LeaseStep
  <2>3. CASE SendTask(p)
    BY <2>3, SendStep
  <2>4. CASE MarkPublished(p) \/ MarkRetry(p)
    BY <2>4, MarkStep
  <2>5. CASE Reclaim(p)
    BY <2>5, ReclaimStep
  <2> QED
    BY <1>3, <2>1, <2>2, <2>3, <2>4, <2>5 DEF Publish, Sweep
<1> QED
  BY <1>1, <1>2, <1>3 DEF Next

\* The invariant holds in every reachable state, whatever the number of deliveries
\* and publishers.
THEOREM OutboxInvariance == Spec => []OutboxInv
<1>1. Init => OutboxInv
  BY InitInv
<1>2. OutboxInv /\ [Next]_vars => OutboxInv'
  BY NextInv
<1> QED
  BY <1>1, <1>2, PTL DEF Spec

-----------------------------------------------------------------------------
(* What follows from it *)

\* A delivery that never went back to RETRY is published once at most, and each
\* takeback allows one more copy.
THEOREM NoCopyWithoutReason == Spec => []OneTaskPerTakeback
<1>1. OutboxInv => OneTaskPerTakeback
  <2> SUFFICES ASSUME OutboxInv, NEW d \in Deliveries PROVE copies[d] <= 1 + takebacks[d]
    BY DEF OneTaskPerTakeback
  <2>1. copies[d] \in Nat /\ takebacks[d] \in Nat /\ row[d].gen \in Nat
    BY DEF OutboxInv, TypeOK, RowType
  <2>2. Cardinality(Unsent(d)) \in Nat
    <3>1. Unsent(d) \subseteq Publishers
      BY DEF Unsent
    <3> QED
      BY <3>1, FS_Subset, FS_CardinalityType, OutboxAssumption DEF OutboxAssumption
  <2>3. Standing(d) \in {0, 1}
    BY DEF Standing
  <2>4. Counted(d)
    BY DEF OutboxInv, CountInv
  <2> QED
    BY <2>1, <2>2, <2>3, <2>4 DEF Counted
<1> QED
  BY <1>1, OutboxInvariance, PTL

\* A lease is marked by the publisher that holds it, or taken back by a sweep.
THEOREM StaleOwnersMarkNothing == Spec => OnlyTheOwnerMarks
<1> DEFINE Fenced ==
      \A d \in Deliveries :
        (row[d].state = "LEASED" /\ row'[d] # row[d] /\ row'[d].state \in {"PUBLISHED", "RETRY"}) =>
          \/ work[row[d].owner].d = d /\ work'[row[d].owner] = Idle
          \/ \E p \in Publishers : d \in swept[p] \ swept'[p]
<1>1. OutboxInv /\ [Next]_vars => [Fenced]_vars
  <2> SUFFICES ASSUME OutboxInv, Next, NEW d \in Deliveries,
                      row[d].state = "LEASED", row'[d] # row[d],
                      row'[d].state \in {"PUBLISHED", "RETRY"}
               PROVE  \/ work[row[d].owner].d = d /\ work'[row[d].owner] = Idle
                      \/ \E p \in Publishers : d \in swept[p] \ swept'[p]
    BY DEF vars
  <2> USE DEF OutboxInv, TypeOK
  <2>1. ASSUME NEW e \in Deliveries,
               Enqueue(e) \/ Supersede(e) \/ BecomesDue(e) \/ LeaseExpires(e)
        PROVE  FALSE
    BY <2>1 DEF Enqueue, Supersede, BecomesDue, LeaseExpires, RowType, Active, Claimable
  <2>2. ASSUME NEW p \in Publishers,
               \/ ReadPending(p) \/ SendTask(p) \/ MarkFails(p) \/ Crash(p) \/ ReadStale(p)
               \/ \E e \in Deliveries : LeaseFails(p, e)
        PROVE  FALSE
    BY <2>2 DEF ReadPending, SendTask, MarkFails, Crash, ReadStale, LeaseFails
  <2>3. ASSUME NEW p \in Publishers, NEW e \in Deliveries, Lease(p, e) PROVE FALSE
    BY <2>3 DEF Lease, Leasable, Claimable, RowType
  <2>4. ASSUME NEW p \in Publishers, MarkPublished(p) \/ MarkRetry(p)
        PROVE  row[d].owner = p /\ work[p].d = d /\ work'[p] = Idle
    <3>1. StillOwns(p) /\ work[p].d = d
      BY <2>4 DEF MarkPublished, MarkRetry
    <3> QED
      BY <2>4, <3>1 DEF MarkPublished, MarkRetry, StillOwns
  <2>5. ASSUME NEW p \in Publishers, Reclaim(p) PROVE d \in swept[p] \ swept'[p]
    BY <2>5 DEF Reclaim
  <2> QED
    BY <2>1, <2>2, <2>3, <2>4, <2>5 DEF Next, Publish, Sweep
<1> QED
  BY <1>1, OutboxInvariance, PTL DEF Spec, OnlyTheOwnerMarks

\* The outbox implements Handoff: work is settled only once the broker has seen it,
\* withdrawn only while nobody has taken it, and never forgotten.
THEOREM HandoffRefinement == Spec => HandoffKept
<1> DEFINE W == {d \in Deliveries : row[d].state \in Claimable}
           T == {d \in Deliveries : row[d].owner # NoOne}
           G == {d \in Deliveries : row[d].state \in {"PUBLISHED", "SUPERSEDED"} /\ row[d].owner = NoOne}
           S == {d \in Deliveries : copies[d] > 0}
<1>1. Init => Handed!HandoffInit
  BY DEF Init, Handed!HandoffInit, Claimable
<1>2. OutboxInv /\ [Next]_vars => [Handed!HandoffNext]_(Handed!handoffVars)
  <2> SUFFICES ASSUME OutboxInv, [Next]_vars
               PROVE  Handed!HandoffNext \/ UNCHANGED <<W, T, G, S>>
    BY DEF Handed!handoffVars
  <2> DEFINE Step == Handed!HandoffNext \/ UNCHANGED <<W, T, G, S>>
  <2> USE DEF OutboxInv
  <2>1. CASE UNCHANGED vars
    BY <2>1 DEF vars
  <2>2. ASSUME NEW d \in Deliveries, Enqueue(d) PROVE Step
    <3>1. Handed!Submit(d)
      BY <2>2 DEF Enqueue, TypeOK, RowType, LeaseInv, Claimable, Handed!Submit
    <3> QED
      BY <3>1 DEF Handed!HandoffNext
  <2>3. ASSUME NEW d \in Deliveries, Supersede(d) PROVE Step
    <3>1. CASE row[d].state \in Claimable
      <4>1. Handed!Withdraw(d)
        BY <2>3, <3>1 DEF Supersede, TypeOK, RowType, LeaseInv, Claimable, Active, Handed!Withdraw
      <4> QED
        BY <4>1 DEF Handed!HandoffNext
    <3>2. CASE row[d].state = "LEASED"
      BY <2>3, <3>2 DEF Supersede, TypeOK, RowType, LeaseInv, Claimable, Active
    <3>3. CASE row[d].state \notin Active
      BY <2>3, <3>3 DEF Supersede, TypeOK, RowType, Claimable
    <3> QED
      BY <3>1, <3>2, <3>3 DEF Active
  <2>4. ASSUME NEW d \in Deliveries, BecomesDue(d) \/ LeaseExpires(d) PROVE Step
    <3>1. \A e \in Deliveries : row'[e].state = row[e].state /\ row'[e].owner = row[e].owner
      <4>1. row' = [row EXCEPT ![d].due = TRUE] \/ row' = [row EXCEPT ![d].expired = TRUE]
        BY <2>4 DEF BecomesDue, LeaseExpires
      <4> QED
        BY <4>1 DEF TypeOK, RowType
    <3>2. UNCHANGED copies
      BY <2>4 DEF BecomesDue, LeaseExpires
    <3> QED
      BY <3>1, <3>2
  <2>5. ASSUME NEW p \in Publishers,
               \/ ReadPending(p) \/ MarkFails(p) \/ Crash(p) \/ ReadStale(p)
               \/ \E d \in Deliveries : LeaseFails(p, d)
        PROVE  Step
    BY <2>5 DEF ReadPending, MarkFails, Crash, ReadStale, LeaseFails
  <2>6. ASSUME NEW p \in Publishers, NEW d \in Deliveries, Lease(p, d) PROVE Step
    <3>1. CASE Leasable(d)
      <4>1. Handed!TakeUp(d)
        BY <2>6, <3>1, OutboxAssumption
           DEF Lease, Leasable, TypeOK, RowType, LeaseInv, Claimable, Handed!TakeUp, OutboxAssumption
      <4> QED
        BY <4>1 DEF Handed!HandoffNext
    <3>2. CASE ~Leasable(d)
      BY <2>6, <3>2 DEF Lease
    <3> QED
      BY <3>1, <3>2
  <2>7. ASSUME NEW p \in Publishers, SendTask(p) PROVE Step
    <3>0. PICK d \in Deliveries : d = work[p].d /\ row[d].state # "none"
      BY <2>7 DEF SendTask, WorkInv
    <3>1. PICK n \in {0, 1} : copies' = [copies EXCEPT ![d] = copies[d] + n]
      BY <2>7, <3>0 DEF SendTask
    <3>2. copies[d] \in Nat
      BY DEF TypeOK
    <3>3. UNCHANGED row
      BY <2>7 DEF SendTask
    <3>4. d \in W \union T \union G
      BY <3>0 DEF TypeOK, RowType, States, LeaseInv, Claimable
    <3>5. CASE n = 0
      <4>1. copies' = copies
        BY <3>1, <3>2, <3>5 DEF TypeOK
      <4> QED
        BY <3>3, <4>1
    <3>6. CASE n = 1
      <4>1. S' = S \union {d}
        BY <3>1, <3>2, <3>6 DEF TypeOK
      <4>2. Handed!SendCopy(d)
        BY <3>3, <3>4, <4>1 DEF Handed!SendCopy
      <4> QED
        BY <4>2 DEF Handed!HandoffNext
    <3> QED
      BY <3>1, <3>5, <3>6
  <2>8. ASSUME NEW p \in Publishers, MarkPublished(p) \/ MarkRetry(p) PROVE Step
    <3>1. PICK d \in Deliveries : d = work[p].d
      BY <2>8 DEF MarkPublished, MarkRetry, WorkInv
    <3>2. CASE ~StillOwns(p)
      BY <2>8, <3>2 DEF MarkPublished, MarkRetry
    <3>3. CASE StillOwns(p) /\ MarkPublished(p)
      <4>1. d \in T /\ d \in S
        BY <3>1, <3>3, OutboxAssumption DEF MarkPublished, StillOwns, WorkInv, OutboxAssumption
      <4>2. Handed!Settle(d)
        BY <3>1, <3>3, <4>1 DEF MarkPublished, TypeOK, RowType, LeaseInv, Claimable, Handed!Settle
      <4> QED
        BY <4>2 DEF Handed!HandoffNext
    <3>4. CASE StillOwns(p) /\ MarkRetry(p)
      <4>1. d \in T
        BY <3>1, <3>4, OutboxAssumption DEF StillOwns, OutboxAssumption
      <4>2. {d} \in SUBSET Deliveries
        OBVIOUS
      <4>3. Handed!GiveBack({d})
        BY <3>1, <3>4, <4>1 DEF MarkRetry, TypeOK, RowType, LeaseInv, Claimable, Handed!GiveBack
      <4> QED
        BY <4>2, <4>3 DEF Handed!HandoffNext
    <3> QED
      BY <2>8, <3>2, <3>3, <3>4
  <2>9. ASSUME NEW p \in Publishers, Reclaim(p) PROVE Step
    <3>1. PICK back \in SUBSET Deliveries : back = {d \in swept[p] : Reclaimable(d)}
      BY DEF TypeOK
    <3>2. back \subseteq T
      BY <3>1 DEF Reclaimable, LeaseInv, TypeOK
    <3>3. Handed!GiveBack(back)
      BY <2>9, <3>1, <3>2, ZenonT(60) DEF Reclaim, Reclaimable, TypeOK, RowType, LeaseInv, Claimable, Handed!GiveBack
    <3> QED
      BY <3>3 DEF Handed!HandoffNext
  <2> QED
    BY <2>1, <2>2, <2>3, <2>4, <2>5, <2>6, <2>7, <2>8, <2>9 DEF Next, Publish, Sweep
<1> QED
  BY <1>1, <1>2, OutboxInvariance, PTL DEF Spec, HandoffKept, Handed!HandoffSpec
=============================================================================
