------------------------------- MODULE Outbox -------------------------------
(***************************************************************************)
(* The transactional outbox between the scheduler and Celery.              *)
(*                                                                         *)
(* A claim writes a delivery row in its own transaction.  Publishers read  *)
(* what is due, lease one row at a time, hand the task to the broker with  *)
(* no transaction open, and mark the row.  A sweep takes expired leases    *)
(* back, and the recovery of an expired claim supersedes the delivery.     *)
(* SendPipeline sees of all this only what Handoff says.                   *)
(*                                                                         *)
(* A scheduler process publishes and sweeps in turn; one that crashes      *)
(* starts again.                                                           *)
(***************************************************************************)
EXTENDS Integers, FiniteSets

CONSTANTS
  Deliveries,   \* rows of outbox_deliveries, one per claim
  Publishers,   \* scheduler processes
  NoOne,        \* no lease owner
  NoDelivery,   \* what an idle publisher works on
  MaxFaults     \* bound on crashes, failures and delays

ASSUME OutboxAssumption ==
  /\ NoOne \notin Publishers /\ NoDelivery \notin Deliveries
  /\ IsFiniteSet(Publishers)
  /\ MaxFaults \in Nat

VARIABLES
  row,        \* outbox_deliveries: state, lease owner and generation, lease expired, due
  open,       \* deliveries whose claim may still expire
  batch,      \* what each publisher has read and not worked on
  work,       \* the delivery each publisher has leased, and how far it is
  swept,      \* expired leases each sweep has read and not written
  copies,     \* how many tasks the broker was given for each delivery
  takebacks,  \* how often a delivery went back to RETRY (history)
  faults      \* faults so far

vars == <<row, open, batch, work, swept, copies, takebacks, faults>>

States    == {"none", "PENDING", "LEASED", "PUBLISHED", "RETRY", "SUPERSEDED"}
Claimable == {"PENDING", "RETRY"}
Active    == Claimable \union {"LEASED"}

Idle == [pc |-> "idle", d |-> NoDelivery, gen |-> 0]

Fault == faults < MaxFaults /\ faults' = faults + 1

Init ==
  /\ row = [d \in Deliveries |-> [state |-> "none", owner |-> NoOne, gen |-> 1,
                                  expired |-> FALSE, due |-> FALSE]]
  /\ open = {}
  /\ batch = [p \in Publishers |-> {}]
  /\ work = [p \in Publishers |-> Idle]
  /\ swept = [p \in Publishers |-> {}]
  /\ copies = [d \in Deliveries |-> 0]
  /\ takebacks = [d \in Deliveries |-> 0]
  /\ faults = 0

-----------------------------------------------------------------------------
(* The claim at the other end *)

\* claim_due_message writes the delivery.
Enqueue(d) ==
  /\ row[d].state = "none"
  /\ row' = [row EXCEPT ![d].state = "PENDING", ![d].due = TRUE]
  /\ open' = open \union {d}
  /\ UNCHANGED <<batch, work, swept, copies, takebacks, faults>>

\* recover_expired_claim; the lease, if there is one, stays in the row.
Supersede(d) ==
  /\ d \in open
  /\ open' = open \ {d}
  /\ row' = [row EXCEPT ![d].state = IF row[d].state \in Active THEN "SUPERSEDED" ELSE row[d].state]
  /\ UNCHANGED <<batch, work, swept, copies, takebacks, faults>>

-----------------------------------------------------------------------------
(* A publisher *)

\* The process is between two passes.
Free(p) == work[p] = Idle /\ batch[p] = {} /\ swept[p] = {}

\* find_pending_deliveries: what is due, read once for the whole batch.
ReadPending(p) ==
  /\ Free(p)
  /\ batch' = [batch EXCEPT ![p] = {d \in Deliveries : row[d].state \in Claimable /\ row[d].due}]
  /\ batch' # batch
  /\ UNCHANGED <<row, open, work, swept, copies, takebacks, faults>>

\* Mutant: the lease trusts the state that was read with the batch.
Leasable_AsRead(d) == TRUE

Leasable(d) == row[d].state \in Claimable

\* lease_delivery: only one of the publishers that read the row gets it.
Lease(p, d) ==
  /\ work[p] = Idle /\ d \in batch[p]
  /\ batch' = [batch EXCEPT ![p] = @ \ {d}]
  /\ IF Leasable(d)
     THEN /\ row' = [row EXCEPT ![d].state = "LEASED", ![d].owner = p,
                                ![d].gen = row[d].gen + 1, ![d].expired = FALSE]
          /\ work' = [work EXCEPT ![p] = [pc |-> "leased", d |-> d, gen |-> row[d].gen + 1]]
     ELSE UNCHANGED <<row, work>>
  /\ UNCHANGED <<open, swept, copies, takebacks, faults>>

\* The database refuses the lease: the publisher goes on with its batch.
LeaseFails(p, d) ==
  /\ work[p] = Idle /\ d \in batch[p]
  /\ Fault
  /\ batch' = [batch EXCEPT ![p] = @ \ {d}]
  /\ UNCHANGED <<row, open, work, swept, copies, takebacks>>

\* Mutant: a failed publication is recorded as a success.
OnFailure_Sent == "sent"

OnFailure == "failed"

\* celery.send_task, with no transaction open.  An error may hide a success.
SendTask(p) ==
  /\ work[p].pc = "leased"
  /\ \E pc \in {"sent", OnFailure}, n \in {0, 1} :
       /\ n = 1 \/ pc = OnFailure
       /\ IF n = 1 /\ pc = "sent" THEN UNCHANGED faults ELSE Fault
       /\ work' = [work EXCEPT ![p].pc = pc]
       /\ copies' = [copies EXCEPT ![work[p].d] = @ + n]
  /\ UNCHANGED <<row, open, batch, swept, takebacks>>

\* The mark is conditional on the lease: on its owner and generation.
StillOwns(p) == row[work[p].d].owner = p /\ row[work[p].d].gen = work[p].gen

\* mark_published; without the lease it changes nothing.
MarkPublished(p) ==
  LET d == work[p].d IN
  /\ work[p].pc = "sent"
  /\ row' = IF StillOwns(p)
            THEN [row EXCEPT ![d].state = "PUBLISHED", ![d].owner = NoOne, ![d].expired = FALSE]
            ELSE row
  /\ work' = [work EXCEPT ![p] = Idle]
  /\ UNCHANGED <<open, batch, swept, copies, takebacks, faults>>

\* mark_retry, which also sets the next attempt some seconds ahead.
MarkRetry(p) ==
  LET d == work[p].d IN
  /\ work[p].pc = "failed"
  /\ IF StillOwns(p)
     THEN /\ row' = [row EXCEPT ![d].state = "RETRY", ![d].owner = NoOne,
                                ![d].expired = FALSE, ![d].due = FALSE]
          /\ takebacks' = [takebacks EXCEPT ![d] = @ + 1]
     ELSE UNCHANGED <<row, takebacks>>
  /\ work' = [work EXCEPT ![p] = Idle]
  /\ UNCHANGED <<open, batch, swept, copies, faults>>

\* The database refuses the mark: the publisher goes on with its batch.
MarkFails(p) ==
  /\ work[p].pc \in {"sent", "failed"}
  /\ Fault
  /\ work' = [work EXCEPT ![p] = Idle]
  /\ UNCHANGED <<row, open, batch, swept, copies, takebacks>>

\* The process dies and a new one starts.
Crash(p) ==
  /\ ~Free(p)
  /\ Fault
  /\ work' = [work EXCEPT ![p] = Idle]
  /\ batch' = [batch EXCEPT ![p] = {}]
  /\ swept' = [swept EXCEPT ![p] = {}]
  /\ UNCHANGED <<row, open, copies, takebacks>>

-----------------------------------------------------------------------------
(* Time and the sweep *)

\* next_attempt_at passes.
BecomesDue(d) ==
  /\ row[d].state = "RETRY" /\ ~row[d].due
  /\ row' = [row EXCEPT ![d].due = TRUE]
  /\ UNCHANGED <<open, batch, work, swept, copies, takebacks, faults>>

\* Somebody is still working under the lease of d.
InHand(d) == \E p \in Publishers : work[p].d = d /\ StillOwns(p)

\* lease_expires_at passes.  It is a fault only while the owner is at work.
LeaseExpires(d) ==
  /\ row[d].owner # NoOne /\ ~row[d].expired
  /\ row' = [row EXCEPT ![d].expired = TRUE]
  /\ IF InHand(d) THEN Fault ELSE UNCHANGED faults
  /\ UNCHANGED <<open, batch, work, swept, copies, takebacks>>

\* recover_stale_leases reads every expired lease ...
ReadStale(p) ==
  /\ Free(p)
  /\ swept' = [swept EXCEPT ![p] = {d \in Deliveries : row[d].state = "LEASED" /\ row[d].expired}]
  /\ swept' # swept
  /\ UNCHANGED <<row, open, batch, work, copies, takebacks, faults>>

\* Mutant: the sweep takes back only what has already been retried.
Reclaimable_RetryOnly(d) == row[d].state = "RETRY"

Reclaimable(d) == row[d].state = "LEASED"

\* ... and, in the same transaction, takes back each of them that is still LEASED.
Reclaim(p) ==
  LET back == {d \in swept[p] : Reclaimable(d)} IN
  /\ swept[p] # {}
  /\ swept' = [swept EXCEPT ![p] = {}]
  /\ row' = [d \in Deliveries |->
               IF d \in back
               THEN [row[d] EXCEPT !.state = "RETRY", !.owner = NoOne, !.expired = FALSE, !.due = TRUE]
               ELSE row[d]]
  /\ takebacks' = [d \in Deliveries |-> takebacks[d] + (IF d \in back THEN 1 ELSE 0)]
  /\ UNCHANGED <<open, batch, work, copies, faults>>

-----------------------------------------------------------------------------
Publish(p) ==
  \/ ReadPending(p) \/ \E d \in Deliveries : Lease(p, d)
  \/ SendTask(p) \/ MarkPublished(p) \/ MarkRetry(p)

Sweep(p) == ReadStale(p) \/ Reclaim(p)

Next ==
  \/ \E d \in Deliveries : Enqueue(d) \/ Supersede(d) \/ BecomesDue(d) \/ LeaseExpires(d)
  \/ \E p \in Publishers :
       \/ Publish(p) \/ Sweep(p) \/ MarkFails(p) \/ Crash(p)
       \/ \E d \in Deliveries : LeaseFails(p, d)

Spec == Init /\ [][Next]_vars

-----------------------------------------------------------------------------
(* Properties *)

RowType ==
  [state : States, owner : Publishers \union {NoOne}, gen : Nat,
   expired : BOOLEAN, due : BOOLEAN]

WorkType ==
  [pc : {"idle", "leased", "sent", "failed"}, d : Deliveries \union {NoDelivery}, gen : Nat]

TypeOK ==
  /\ row \in [Deliveries -> RowType]
  /\ open \subseteq Deliveries
  /\ batch \in [Publishers -> SUBSET Deliveries]
  /\ work \in [Publishers -> WorkType]
  /\ swept \in [Publishers -> SUBSET Deliveries]
  /\ copies \in [Deliveries -> Nat]
  /\ takebacks \in [Deliveries -> Nat]
  /\ faults \in Nat

\* A second task for the same delivery needs a reason: however many publishers
\* read the same batch, the broker gets one task, and one more for each time the
\* delivery went back to RETRY.
OneTaskPerTakeback == \A d \in Deliveries : copies[d] <= 1 + takebacks[d]

\* A lease ends by its owner's own step, by the sweep or by the recovery of the
\* claim, never by a publisher that lost the delivery earlier.
OnlyTheOwnerMarks ==
  [][\A d \in Deliveries :
       (row[d].state = "LEASED" /\ row'[d] # row[d] /\ row'[d].state \in {"PUBLISHED", "RETRY"}) =>
         \/ work[row[d].owner].d = d /\ work'[row[d].owner] = Idle
         \/ \E p \in Publishers : d \in swept[p] \ swept'[p]]_vars

\* The outbox keeps the promise of Handoff: a delivery that is not to be published
\* any more was superseded or has been given to the broker.  A superseded row that
\* still has its lease counts as taken, since its owner may still mark it.
Handed ==
  INSTANCE Handoff WITH
    waiting <- {d \in Deliveries : row[d].state \in Claimable},
    taken   <- {d \in Deliveries : row[d].owner # NoOne},
    gone    <- {d \in Deliveries : row[d].state \in {"PUBLISHED", "SUPERSEDED"} /\ row[d].owner = NoOne},
    sent    <- {d \in Deliveries : copies[d] > 0}

HandoffKept == Handed!HandoffSpec

\* Every row that may still be marked has an owner, and nothing else has one.
LeaseInv ==
  \A d \in Deliveries :
    /\ row[d].state = "LEASED" => row[d].owner # NoOne
    /\ row[d].owner # NoOne => row[d].state \in {"LEASED", "SUPERSEDED"}

\* A publisher works on a delivery that was written, and what it calls sent was sent.
WorkInv ==
  \A p \in Publishers :
    /\ work[p].pc = "idle" <=> work[p] = Idle
    /\ work[p].pc # "idle" => work[p].d \in Deliveries /\ row[work[p].d].state # "none"
    /\ work[p].pc = "sent" => copies[work[p].d] > 0

\* The leases of d that may still send a task.
Unsent(d) == {p \in Publishers : work[p].pc = "leased" /\ work[p].d = d}

\* The leases of d that no takeback ended, at most the last one.
Standing(d) == IF row[d].state \in Claimable \union {"none"} THEN 0 ELSE 1

\* Every lease, that is every generation but the first, sends one task at most and
\* but for the last ends in a takeback.
Counted(d) ==
  /\ copies[d] + Cardinality(Unsent(d)) <= row[d].gen - 1
  /\ row[d].gen - 1 <= takebacks[d] + Standing(d)

CountInv == \A d \in Deliveries : Counted(d)

\* The invariant that is inductive and from which the others follow.
OutboxInv == TypeOK /\ LeaseInv /\ WorkInv /\ CountInv

\* Publishing processes, time and the sweep go on; people and faults need not.
Fairness ==
  /\ \A p \in Publishers : WF_vars(Publish(p)) /\ WF_vars(Sweep(p))
  /\ \A d \in Deliveries : WF_vars(BecomesDue(d)) /\ WF_vars(LeaseExpires(d))

FairSpec == Spec /\ Fairness

\* Every delivery is in the end published or superseded, whichever publisher
\* crashes and whatever the broker refuses.
EveryDeliverySettles ==
  \A d \in Deliveries :
    row[d].state \in Active ~> row[d].state \in {"PUBLISHED", "SUPERSEDED"}
=============================================================================
