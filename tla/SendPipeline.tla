---------------------------- MODULE SendPipeline ----------------------------
(***************************************************************************)
(* How one outbound email travels from "scheduled" to "sent".              *)
(*                                                                         *)
(* PostgreSQL rows are the truth; Celery tasks are hints that a row may be *)
(* ready.  The actors are                                                  *)
(*   - the scheduler, which claims due messages, hands out a new dispatch  *)
(*     generation with each claim, takes expired claims back and moves     *)
(*     abandoned sends to UNKNOWN_OUTCOME;                                 *)
(*   - the outbox publisher, which turns a claim into a Celery task;       *)
(*   - the send workers, which lock the rows, run the gates, authorize one *)
(*     attempt, call the provider and record what it answered;             *)
(*   - people and events that pause the campaign, stop a recipient,        *)
(*     suppress an address or disconnect the mailbox at any moment.        *)
(* Every action below is one database transaction (or the provider call    *)
(* between two of them).  One campaign and one mailbox are modelled, with  *)
(* one recipient and enrollment per message.                               *)
(***************************************************************************)
EXTENDS Integers, Sequences, FiniteSets

CONSTANTS
  Msgs,             \* the messages of the campaign, one per recipient
  Workers,          \* processes consuming the email.send queue
  NoMsg,            \* what an idle worker works on
  RetryBudget,      \* messages.retry_budget
  MaxOutstanding,   \* settings.scheduler_max_outstanding_claims
  OverHttp,         \* the mailbox is Gmail or Microsoft, which have LOOKUP_MESSAGE, not SMTP
  MaxGen,           \* bound on dispatch_generation
  MaxAttempts,      \* bound on the attempts of one message
  MaxConn,          \* bound on the mailbox's connection generation
  MaxFaults         \* bound on losses, crashes, denials, delays and pauses

ASSUME PipelineAssumption ==
  /\ IsFiniteSet(Msgs) /\ NoMsg \notin Msgs
  /\ RetryBudget \in Nat /\ MaxOutstanding \in Nat
  /\ OverHttp \in BOOLEAN
  /\ MaxGen \in Nat /\ MaxAttempts \in Nat /\ MaxConn \in Nat /\ MaxFaults \in Nat

VARIABLES
  \* rows of the database
  msg,          \* messages: status, dispatch origin and generation, claim lease, retries, rfc id
  att,          \* message_attempts of each message, in ordinal order
  enrollment,   \* campaign_enrollments.state of the message's recipient
  suppressed,   \* messages whose recipient address has an ACTIVE suppression
  campaign,     \* campaigns.status
  mailbox,      \* the mailbox: connected, connection generation, blocked_until in the future
  pending,      \* outbox deliveries the publisher may lease, as <<message, generation>>
  \* processes and transport
  leased,       \* deliveries a publisher has leased and not finished
  tasks,        \* email.send tasks in the broker, not yet acknowledged
  wk,           \* what each send worker is doing
  room,         \* claims the scheduler may still make in this iteration
  stale,        \* abandoned attempts a recovery sweep has read but not written
  faults,       \* faults so far (bounded by MaxFaults)
  \* the outside world (history)
  copies        \* copies of the message the provider took: known or unknown, and denied

vars == <<msg, att, enrollment, suppressed, campaign, mailbox, pending, leased,
          tasks, wk, room, stale, faults, copies>>

facts    == <<enrollment, suppressed, campaign>>
transit  == <<pending, leased>>

-----------------------------------------------------------------------------
(* Vocabulary *)

Sendable  == {"SCHEDULED", "RETRY_SCHEDULED"}
Terminal  == {"SENT", "FAILED", "SKIPPED", "CANCELLED"}
Resolved  == Terminal \union {"UNKNOWN_OUTCOME"}
Eligible  == {"QUEUED", "SENDING"}
Statuses  == Sendable \union Eligible \union Resolved

\* Mutant: a stop event cancels an attempt in flight too.
Cancellable_SendingToo == Sendable \union Eligible

\* States a stop event may still cancel: nothing has been authorized for them.
Cancellable == Sendable \union {"QUEUED"}

Evidence == {"PREPARED", "UNKNOWN", "ACCEPTED", "REJECTED", "NOT_INVOKED"}
Retryable == {"RATE_LIMIT", "TEMPORARY"}
Results  == {"ACCEPTED", "UNKNOWN", "AUTH_FAILURE", "PERMANENT"} \union Retryable

Idle == [pc |-> "idle", m |-> NoMsg, g |-> 0, n |-> 0, cred |-> 0, result |-> "none"]

Queued == {m \in Msgs : msg[m].status = "QUEUED"}

\* Rows a worker keeps locked from its first load to its authorization commit.
HoldsGates(w) == wk[w].pc \in {"loaded", "checked"}

\* Mutant: the gates lock no campaign and no mailbox.
GatesFree_NoCampaignLock == TRUE

GatesFree == \A w \in Workers : ~HoldsGates(w)

\* Mutant: message rows are not locked.
RowFree_NoRowLock(m) == TRUE

RowFree(m) == \A w \in Workers : HoldsGates(w) => wk[w].m # m

\* message_attempts_unresolved_idx: the attempts whose outcome is still open.
Unresolved(m) == {n \in DOMAIN att[m] : att[m][n].evidence \in {"PREPARED", "UNKNOWN"}}

\* The evidence of one attempt is written.
Record(m, n, evidence) == att' = [att EXCEPT ![m][n].evidence = evidence]

AttemptedAt(m, g) == \E n \in DOMAIN att[m] : att[m][n].gen = g

Fault == faults < MaxFaults /\ faults' = faults + 1

-----------------------------------------------------------------------------
(* Initially every message is rendered and due, nothing was ever claimed.  *)

Init ==
  /\ msg = [m \in Msgs |-> [status |-> "SCHEDULED", origin |-> "none", gen |-> 1,
                            lease |-> "none", retries |-> 0, rfc |-> FALSE]]
  /\ att = [m \in Msgs |-> <<>>]
  /\ enrollment = [m \in Msgs |-> "ACTIVE"]
  /\ suppressed = {}
  /\ campaign = "RUNNING"
  /\ mailbox = [connected |-> TRUE, gen |-> 1, blocked |-> FALSE]
  /\ pending = {} /\ leased = {} /\ tasks = {}
  /\ wk = [w \in Workers |-> Idle]
  /\ room = 0
  /\ stale = {}
  /\ faults = 0
  /\ copies = [m \in Msgs |-> [taken |-> 0, denied |-> 0]]

-----------------------------------------------------------------------------
(* The scheduler *)

FreeRoom == MaxOutstanding - Cardinality(Queued)

\* The start of an iteration: how many more claims may be outstanding.
CountRoom ==
  /\ room' = IF FreeRoom > 0 THEN FreeRoom ELSE 0
  /\ room' # room
  /\ UNCHANGED <<msg, att, facts, mailbox, transit, tasks, wk, stale, faults, copies>>

\* A claim opens a new dispatch generation.
NextGen(m) == msg[m].gen + 1

\* One claim: the message row is locked with SKIP LOCKED, the campaign row is
\* waited for, and the outbox row is written by the same transaction.
Claim(m) ==
  /\ room > 0
  /\ RowFree(m) /\ GatesFree
  /\ msg[m].status \in Sendable
  /\ campaign = "RUNNING"
  /\ ~mailbox.blocked
  /\ msg[m].gen < MaxGen
  /\ msg' = [msg EXCEPT ![m].status = "QUEUED", ![m].origin = msg[m].status,
                        ![m].gen = NextGen(m), ![m].lease = "held"]
  /\ pending' = pending \union {<<m, NextGen(m)>>}
  /\ room' = room - 1
  /\ UNCHANGED <<att, facts, mailbox, leased, tasks, wk, stale, faults, copies>>

\* claim_expires_at passes.  It is a fault only while the claim still has a task
\* on its way: the queue is slower than scheduler_claim_lease_seconds.
ClaimLeaseExpires(m) ==
  /\ msg[m].status = "QUEUED" /\ msg[m].lease = "held"
  /\ msg' = [msg EXCEPT ![m].lease = "expired"]
  /\ IF <<m, msg[m].gen>> \in pending \union leased \union tasks
     THEN Fault
     ELSE UNCHANGED faults
  /\ UNCHANGED <<att, facts, mailbox, transit, tasks, wk, room, stale, copies>>

\* Mutant: a published task is trusted to arrive.
StuckClaim_UnpublishedOnly(m) ==
  /\ msg[m].status = "QUEUED" /\ msg[m].lease = "expired"
  /\ <<m, msg[m].gen>> \in pending

StuckClaim(m) ==
  /\ msg[m].status = "QUEUED" /\ msg[m].lease = "expired"
  /\ ~AttemptedAt(m, msg[m].gen)

\* An expired claim without an attempt goes back where it came from, at the
\* same generation; a delivery that is not published yet is superseded.
RecoverExpiredClaim(m) ==
  /\ RowFree(m) /\ StuckClaim(m)
  /\ msg' = [msg EXCEPT ![m].status = msg[m].origin, ![m].origin = "none",
                        ![m].lease = "none"]
  /\ pending' = pending \ {<<m, msg[m].gen>>}
  /\ UNCHANGED <<att, facts, mailbox, leased, tasks, wk, room, stale, faults, copies>>

\* authorization_deadline passes.  It is a fault only while the worker that
\* owns the attempt is still alive.
DeadlinePasses(m) ==
  \E n \in Unresolved(m) :
    /\ att[m][n].evidence = "PREPARED" /\ ~att[m][n].expired
    /\ att' = [att EXCEPT ![m][n].expired = TRUE]
    /\ IF \E w \in Workers : wk[w].m = m /\ wk[w].n = n
       THEN Fault
       ELSE UNCHANGED faults
    /\ UNCHANGED <<msg, facts, mailbox, transit, tasks, wk, room, stale, copies>>

\* Mutant: the sweep forgets the current generation.
Abandoned_OlderOnly(m, n) ==
  /\ msg[m].status = "SENDING" /\ att[m][n].gen < msg[m].gen
  /\ att[m][n].evidence = "PREPARED" /\ att[m][n].expired

Abandoned(m, n) ==
  /\ msg[m].status = "SENDING"
  /\ att[m][n].evidence = "PREPARED" /\ att[m][n].expired

\* The recovery sweep reads abandoned attempts without locking them ...
FindStaleExecution(m) ==
  \E n \in Unresolved(m) :
    /\ Abandoned(m, n) /\ <<m, n>> \notin stale
    /\ stale' = stale \union {<<m, n>>}
    /\ UNCHANGED <<msg, att, facts, mailbox, transit, tasks, wk, room, faults, copies>>

StillPrepared(m, n) == att[m][n].evidence = "PREPARED"

\* Mutant: an abandoned attempt counts as not sent.
Abandon_SendsAgain(m, n) ==
  /\ Record(m, n, "NOT_INVOKED")
  /\ msg' = [msg EXCEPT ![m].status = "RETRY_SCHEDULED"]

Abandon(m, n) ==
  /\ Record(m, n, "UNKNOWN")
  /\ msg' = [msg EXCEPT ![m].status = IF @ = "SENDING" THEN "UNKNOWN_OUTCOME" ELSE @]

\* ... and later writes each of them, if it is still PREPARED.
RecoverStaleExecution(m) ==
  \E n \in DOMAIN att[m] :
    /\ <<m, n>> \in stale
    /\ RowFree(m)
    /\ stale' = stale \ {<<m, n>>}
    /\ IF StillPrepared(m, n) THEN Abandon(m, n) ELSE UNCHANGED <<msg, att>>
    /\ UNCHANGED <<facts, mailbox, transit, tasks, wk, room, faults, copies>>

\* Reconciliation asks the provider for the Message-ID and believes only a hit.
Reconcile(m) ==
  /\ RowFree(m)
  /\ msg[m].status = "UNKNOWN_OUTCOME"
  /\ OverHttp /\ msg[m].rfc
  /\ mailbox.connected
  /\ copies[m].taken > 0
  /\ msg' = [msg EXCEPT ![m].status = "SENT"]
  /\ att' = [att EXCEPT ![m] = [n \in DOMAIN att[m] |->
               [gen      |-> att[m][n].gen,
                evidence |-> IF att[m][n].evidence = "UNKNOWN" THEN "ACCEPTED"
                                                               ELSE att[m][n].evidence,
                expired  |-> att[m][n].expired]]]
  /\ UNCHANGED <<facts, mailbox, transit, tasks, wk, room, stale, faults, copies>>

-----------------------------------------------------------------------------
(* The outbox publisher and the broker *)

LeaseDelivery(m, g) ==
  /\ <<m, g>> \in pending
  /\ pending' = pending \ {<<m, g>>}
  /\ leased' = leased \union {<<m, g>>}
  /\ UNCHANGED <<msg, att, facts, mailbox, tasks, wk, room, stale, faults, copies>>

\* send_task succeeds and the delivery is marked PUBLISHED.
Publish(m, g) ==
  /\ <<m, g>> \in leased
  /\ leased' = leased \ {<<m, g>>}
  /\ tasks' = tasks \union {<<m, g>>}
  /\ UNCHANGED <<msg, att, facts, mailbox, pending, wk, room, stale, faults, copies>>

\* The publisher dies or fails: RETRY.  A death after send_task has published.
PublishFails(m, g) ==
  /\ <<m, g>> \in leased
  /\ Fault
  /\ leased' = leased \ {<<m, g>>}
  /\ pending' = pending \union {<<m, g>>}
  /\ \/ tasks' = tasks
     \/ tasks' = tasks \union {<<m, g>>}
  /\ UNCHANGED <<msg, att, facts, mailbox, wk, room, stale, copies>>

\* Redis is flushed or restarted: the task is gone.
LoseTask(m, g) ==
  /\ <<m, g>> \in tasks
  /\ Fault
  /\ tasks' = tasks \ {<<m, g>>}
  /\ UNCHANGED <<msg, att, facts, mailbox, transit, wk, room, stale, copies>>

-----------------------------------------------------------------------------
(* The send worker.  A task is acknowledged when its function returns        *)
(* (acks_late), so until then another worker may be given it too.            *)

\* run_pre_authorization_gates for a task of generation g, in the code's order.
Gate(m, g) ==
  CASE msg[m].gen # g                                          -> "noop"
    [] msg[m].gen = g /\ msg[m].status \in Resolved            -> "noop"
    [] msg[m].gen = g /\ msg[m].status \in Sendable            -> "skip"
    [] msg[m].gen = g /\ msg[m].status \in Eligible ->
         CASE campaign # "RUNNING" \/ enrollment[m] # "ACTIVE" -> "defer"
           [] OTHER ->
         CASE m \in suppressed                                 -> "skip"
           [] OTHER ->
         IF ~mailbox.connected \/ mailbox.blocked THEN "mailbox" ELSE "pass"

\* A worker starts on a task, or its function returns.
Take(w, m, g, pc) == wk' = [wk EXCEPT ![w] = [Idle EXCEPT !.pc = pc, !.m = m, !.g = g]]
Done(w)           == Take(w, wk[w].m, wk[w].g, "finished")

\* Only a task whose function has returned is acknowledged.
Acknowledge(w) ==
  /\ wk[w].pc = "finished"
  /\ wk' = [wk EXCEPT ![w] = Idle]
  /\ tasks' = tasks \ {<<wk[w].m, wk[w].g>>}
  /\ UNCHANGED <<msg, att, facts, mailbox, transit, room, stale, faults, copies>>

\* Load and lock the rows and run the gates for the first time.  A row locked
\* by another worker, a stale generation and a resolved message are no-ops; a
\* paused campaign, a stopped enrollment or an unusable mailbox leave the message
\* QUEUED.
LoadStops(w, m, g) ==
  /\ wk[w] = Idle /\ <<m, g>> \in tasks
  /\ \/ ~RowFree(m)
     \/ GatesFree /\ Gate(m, g) \in {"noop", "defer", "mailbox"}
  /\ Take(w, m, g, "finished")
  /\ UNCHANGED <<msg, att, facts, mailbox, transit, tasks, room, stale, faults, copies>>

\* A permanent rejection: skip_message, in the transaction that loaded the row.
LoadSkips(w, m, g) ==
  /\ wk[w] = Idle /\ <<m, g>> \in tasks
  /\ GatesFree /\ Gate(m, g) = "skip"
  /\ msg' = [msg EXCEPT ![m].status = "SKIPPED"]
  /\ Take(w, m, g, "finished")
  /\ UNCHANGED <<att, facts, mailbox, transit, tasks, room, stale, faults, copies>>

\* defer_for_capacity: only a still QUEUED claim of generation g without an
\* attempt is handed back, and its generation is bumped.
HandBack(m, g) ==
  IF msg[m].status = "QUEUED" /\ msg[m].gen = g /\ ~AttemptedAt(m, g)
  THEN msg' = [msg EXCEPT ![m].status = msg[m].origin, ![m].origin = "none",
                          ![m].lease = "none", ![m].gen = @ + 1]
  ELSE msg' = msg

\* A safety hold (looked for before the mailbox's state), a missing unsubscribe
\* setup or a mailbox without a daily cap: handed back by the transaction that
\* loaded the row.
LoadHandsBack(w, m, g) ==
  /\ wk[w] = Idle /\ <<m, g>> \in tasks
  /\ GatesFree /\ Gate(m, g) \in {"mailbox", "pass"}
  /\ Fault
  /\ HandBack(m, g)
  /\ Take(w, m, g, "finished")
  /\ UNCHANGED <<att, facts, mailbox, transit, tasks, room, stale, copies>>

LoadPasses(w, m, g) ==
  /\ wk[w] = Idle /\ <<m, g>> \in tasks
  /\ GatesFree /\ Gate(m, g) = "pass"
  /\ Take(w, m, g, "loaded")
  /\ UNCHANGED <<msg, att, facts, mailbox, transit, tasks, room, stale, faults, copies>>

\* The limiter has no capacity: the transaction is rolled back, its locks are
\* gone, and the message is handed back by a transaction of its own.
ReserveDenied(w) ==
  /\ wk[w].pc = "loaded"
  /\ Fault
  /\ wk' = [wk EXCEPT ![w].pc = "denied"]
  /\ UNCHANGED <<msg, att, facts, mailbox, transit, tasks, room, stale, copies>>

DeniedHandsBack(w) ==
  /\ wk[w].pc = "denied"
  /\ RowFree(wk[w].m)
  /\ HandBack(wk[w].m, wk[w].g)
  /\ Done(w)
  /\ UNCHANGED <<att, facts, mailbox, transit, tasks, room, stale, faults, copies>>

\* The second run of the gates, after the reservation.
GatesPassAgain(w) ==
  /\ wk[w].pc = "loaded"
  /\ Gate(wk[w].m, wk[w].g) = "pass"
  /\ wk' = [wk EXCEPT ![w].pc = "checked", ![w].cred = mailbox.gen]
  /\ UNCHANGED <<msg, att, facts, mailbox, transit, tasks, room, stale, faults, copies>>

\* Everything that ends the authorization transaction before its commit: the
\* limiter is unavailable or changed generation (a fault), a gate now refuses,
\* or the unique index says the message already has an unresolved attempt.
AuthorizationAborts(w) ==
  /\ \/ wk[w].pc = "loaded" /\ Fault
     \/ wk[w].pc = "loaded" /\ Gate(wk[w].m, wk[w].g) # "pass" /\ UNCHANGED faults
     \/ wk[w].pc = "checked" /\ Unresolved(wk[w].m) # {} /\ UNCHANGED faults
  /\ Done(w)
  /\ UNCHANGED <<msg, att, facts, mailbox, transit, tasks, room, stale, copies>>

\* PREPARED attempt, capacity debit and SENDING commit together.
Authorize(w) ==
  LET m == wk[w].m IN
  /\ wk[w].pc = "checked"
  /\ Unresolved(m) = {}
  /\ Len(att[m]) < MaxAttempts
  /\ att' = [att EXCEPT ![m] = Append(@, [gen |-> msg[m].gen, evidence |-> "PREPARED",
                                          expired |-> FALSE])]
  /\ msg' = [msg EXCEPT ![m].status = "SENDING"]
  /\ wk' = [wk EXCEPT ![w].pc = "authorized", ![w].n = Len(att[m]) + 1]
  /\ UNCHANGED <<facts, mailbox, transit, tasks, room, stale, faults, copies>>

\* What the provider does with a call, and what its adapter says of it.  UNKNOWN
\* covers both truths.  Over HTTP so does a connection that breaks: unless it is a
\* timeout the adapter calls it a rejection (NETWORK_ERROR), and a copy that was
\* taken before is denied.  SMTP reports a connection lost in submission as UNKNOWN.
Outcome(result, taken, denied) == [result |-> result, taken |-> taken, denied |-> denied]

Outcomes ==
  {Outcome(result, 0, 0) : result \in Results \ {"ACCEPTED"}}
    \union {Outcome(result, 1, 0) : result \in {"ACCEPTED", "UNKNOWN"}}
    \union {o \in {Outcome("TEMPORARY", 0, 1)} : OverHttp}

\* The provider call, outside any transaction.
Invoke(w) ==
  /\ wk[w].pc = "authorized"
  /\ mailbox.gen = wk[w].cred
  /\ \E o \in Outcomes :
       /\ wk' = [wk EXCEPT ![w].pc = "answered", ![w].result = o.result]
       /\ copies' = [copies EXCEPT ![wk[w].m] =
                       [taken |-> @.taken + o.taken, denied |-> @.denied + o.denied]]
  /\ UNCHANGED <<msg, att, facts, mailbox, transit, tasks, room, stale, faults>>

\* What the triggers let a finalizing UPDATE do: conclusive evidence is
\* immutable, and a terminal message cannot change its status.
MayFinalize(m, n, status) ==
  /\ n \in Unresolved(m)
  /\ msg[m].status \in Terminal => msg[m].status = status

\* finalize_attempt_result: evidence and message status in one transaction.
Finalize(w, evidence, status, retries, rfc) ==
  LET m == wk[w].m  n == wk[w].n IN
  /\ RowFree(m)
  /\ MayFinalize(m, n, status)
  /\ Record(m, n, evidence)
  /\ msg' = [msg EXCEPT ![m].status = status, ![m].retries = retries,
                        ![m].rfc = @ \/ rfc]
  /\ Done(w)

\* The credential of the authorized generation is gone, or an attachment cannot
\* be read: the provider is not called.  Only an unreachable file is retried.
NotInvoked(w) ==
  /\ wk[w].pc = "authorized"
  /\ LET retries == msg[wk[w].m].retries IN
     \/ mailbox.gen # wk[w].cred /\ UNCHANGED faults
          /\ Finalize(w, "NOT_INVOKED", "FAILED", retries, FALSE)
     \/ mailbox.gen = wk[w].cred /\ Fault
          /\ \E status \in {"FAILED", "RETRY_SCHEDULED"} :
               Finalize(w, "NOT_INVOKED", status, retries, FALSE)
  /\ UNCHANGED <<facts, mailbox, transit, tasks, room, stale, copies>>

FinalizeAccepted(w) ==
  /\ wk[w].pc = "answered" /\ wk[w].result = "ACCEPTED"
  /\ Finalize(w, "ACCEPTED", "SENT", msg[wk[w].m].retries, TRUE)
  /\ UNCHANGED <<facts, mailbox, transit, tasks, room, stale, faults, copies>>

\* Mutant: an unknown outcome is retried.
FinalizeUnknown_Retries(w) ==
  /\ wk[w].pc = "answered" /\ wk[w].result = "UNKNOWN"
  /\ Finalize(w, "REJECTED", "RETRY_SCHEDULED", msg[wk[w].m].retries, TRUE)
  /\ UNCHANGED <<facts, mailbox, transit, tasks, room, stale, faults, copies>>

FinalizeUnknown(w) ==
  /\ wk[w].pc = "answered" /\ wk[w].result = "UNKNOWN"
  /\ Finalize(w, "UNKNOWN", "UNKNOWN_OUTCOME", msg[wk[w].m].retries, TRUE)
  /\ UNCHANGED <<facts, mailbox, transit, tasks, room, stale, faults, copies>>

\* Mutant: retries are not counted.
MayRetry_NoBudget(m, result) == result \in Retryable

\* classify_and_decide: the budget and the category allow a retry; an elapsed
\* retry horizon refuses it all the same (a fault, so that the model need not age).
MayRetry(m, result) == result \in Retryable /\ msg[m].retries < RetryBudget

FinalizeRejected(w) ==
  LET m == wk[w].m  result == wk[w].result IN
  /\ wk[w].pc = "answered" /\ result \in Retryable \union {"PERMANENT"}
  /\ result = "RATE_LIMIT" => GatesFree
  /\ \/ /\ MayRetry(m, result) /\ UNCHANGED faults
        /\ Finalize(w, "REJECTED", "RETRY_SCHEDULED", msg[m].retries + 1, FALSE)
     \/ /\ ~MayRetry(m, result) /\ UNCHANGED faults
        /\ Finalize(w, "REJECTED", "FAILED", msg[m].retries, FALSE)
     \/ /\ MayRetry(m, result) /\ Fault
        /\ Finalize(w, "REJECTED", "FAILED", msg[m].retries, FALSE)
  /\ mailbox' = [mailbox EXCEPT !.blocked = @ \/ result = "RATE_LIMIT"]
  /\ UNCHANGED <<facts, transit, tasks, room, stale, copies>>

\* The trigger on mailboxes: leaving CONNECTED needs a newer generation, and a
\* generation never goes back.
MailboxGuard(state) ==
  /\ state.gen >= mailbox.gen
  /\ (mailbox.connected /\ ~state.connected) => state.gen > mailbox.gen

\* AUTH_FAILURE first marks the mailbox RECONNECT_REQUIRED at the generation the
\* worker loaded, then schedules a retry that costs no budget.
FinalizeAuthFailure(w) ==
  LET broken == [mailbox EXCEPT !.connected = FALSE, !.gen = wk[w].cred] IN
  /\ wk[w].pc = "answered" /\ wk[w].result = "AUTH_FAILURE"
  /\ GatesFree
  /\ IF MailboxGuard(broken) /\ MayFinalize(wk[w].m, wk[w].n, "RETRY_SCHEDULED")
     THEN /\ mailbox' = broken
          /\ Finalize(w, "REJECTED", "RETRY_SCHEDULED", msg[wk[w].m].retries, FALSE)
     ELSE Done(w) /\ UNCHANGED <<msg, att, mailbox>>
  /\ UNCHANGED <<facts, transit, tasks, room, stale, faults, copies>>

\* A trigger refuses the result, or the database refuses all three commits: the
\* exception leaves the task, whose result is lost.
StatusFor(result) ==
  CASE result = "ACCEPTED" -> {"SENT"}
    [] result = "UNKNOWN"  -> {"UNKNOWN_OUTCOME"}
    [] OTHER               -> {"RETRY_SCHEDULED", "FAILED"}

ResultIsLost(w) ==
  /\ wk[w].pc = "answered"
  /\ \/ /\ wk[w].result # "AUTH_FAILURE"
        /\ \A status \in StatusFor(wk[w].result) : ~MayFinalize(wk[w].m, wk[w].n, status)
        /\ UNCHANGED faults
     \/ Fault
  /\ Done(w)
  /\ UNCHANGED <<msg, att, facts, mailbox, transit, tasks, room, stale, copies>>

\* The process dies: its open transaction is rolled back, its task is redelivered.
Crash(w) ==
  /\ wk[w] # Idle
  /\ Fault
  /\ wk' = [wk EXCEPT ![w] = Idle]
  /\ UNCHANGED <<msg, att, facts, mailbox, transit, tasks, room, stale, copies>>

-----------------------------------------------------------------------------
(* People, events and the mailbox *)

\* Pausing and resuming lock the campaign row.
Pause ==
  /\ GatesFree
  /\ campaign = "RUNNING"
  /\ Fault
  /\ campaign' = "PAUSED"
  /\ UNCHANGED <<msg, att, enrollment, suppressed, mailbox, transit, tasks, wk, room, stale, copies>>

Resume ==
  /\ GatesFree
  /\ campaign = "PAUSED"
  /\ campaign' = "RUNNING"
  /\ UNCHANGED <<msg, att, enrollment, suppressed, mailbox, transit, tasks, wk, room, stale, faults, copies>>

\* Cancel what was never authorized; an attempt in flight is left alone.
StopRecipient(m, status) ==
  /\ RowFree(m)
  /\ enrollment' = [enrollment EXCEPT ![m] = "STOPPED"]
  /\ msg' = [msg EXCEPT ![m].status = IF @ \in Cancellable THEN status ELSE @]

\* A qualifying reply.
Reply(m) ==
  /\ enrollment[m] = "ACTIVE"
  /\ StopRecipient(m, "CANCELLED")
  /\ UNCHANGED <<att, suppressed, campaign, mailbox, transit, tasks, wk, room, stale, faults, copies>>

\* An unsubscribe (a complaint and a hard bounce do the same).
Unsubscribe(m) ==
  /\ enrollment[m] = "ACTIVE"
  /\ StopRecipient(m, "SKIPPED")
  /\ suppressed' = suppressed \union {m}
  /\ UNCHANGED <<att, campaign, mailbox, transit, tasks, wk, room, stale, faults, copies>>

\* A person suppresses the address: one row is inserted, nothing is locked.
Suppress(m) ==
  /\ m \notin suppressed
  /\ suppressed' = suppressed \union {m}
  /\ UNCHANGED <<msg, att, enrollment, campaign, mailbox, transit, tasks, wk, room, stale, faults, copies>>

\* Disconnecting destroys the credential and bumps the generation; so does
\* connecting again.
Disconnect ==
  /\ GatesFree
  /\ mailbox.connected /\ mailbox.gen < MaxConn
  /\ mailbox' = [mailbox EXCEPT !.connected = FALSE, !.gen = @ + 1]
  /\ UNCHANGED <<msg, att, facts, transit, tasks, wk, room, stale, faults, copies>>

Reconnect ==
  /\ GatesFree
  /\ ~mailbox.connected
  /\ mailbox' = [mailbox EXCEPT !.connected = TRUE, !.gen = @ + 1]
  /\ UNCHANGED <<msg, att, facts, transit, tasks, wk, room, stale, faults, copies>>

\* blocked_until passes.
BlockPasses ==
  /\ mailbox.blocked
  /\ mailbox' = [mailbox EXCEPT !.blocked = FALSE]
  /\ UNCHANGED <<msg, att, facts, transit, tasks, wk, room, stale, faults, copies>>

-----------------------------------------------------------------------------
(* The specification *)

Scheduler(m) ==
  \/ Claim(m) \/ RecoverExpiredClaim(m)
  \/ FindStaleExecution(m) \/ RecoverStaleExecution(m) \/ Reconcile(m)

Clock(m) == ClaimLeaseExpires(m) \/ DeadlinePasses(m)

Publisher(m, g) == LeaseDelivery(m, g) \/ Publish(m, g) \/ PublishFails(m, g)

Load(w, m, g) ==
  \/ LoadStops(w, m, g) \/ LoadSkips(w, m, g)
  \/ LoadHandsBack(w, m, g) \/ LoadPasses(w, m, g)

Before(w) ==
  \/ ReserveDenied(w) \/ DeniedHandsBack(w)
  \/ GatesPassAgain(w) \/ AuthorizationAborts(w) \/ Authorize(w)

After(w) ==
  \/ NotInvoked(w) \/ Invoke(w)
  \/ FinalizeAccepted(w) \/ FinalizeUnknown(w) \/ FinalizeRejected(w)
  \/ FinalizeAuthFailure(w) \/ ResultIsLost(w) \/ Acknowledge(w)

Outside(m) == Reply(m) \/ Unsubscribe(m) \/ Suppress(m)

Next ==
  \/ CountRoom
  \/ \E m \in Msgs : Scheduler(m) \/ Clock(m) \/ Outside(m)
  \/ \E m \in Msgs, g \in 1..MaxGen : Publisher(m, g) \/ LoseTask(m, g)
  \/ \E w \in Workers, m \in Msgs, g \in 1..MaxGen : Load(w, m, g)
  \/ \E w \in Workers : Before(w) \/ After(w) \/ Crash(w)
  \/ Pause \/ Resume \/ Disconnect \/ Reconnect \/ BlockPasses

Spec == Init /\ [][Next]_vars
-----------------------------------------------------------------------------
(* Types *)

MsgType ==
  [status : Statuses, origin : Sendable \union {"none"}, gen : Nat,
   lease : {"none", "held", "expired"}, retries : Nat, rfc : BOOLEAN]

AttemptType == [gen : Nat, evidence : Evidence, expired : BOOLEAN]

WorkerType ==
  [pc : {"idle", "loaded", "denied", "checked", "authorized", "answered", "finished"},
   m : Msgs \union {NoMsg}, g : Nat, n : Nat, cred : Nat,
   result : Results \union {"none"}]

TypeOK ==
  /\ msg \in [Msgs -> MsgType]
  /\ att \in [Msgs -> Seq(AttemptType)]
  /\ enrollment \in [Msgs -> {"ACTIVE", "STOPPED"}]
  /\ suppressed \subseteq Msgs
  /\ campaign \in {"RUNNING", "PAUSED"}
  /\ mailbox \in [connected : BOOLEAN, gen : Nat, blocked : BOOLEAN]
  /\ pending \subseteq Msgs \X Nat
  /\ leased \subseteq Msgs \X Nat
  /\ tasks \subseteq Msgs \X Nat
  /\ wk \in [Workers -> WorkerType]
  /\ room \in Nat
  /\ stale \subseteq Msgs \X Nat
  /\ faults \in Nat
  /\ copies \in [Msgs -> [taken : Nat, denied : Nat]]

-----------------------------------------------------------------------------
(* Safety *)

\* The copies of a message the provider really took.
Copies(m) == copies[m].taken + copies[m].denied

\* However often tasks are duplicated, workers die and results are lost, the
\* provider takes at most one copy of a message more than the retries that were
\* scheduled for it: a second copy needs a broken HTTP connection that the adapter
\* reported as a rejection.  A mailbox on SMTP sends one copy at most.
OneCopyPerRetry ==
  \A m \in Msgs : Copies(m) <= 1 + IF OverHttp THEN msg[m].retries ELSE 0

\* A message that may be sent again, or that was reported failed or cancelled, is
\* one no copy of which was taken but those the adapter denied: what it reported as
\* accepted or unknown is final.  Over SMTP no copy is denied, so none was taken.
OnlyDeniedIsResent ==
  \A m \in Msgs : msg[m].status \in Cancellable \union {"FAILED", "CANCELLED"} =>
    /\ Copies(m) = copies[m].denied
    /\ ~OverHttp => Copies(m) = 0

\* What the row of a message says agrees with its attempts: SENT has the one
\* ACCEPTED attempt, SENDING a PREPARED one for the recovery sweep to find,
\* UNKNOWN_OUTCOME an UNKNOWN one for reconciliation, and a message that may be
\* sent again, has failed or was cancelled has no open attempt.  SENT is the truth;
\* that FAILED is (no copy was taken) does not follow, see OnlyDeniedIsResent.
HasEvidence(m, e) == \E n \in DOMAIN att[m] : att[m][n].evidence = e

StatusMatchesEvidence ==
  \A m \in Msgs :
    /\ msg[m].status = "SENT" <=> HasEvidence(m, "ACCEPTED")
    /\ msg[m].status = "SENT" => copies[m].taken = 1
    /\ msg[m].status = "SENDING" => HasEvidence(m, "PREPARED")
    /\ msg[m].status = "UNKNOWN_OUTCOME" => HasEvidence(m, "UNKNOWN")
    /\ msg[m].status \in Cancellable \union {"FAILED", "CANCELLED"} => Unresolved(m) = {}

\* Definitive rejections are bounded by the retry budget, whatever mixture of
\* rejections, lost results, crashes and expired claims a message goes through.
RejectionsWithinBudget ==
  \A m \in Msgs :
    Cardinality({n \in DOMAIN att[m] : att[m][n].evidence = "REJECTED"}) <= RetryBudget + 1

\* Pause, stop, disconnection and cooldown are final for authorization: an attempt
\* is created only if, at that moment, the campaign is running, the recipient is
\* active and the mailbox is usable at the generation the worker will send with.
AuthorizationFence ==
  [][\A w \in Workers :
       (wk'[w].pc = "authorized" /\ wk[w].pc # "authorized") =>
         /\ campaign = "RUNNING" /\ enrollment[wk[w].m] = "ACTIVE"
         /\ mailbox.connected /\ ~mailbox.blocked /\ mailbox.gen = wk[w].cred]_vars

\* The whole pipeline keeps the promise of SendPromise, read off the message rows.
Verdict(m) ==
  CASE msg[m].status = "SENT"                      -> "sent"
    [] msg[m].status \in {"FAILED", "CANCELLED"}   -> "unsent"
    [] msg[m].status = "SKIPPED"                   -> "dropped"
    [] OTHER                                       -> "open"

Promise == INSTANCE SendPromise WITH MayDeny <- OverHttp,
                                     MaxCopies <- RetryBudget + 1,
                                     deliveries <- [m \in Msgs |-> Copies(m)],
                                     denied <- [m \in Msgs |-> copies[m].denied],
                                     verdict <- [m \in Msgs |-> Verdict(m)]

PromiseKept == Promise!PromiseSpec

-----------------------------------------------------------------------------
(* The inductive invariant behind the safety properties *)

\* At most one worker holds the gates, and the rows it locked stay sendable.
GatesInv ==
  /\ \A v, w \in Workers : HoldsGates(v) /\ HoldsGates(w) => v = w
  /\ \A w \in Workers : HoldsGates(w) =>
       /\ wk[w].m \in Msgs
       /\ msg[wk[w].m].status \in Eligible /\ msg[wk[w].m].gen = wk[w].g

\* An attempt belongs to one worker, and until that worker is told of a copy, or
\* that there may be one, its attempt is open and every copy taken was denied.
InFlight(w) == wk[w].pc \in {"authorized", "answered"}
Unclaimed(w) ==
  \/ wk[w].pc = "authorized"
  \/ wk[w].pc = "answered" /\ wk[w].result \notin {"ACCEPTED", "UNKNOWN"}

OwnersInv ==
  /\ \A w \in Workers : wk[w].pc # "idle" => wk[w].m \in Msgs
  /\ \A w \in Workers : InFlight(w) => wk[w].n \in DOMAIN att[wk[w].m]
  /\ \A v, w \in Workers :
       InFlight(v) /\ InFlight(w) /\ wk[v].m = wk[w].m /\ wk[v].n = wk[w].n => v = w
  /\ \A w \in Workers : Unclaimed(w) =>
       wk[w].n \in Unresolved(wk[w].m) /\ copies[wk[w].m].taken = 0
  /\ \A w \in Workers : wk[w].pc = "answered" /\ wk[w].result = "ACCEPTED" =>
       copies[wk[w].m].taken = 1

\* The unique index, and what a copy that was not denied leaves in the database.
AttemptsInv ==
  \A m \in Msgs :
    /\ \A i, j \in Unresolved(m) : i = j
    /\ copies[m].taken <= 1
    /\ copies[m].taken = 1 => Unresolved(m) # {} \/ HasEvidence(m, "ACCEPTED")

\* A claim remembers where it came from, so that giving it back is possible.
ClaimsInv == \A m \in Msgs : msg[m].status = "QUEUED" => msg[m].origin \in Sendable

\* Everything together.
PipelineInv ==
  TypeOK /\ ClaimsInv /\ GatesInv /\ OwnersInv /\ AttemptsInv /\ StatusMatchesEvidence

-----------------------------------------------------------------------------
(* Liveness *)

\* The processes run: the scheduler's passes, the publisher, the workers and the
\* clock.  Nothing is assumed of people, and nothing of faults.
Fairness ==
  /\ WF_vars(CountRoom) /\ WF_vars(BlockPasses)
  /\ \A m \in Msgs :
       /\ WF_vars(Claim(m)) /\ WF_vars(RecoverExpiredClaim(m)) /\ WF_vars(Reconcile(m))
       /\ WF_vars(FindStaleExecution(m)) /\ WF_vars(RecoverStaleExecution(m))
       /\ WF_vars(ClaimLeaseExpires(m)) /\ WF_vars(DeadlinePasses(m))
       /\ \A g \in 1..MaxGen :
            /\ WF_vars(LeaseDelivery(m, g)) /\ WF_vars(Publish(m, g))
            /\ WF_vars(\E w \in Workers : Load(w, m, g))
  /\ \A w \in Workers : WF_vars(Before(w) \/ After(w))

FairSpec == Spec /\ Fairness

\* No authorized send is left in SENDING for ever, even when its worker died or
\* its result could not be stored.
SendingIsLeft == \A m \in Msgs : msg[m].status = "SENDING" ~> msg[m].status # "SENDING"

\* If in the end the campaign runs, the mailbox is connected and the recipient is
\* not stopped, the message is in the end resolved, whatever tasks, leases and
\* results were lost on the way.
Hospitable(m) == campaign = "RUNNING" /\ mailbox.connected /\ enrollment[m] = "ACTIVE"

EventuallyResolved ==
  \A m \in Msgs : <>[]Hospitable(m) => <>(msg[m].status \in Resolved)
=============================================================================
