----------------------------- MODULE Generation -----------------------------
(***************************************************************************)
(* Just-in-time generation (ADR-0011, ADR-0012): workers of the            *)
(* personalization queue lease the due generations of a campaign, call the *)
(* model with no transaction open, and write the message or the refusal.   *)
(*                                                                         *)
(* A chunk's first transaction claims its rows and then reads what they    *)
(* need, statement by statement, so a stop or a pause may come in between: *)
(* Claim and Load are two steps, undone together when the worker dies      *)
(* before its commit.  The model call and the transaction that records its *)
(* answer are one step, for nothing is written in between.  A generation   *)
(* and its message have one name; the content, the research, the token     *)
(* counts and the sending window are left out; an enrollment is active as  *)
(* long as nobody stopped it.                                              *)
(***************************************************************************)
EXTENDS Integers, FiniteSets

CONSTANTS Gens, Workers,
          MaxAttempts,   \* message_generations.max_attempts
          MaxErrors,     \* personalization_max_transient_errors
          Cap,           \* personalization_daily_generation_cap
          MaxFaults,     \* bound: crashes, leases that run out, refused calls, stops
          MaxPauses      \* bound: times the campaign is paused

ASSUME GenerationAssumption ==
    /\ MaxAttempts \in Nat \ {0} /\ MaxErrors \in Nat /\ Cap \in Nat \ {0}
    /\ MaxFaults \in Nat /\ MaxPauses \in Nat

VARIABLES
    gen,        \* message_generations
    message,    \* messages.status of the same message
    rendered,   \* how often the message's content was written (history)
    stopped,    \* enrollments that are no longer ACTIVE
    suppressed, \* addresses on the suppression list
    campaign,   \* campaigns.status, planning READY
    units,      \* personalization_usage_daily of the day
    task,       \* a generate_chunk task is waiting
    item,       \* what each worker holds of each generation
    billed,     \* calls the model answered, by message (history)
    returned,   \* answers that found the campaign paused (history)
    crashed,    \* TRUE once a worker died with attempts open (history)
    faults, pauses

vars == <<gen, message, rendered, stopped, suppressed, campaign, units, task, item,
          billed, returned, crashed, faults, pauses>>
worldVars == <<stopped, suppressed, campaign, pauses>>
historyVars == <<billed, returned, crashed>>

NoItem == [at |-> "none"]

\* mark_generation_pending: one job per message, which stays PLANNED.
Init ==
    /\ gen = [g \in Gens |-> [state |-> "PENDING", count |-> 0, errors |-> 0, lease |-> "free",
                              due |-> FALSE, open |-> 0, made |-> 0]]
    /\ message = [g \in Gens |-> "PLANNED"] /\ rendered = [g \in Gens |-> 0]
    /\ stopped = {} /\ suppressed = {} /\ campaign = "RUNNING" /\ units = 0 /\ task = FALSE
    /\ item = [w \in Workers |-> [g \in Gens |-> NoItem]]
    /\ billed = [g \in Gens |-> 0] /\ returned = [g \in Gens |-> 0] /\ crashed = FALSE
    /\ faults = 0 /\ pauses = 0

Fault == faults < MaxFaults /\ faults' = faults + 1

-----------------------------------------------------------------------------
(* The rows: what a statement makes of one of them.  None of them looks at  *)
(* the lease's owner; all but the ledger's want the row PENDING.            *)

\* Mutant: a lease that ran out is not free.
X_Claimable(g) ==
    /\ gen[g].state = "PENDING" /\ gen[g].due /\ gen[g].count < MaxAttempts
    /\ gen[g].lease = "free"
    /\ message[g] = "PLANNED" /\ campaign = "RUNNING"
\* claim_due's condition, and fail_exhausted's.
Claimable(g) ==
    /\ gen[g].state = "PENDING" /\ gen[g].due /\ gen[g].count < MaxAttempts
    /\ gen[g].lease # "held"
    /\ message[g] = "PLANNED" /\ campaign = "RUNNING"

Exhausted(g) ==
    gen[g].state = "PENDING" /\ gen[g].count >= MaxAttempts /\ gen[g].lease # "held"

\* claim_due's update.
ClaimDue(r) == [r EXCEPT !.lease = "held", !.count = @ + 1]

\* abandon_open_attempts, and insert_attempt.
AbandonOpenAttempts(r) == [r EXCEPT !.open = 0]
InsertAttempt(r) == [r EXCEPT !.made = @ + 1, !.open = r.made + 1]

\* finish_attempt: the ledger row of this number, if it is still RESERVED.
FinishAttempt(r, no) == [r EXCEPT !.open = IF @ = no THEN 0 ELSE @]

Decide(r, state) ==
    IF r.state = "PENDING" THEN [r EXCEPT !.state = state, !.lease = "free", !.due = FALSE] ELSE r

\* release_claim.
ReleaseClaim(r, refund, error) ==
    IF r.state # "PENDING" THEN r
    ELSE [r EXCEPT !.lease = "free", !.due = FALSE,
                   !.count = IF refund /\ @ > 0 THEN @ - 1 ELSE @,
                   !.errors = @ + IF error THEN 1 ELSE 0]

SupersedeGeneration(r) == Decide(r, "SUPERSEDED")
CompleteGeneration(r) == Decide(r, "SUCCEEDED")

\* Mutant: the failure does not reach the message.
X_FailMessage(status) == status
\* fail_generation: the message first, if it is still PLANNED.
FailMessage(status) == IF status = "PLANNED" THEN "FAILED" ELSE status
FailGeneration(r) == Decide(r, "FAILED")

\* reserve_usage and refund_usage.
ReserveUsage == units < Cap /\ units' = units + 1
RefundUsage == units' = IF units > 0 THEN units - 1 ELSE 0

-----------------------------------------------------------------------------
(* T1: one chunk *)

\* find_campaigns_with_due_generation.
Sweep ==
    /\ ~task /\ campaign = "RUNNING"
    /\ \E g \in Gens : /\ gen[g].state = "PENDING" /\ gen[g].lease # "held"
                       /\ gen[g].due \/ gen[g].count >= MaxAttempts
    /\ task' = TRUE
    /\ UNCHANGED <<gen, message, rendered, units, item, faults>> /\ UNCHANGED worldVars
    /\ UNCHANGED historyVars

\* run_chunk: fail_exhausted, then claim_due.
Claim(w) ==
    /\ task /\ \A g \in Gens : item[w][g] = NoItem
    /\ task' = FALSE
    /\ gen' = [g \in Gens |-> IF Exhausted(g) THEN FailGeneration(AbandonOpenAttempts(gen[g]))
                              ELSE IF Claimable(g) THEN ClaimDue(gen[g]) ELSE gen[g]]
    /\ message' = [g \in Gens |-> IF Exhausted(g) THEN FailMessage(message[g]) ELSE message[g]]
    /\ item' = [item EXCEPT ![w] = [g \in Gens |->
                   IF Claimable(g) THEN [at |-> "claimed", lease |-> gen[g].lease] ELSE NoItem]]
    /\ UNCHANGED <<rendered, units, faults>> /\ UNCHANGED worldVars /\ UNCHANGED historyVars

\* The row `r` of g is written and the item done with.
End(w, g, r) ==
    /\ gen' = [gen EXCEPT ![g] = r]
    /\ item' = [item EXCEPT ![w][g] = NoItem]

\* What load_work_item read of g's message, enrollment and campaign.
WorkItem(g) ==
    [at |-> "call", no |-> gen[g].made + 1, count |-> gen[g].count, errors |-> gen[g].errors,
     eligible |-> message[g] = "PLANNED" /\ g \notin stopped, running |-> campaign = "RUNNING"]

\* _claim, for one row: the minute is used up, the day is used up, or it is loaded.
Load(w, g) ==
    /\ item[w][g].at = "claimed"
    /\ LET r == AbandonOpenAttempts(gen[g])
       IN \/ Fault /\ End(w, g, ReleaseClaim(r, TRUE, FALSE)) /\ UNCHANGED units
          \/ units >= Cap /\ End(w, g, ReleaseClaim(r, TRUE, FALSE)) /\ UNCHANGED <<units, faults>>
          \/ /\ ReserveUsage /\ UNCHANGED faults
             /\ gen' = [gen EXCEPT ![g] = InsertAttempt(r)]
             /\ item' = [item EXCEPT ![w][g] = WorkItem(g)]
    /\ UNCHANGED <<message, rendered, task>> /\ UNCHANGED worldVars /\ UNCHANGED historyVars

-----------------------------------------------------------------------------
(* The call and T2 *)

Loaded(w) == \A g \in Gens : item[w][g].at # "claimed"

\* _process begins with what T1 read; its writes wait for a chunk that has locked
\* the row and is not committed.
Ready(w, g) ==
    /\ item[w][g].at = "call" /\ Loaded(w)
    /\ \A v \in Workers : item[v][g].at # "claimed"
Calls(w, g) == Ready(w, g) /\ item[w][g].eligible /\ item[w][g].running

Finished(w, g) == FinishAttempt(gen[g], item[w][g].no)

Billed(g) == billed' = [billed EXCEPT ![g] = @ + 1]

Rest == UNCHANGED <<task>> /\ UNCHANGED worldVars

\* _abort_ineligible.
AbortIneligible(w, g) ==
    /\ Ready(w, g) /\ ~item[w][g].eligible
    /\ End(w, g, SupersedeGeneration(Finished(w, g)))
    /\ RefundUsage
    /\ UNCHANGED <<message, rendered, faults>> /\ UNCHANGED historyVars /\ Rest

\* _defer_paused.
DeferPaused(w, g) ==
    /\ Ready(w, g) /\ item[w][g].eligible /\ ~item[w][g].running
    /\ End(w, g, ReleaseClaim(Finished(w, g), TRUE, FALSE))
    /\ RefundUsage
    /\ UNCHANGED <<message, rendered, faults>> /\ UNCHANGED historyVars /\ Rest

\* The message fails for good: _fail, _reject at the last attempt, too many errors.
Fail(w, g) ==
    /\ End(w, g, FailGeneration(Finished(w, g)))
    /\ message' = [message EXCEPT ![g] = FailMessage(@)]

\* _handle_model_error: a permanent one waits for an operator and counts nothing.
PermanentError(w, g) ==
    /\ Calls(w, g) /\ Fault
    /\ End(w, g, ReleaseClaim(Finished(w, g), TRUE, FALSE))
    /\ UNCHANGED <<message, rendered, units>> /\ UNCHANGED historyVars /\ Rest

\* A transient one is given back and counted apart, with the count T1 read.  A read
\* that timed out and a connection that broke are among them: the model may have
\* answered, and billed, all the same.
TransientError(w, g) ==
    /\ Calls(w, g)
    /\ Billed(g) \/ UNCHANGED billed
    /\ IF item[w][g].errors + 1 > MaxErrors THEN Fail(w, g)
       ELSE End(w, g, ReleaseClaim(Finished(w, g), TRUE, TRUE)) /\ UNCHANGED message
    /\ UNCHANGED <<rendered, units, faults, returned, crashed>> /\ Rest

\* Mutant: a refused answer gives its attempt back.
X_Reject(w, g) ==
    /\ Calls(w, g)
    /\ Billed(g)
    /\ IF item[w][g].count >= MaxAttempts THEN Fail(w, g)
       ELSE End(w, g, ReleaseClaim(Finished(w, g), TRUE, FALSE)) /\ UNCHANGED message
    /\ UNCHANGED <<rendered, units, faults, returned, crashed>> /\ Rest
\* _reject: malformed, refused by the model or by the validator.
Reject(w, g) ==
    /\ Calls(w, g)
    /\ Billed(g)
    /\ IF item[w][g].count >= MaxAttempts THEN Fail(w, g)
       ELSE End(w, g, ReleaseClaim(Finished(w, g), FALSE, FALSE)) /\ UNCHANGED message
    /\ UNCHANGED <<rendered, units, faults, returned, crashed>> /\ Rest

\* lock_for_finalize: the generation and its message, locked and read again.
Eligible(g) ==
    /\ gen[g].state = "PENDING" /\ message[g] = "PLANNED"
    /\ g \notin stopped /\ g \notin suppressed

\* finalize_message.
FinalizeMessage(g) ==
    /\ message' = [message EXCEPT ![g] = "SCHEDULED"]
    /\ rendered' = [rendered EXCEPT ![g] = @ + 1]

\* _finalize: overtaken, or paused, or written.
Finalize(w, g) ==
    /\ Calls(w, g)
    /\ Billed(g)
    /\ \/ /\ ~Eligible(g)
          /\ End(w, g, SupersedeGeneration(Finished(w, g)))
          /\ RefundUsage
          /\ UNCHANGED <<message, rendered, returned>>
       \/ /\ Eligible(g) /\ campaign # "RUNNING"
          /\ End(w, g, ReleaseClaim(Finished(w, g), TRUE, FALSE))
          /\ RefundUsage
          /\ returned' = [returned EXCEPT ![g] = @ + 1]
          /\ UNCHANGED <<message, rendered>>
       \/ /\ Eligible(g) /\ campaign = "RUNNING"
          /\ FinalizeMessage(g)
          /\ End(w, g, CompleteGeneration(Finished(w, g)))
          /\ UNCHANGED <<units, returned>>
    /\ UNCHANGED <<faults, crashed>> /\ Rest

Process(w, g) ==
    \/ AbortIneligible(w, g) \/ DeferPaused(w, g)
    \/ TransientError(w, g) \/ Reject(w, g) \/ Finalize(w, g)

-----------------------------------------------------------------------------
(* Everybody else *)

\* The worker dies.  A chunk that has not been committed is as if never begun; after
\* that its leases and attempts stay as they are, and the call it waited for, if any,
\* may have been answered.
Crash(w) ==
    /\ \E g \in Gens : item[w][g] # NoItem
    /\ Fault
    /\ UNCHANGED billed \/ \E g \in Gens : Calls(w, g) /\ Billed(g)
    /\ IF Loaded(w) THEN crashed' = TRUE /\ UNCHANGED gen
       ELSE /\ gen' = [g \in Gens |-> IF item[w][g].at # "claimed" THEN gen[g]
                         ELSE [gen[g] EXCEPT !.count = @ - 1, !.lease = item[w][g].lease]]
            /\ UNCHANGED crashed
    /\ item' = [item EXCEPT ![w] = [g \in Gens |-> NoItem]]
    /\ UNCHANGED <<message, rendered, units, task, returned>> /\ UNCHANGED worldVars

Held(g) == \E w \in Workers : item[w][g] # NoItem

\* lease_expires_at passes, under a call that takes too long or after a crash.
Expire(g) ==
    /\ gen[g].lease = "held" /\ \A w \in Workers : item[w][g].at # "claimed"
    /\ IF Held(g) THEN Fault ELSE UNCHANGED faults
    /\ gen' = [gen EXCEPT ![g].lease = "expired"]
    /\ UNCHANGED <<message, rendered, units, task, item>> /\ UNCHANGED worldVars
    /\ UNCHANGED historyVars

\* next_attempt_at passes.
Due(g) ==
    /\ gen[g].state = "PENDING" /\ ~gen[g].due
    /\ gen' = [gen EXCEPT ![g].due = TRUE]
    /\ UNCHANGED <<message, rendered, units, task, item, faults>> /\ UNCHANGED worldVars
    /\ UNCHANGED historyVars

\* Usage is counted by day.
NewDay ==
    /\ units >= Cap
    /\ units' = 0
    /\ UNCHANGED <<gen, message, rendered, task, item, faults>> /\ UNCHANGED worldVars
    /\ UNCHANGED historyVars

Others == UNCHANGED <<gen, rendered, units, task, item>> /\ UNCHANGED historyVars

\* A reply, an unsubscribe or a bounce stops the enrollment and its messages.
Stop(g) ==
    /\ g \notin stopped /\ Fault
    /\ stopped' = stopped \cup {g}
    /\ message' = [message EXCEPT ![g] = IF @ \in {"PLANNED", "SCHEDULED"} THEN "SKIPPED" ELSE @]
    /\ UNCHANGED <<suppressed, campaign, pauses>> /\ Others

\* A suppression by hand stops nothing by itself.
Suppress(g) ==
    /\ g \notin suppressed /\ Fault
    /\ suppressed' = suppressed \cup {g}
    /\ UNCHANGED <<message, stopped, campaign, pauses>> /\ Others

Pause ==
    /\ campaign = "RUNNING" /\ pauses < MaxPauses
    /\ campaign' = "PAUSED" /\ pauses' = pauses + 1
    /\ UNCHANGED <<message, stopped, suppressed, faults>> /\ Others

Resume ==
    /\ campaign = "PAUSED"
    /\ campaign' = "RUNNING"
    /\ UNCHANGED <<message, stopped, suppressed, pauses, faults>> /\ Others

-----------------------------------------------------------------------------
Work(w) == Claim(w) \/ \E g \in Gens : Load(w, g) \/ Process(w, g)

Time == NewDay \/ \E g \in Gens : Due(g) \/ (~Held(g) /\ Expire(g))

Next ==
    \/ Sweep \/ Time \/ Pause \/ Resume
    \/ \E w \in Workers : Work(w) \/ Crash(w) \/ \E g \in Gens : PermanentError(w, g)
    \/ \E g \in Gens : (Held(g) /\ Expire(g)) \/ Stop(g) \/ Suppress(g)

\* The scheduler sweeps every few seconds, workers finish what they took (a model
\* call has a timeout), and time passes.
Fairness ==
    /\ WF_vars(Sweep) /\ \A w \in Workers : WF_vars(Work(w))
    /\ WF_vars(NewDay) /\ \A g \in Gens : WF_vars(Due(g)) /\ WF_vars(~Held(g) /\ Expire(g))

Spec == Init /\ [][Next]_vars /\ Fairness

-----------------------------------------------------------------------------
(* Properties *)

\* A generation and its message tell one story: what was generated was written
\* exactly once, a message on its way to a sender has its generation behind it,
\* and a generation that failed has no message that could still be sent.
GenerationMatchesMessage ==
    \A g \in Gens :
        /\ rendered[g] = IF gen[g].state = "SUCCEEDED" THEN 1 ELSE 0
        /\ message[g] = "SCHEDULED" => gen[g].state = "SUCCEEDED"
        /\ gen[g].state = "FAILED" => message[g] \in {"FAILED", "SKIPPED"}

\* What is left of "so billed calls per message are bounded by max_attempts" (jit.py):
\* whatever crashes, outlived leases and late workers do, the model answers no more
\* often for one message than max_attempts, and once more for each attempt given back
\* after an answer: an answer that found the campaign paused, or one that was lost and
\* counted as a transient error.  Of those there can be more than
\* max_transient_errors, for workers that overlap on one generation compare the counts
\* they read: at most one more for each further attempt.
BilledBounded ==
    \A g \in Gens : /\ billed[g] <= MaxAttempts + gen[g].errors + returned[g]
                    /\ gen[g].errors <= MaxErrors + (MaxAttempts - 1)

\* Every generation of a campaign that keeps running is decided, whichever worker
\* dies on the way; the exception is a message somebody stopped before it was
\* generated, whose job nothing ends.  No attempt of a decided generation stays
\* open, but of a worker that died.
EveryJobDecided ==
    <>[](campaign # "RUNNING"
         \/ \A g \in Gens : \/ g \in stopped
                            \/ gen[g].state # "PENDING" /\ (gen[g].open = 0 \/ crashed))

=============================================================================
