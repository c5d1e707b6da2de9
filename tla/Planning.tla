------------------------------- MODULE Planning -------------------------------
(***************************************************************************)
(* A campaign from the selection of its audience to the end of its         *)
(* sequence: the capture of an audience revision, activation, and the      *)
(* chunked planning tasks that turn accepted members into enrollments and  *)
(* first messages (ENROLL), give these their content and due time          *)
(* (RENDER), and later plan one follow-up per accepted email.              *)
(*                                                                         *)
(* A task claims its job by a lease named after the task, works in a       *)
(* second transaction and queues itself again under the same name.  The    *)
(* broker is acknowledged when a worker starts, so a crash loses the task. *)
(* Leads are numbered in the order of the candidate list, the capture      *)
(* ordinal.  Every member of a list is a candidate: an archived lead is    *)
(* excluded like a suppressed one.  Due times and content are left out,    *)
(* and campaigns written by the language model are in Generation.          *)
(***************************************************************************)
EXTENDS Naturals, FiniteSets, FiniteSetsExt

CONSTANTS
    Workers,      \* campaign workers
    Audiences,    \* audience revisions
    NumLeads,     \* candidates of a selection
    NumSteps,     \* emails of the sequence
    BatchSize,
    NumIds,       \* bound on the tasks of one kind alive at a time
    MaxFaults     \* bound on losses, repeats, errors, expiries, suppressions

ASSUME PlanningAssumption ==
    /\ {NumLeads, NumSteps, BatchSize, NumIds} \subseteq Nat \ {0}
    /\ MaxFaults \in Nat
    /\ Audiences \cap {"ENROLL", "RENDER", "none"} = {}

VARIABLES
    status,      \* campaigns.status
    future,      \* whether start_at lies in the future
    planned,     \* campaigns.planning_status is READY
    draft,       \* draft_audience_id
    active,      \* activated_audience_id
    audience,    \* campaign_audiences.status
    member,      \* campaign_audience_members.eligibility_status
    job,         \* campaign_planning_jobs, the capture job under its audience
    tasks,       \* the campaigns queue
    work,        \* the task each worker executes
    suppressed,  \* leads whose address is suppressed
    enrollment,  \* campaign_enrollments, PASSED where planning passed a member over
    message,     \* messages.status of each lead and step
    sweep,       \* enrollments locked by a progression transaction
    trouble,     \* what went wrong so far
    faults
vars == <<status, future, planned, draft, active, audience, member, job, tasks,
          work, suppressed, enrollment, message, sweep, trouble, faults>>
Campaign == <<status, future, planned, draft, active>>
Outreach == <<enrollment, message>>

Leads == 1 .. NumLeads
Steps == 1 .. NumSteps
Phases == {"ENROLL", "RENDER"}
Jobs == Audiences \cup Phases
Ids == 1 .. NumIds
None == "none"
Idle == [pc |-> "idle"]
NoJob == [state |-> "NONE", owner |-> 0, live |-> FALSE, cursor |-> 0]
NewJob == [NoJob EXCEPT !.state = "PENDING"]
Task(j, n) == [job |-> j, id |-> n, abandon |-> FALSE]

Accepted(a) == {l \in Leads : member[a][l] = "ACCEPTED"}
\* The first rows of a query with LIMIT BatchSize.
Batch(S) == {l \in S : Cardinality({k \in S : k <= l}) <= BatchSize}
Sizes(S, n) == Min({Cardinality(S), n})
\* The names a new task of a job may get: none that is still about.
FreshIds(j) == {n \in Ids : /\ job[j].owner # n
                            /\ \A t \in tasks : ~(t.job = j /\ t.id = n)
                            /\ \A w \in Workers : work[w] # Idle => ~(work[w].task.job = j /\ work[w].task.id = n)}
Fault(kind) ==
    /\ faults < MaxFaults
    /\ faults' = faults + 1
    /\ trouble' = trouble \cup kind
Calm == UNCHANGED <<trouble, faults>>
\* send_task after the commit of a request: the broker may refuse it.
Publish(t) == \/ tasks' = tasks \cup {t} /\ Calm
              \/ UNCHANGED tasks /\ Fault({"lost"})

Init ==
    /\ status = "DRAFT" /\ future = FALSE /\ planned = FALSE
    /\ draft = None /\ active = None
    /\ audience = [a \in Audiences |-> "NONE"]
    /\ member = [a \in Audiences |-> [l \in Leads |-> "NONE"]]
    /\ job = [j \in Jobs |-> NoJob]
    /\ tasks = {} /\ work = [w \in Workers |-> Idle]
    /\ suppressed = {}
    /\ enrollment = [l \in Leads |-> [state |-> "NONE", step |-> 0]]
    /\ message = [l \in Leads |-> [s \in Steps |-> "NONE"]]
    /\ sweep = {} /\ trouble = {} /\ faults = 0

-----------------------------------------------------------------------------
(* Requests of the API *)

\* select_audience: one CAPTURING revision at a time (unique index).
SelectAudience ==
    /\ status = "DRAFT"
    /\ \A a \in Audiences : audience[a] # "CAPTURING"
    /\ \E b \in Audiences : audience[b] = "NONE"
    /\ LET a == CHOOSE b \in Audiences : audience[b] = "NONE" IN
       /\ audience' = [audience EXCEPT ![a] = "CAPTURING"]
       /\ job' = [job EXCEPT ![a] = NewJob]
       /\ Publish(Task(a, 1))
    /\ UNCHANGED <<Campaign, member, work, suppressed, Outreach, sweep>>

CommitAudience(a) ==
    /\ status = "DRAFT" /\ audience[a] = "READY" /\ draft # a
    /\ draft' = a
    /\ UNCHANGED <<status, future, planned, active, audience, member, job, tasks, work,
                   suppressed, Outreach, sweep, trouble, faults>>

\* abandon_audience leaves the change to a task of the same kind.
RequestAbandon(a) ==
    /\ audience[a] = "CAPTURING" /\ FreshIds(a) # {}
    /\ Publish([Task(a, Min(FreshIds(a))) EXCEPT !.abandon = TRUE])
    /\ UNCHANGED <<Campaign, audience, member, job, work, suppressed, Outreach, sweep>>

\* The preflight of the audience.
AudienceReady == draft # None /\ audience[draft] = "READY" /\ Accepted(draft) # {}

\* activate_campaign: the revision is fixed, a start in the future waits.
SetActivated(later) ==
    /\ status' = IF later THEN "SCHEDULED" ELSE "RUNNING"
    /\ future' = later
    /\ active' = draft

Activate(later) ==
    /\ status = "DRAFT" /\ AudienceReady
    /\ SetActivated(later)
    /\ job' = [j \in Jobs |-> IF j \in Phases THEN NewJob ELSE job[j]]
    /\ Publish(Task("ENROLL", 1))
    /\ UNCHANGED <<planned, draft, audience, member, work, suppressed, Outreach, sweep>>

\* update_campaign_status, under the lock and the version the caller checked.
SetStatus(to) ==
    /\ status' = to
    /\ UNCHANGED <<planned, draft, active, audience, member, job, tasks, work,
                   suppressed, Outreach, sweep, trouble, faults>>

Pause ==
    /\ status \in {"RUNNING", "SCHEDULED"}
    /\ SetStatus("PAUSED") /\ UNCHANGED future

Resume ==
    /\ status = "PAUSED"
    /\ SetStatus(IF future THEN "SCHEDULED" ELSE "RUNNING") /\ UNCHANGED future

Archive ==
    /\ status \notin {"RUNNING", "ARCHIVED"}
    /\ SetStatus("ARCHIVED") /\ future' = FALSE     \* no longer read

-----------------------------------------------------------------------------
(* The planning tasks *)

\* Mutant: the owner of the lease is not let in again.
X_Claimable(t) ==
    /\ job[t.job].state \in {"PENDING", "PROCESSING"}
    /\ job[t.job].owner = 0 \/ ~job[t.job].live

\* The UPDATE that claims a job; its condition lets the lease's owner in again.
Claimable(t) ==
    /\ job[t.job].state \in {"PENDING", "PROCESSING"}
    /\ job[t.job].owner = 0 \/ ~job[t.job].live \/ job[t.job].owner = t.id

Claim(w, t) ==
    /\ job' = [job EXCEPT ![t.job].state = "PROCESSING", ![t.job].owner = t.id, ![t.job].live = TRUE]
    /\ work' = [work EXCEPT ![w] = [pc |-> "claimed", task |-> t, cursor |-> job[t.job].cursor]]

\* A worker takes a task; it drops one whose job is not claimable.
Take(w, t) ==
    /\ work[w] = Idle /\ t \in tasks
    /\ \/ tasks' = tasks \ {t} /\ Calm
       \/ UNCHANGED tasks /\ Fault({})     \* and is given it once more
    /\ IF Claimable(t) THEN Claim(w, t) ELSE UNCHANGED <<job, work>>
    /\ UNCHANGED <<Campaign, audience, member, suppressed, Outreach, sweep>>

Doing(w, j, pc) == work[w].pc = pc /\ work[w].task.job \in j /\ ~work[w].task.abandon
WentTo(w, pc) == work' = [work EXCEPT ![w] = [pc |-> pc, task |-> @.task]]
\* The rows read, the last ordinal among them and whether the batch was full.
Hold(w, rows, upto, full) ==
    work' = [work EXCEPT ![w] = [pc |-> "read", task |-> @.task, cursor |-> @.cursor,
                                 rows |-> rows, upto |-> upto, full |-> full]]

\* The reads of a capture chunk: who of the batch is eligible.
ReadLeads(w) ==
    /\ Doing(w, Audiences, "claimed")
    /\ LET batch == Batch({l \in Leads : l > work[w].cursor}) IN
       Hold(w, batch \ suppressed, work[w].cursor + Cardinality(batch), TRUE)
    /\ UNCHANGED <<Campaign, audience, member, job, tasks, suppressed, Outreach, sweep, trouble, faults>>

\* Mutant: a batch with a suppressed member counts as the last one.
X_ReadMembers(w) ==
    /\ Doing(w, {"ENROLL"}, "claimed")
    /\ LET rows == Batch({l \in Accepted(active) : l > work[w].cursor}) IN
       Hold(w, rows \ suppressed, IF rows = {} THEN work[w].cursor ELSE Max(rows),
            Cardinality(rows \ suppressed) = BatchSize)
    /\ UNCHANGED <<Campaign, audience, member, job, tasks, suppressed, Outreach, sweep, trouble, faults>>

\* The reads of an enrollment chunk: a suppressed member is passed over.
ReadMembers(w) ==
    /\ Doing(w, {"ENROLL"}, "claimed")
    /\ LET rows == Batch({l \in Accepted(active) : l > work[w].cursor}) IN
       Hold(w, rows \ suppressed, IF rows = {} THEN work[w].cursor ELSE Max(rows),
            Cardinality(rows) = BatchSize)
    /\ UNCHANGED <<Campaign, audience, member, job, tasks, suppressed, Outreach, sweep, trouble, faults>>

\* Rows of other transactions, which FOR UPDATE SKIP LOCKED leaves out.
Locked == UNION {work[w].rows : w \in {v \in Workers : Doing(v, {"RENDER"}, "read")}}

\* The order of message ids is no order of the leads: any batch of the rest.
ReadPlanned(w) ==
    /\ Doing(w, {"RENDER"}, "claimed")
    /\ LET rest == {l \in Leads : message[l][1] = "PLANNED"} \ Locked IN
       \E rows \in kSubset(Sizes(rest, BatchSize), rest)  : Hold(w, rows, 0, Cardinality(rows) = BatchSize)
    /\ UNCHANGED <<Campaign, audience, member, job, tasks, suppressed, Outreach, sweep, trouble, faults>>

Ended(j) == job[j].state \in {"READY", "FAILED"}
\* update_job_progress writes what this task knows, whoever holds the lease.
\* Nobody reads the lease and the cursor of a job that ended: they are reset.
Progress(w, upto) ==
    LET j == work[w].task.job IN
    IF Ended(j) THEN job ELSE [job EXCEPT ![j].cursor = upto, ![j].owner = work[w].task.id, ![j].live = TRUE]
Finish(j, state) == [job EXCEPT ![j] = [NoJob EXCEPT !.state = state]]

\* A member is inserted once (unique key), as what it was when it was read.
Captured(w, batch) == [l \in Leads |->
    LET m == member[work[w].task.job][l] IN
    IF l \notin batch \/ m # "NONE" THEN m
    ELSE IF l \in work[w].rows THEN "ACCEPTED" ELSE "EXCLUDED"]

\* Members enter a CAPTURING revision only (trigger).
CommitCapture(w) ==
    /\ Doing(w, Audiences, "read")
    /\ LET a == work[w].task.job
           upto == work[w].upto
           batch == (work[w].cursor + 1) .. upto
           finished == upto >= NumLeads IN
       IF audience[a] # "CAPTURING"
       THEN WentTo(w, "failing") /\ UNCHANGED <<audience, member, job>>
       ELSE /\ member' = [member EXCEPT ![a] = Captured(w, batch)]
            /\ IF finished
               THEN /\ job' = Finish(a, "READY")
                    /\ audience' = [audience EXCEPT ![a] = "READY"]
                    /\ work' = [work EXCEPT ![w] = Idle]
               ELSE /\ job' = Progress(w, upto)
                    /\ WentTo(w, "next")
                    /\ UNCHANGED audience
    /\ UNCHANGED <<Campaign, tasks, suppressed, Outreach, sweep, trouble, faults>>

CommitAbandon(w) ==
    /\ work[w].pc = "claimed" /\ work[w].task.abandon
    /\ LET a == work[w].task.job IN
       IF audience[a] = "CAPTURING"
       THEN /\ job' = Finish(a, "FAILED")
            /\ audience' = [audience EXCEPT ![a] = "ABANDONED"]
            /\ work' = [work EXCEPT ![w] = Idle]
       ELSE WentTo(w, "failing") /\ UNCHANGED <<job, audience>>
    /\ UNCHANGED <<Campaign, member, tasks, suppressed, Outreach, sweep, trouble, faults>>

\* The table's CHECK: processed_count, the last ordinal, within total_count,
\* the number of accepted members.
WithinTotal(upto) == upto <= Cardinality(Accepted(active))

Enrolled(rows) == [l \in Leads |->
    IF l \in rows /\ enrollment[l].state \in {"NONE", "PASSED"} THEN [state |-> "ACTIVE", step |-> 1]
    ELSE enrollment[l]]

FirstMessages(rows) == [l \in Leads |->
    IF l \in rows /\ message[l][1] = "NONE" THEN [message[l] EXCEPT ![1] = "PLANNED"] ELSE message[l]]
\* complete_enroll_job sets campaigns.planning_status with the job.
CompleteEnroll == job' = Finish("ENROLL", "READY") /\ planned' = TRUE

CommitEnroll(w) ==
    /\ Doing(w, {"ENROLL"}, "read")
    /\ LET rows == work[w].rows
           upto == work[w].upto
           over == {l \in Accepted(active) : work[w].cursor < l /\ l <= upto} \ rows IN
       IF ~WithinTotal(upto)
       THEN WentTo(w, "failing") /\ UNCHANGED <<enrollment, message, job, planned>>
       ELSE /\ enrollment' = [l \in Leads |-> IF l \in over /\ enrollment[l].state = "NONE"
                                THEN [state |-> "PASSED", step |-> 0] ELSE Enrolled(rows)[l]]
            /\ message' = FirstMessages(rows)
            /\ IF work[w].full
               THEN job' = Progress(w, upto) /\ WentTo(w, "next") /\ UNCHANGED planned
               ELSE CompleteEnroll /\ WentTo(w, "render")
    /\ UNCHANGED <<status, future, draft, active, audience, member, tasks, suppressed, sweep, trouble, faults>>

Rendered(rows) == [l \in Leads |->
    IF l \in rows THEN [message[l] EXCEPT ![1] = "SCHEDULED"] ELSE message[l]]

CommitRender(w) ==
    /\ Doing(w, {"RENDER"}, "read")
    /\ message' = Rendered(work[w].rows)
    /\ IF work[w].full
       THEN job' = Progress(w, job["RENDER"].cursor) /\ WentTo(w, "next")
       ELSE job' = Finish("RENDER", "READY") /\ work' = [work EXCEPT ![w] = Idle]
    /\ UNCHANGED <<Campaign, audience, member, tasks, suppressed, enrollment, sweep, trouble, faults>>

\* After the commit: the task queues itself again under its own name, or the
\* first rendering task.
Continue(w) ==
    /\ \/ work[w].pc = "next" /\ tasks' = tasks \cup {work[w].task}
       \/ /\ work[w].pc = "render" /\ FreshIds("RENDER") # {}
          /\ tasks' = tasks \cup {Task("RENDER", Min(FreshIds("RENDER")))}
    /\ work' = [work EXCEPT ![w] = Idle]
    /\ UNCHANGED <<Campaign, audience, member, job, suppressed, Outreach, sweep, trouble, faults>>

\* An exception anywhere after the claim rolls the open transaction back.
Error(w) ==
    /\ work[w].pc \in {"claimed", "read", "next", "render"}
    /\ Fault({"error"})
    /\ WentTo(w, "failing")
    /\ UNCHANGED <<Campaign, audience, member, job, tasks, suppressed, Outreach, sweep>>

\* Mutant: the revision of a failed capture is left CAPTURING.
X_FailCapture(a) ==
    IF audience[a] # "CAPTURING" THEN UNCHANGED <<job, audience>>
    ELSE job' = Finish(a, "FAILED") /\ UNCHANGED audience

\* The audience's trigger refuses the end of a revision that ended already.
FailCapture(a) ==
    IF audience[a] # "CAPTURING" THEN UNCHANGED <<job, audience>>
    ELSE job' = Finish(a, "FAILED") /\ audience' = [audience EXCEPT ![a] = "FAILED"]
\* Nothing refuses this one: the job may be READY, or the work of another task.
FailPlanning(j) == job' = Finish(j, "FAILED") /\ UNCHANGED audience

Fail(w) ==
    /\ work[w].pc = "failing"
    /\ IF work[w].task.job \in Audiences THEN FailCapture(work[w].task.job) ELSE FailPlanning(work[w].task.job)
    /\ work' = [work EXCEPT ![w] = Idle]
    /\ UNCHANGED <<Campaign, member, tasks, suppressed, Outreach, sweep, trouble, faults>>

Crash(w) ==
    /\ work[w] # Idle
    /\ Fault({"lost"})
    /\ work' = [work EXCEPT ![w] = Idle]
    /\ UNCHANGED <<Campaign, audience, member, job, tasks, suppressed, Outreach, sweep>>

\* A lease runs out; while its task is still about, that is a fault.
Expire(j) ==
    /\ job[j].live /\ job[j].state = "PROCESSING"
    /\ job' = [job EXCEPT ![j].live = FALSE]
    /\ IF \/ \E t \in tasks : t.job = j /\ t.id = job[j].owner
          \/ \E w \in Workers : work[w] # Idle /\ work[w].task.job = j /\ work[w].task.id = job[j].owner
       THEN Fault({}) ELSE Calm
    /\ UNCHANGED <<Campaign, audience, member, tasks, work, suppressed, Outreach, sweep>>

-----------------------------------------------------------------------------
(* The sequence under way *)

\* Claim and authorization of a due message: SendPipeline in two steps.
Send(l, s) ==
    /\ message[l][s] = "SCHEDULED" /\ status = "RUNNING" /\ planned
    /\ enrollment[l].state = "ACTIVE"
    /\ message' = [message EXCEPT ![l][s] = IF l \in suppressed THEN "SKIPPED" ELSE "SENDING"]
    /\ UNCHANGED <<Campaign, audience, member, job, tasks, work, suppressed, enrollment, sweep, trouble, faults>>

Settle(l, s) ==
    /\ message[l][s] = "SENDING"
    /\ \E o \in {"SENT", "FAILED"} : message' = [message EXCEPT ![l][s] = o]
    /\ UNCHANGED <<Campaign, audience, member, job, tasks, work, suppressed, enrollment, sweep, trouble, faults>>

\* A reply or an event stops the enrollment and what it has not sent; it waits
\* for the rows other transactions hold.
Stop(l) ==
    /\ enrollment[l].state = "ACTIVE" /\ l \notin sweep \cup Locked
    /\ enrollment' = [enrollment EXCEPT ![l] = [state |-> "STOPPED", step |-> 0]]
    /\ message' = [message EXCEPT ![l] = [s \in Steps |->
                     IF @[s] \in {"PLANNED", "SCHEDULED"} THEN "SKIPPED" ELSE @[s]]]
    /\ UNCHANGED <<Campaign, audience, member, job, tasks, work, suppressed, sweep, trouble, faults>>

ChangeSuppression(l) ==
    /\ Fault({})
    /\ suppressed' = IF l \in suppressed THEN suppressed \ {l} ELSE suppressed \cup {l}
    /\ UNCHANGED <<Campaign, audience, member, job, tasks, work, Outreach, sweep>>

Progressing == status = "RUNNING" /\ planned     \* get_progression_context

\* Mutant: an email on its way to the provider counts as accepted.
X_Progressable(l) ==
    /\ enrollment[l].state = "ACTIVE"
    /\ message[l][enrollment[l].step] \in {"SENDING", "SENT", "FAILED"}

\* fetch_progressable_enrollments: the current email has its outcome.
Progressable(l) ==
    /\ enrollment[l].state = "ACTIVE"
    /\ message[l][enrollment[l].step] \in {"SENT", "FAILED"}

\* advance_enrollments_chunk reads the campaign and locks enrollments.
BeginSweep(l) ==
    /\ Progressing /\ l \notin sweep /\ Progressable(l)
    /\ sweep' = sweep \cup {l}
    /\ UNCHANGED <<Campaign, audience, member, job, tasks, work, suppressed, Outreach, trouble, faults>>

Current(l) == message[l][enrollment[l].step]
End(l, state) ==
    /\ enrollment' = [enrollment EXCEPT ![l] = [state |-> state, step |-> 0]]
    /\ UNCHANGED message

FailEnrollment(l) == Current(l) = "FAILED" /\ End(l, "FAILED")

\* plan_next_email finds no later email.
CompleteEnrollment(l) ==
    /\ Current(l) # "FAILED" /\ enrollment[l].step = NumSteps
    /\ End(l, "COMPLETED")

\* A suppressed address is looked at again by the next sweep.
LeaveWaiting(l) ==
    /\ Current(l) # "FAILED" /\ enrollment[l].step < NumSteps /\ l \in suppressed
    /\ UNCHANGED Outreach

\* The next email is inserted and rendered, unless an earlier run did.
FollowUp(l, next) == message' = [message EXCEPT ![l][next] = IF @ = "NONE" THEN "SCHEDULED" ELSE @]
Advance(l, next) == enrollment' = [enrollment EXCEPT ![l].step = next]

PlanFollowUp(l) ==
    /\ Current(l) # "FAILED" /\ enrollment[l].step < NumSteps /\ l \notin suppressed
    /\ LET next == enrollment[l].step + 1 IN FollowUp(l, next) /\ Advance(l, next)

\* advance_batch for one of the enrollments.
EndSweep(l) ==
    /\ l \in sweep
    /\ sweep' = sweep \ {l}
    /\ FailEnrollment(l) \/ CompleteEnrollment(l) \/ LeaveWaiting(l) \/ PlanFollowUp(l)
    /\ UNCHANGED <<Campaign, audience, member, job, tasks, work, suppressed, trouble, faults>>

-----------------------------------------------------------------------------
Request == SelectAudience \/ Pause \/ Resume \/ Archive
    \/ (\E a \in Audiences : CommitAudience(a) \/ RequestAbandon(a))
    \/ (\E later \in BOOLEAN : Activate(later))
Commit(w) == CommitCapture(w) \/ CommitAbandon(w) \/ CommitEnroll(w) \/ CommitRender(w)
Step(w) == ReadLeads(w) \/ ReadMembers(w) \/ ReadPlanned(w) \/ Commit(w) \/ Continue(w) \/ Fail(w)
Delivery == \E w \in Workers, t \in tasks : Take(w, t)
Sequence(l) == Stop(l) \/ ChangeSuppression(l) \/ BeginSweep(l) \/ EndSweep(l)
    \/ (\E s \in Steps : Send(l, s) \/ Settle(l, s))
Next == Request \/ Delivery
    \/ (\E w \in Workers : Step(w) \/ Error(w) \/ Crash(w))
    \/ (\E j \in Jobs : Expire(j))
    \/ (\E l \in Leads : Sequence(l))

\* The queue is first in, first out and a worker ends what it begins, unless a
\* fault interferes: however often a user asks to abandon a capture, the tasks
\* that plan get their turn.
Planners == \E w \in Workers, t \in tasks : ~t.abandon /\ Take(w, t)
Spec == Init /\ [][Next]_vars
    /\ WF_vars(Delivery) /\ SF_vars(Planners)
    /\ \A w \in Workers : WF_vars(Step(w))

-----------------------------------------------------------------------------

\* The lists of a selection are locked while its revision is CAPTURING.  A
\* capture job that came to an end never leaves them locked, and a revision
\* that ended never has a job at work, whichever task, abandonment or stale
\* worker ended it.
JobMatchesAudience ==
    \A a \in Audiences :
        /\ audience[a] = "CAPTURING" <=> job[a].state \in {"PENDING", "PROCESSING"}
        /\ audience[a] = "READY" <=> job[a].state = "READY"
        /\ audience[a] \in {"FAILED", "ABANDONED"} <=> job[a].state = "FAILED"

\* Once planning is READY every accepted member of the activated revision has
\* its enrollment and first message, or was suppressed when its chunk was
\* planned; and nobody else was enrolled.
NobodyMissed ==
    /\ planned => \A l \in Accepted(active) :
                     /\ enrollment[l].state # "NONE"
                     /\ enrollment[l].state # "PASSED" => message[l][1] # "NONE"
    /\ \A l \in Leads : enrollment[l].state # "NONE" =>
           active # None /\ audience[active] = "READY" /\ l \in Accepted(active)

\* A follow-up exists only after every earlier email was accepted by the
\* provider, and an enrollment points at its latest email until it ends.
OneStepAtATime ==
    \A l \in Leads :
        /\ \A s, t \in Steps : s < t /\ message[l][t] # "NONE" => message[l][s] = "SENT"
        /\ enrollment[l].state = "ACTIVE" =>
              \A s \in Steps : message[l][s] # "NONE" <=> s <= enrollment[l].step
        /\ enrollment[l].state = "COMPLETED" => \A s \in Steps : message[l][s] = "SENT"
        /\ enrollment[l].state = "FAILED" => \E s \in Steps : message[l][s] = "FAILED"

\* Unless a task is lost, every capture and every activation comes to the end
\* of its planning, through repeated deliveries and leases that run out.
EveryPlanEnds ==
    <>[](\/ "lost" \in trouble
         \/ /\ \A j \in Jobs : j # "RENDER" /\ job[j].state # "NONE" => Ended(j)
            /\ job["ENROLL"].state = "READY" /\ "error" \notin trouble => Ended("RENDER"))

=============================================================================
