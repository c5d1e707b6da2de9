------------------------------ MODULE Drafting ------------------------------
(***************************************************************************)
(* Authoring one hyper-personalized campaign, from its first step to its   *)
(* activation: several people edit the same sequence and its objective,    *)
(* the model drafts reference emails, a worker generates the samples of a  *)
(* batch, somebody approves them, somebody activates.                      *)
(*                                                                         *)
(* An editing request reads the campaign, its sequence and its steps with  *)
(* no lock and writes later; the triggers of both tables take the campaign *)
(* row and look at its status again, and the transaction holds that row to *)
(* its commit, so the writes of one request are one step here.  The model's *)
(* answer comes between two transactions.  Wording is a member of Texts,   *)
(* an objective a member of Configs, a digest the content it is taken of,  *)
(* and one lead is sampled.  The length of a wait, the attachments, the    *)
(* templates' own history and the expiry of samples are left out.          *)
(***************************************************************************)
EXTENDS Integers, Sequences, FiniteSets, SequencesExt

CONSTANTS Users, Emails, Waits, Texts, Configs, Batches, Samplers,
          None,        \* no objective, no text, no batch
          Starts,      \* the sequences the campaign may already have
          Places,      \* bound: the positions an email is added at
          MaxEdits,    \* bound: requests that write steps or the objective
          MaxSlips    \* bound: lost, repeated and failing sample tasks

ASSUME DraftingAssumption ==
    /\ Emails \cap Waits = {}
    /\ None \notin Texts \cup Configs \cup Batches
    /\ Starts \subseteq Seq(Emails \cup Waits)
    /\ Places \subseteq Nat \ {0} /\ MaxEdits \in Nat /\ MaxSlips \in Nat

Steps == Emails \cup Waits

VARIABLES
    status,     \* campaigns.status: DRAFT or RUNNING
    sequence,   \* campaign_sequences: its status, objective and version
    row,        \* sequence_steps: position (0: no such row), version, text
    approvals,  \* campaign_personalization_approvals: the approved digests
    batch,      \* personalization_previews, by batch: digest, state of each row
    queue,      \* generate_previews tasks sent and not yet taken
    run,        \* what each preview worker holds of the batch it works on
    op,         \* what each user's request has read and means to write
    frozen,     \* what activation froze (history)
    lost,       \* TRUE once a batch has lost the task that was to end it (history)
    edits, slips

draftingVars == <<status, sequence, row, approvals, batch, queue, run, op, frozen, lost,
                  edits, slips>>
campaignVars == <<status, sequence, row, approvals, frozen>>
batchVars == <<batch, queue, run, lost, slips>>

NoRow == [pos |-> 0, ver |-> 0, text |-> None]
NoOp == [kind |-> "none"]
NoRun == [batch |-> None]
NoBatch == [digest |-> None, state |-> [e \in Emails |-> "none"]]

Live(r) == {s \in Steps : r[s].pos > 0}

\* list_steps_ordered: a step's place in the list by position.
At(r, s) == Cardinality({x \in Live(r) : r[x].pos <= r[s].pos})

Ordered(r) == [i \in 1..Cardinality(Live(r)) |-> CHOOSE s \in Live(r) : At(r, s) = i]

EmailsOf(r) == Live(r) \cap Emails

\* A row id no step has had yet: ids are not used again.
Fresh(kind, r) == {s \in kind : r[s].ver = 0}

\* compute_approval_digest: the objective and, by position, the reference emails.
Digest(config, r) ==
    [config |-> config, emails |-> {<<r[e].pos, r[e].text>> : e \in EmailsOf(r)}]

CurrentDigest == Digest(sequence.config, row)

StartRow(s) ==
    [x \in Steps |-> IF x \in Range(s)
                     THEN [pos |-> CHOOSE i \in DOMAIN s : s[i] = x, ver |-> 1,
                           text |-> IF x \in Emails THEN CHOOSE t \in Texts : TRUE ELSE None]
                     ELSE NoRow]

DraftingInit ==
    /\ status = "DRAFT"
    /\ \E s \in Starts :
          /\ row = StartRow(s)
          /\ sequence \in [st : {"DRAFT"}, ver : {1},
                           config : IF s = <<>> THEN {None} ELSE Configs]
    /\ approvals = {} /\ batch = [b \in Batches |-> NoBatch]
    /\ queue = {} /\ run = [w \in Samplers |-> NoRun]
    /\ op = [u \in Users |-> NoOp]
    /\ frozen = None /\ lost = FALSE /\ edits = 0 /\ slips = 0

-----------------------------------------------------------------------------
(* How a list read earlier is applied to the rows there are now *)

\* _apply_full_reorder: only ids that still have a row move; an update of a row
\* raises its version.
Reposition(r, ordering) ==
    [s \in Steps |-> IF s \in Live(r) \cap DOMAIN ordering
                     THEN [r[s] EXCEPT !.pos = ordering[s], !.ver = @ + 1]
                     ELSE r[s]]

\* CampaignRepository.insert_step, from the list `seen`.
InsertStep(r, seen, position, s, text) ==
    LET n == Cardinality(Live(seen))
        target == IF position > n + 1 THEN n + 1 ELSE position
        after == {x \in Live(seen) : seen[x].pos >= target}
    IN [Reposition(r, [x \in after |-> seen[x].pos + 1]) EXCEPT
            ![s] = [pos |-> target, ver |-> 1, text |-> text]]

\* CampaignRepository.delete_step, from the list `seen`.
DeleteStep(r, seen, s) ==
    LET left == Live(seen) \ {s}
    IN Reposition([r EXCEPT ![s].pos = 0, ![s].text = None],
                  [x \in left |-> At(seen, x) - IF At(seen, x) > At(seen, s) THEN 1 ELSE 0])

\* app_guard_frozen_sequence_steps and app_guard_sequence: what every write of a
\* step or of the objective passes, holding the campaign row.
Guarded == status = "DRAFT" /\ sequence.st = "DRAFT"

\* sequence_steps' UNIQUE (sequence_id, position), and the foreign key that keeps
\* a sampled step.
Consistent(r) ==
    /\ \A s, x \in Live(r) : s # x => r[s].pos # r[x].pos
    /\ \A b \in Batches, e \in Emails : batch[b].state[e] # "none" => r[e].pos > 0

Done(u) == op' = [op EXCEPT ![u] = NoOp]

\* A write that breaks a rule rolls its whole request back.
Write(u, r) ==
    /\ row' = IF Guarded /\ Consistent(r) THEN r ELSE row
    /\ Done(u)
    /\ UNCHANGED <<status, sequence, approvals, frozen, edits>> /\ UNCHANGED batchVars

Refuse(u) == Done(u) /\ UNCHANGED <<campaignVars, edits>> /\ UNCHANGED batchVars

-----------------------------------------------------------------------------
(* Requests: what they read *)

\* _require_draft_campaign and the reads that follow it.
Begin(u, request) ==
    /\ op[u] = NoOp /\ status = "DRAFT" /\ edits < MaxEdits
    /\ edits' = edits + 1
    /\ op' = [op EXCEPT ![u] = request]
    /\ UNCHANGED campaignVars /\ UNCHANGED batchVars

\* The page an editor saves was loaded with this version of the step.
OpenStep(u, e) ==
    /\ e \in EmailsOf(row)
    /\ \E t \in Texts \ {row[e].text} : Begin(u, [kind |-> "edit", step |-> e, text |-> t, seen |-> row[e]])

\* delete_step: `pair` is with_adjacent_wait.
AskDelete(u, s) ==
    /\ s \in Live(row)
    /\ \E pair \in {FALSE, (s \in Emails)} :
          Begin(u, [kind |-> "delete", step |-> s, pair |-> pair, seen |-> row])

\* add_step of an email, with the wait before it or without.
AskAdd(u) ==
    \E p \in Places, wait \in BOOLEAN :
        Begin(u, [kind |-> "add", pos |-> p, wait |-> wait, text |-> CHOOSE t \in Texts : TRUE,
                  seen |-> row])

\* duplicate_step reads the email it copies and the list.
AskDuplicate(u, e) ==
    /\ e \in EmailsOf(row)
    /\ Begin(u, [kind |-> "add", pos |-> row[e].pos + 1, wait |-> TRUE,
                 text |-> row[e].text, seen |-> row])

\* reorder_steps: a permutation of exactly the steps it read.
AskReorder(u) ==
    \E s, x \in Live(row) :
        /\ row[s].pos < row[x].pos
        /\ Begin(u, [kind |-> "reorder",
                     ordering |-> [y \in Live(row) |->
                         At(row, IF y = s THEN x ELSE IF y = x THEN s ELSE y)]])

\* put_config, with the version the page was loaded with or with none.
AskConfig(u) ==
    \E c \in Configs \ {sequence.config}, v \in {0, sequence.ver} :
        Begin(u, [kind |-> "config", config |-> c, ver |-> v])

\* ReferenceTemplateService._plan: REWRITE_ALL, one STEP, or CREATE of two emails.
Plan(u) ==
    /\ sequence.config # None
    /\ LET request(targets) == [kind |-> "draft", stage |-> "plan", seen |-> row,
                                config |-> sequence.config, targets |-> targets]
       IN \/ EmailsOf(row) # {} /\ Begin(u, request(EmailsOf(row)))
          \/ \E e \in EmailsOf(row) : Begin(u, request({e}))
          \/ Live(row) = {} /\ Begin(u, request({}))

-----------------------------------------------------------------------------
(* Requests: what they write *)

\* Mutant: the update does not compare the version it was given.
X_Same(e, seen) == row[e].pos > 0
\* CampaignRepository.update_step, its row taken FOR UPDATE: the version expected.
Same(e, seen) == row[e].pos > 0 /\ row[e].ver = seen.ver

Retext(r, e, t) == [r EXCEPT ![e].text = t, ![e].ver = @ + 1]

SaveStep(u) ==
    /\ op[u].kind = "edit"
    /\ LET e == op[u].step
       IN IF Same(e, op[u].seen) THEN Write(u, Retext(row, e, op[u].text)) ELSE Refuse(u)

\* The wait that goes with an email: the one before it, or the one after it.
Neighbour(seen, e) ==
    LET list == Ordered(seen)
        i == CHOOSE j \in DOMAIN list : list[j] = e
        at == IF i > 1 /\ list[i - 1] \in Waits THEN {i - 1}
              ELSE IF i < Len(list) /\ list[i + 1] \in Waits THEN {i + 1} ELSE {}
    IN {list[j] : j \in at}

\* The second deletion of a pair reads the list again, after the first has taken
\* the campaign row.
Delete(u) ==
    /\ op[u].kind = "delete"
    /\ LET s == op[u].step
           seen == op[u].seen
           with == IF op[u].pair THEN Neighbour(seen, s) ELSE {}
       IN IF with = {} THEN Write(u, DeleteStep(row, seen, s))
          ELSE LET r == DeleteStep(row, seen, CHOOSE w \in with : TRUE)
               IN IF r[s].pos = 0 THEN Refuse(u) ELSE Write(u, DeleteStep(r, r, s))

\* SequenceService.add_step: the email's list is read after its wait was inserted.
Inserted(r, seen, position, wait, e, w, text) ==
    IF ~wait THEN InsertStep(r, seen, position, e, text)
    ELSE LET mid == InsertStep(r, seen, position, w, None)
         IN InsertStep(mid, mid, mid[w].pos + 1, e, text)

Add(u) ==
    /\ op[u].kind = "add"
    /\ Fresh(Emails, row) # {} /\ Fresh(Waits, row) # {}    \* bound: step ids
    /\ Write(u, Inserted(row, op[u].seen, op[u].pos, op[u].wait,
                         CHOOSE e \in Fresh(Emails, row) : TRUE,
                         CHOOSE w \in Fresh(Waits, row) : TRUE, op[u].text))

Reorder(u) ==
    /\ op[u].kind = "reorder"
    /\ Write(u, Reposition(row, op[u].ordering))

\* set_sequence_personalization_config: the version, when one is given.
SetConfig(c, ver) ==
    sequence' = IF Guarded /\ ver \in {0, sequence.ver}
                THEN [sequence EXCEPT !.config = c, !.ver = @ + 1] ELSE sequence

PutConfig(u) ==
    /\ op[u].kind = "config"
    /\ SetConfig(op[u].config, op[u].ver)
    /\ Done(u)
    /\ UNCHANGED <<status, row, approvals, frozen, edits>> /\ UNCHANGED batchVars

\* _draft: the model's answer is refused for good.
GiveUp(u) ==
    /\ op[u].kind = "draft" /\ op[u].stage = "plan"
    /\ Refuse(u)

\* _write, before its first lock: the campaign is as it was planned from.
Recheck(u) ==
    /\ op[u].kind = "draft" /\ op[u].stage = "plan"
    /\ IF /\ status = "DRAFT" /\ sequence.config = op[u].config
          /\ IF op[u].targets = {} THEN Live(row) = {}
             ELSE \A e \in op[u].targets : Same(e, op[u].seen[e])
       THEN /\ op' = [op EXCEPT ![u].stage = "checked"]
            /\ UNCHANGED campaignVars /\ UNCHANGED batchVars /\ UNCHANGED edits
       ELSE Refuse(u)

\* _write: each target through update_step, with the version it was planned from.
WriteDrafts(u, t) ==
    /\ op[u].kind = "draft" /\ op[u].stage = "checked" /\ op[u].targets # {}
    /\ LET targets == op[u].targets
           retexted == [e \in Steps |-> IF e \in targets
                            THEN [row[e] EXCEPT !.text = t, !.ver = @ + 1] ELSE row[e]]
       IN IF \A e \in targets : Same(e, op[u].seen[e]) THEN Write(u, retexted) ELSE Refuse(u)

\* _create: the first email at position 1, the second behind a wait.  Its first
\* list may be older than the lock its first write takes.
CreateDrafts(u, t) ==
    /\ op[u].kind = "draft" /\ op[u].stage = "checked" /\ op[u].targets = {}
    /\ Cardinality(Fresh(Emails, row)) >= 2 /\ Fresh(Waits, row) # {}   \* bound: step ids
    /\ \E seen \in {op[u].seen, row} :
          LET e == CHOOSE x \in Fresh(Emails, row) : TRUE
              first == InsertStep(row, seen, 1, e, t)
              f == CHOOSE x \in Fresh(Emails, first) : TRUE
              w == CHOOSE x \in Fresh(Waits, first) : TRUE
          IN Write(u, Inserted(first, first, 2, TRUE, f, w, t))

-----------------------------------------------------------------------------
(* Samples and their approval *)

\* create_previews reads; a batch id that has rows is answered with those rows,
\* and nothing is written or sent.
AskPreviews(u, b) ==
    /\ op[u] = NoOp /\ status = "DRAFT" /\ batch[b] = NoBatch
    /\ sequence.config # None /\ EmailsOf(row) # {}
    /\ op' = [op EXCEPT ![u] = [kind |-> "previews", batch |-> b, digest |-> CurrentDigest,
                                emails |-> EmailsOf(row)]]
    /\ UNCHANGED <<campaignVars, edits>> /\ UNCHANGED batchVars

\* insert_previews: a row per email that was read, of the digest that was read.
PreviewRows(digest, emails) ==
    [digest |-> digest, state |-> [e \in Emails |-> IF e \in emails THEN "PENDING" ELSE "none"]]

\* The task is sent after the commit, and the broker may refuse it.
CreatePreviews(u) ==
    /\ op[u].kind = "previews"
    /\ LET b == op[u].batch
           sent == queue' = queue \cup {b} /\ UNCHANGED <<lost, slips>>
           refused == /\ slips < MaxSlips /\ slips' = slips + 1 /\ lost' = TRUE
                      /\ UNCHANGED queue
       IN IF batch[b] = NoBatch /\ op[u].emails \subseteq EmailsOf(row)
          THEN /\ batch' = [batch EXCEPT ![b] = PreviewRows(op[u].digest, op[u].emails)]
               /\ sent \/ refused
          ELSE UNCHANGED <<batch, queue, lost, slips>>
    /\ Done(u)
    /\ UNCHANGED <<campaignVars, edits, run>>

\* What a worker still has to do: the samples claimed, by position, and whether
\* they can be generated.
Left(b, rows, ok) == IF rows = <<>> THEN NoRun ELSE [batch |-> b, rows |-> rows, ok |-> ok]

\* load_sequence_config, as run_batch looks at it.
Generable == status = "DRAFT" /\ sequence.config # None

\* run_batch's first transaction: the objective and the steps as they are now.
\* SKIP LOCKED lets go of the rows at its commit.  Idle workers are alike.
TakeBatch(w) ==
    \E b \in queue :
        /\ run[w] = NoRun /\ w = CHOOSE x \in Samplers : run[x] = NoRun
        /\ \/ queue' = queue \ {b} /\ UNCHANGED slips
           \/ slips < MaxSlips /\ slips' = slips + 1 /\ UNCHANGED queue  \* delivered again
        /\ run' = [run EXCEPT ![w] =
              Left(b, SelectSeq(Ordered(row), LAMBDA e : e \in Emails /\ batch[b].state[e] = "PENDING"),
                   Generable)]
        /\ UNCHANGED <<batch, lost, op, edits>> /\ UNCHANGED campaignVars

\* finish_preview.
FinishPreview(b, e, state) ==
    batch' = [batch EXCEPT ![b].state[e] = IF @ = "PENDING" THEN state ELSE @]

\* Mutant: a worker stops at the first sample it could not generate.
X_Following(r, state) ==
    Left(r.batch, IF state = "FAILED" THEN <<>> ELSE Tail(r.rows), r.ok)
\* A failed sample fails the ones after it.
Following(r, state) == Left(r.batch, Tail(r.rows), r.ok /\ state = "OK")

\* _finish_ok, or _finish_failed: the model's last answer was refused, the minute
\* or the day is used up, the campaign was not a draft, the one before failed.
FinishRow(w) ==
    /\ run[w] # NoRun
    /\ \E state \in {"OK", "FAILED"} :
          /\ ~run[w].ok => state = "FAILED"
          /\ FinishPreview(run[w].batch, Head(run[w].rows), state)
          /\ run' = [run EXCEPT ![w] = Following(@, state)]
    /\ UNCHANGED <<queue, lost, slips, op, edits>> /\ UNCHANGED campaignVars

\* generate_previews' handlers: a transient failure is tried again, any other (or
\* the last of them) fails what is unfinished.
FailUnfinished(b) ==
    batch' = [batch EXCEPT ![b].state = [e \in Emails |->
                 IF batch[b].state[e] = "PENDING" THEN "FAILED" ELSE batch[b].state[e]]]

Failing(w) ==
    /\ run[w] # NoRun /\ slips < MaxSlips /\ slips' = slips + 1
    /\ run' = [run EXCEPT ![w] = NoRun]
    /\ UNCHANGED <<op, edits>> /\ UNCHANGED campaignVars

RunError(w) ==
    /\ Failing(w)
    /\ \/ queue' = queue \cup {run[w].batch} /\ UNCHANGED batch
       \/ FailUnfinished(run[w].batch) /\ UNCHANGED queue
    /\ UNCHANGED lost

\* The process dies; Celery had acknowledged the task already.
RunCrash(w) ==
    /\ Failing(w)
    /\ lost' = TRUE
    /\ UNCHANGED <<batch, queue>>

AllOk(b) == \A e \in Emails : batch[b].state[e] \in {"none", "OK"}

Covers(b) ==
    Cardinality({e \in Emails : batch[b].state[e] # "none"}) >= Cardinality(EmailsOf(row))

\* insert_approval, ON CONFLICT DO NOTHING.
InsertApproval(digest) == approvals' = approvals \cup {digest}

\* approve: an approval is of a digest, and a finished batch never changes, so
\* its reads and its insert are one step.
Approve(u, b) ==
    /\ op[u] = NoOp /\ status = "DRAFT" /\ batch[b] # NoBatch
    /\ batch[b].digest = CurrentDigest /\ AllOk(b) /\ Covers(b)
    /\ InsertApproval(CurrentDigest)
    /\ UNCHANGED <<status, sequence, row, frozen, op, edits>> /\ UNCHANGED batchVars

-----------------------------------------------------------------------------
(* Activation: one transaction that holds the campaign row *)

\* PreflightService._check_sequence: emails and waits alternate, emails at the ends.
Alternating ==
    LET list == Ordered(row)
    IN /\ list # <<>> /\ list[1] \in Emails /\ list[Len(list)] \in Emails
       /\ \A i \in 1..Len(list) - 1 : (list[i] \in Emails) # (list[i + 1] \in Emails)

\* approval_status: an approval of this very digest.
Approved(digest) == digest \in approvals

\* Mutant: any approval the campaign ever had will do.
X_Reviewed == sequence.config # None /\ approvals # {}
\* _check_personalization: the digest of what is about to be frozen is approved.
Reviewed == sequence.config # None /\ Approved(CurrentDigest)

\* freeze_sequence.
Freeze == sequence' = [sequence EXCEPT !.st = "FROZEN", !.ver = @ + 1]

Activate ==
    /\ status = "DRAFT" /\ Alternating /\ Reviewed
    /\ status' = "RUNNING"
    /\ Freeze
    /\ frozen' = [digest |-> CurrentDigest]
    /\ UNCHANGED <<row, approvals, op, edits>> /\ UNCHANGED batchVars

-----------------------------------------------------------------------------
Ask(u) ==
    \/ \E e \in Emails : OpenStep(u, e) \/ AskDuplicate(u, e)
    \/ \E s \in Steps : AskDelete(u, s)
    \/ AskAdd(u) \/ AskReorder(u) \/ AskConfig(u) \/ Plan(u)
    \/ \E b \in Batches : AskPreviews(u, b) \/ Approve(u, b)

Answer(u) ==
    \/ SaveStep(u) \/ Delete(u) \/ Add(u) \/ Reorder(u) \/ PutConfig(u)
    \/ GiveUp(u) \/ Recheck(u)
    \/ \E t \in Texts : WriteDrafts(u, t) \/ CreateDrafts(u, t)
    \/ CreatePreviews(u)

DraftingWork(w) == TakeBatch(w) \/ FinishRow(w)

DraftingNext ==
    \/ \E u \in Users : Ask(u) \/ Answer(u)
    \/ \E w \in Samplers : DraftingWork(w) \/ RunError(w) \/ RunCrash(w)
    \/ Activate

\* Preview workers keep working: a task that was sent is taken, a model call ends.
DraftingFairness == WF_draftingVars(\E w \in Samplers : DraftingWork(w))

DraftingSpec == DraftingInit /\ [][DraftingNext]_draftingVars /\ DraftingFairness

-----------------------------------------------------------------------------
(* Properties *)

\* A campaign runs on nothing but what somebody approved with samples of every
\* email in front of them: the digest frozen has a batch of that very digest,
\* every sample of which was generated (ADR-0011, approve and preflight together),
\* however edits, late workers and approvals interleave.
ActivatedWasReviewed ==
    status = "RUNNING" =>
        /\ frozen.digest \in approvals
        /\ \E b \in Batches :
              /\ batch[b].digest = frozen.digest
              /\ \A e \in Emails : batch[b].state[e] \in {"none", "OK"}

\* No text is replaced by an author who had another text in front of them: an
\* editor's page or the model's plan held the text its write replaces.
NothingOverwritten ==
    [][\A e \in EmailsOf(row) : row'[e].pos > 0 /\ row'[e].text # row[e].text =>
          \E u \in Users :
              /\ op'[u] = NoOp
              /\ \/ op[u].kind = "edit" /\ op[u].step = e /\ op[u].seen.text = row[e].text
                 \/ op[u].kind = "draft" /\ op[u].seen[e].text = row[e].text]_draftingVars

\* "A person is watching this batch, so it must always end"
\* (workers/personalization.py): every sample comes to OK or FAILED, unless the
\* broker or a crash loses the batch's task, which nothing sends again.
EveryBatchEnds ==
    <>[](lost \/ \A b \in Batches, e \in Emails : batch[b].state[e] # "PENDING")

=============================================================================
