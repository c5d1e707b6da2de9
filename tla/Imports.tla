------------------------------ MODULE Imports ------------------------------
(***************************************************************************)
(* CSV imports of leads and of suppressions (imports/service.py,           *)
(* imports/repository.py, workers/imports.py), and the contacts they share *)
(* with the users of the workspace: leads, lists, list members and manual  *)
(* suppressions (leads/service.py, suppression/service.py).                *)
(*                                                                         *)
(* Confirming an upload inserts the job and sends a task before the        *)
(* request's transaction commits.  The task claims the job under a lease   *)
(* named after its own id, commits, handles one batch of rows in a second  *)
(* transaction that also moves the job's cursor, and sends itself again    *)
(* until the last row.  A transaction is one step.  The version a user's   *)
(* edit carries (expected_version) is left out: a stale edit is refused    *)
(* and changes nothing, so an edit is one of the row as it stands.         *)
(***************************************************************************)
EXTENDS Integers, Sequences, FiniteSetsExt, Functions

CONSTANTS Files,        \* the uploaded files: one job each (unique storage key)
          RowsOf,       \* [Files -> Seq(People \cup {BAD})]
          KindOf,       \* [Files -> {"LEADS", "SUPPRESSION"}]
          TargetOf,     \* [Files -> Lists \cup {NONE}]
          People, Lists, Importers, NONE,
          BAD,          \* a row without an address, or with an invalid one
          BatchSize,    \* workers/imports.py: BATCH_SIZE
          MaxDispatch,  \* bound: confirm requests per file
          MaxEdits,     \* bound: commands of users
          MaxMishaps    \* bound: what may go wrong

\* NONE stands for a null, which is no value of any column.
ASSUME ImportsAssumption ==
    /\ RowsOf \in [Files -> Seq(People \cup {BAD})]
    /\ BatchSize \in Nat \ {0}
    /\ {MaxDispatch, MaxEdits, MaxMishaps} \subseteq Nat
    /\ \A f \in Files : KindOf[f] = "SUPPRESSION" => TargetOf[f] = NONE
    /\ NONE \notin Files \cup {"PENDING", "PROCESSING", "COMPLETED", "COMPLETED_WITH_ERRORS",
                              "FAILED", "ACCEPTED", "DUPLICATE", "REJECTED", "ACTIVE", "RELEASED"}

VARIABLES
    job,         \* import_jobs: the committed row of each file
    confirming,  \* files whose row is inserted by a transaction still open
    task,        \* imports.process_chunk messages waiting in the queue
    sent,        \* tasks a file's confirm requests sent: their ids are 1..sent
    worker,      \* what each worker process is doing
    result,      \* import_row_results
    lead,        \* leads, by id
    members,     \* lead_list_memberships
    archived,    \* the archived lists
    held,        \* lists an audience capture holds (capture_count > 0)
    suppression, \* the MANUAL suppression of each address
    adding,      \* add-member requests between their checks and their insert
    overlapped,  \* ghost: files two workers held a snapshot of at once
    lost,        \* ghost: the tasks of each file that died or were turned away
    mishaps, edits

contacts == <<lead, members, suppression>>
queue == <<task, sent>>
importsVars == <<job, confirming, queue, worker, result, contacts, archived, held,
                 adding, overlapped, lost, mishaps, edits>>

------------------------------------------------------------------------------
(* Rows and records *)

Total(f) == Len(RowsOf[f])
Ids == 1..Cardinality(People)
NoJob == [status |-> NONE, cursor |-> 0, owner |-> 0, live |-> FALSE,
          accepted |-> 0, duplicate |-> 0, rejected |-> 0]
IdleImporter == [pc |-> "idle", file |-> NONE, id |-> 0, job |-> NoJob]
Completed == {"COMPLETED", "COMPLETED_WITH_ERRORS"}
Ended(f) == job[f].status \in Completed \cup {"FAILED"}
LeadOf(a) == {i \in Ids : lead[i] # NONE /\ lead[i].address = a}
ActiveList(l) == l \notin archived
ActiveLead(i) == lead[i] # NONE /\ lead[i].status = "ACTIVE"

\* normalize_email and the lenient cleaning of the optional cells.
Valid(f, r) == RowsOf[f][r] # BAD

ImportsInit ==
    /\ job = [f \in Files |-> NoJob]
    /\ confirming = {} /\ task = {} /\ sent = [f \in Files |-> 0]
    /\ worker = [w \in Importers |-> IdleImporter]
    /\ result = [f \in Files |-> [r \in 1..Total(f) |-> NONE]]
    /\ lead = [i \in Ids |-> NONE] /\ members = {}
    /\ archived = {} /\ held = {} /\ adding = {}
    /\ suppression = [a \in People |-> NONE]
    /\ overlapped = {} /\ lost = [f \in Files |-> {}]
    /\ mishaps = 0 /\ edits = 0

Mishap == mishaps < MaxMishaps /\ mishaps' = mishaps + 1
Edit == edits < MaxEdits /\ edits' = edits + 1

------------------------------------------------------------------------------
(* The confirm request *)

Inserted == [NoJob EXCEPT !.status = "PENDING"]
KeyIsFree(f) == job[f] = NoJob /\ f \notin confirming

\* The list is checked, the row is inserted and the task is sent; a second
\* request for the same file finds the row and sends nothing.
ConfirmImport(f) ==
    /\ KeyIsFree(f) /\ sent[f] < MaxDispatch
    /\ ActiveList(TargetOf[f])
    /\ confirming' = confirming \cup {f}
    /\ sent' = [sent EXCEPT ![f] = @ + 1]
    /\ task' = task \cup {[file |-> f, id |-> sent[f] + 1]}
    /\ UNCHANGED <<job, worker, result, contacts, archived, held, adding,
                   overlapped, lost, mishaps, edits>>

CommitConfirm(f) ==
    /\ f \in confirming
    /\ confirming' = confirming \ {f}
    /\ job' = [job EXCEPT ![f] = Inserted]
    /\ UNCHANGED <<queue, worker, result, contacts, archived, held, adding,
                   overlapped, lost, mishaps, edits>>

\* The request fails after it sent the task.
RollBackConfirm(f) ==
    /\ f \in confirming /\ Mishap
    /\ confirming' = confirming \ {f}
    /\ UNCHANGED <<job, queue, worker, result, contacts, archived, held, adding,
                   overlapped, lost, edits>>

------------------------------------------------------------------------------
(* The task *)

\* Mutant: a retry is turned away by the lease of its own first run.
X_Claimable(j, id) ==
    \/ j.status = "PENDING"
    \/ j.status = "PROCESSING" /\ ~j.live

Claimable(j, id) ==
    \/ j.status = "PENDING"
    \/ j.status = "PROCESSING" /\ (~j.live \/ j.owner = id)

Claimed(j, id) == [j EXCEPT !.status = "PROCESSING", !.owner = id, !.live = TRUE]

\* A worker takes a task, whose copy may be delivered again, and claims the job.
\* A task that finds no row it may claim returns and is gone.
ClaimJob(w, t) ==
    LET f == t.file
        j == Claimed(job[f], t.id)
    IN  /\ worker[w].pc = "idle" /\ t \in task
        /\ \/ task' = task \ {t} /\ UNCHANGED mishaps
           \/ Mishap /\ UNCHANGED task
        /\ \/ /\ Claimable(job[f], t.id)
              /\ job' = [job EXCEPT ![f] = j]
              /\ worker' = [worker EXCEPT ![w] = [pc |-> "claimed", file |-> f,
                                                  id |-> t.id, job |-> j]]
              /\ overlapped' = IF \E v \in Importers : /\ worker[v].file = f
                                                     /\ worker[v].pc # "again"
                               THEN overlapped \cup {f} ELSE overlapped
              /\ UNCHANGED lost
           \/ /\ ~Claimable(job[f], t.id)
              /\ lost' = IF job[f].owner = t.id THEN lost
                         ELSE [lost EXCEPT ![f] = @ \cup {t.id}]
              /\ UNCHANGED <<job, worker, overlapped>>
    /\ UNCHANGED <<confirming, sent, result, contacts, archived, held, adding,
                   edits>>

\* Mutant: the row of the cursor is read once more.
X_BatchRows(f, cursor) ==
    {r \in 1..Total(f) : cursor <= r /\ r <= cursor + BatchSize}

\* Mutant: the row after the cursor is taken for one already handled.
Y_BatchRows(f, cursor) ==
    {r \in 1..Total(f) : cursor + 1 < r /\ r <= cursor + BatchSize}

BatchRows(f, cursor) ==
    {r \in 1..Total(f) : cursor < r /\ r <= cursor + BatchSize}

\* The address of a row is new: no lead, no MANUAL suppression, and no earlier
\* row of the batch has it.  A released suppression becomes ACTIVE again but is
\* not new (was_insert is FALSE).
IsNew(f, rows, r) ==
    LET a == RowsOf[f][r]
    IN  /\ IF KindOf[f] = "LEADS" THEN LeadOf(a) = {} ELSE suppression[a] = NONE
        /\ \A q \in rows : RowsOf[f][q] = a => r <= q

RowStatus(f, rows, r) ==
    CASE ~Valid(f, r) -> "REJECTED"
      [] Valid(f, r) /\ IsNew(f, rows, r) -> "ACCEPTED"
      [] OTHER -> "DUPLICATE"

Named(f, rows) == {RowsOf[f][r] : r \in {q \in rows : Valid(f, q)}}

\* Leads are inserted, existing ones are left as they are, archived or not, and
\* both become members of the target list, archived meanwhile or not.
UpsertLeads(f, rows) ==
    LET named == Named(f, rows)
        fresh == {a \in named : LeadOf(a) = {}}
        free == {i \in Ids : lead[i] = NONE}
        id == CHOOSE g \in [fresh -> free] : IsInjective(g)
    IN  /\ lead' = [i \in Ids |->
                      IF \E a \in fresh : id[a] = i
                      THEN [address |-> CHOOSE a \in fresh : id[a] = i,
                            status |-> "ACTIVE"]
                      ELSE lead[i]]
        /\ members' = members \cup
              (IF TargetOf[f] = NONE THEN {}
               ELSE {TargetOf[f]} \X {i \in Ids : lead'[i] # NONE
                                                  /\ lead'[i].address \in named})

UpsertSuppressions(f, rows) ==
    LET named == Named(f, rows)
    IN  suppression' = [a \in People |-> IF a \in named THEN "ACTIVE"
                                            ELSE suppression[a]]

\* ON CONFLICT DO NOTHING: the first result of a row stays.
InsertRowResults(f, rows) ==
    result' = [result EXCEPT ![f] = [r \in 1..Total(f) |->
                 IF r \in rows /\ @[r] = NONE THEN RowStatus(f, rows, r)
                 ELSE @[r]]]

\* The counters and the cursor are written as the snapshot's plus the batch's.
Progress(w, rows) ==
    LET f == worker[w].file
        old == worker[w].job
        Of(s) == Cardinality({r \in rows : RowStatus(f, rows, r) = s})
    IN  [old EXCEPT !.cursor = Max(rows \cup {@}),
                    !.accepted = @ + Of("ACCEPTED"),
                    !.duplicate = @ + Of("DUPLICATE"),
                    !.rejected = @ + Of("REJECTED")]

UpdateProgress(f, p) ==
    job' = [job EXCEPT ![f] = [p EXCEPT !.status = job[f].status]]

FinalizeJob(f, p) ==
    job' = [job EXCEPT ![f] = [p EXCEPT
             !.status = IF p.rejected = 0 THEN "COMPLETED"
                        ELSE "COMPLETED_WITH_ERRORS",
             !.owner = 0, !.live = FALSE]]

LastBatch(f, rows) == rows = {} \/ Total(f) \in rows

\* What PostgreSQL refuses: members of a list a capture holds, and the progress
\* of a stale run on a job another run completed.
Refused(w, rows) ==
    LET f == worker[w].file
    IN  \/ TargetOf[f] \in held /\ Named(f, rows) # {}
        \/ ~LastBatch(f, rows) /\ job[f].status \in Completed

\* One batch: the rows' effects, their results and the job's progress commit
\* together.  Neither finalize_job nor update_progress looks at the lease.
ProcessBatch(w) ==
    LET f == worker[w].file
        rows == BatchRows(f, worker[w].job.cursor)
        p == Progress(w, rows)
    IN  /\ worker[w].pc = "claimed"
        /\ ~Refused(w, rows)
        /\ IF KindOf[f] = "LEADS"
           THEN UpsertLeads(f, rows) /\ UNCHANGED suppression
           ELSE UpsertSuppressions(f, rows) /\ UNCHANGED <<lead, members>>
        /\ InsertRowResults(f, rows)
        /\ IF LastBatch(f, rows)
           THEN FinalizeJob(f, p) /\ worker' = [worker EXCEPT ![w] = IdleImporter]
           ELSE /\ UpdateProgress(f, p)
                /\ worker' = [worker EXCEPT ![w].pc = "again", ![w].job = NoJob]
        /\ UNCHANGED <<confirming, queue, archived, held, adding, overlapped,
                       lost, mishaps, edits>>

\* The file cannot be read, or is not the one that was confirmed.
StorageFails == Mishap

\* Storage, a deadlock with another import or PostgreSQL's refusal undoes it all.
BatchFails(w) ==
    /\ worker[w].pc = "claimed"
    /\ \/ /\ Refused(w, BatchRows(worker[w].file, worker[w].job.cursor))
          /\ UNCHANGED mishaps
       \/ StorageFails
    /\ worker' = [worker EXCEPT ![w].pc = "failing", ![w].job = NoJob]
    /\ UNCHANGED <<job, confirming, queue, result, contacts, archived, held,
                   adding, overlapped, lost, edits>>

\* Whatever the job is by now, it is FAILED.
FailJob(w) ==
    LET f == worker[w].file
    IN  /\ worker[w].pc = "failing"
        /\ job' = [job EXCEPT ![f].status = "FAILED", ![f].owner = 0,
                              ![f].live = FALSE]
        /\ worker' = [worker EXCEPT ![w] = IdleImporter]
        /\ UNCHANGED <<confirming, queue, result, contacts, archived, held,
                       adding, overlapped, lost, mishaps, edits>>

\* self.retry keeps the id of the task.
SendAgain(w) ==
    /\ worker[w].pc = "again"
    /\ task' = task \cup {[file |-> worker[w].file, id |-> worker[w].id]}
    /\ worker' = [worker EXCEPT ![w] = IdleImporter]
    /\ UNCHANGED <<job, confirming, sent, result, contacts, archived, held,
                   adding, overlapped, lost, mishaps, edits>>

\* The task was acknowledged when it was taken: it dies with its process.
Crash(w) ==
    /\ worker[w].pc # "idle" /\ Mishap
    /\ lost' = [lost EXCEPT ![worker[w].file] = @ \cup {worker[w].id}]
    /\ worker' = [worker EXCEPT ![w] = IdleImporter]
    /\ UNCHANGED <<job, confirming, queue, result, contacts, archived, held,
                   adding, overlapped, edits>>

LeaseExpires(f) ==
    /\ job[f].status = "PROCESSING" /\ job[f].live /\ Mishap
    /\ job' = [job EXCEPT ![f].live = FALSE]
    /\ UNCHANGED <<confirming, queue, worker, result, contacts, archived, held,
                   adding, overlapped, lost, edits>>

------------------------------------------------------------------------------
(* The commands of users, and the capture of an audience *)

InsertLead(i, a) ==
    /\ LeadOf(a) = {}
    /\ lead[i] = NONE /\ \A k \in Ids : lead[k] = NONE => i <= k
    /\ lead' = [lead EXCEPT ![i] = [address |-> a, status |-> "ACTIVE"]]

CreateLead(a, l) ==
    /\ Edit /\ ActiveList(l) /\ l \notin held
    /\ \E i \in Ids :
          /\ InsertLead(i, a)
          /\ members' = IF l = NONE THEN members ELSE members \cup {<<l, i>>}
    /\ UNCHANGED <<job, confirming, queue, worker, result, suppression, archived,
                   held, adding, overlapped, lost, mishaps>>

UpdateLeadRow(i, row) ==
    /\ lead[i] # NONE /\ row # lead[i]
    /\ \/ row.address = lead[i].address
       \/ row.status = lead[i].status /\ LeadOf(row.address) = {}
    /\ lead' = [lead EXCEPT ![i] = row]

\* update_lead, archive_lead and unarchive_lead; an address another lead has is
\* refused by the unique index.
UpdateLead(i, row) ==
    /\ Edit /\ UpdateLeadRow(i, row)
    /\ UNCHANGED <<job, confirming, queue, worker, result, members, suppression,
                   archived, held, adding, overlapped, lost, mishaps>>

UpdateList(l, archive) ==
    /\ archive # (l \in archived)
    /\ archived' = IF archive THEN archived \cup {l} ELSE archived \ {l}

\* archive_list and unarchive_list.
ArchiveList(l) ==
    /\ Edit /\ UpdateList(l, l \notin archived)
    /\ UNCHANGED <<job, confirming, queue, worker, result, contacts, held, adding,
                   overlapped, lost, mishaps>>

InsertMember(l, i) == members' = members \cup {<<l, i>>}
DeleteMember(l, i) == <<l, i>> \in members /\ members' = members \ {<<l, i>>}

\* add_member reads the list and the lead, and inserts without locking either.
CheckMember(l, i) ==
    /\ Edit /\ adding = {} /\ ActiveList(l) /\ ActiveLead(i)
    /\ adding' = {<<l, i>>}
    /\ UNCHANGED <<job, confirming, queue, worker, result, contacts, archived,
                   held, overlapped, lost, mishaps>>

AddMember(l, i) ==
    /\ <<l, i>> \in adding
    /\ adding' = {}
    /\ IF l \in held THEN UNCHANGED members ELSE InsertMember(l, i)
    /\ UNCHANGED <<job, confirming, queue, worker, result, lead, suppression,
                   archived, held, overlapped, lost, mishaps, edits>>

RemoveMember(l, i) ==
    /\ Edit /\ ActiveList(l) /\ l \notin held /\ DeleteMember(l, i)
    /\ UNCHANGED <<job, confirming, queue, worker, result, lead, suppression,
                   archived, held, adding, overlapped, lost, mishaps>>

CreateSuppression(a) ==
    /\ Edit /\ suppression[a] # "ACTIVE"
    /\ suppression' = [suppression EXCEPT ![a] = "ACTIVE"]
    /\ UNCHANGED <<job, confirming, queue, worker, result, lead, members,
                   archived, held, adding, overlapped, lost, mishaps>>

ReleaseSuppression(a) ==
    /\ Edit /\ suppression[a] = "ACTIVE"
    /\ suppression' = [suppression EXCEPT ![a] = "RELEASED"]
    /\ UNCHANGED <<job, confirming, queue, worker, result, lead, members,
                   archived, held, adding, overlapped, lost, mishaps>>

\* The planner of a campaign takes or returns the gate of a list.
Capture(l) ==
    /\ \/ l \notin held /\ Edit /\ held' = held \cup {l}
       \/ l \in held /\ held' = held \ {l} /\ UNCHANGED edits
    /\ UNCHANGED <<job, confirming, queue, worker, result, contacts, archived,
                   adding, overlapped, lost, mishaps>>

------------------------------------------------------------------------------
Request(f) == ConfirmImport(f) \/ CommitConfirm(f) \/ RollBackConfirm(f)
Run(w) == ProcessBatch(w) \/ BatchFails(w) \/ FailJob(w) \/ SendAgain(w)
TakeTask == \E w \in Importers, t \in task : ClaimJob(w, t)

Command ==
    \/ \E a \in People : \/ \E l \in Lists \cup {NONE} : CreateLead(a, l)
                            \/ CreateSuppression(a)
                            \/ ReleaseSuppression(a)
    \/ \E i \in Ids, a \in People, s \in {"ACTIVE", "ARCHIVED"} :
          UpdateLead(i, [address |-> a, status |-> s])
    \/ \E l \in Lists : ArchiveList(l) \/ Capture(l)
    \/ \E l \in Lists, i \in Ids : CheckMember(l, i) \/ AddMember(l, i)
                                   \/ RemoveMember(l, i)

ImportsNext ==
    \/ \E f \in Files : Request(f) \/ LeaseExpires(f)
    \/ TakeTask
    \/ \E w \in Importers : Run(w) \/ Crash(w)
    \/ Command

\* Requests end, the queue is served, a worker does its next step.
ImportsFairness ==
    /\ \A f \in Files : WF_importsVars(CommitConfirm(f) \/ RollBackConfirm(f))
    /\ WF_importsVars(TakeTask)
    /\ \A w \in Importers : WF_importsVars(Run(w))

ImportsSpec == ImportsInit /\ [][ImportsNext]_importsVars /\ ImportsFairness

------------------------------------------------------------------------------
(* Properties *)

\* An import skips no row, whatever ran twice, crashed or lost its lease: a row
\* the cursor has passed has a result, a completed job has passed every row, and
\* the address of a row of a suppression file that was not rejected is in the
\* suppression table.
NoRowSkipped ==
    \A f \in Files : \A r \in 1..Total(f) :
       /\ r <= job[f].cursor => result[f][r] # NONE
       /\ job[f].status \in Completed => result[f][r] # NONE
       /\ (KindOf[f] = "SUPPRESSION" /\ result[f][r] \in {"ACCEPTED", "DUPLICATE"})
             => suppression[RowsOf[f][r]] # NONE

\* The counters a user sees are those of the rows' results, at every commit and
\* after every crash and retry, unless two workers ran on one snapshot.
CountersMatchRows ==
    \A f \in Files \ overlapped :
       LET Of(s) == Cardinality({r \in 1..Total(f) : result[f][r] = s})
       IN  /\ job[f].accepted = Of("ACCEPTED")
           /\ job[f].duplicate = Of("DUPLICATE")
           /\ job[f].rejected = Of("REJECTED")

\* What a user released or removed comes back by a user's command or by a row
\* that is handled for the first time: no chunk is applied twice, unless two
\* workers ran on one snapshot.
NothingComesBack ==
    [][\/ edits' # edits \/ adding' # adding \/ overlapped # {}
       \/ LET first(a) == \E f \in Files : \E r \in 1..Total(f) :
                             /\ RowsOf[f][r] = a
                             /\ result[f][r] = NONE /\ result'[f][r] # NONE
          IN  /\ \A a \in People : (suppression[a] = "RELEASED"
                                       /\ suppression'[a] = "ACTIVE") => first(a)
              /\ \A m \in members' \ members : first(lead'[m[2]].address)
      ]_importsVars

\* Every confirmed import ends, unless each task sent for it died, came before
\* the row was committed, or met another task's lease.
EveryImportEnds ==
    \A f \in Files :
       <>[](Ended(f) \/ job[f] = NoJob \/ lost[f] = 1..sent[f])

=============================================================================
