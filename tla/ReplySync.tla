------------------------------ MODULE ReplySync ------------------------------
(***************************************************************************)
(* Reply synchronization of one mailbox: the scheduler arms and claims the *)
(* row of mailbox_sync_states, mailbox.sync tasks read the provider's      *)
(* inbox page by page under a lease, store what they read, stop the        *)
(* enrollment that was answered, and advance the checkpoint.               *)
(*                                                                         *)
(* A mail is the position at which it arrived.  A cursor is the provider's *)
(* opaque one: a full listing in progress (mode "full", with the history   *)
(* position captured before it began), or a position in the history (mode  *)
(* "hist").  A page holds one mail.  One outreach message with a planned   *)
(* follow-up stands for the campaign.                                      *)
(***************************************************************************)
EXTENDS Naturals, Sequences, FiniteSets

CONSTANTS
    Workers,         \* sync worker processes
    Owners,          \* lease owner tokens; a token is minted when nobody knows it
    Mails,           \* 1..n, the mails that may arrive
    Kind,            \* Mails -> {"reply", "auto", "stray", "foreign"}
    MaxPages,        \* reply_sync_max_pages_per_run
    ReconcileLimit,  \* LIMIT of find_unresolved_inbound_messages
    MaxGen,          \* bound on connection generations
    MaxFaults        \* bound on crashes, errors, refreshes, disconnections...

ASSUME ReplySyncAssumption ==
    /\ Mails = 1..Cardinality(Mails)
    /\ Kind \in [Mails -> {"reply", "auto", "stray", "foreign"}]
    /\ {MaxPages, ReconcileLimit, MaxGen} \subseteq Nat \ {0}
    /\ MaxFaults \in Nat

VARIABLES
    mailbox,   \* mailboxes: connected, readable (scopes), current generation
    rows,      \* generations that have a mailbox_connections row
    live,      \* those whose credential is not destroyed
    sync,      \* the row of mailbox_sync_states
    tasks,     \* mailbox.sync messages in the queue, by owner token
    run,       \* what each worker is executing
    arrived,   \* number of mails in the provider's inbox
    floor,     \* oldest history position the provider still serves
    stored,    \* inbound_messages in the order of observed_at
    assoc,     \* association of each mail handled so far
    hold,      \* an active resync safety hold on the mailbox
    outreach,  \* the message that may be answered: its identifiers are recorded
    enrollment, \* campaign_enrollments.state of its recipient
    followUp,  \* messages.status of the follow-up
    faults
vars == <<mailbox, rows, live, sync, tasks, run, arrived, floor, stored, assoc,
          hold, outreach, enrollment, followUp, faults>>

NoCursor == [mode |-> "none", base |-> 0, next |-> 1]
Idle == [pc |-> "idle"]
NoOwner == "nobody"
Cancellable == {"SCHEDULED", "RETRY_SCHEDULED"}

Init ==
    /\ mailbox = [connected |-> TRUE, readable |-> TRUE, gen |-> 1]
    /\ rows = {1} /\ live = {1}
    /\ sync = [status |-> "NONE", gen |-> 1, cursor |-> NoCursor, owner |-> NoOwner, leased |-> FALSE, due |-> TRUE]
    /\ tasks = {}
    /\ run = [w \in Workers |-> Idle]
    /\ arrived = 0 /\ floor = 0
    /\ stored = << >>
    /\ assoc = [m \in Mails |-> "none"]
    /\ hold = FALSE
    /\ outreach = "SENDING" /\ enrollment = "ACTIVE" /\ followUp = "SCHEDULED"
    /\ faults = 0

Campaign == <<outreach, enrollment, followUp>>
Inbox == <<arrived, floor>>
Connection == <<mailbox, rows, live>>
Answers == <<stored, assoc>>

Fault == faults < MaxFaults /\ faults' = faults + 1

-----------------------------------------------------------------------------
(* Scheduler tick, steps 8 and 9 *)

\* discover_mailboxes_needing_sync_state: no row, or one parked under an older
\* connection generation.
NeedsSyncState ==
    /\ mailbox.connected
    /\ sync.status = "NONE" \/ (sync.status = "UNAVAILABLE" /\ sync.gen < mailbox.gen)

InsertSyncState == [sync EXCEPT !.status = "INITIALIZING", !.gen = mailbox.gen]

\* Mutant: a parked row stays parked.
X_RearmSyncState == sync
RearmSyncState == [sync EXCEPT !.status = "INITIALIZING", !.gen = mailbox.gen, !.due = TRUE]

\* ensure_sync_states: create the row, or re-arm it.
EnsureSyncState ==
    /\ NeedsSyncState
    /\ sync' = IF sync.status = "NONE" THEN InsertSyncState ELSE RearmSyncState
    /\ UNCHANGED <<Connection, tasks, run, Inbox, Answers, hold, Campaign, faults>>

InUse(o) == o \in tasks \/ \E w \in Workers : run[w] # Idle /\ run[w].owner = o
Known(o) == InUse(o) \/ sync.owner = o

\* Lease free or expired, row due: claimed under a token of its own.  The task
\* is sent after the commit, and may not reach the broker.
ClaimDue(o) ==
    /\ sync.status \notin {"NONE", "UNAVAILABLE"}
    /\ sync.due
    /\ ~sync.leased
    /\ ~Known(o)
    /\ sync' = [sync EXCEPT !.owner = o, !.leased = TRUE]
    /\ \/ tasks' = tasks \cup {o} /\ UNCHANGED faults
       \/ Fault /\ UNCHANGED tasks
    /\ UNCHANGED <<Connection, run, Inbox, Answers, hold, Campaign>>

\* recover_stale_sync_leases: an expired lease is cleared.
RecoverLease ==
    /\ sync.owner # NoOwner /\ ~sync.leased
    /\ sync' = [sync EXCEPT !.owner = NoOwner]
    /\ UNCHANGED <<Connection, tasks, run, Inbox, Answers, hold, Campaign, faults>>

-----------------------------------------------------------------------------
(* mailbox.sync *)

Step(w, r) == run' = [run EXCEPT ![w] = r]

\* A worker takes a task.  Late acknowledgement: the broker may deliver the
\* same message, with the same owner, a second time.
Deliver(w, o) ==
    /\ run[w] = Idle /\ o \in tasks
    /\ \/ tasks' = tasks \ {o} /\ UNCHANGED faults
       \/ Fault /\ UNCHANGED tasks
    /\ Step(w, [pc |-> "begin", owner |-> o, mailbox |-> mailbox])
    /\ UNCHANGED <<Connection, sync, Inbox, Answers, hold, Campaign>>

\* mark_sync_unavailable: no owner is compared.
MarkSyncUnavailable == [sync EXCEPT !.status = "UNAVAILABLE", !.owner = NoOwner, !.leased = FALSE]

\* sync_mailbox: not connected, or not able to read mail (_reply_sync_eligibility).
Park(w) ==
    /\ run[w].pc = "begin"
    /\ ~(run[w].mailbox.connected /\ run[w].mailbox.readable)
    /\ sync' = MarkSyncUnavailable
    /\ Step(w, Idle)
    /\ UNCHANGED <<Connection, tasks, Inbox, Answers, hold, Campaign, faults>>

Available(o) == sync.owner = NoOwner \/ ~sync.leased \/ sync.owner = o

\* acquire_sync_lease: free, expired, or the scheduler's hand-off.
Acquire(w) ==
    LET r == run[w] IN
    /\ r.pc = "begin"
    /\ r.mailbox.connected /\ r.mailbox.readable
    /\ \/ /\ Available(r.owner)
          /\ sync' = [sync EXCEPT !.owner = r.owner, !.leased = TRUE]
          /\ Step(w, [pc |-> "credential", owner |-> r.owner, gen |-> r.mailbox.gen, pages |-> 0,
                      cursor |-> IF sync.status = "RESYNC_REQUIRED" THEN NoCursor ELSE sync.cursor])
       \/ /\ ~Available(r.owner)
          /\ Step(w, Idle) /\ UNCHANGED sync
    /\ UNCHANGED <<Connection, tasks, Inbox, Answers, hold, Campaign, faults>>

\* release_sync_lease: only the owner's.
Released(o, due) == IF sync.owner = o THEN [sync EXCEPT !.owner = NoOwner, !.leased = FALSE, !.due = due] ELSE sync

\* The exception handler: roll back, release with a back-off.
Fails(w) ==
    /\ sync' = Released(run[w].owner, FALSE)
    /\ Step(w, Idle)

\* _load_and_refresh_credential: a token about to expire is refreshed over
\* the network, the others are used as they are.
LoadCredential(w) ==
    LET r == run[w] IN
    /\ r.pc = "credential"
    /\ \/ r.gen \notin live /\ Fails(w) /\ UNCHANGED faults
       \/ r.gen \in live /\ Step(w, [r EXCEPT !.pc = "fetch"]) /\ UNCHANGED <<sync, faults>>
       \/ r.gen \in live /\ r.gen + 1 < MaxGen /\ Fault /\ Step(w, [r EXCEPT !.pc = "rotate"]) /\ UNCHANGED sync
    /\ UNCHANGED <<Connection, tasks, Inbox, Answers, hold, Campaign>>

\* rotate_mailbox_connection: the unique generation and the trigger
\* app_guard_mailbox_generation refuse a generation that is taken or past.
Rotate(w) ==
    LET r == run[w]
        g == r.gen + 1
    IN
    /\ r.pc = "rotate"
    /\ \/ /\ g \in rows \/ g < mailbox.gen
          /\ Fails(w) /\ UNCHANGED Connection
       \/ /\ g \notin rows /\ g >= mailbox.gen
          /\ rows' = rows \cup {g} /\ live' = live \cup {g}
          /\ mailbox' = [mailbox EXCEPT !.connected = TRUE, !.gen = g]
          /\ sync' = [sync EXCEPT !.gen = g]
          /\ Step(w, [r EXCEPT !.pc = "fetch", !.gen = g])
    /\ UNCHANGED <<tasks, Inbox, Answers, hold, Campaign, faults>>

\* Mutant: the position is the one after the listing.
X_Page(c) ==
    LET base == IF c.mode = "none" THEN arrived ELSE c.base
        mode == IF c.mode = "none" THEN "full" ELSE c.mode
        more == c.next < arrived /\ mode = "hist"
    IN [mails |-> {c.next} \cap 1..arrived,
        more |-> more,
        cursor |-> IF more THEN [mode |-> mode, base |-> base, next |-> c.next + 1]
                   ELSE [mode |-> "hist", base |-> arrived, next |-> arrived + 1]]

\* sync_inbound_messages of the provider: the page at a cursor.  The position
\* a full listing resumes from is the one captured before its first page.
Page(c) ==
    LET base == IF c.mode = "none" THEN arrived ELSE c.base
        mode == IF c.mode = "none" THEN "full" ELSE c.mode
        more == c.next < arrived
        end == IF mode = "full" THEN base ELSE arrived
    IN [mails |-> {c.next} \cap 1..arrived,
        more |-> more,
        cursor |-> IF more THEN [mode |-> mode, base |-> base, next |-> c.next + 1]
                   ELSE [mode |-> "hist", base |-> end, next |-> end + 1]]

\* The call itself: a page, an expired checkpoint, a rate limit or an error.
Fetch(w) ==
    LET r == run[w] IN
    /\ r.pc = "fetch"
    /\ \/ /\ r.cursor.mode # "hist" \/ r.cursor.base >= floor
          /\ Step(w, [pc |-> "store", owner |-> r.owner, pages |-> r.pages, page |-> Page(r.cursor), gen |-> r.gen])
          /\ UNCHANGED <<sync, faults>>
       \/ /\ r.cursor.mode = "hist" /\ r.cursor.base < floor
          /\ Step(w, [pc |-> "resync", owner |-> r.owner])
          /\ UNCHANGED <<sync, faults>>
       \/ Fault /\ Fails(w)
    /\ UNCHANGED <<Connection, tasks, Inbox, Answers, hold, Campaign>>

\* mark_resync_required: the checkpoint is forgotten.
MarkResyncRequired(s) == [s EXCEPT !.status = "RESYNC_REQUIRED", !.cursor = NoCursor]

InsertSafetyHold == hold' = TRUE
ReleaseSafetyHolds == hold' = FALSE

\* The checkpoint expired: hold the mailbox, run again at once.
Resync(w) ==
    /\ run[w].pc = "resync"
    /\ sync' = MarkResyncRequired(Released(run[w].owner, TRUE))
    /\ InsertSafetyHold
    /\ Step(w, Idle)
    /\ UNCHANGED <<Connection, tasks, Inbox, Answers, Campaign, faults>>

-----------------------------------------------------------------------------
(* What a mail does *)

\* load_outbound_candidates and ReplyMatcher.match: the sender is the
\* recipient we wrote to and quotes an identifier that is recorded.
Matches(m) == Kind[m] \in {"reply", "auto"} /\ outreach = "SENT"

\* Mail of a stranger has no candidate and is dropped for good.
Association(m) ==
    IF Kind[m] = "foreign" THEN "dropped" ELSE IF Matches(m) THEN "MATCHED" ELSE "UNRESOLVED"

Qualifies(m) == Kind[m] = "reply"

\* Mutant: the planned messages are cancelled, the enrollment goes on.
X_StopCampaign(ms) ==
    IF \E m \in ms : Qualifies(m)
    THEN followUp' = (IF followUp = "SCHEDULED" THEN "CANCELLED" ELSE followUp) /\ UNCHANGED enrollment
    ELSE UNCHANGED <<enrollment, followUp>>

\* record_reply_outcome_and_stop_campaign, for the matched ones among ms.
StopCampaign(ms) ==
    IF \E m \in ms : Qualifies(m)
    THEN /\ enrollment' = IF enrollment = "ACTIVE" THEN "STOPPED" ELSE enrollment
         /\ followUp' = IF followUp \in Cancellable THEN "CANCELLED" ELSE followUp
    ELSE UNCHANGED <<enrollment, followUp>>

\* insert_inbound_message: what is stored already is a duplicate.
NewMails(ms) == {m \in ms : assoc[m] \in {"none", "dropped"}}

\* advance_sync_checkpoint: no owner is compared.
AdvanceCheckpoint(page) ==
    [sync EXCEPT !.cursor = page.cursor, !.status = IF page.more THEN "LAGGING" ELSE "CURRENT"]

\* One page in one transaction: mails new to inbound_messages are stored with
\* their association, their replies stop the campaign, the checkpoint moves.
StorePage(w) ==
    LET r == run[w]
        new == NewMails(r.page.mails)
    IN
    /\ r.pc = "store"
    /\ assoc' = [m \in Mails |-> IF m \in new THEN Association(m) ELSE assoc[m]]
    /\ stored' = IF \E m \in new : Kind[m] # "foreign" THEN Append(stored, CHOOSE m \in new : TRUE) ELSE stored
    /\ StopCampaign({m \in new : Matches(m)})
    /\ sync' = AdvanceCheckpoint(r.page)
    /\ Step(w, IF ~r.page.more THEN [pc |-> "finish", owner |-> r.owner]
               ELSE IF r.pages + 1 < MaxPages
                    THEN [pc |-> "fetch", owner |-> r.owner, gen |-> r.gen, pages |-> r.pages + 1, cursor |-> r.page.cursor]
                    ELSE [pc |-> "release", owner |-> r.owner, due |-> TRUE])
    /\ UNCHANGED <<Connection, tasks, Inbox, hold, outreach, faults>>

Unresolved == SelectSeq(stored, LAMBDA m : assoc[m] = "UNRESOLVED")

\* reconcile_unresolved_inbound_messages: the oldest unresolved mails again.
Swept == LET n == IF Len(Unresolved) < ReconcileLimit THEN Len(Unresolved) ELSE ReconcileLimit
         IN {m \in {Unresolved[i] : i \in 1..n} : Matches(m)}

\* The traversal ended: release the resync holds, sweep the unresolved mails.
Finish(w) ==
    /\ run[w].pc = "finish"
    /\ ReleaseSafetyHolds
    /\ assoc' = [m \in Mails |-> IF m \in Swept THEN "MATCHED" ELSE assoc[m]]
    /\ StopCampaign(Swept)
    /\ Step(w, [pc |-> "release", owner |-> run[w].owner, due |-> FALSE])
    /\ UNCHANGED <<Connection, sync, tasks, Inbox, stored, outreach, faults>>

Release(w) ==
    /\ run[w].pc = "release"
    /\ sync' = Released(run[w].owner, run[w].due)
    /\ Step(w, Idle)
    /\ UNCHANGED <<Connection, tasks, Inbox, Answers, hold, Campaign, faults>>

\* A worker dies: the open transaction is lost, the task is delivered again.
WorkerCrash(w) ==
    /\ run[w] # Idle /\ Fault
    /\ tasks' = tasks \cup {run[w].owner}
    /\ Step(w, Idle)
    /\ UNCHANGED <<Connection, sync, Inbox, Answers, hold, Campaign>>

Sync(w) ==
    \/ \E o \in Owners : Deliver(w, o)
    \/ Park(w) \/ Acquire(w) \/ LoadCredential(w) \/ Rotate(w) \/ Fetch(w)
    \/ Resync(w) \/ StorePage(w) \/ Finish(w) \/ Release(w)

-----------------------------------------------------------------------------
(* Time, the user, the provider and the send worker *)

\* A lease nobody works under runs out; one whose task is still waiting or
\* running outlives reply_sync_lease_seconds only as a fault.
LeaseExpires ==
    /\ sync.leased
    /\ \/ ~InUse(sync.owner) /\ UNCHANGED faults
       \/ InUse(sync.owner) /\ Fault
    /\ sync' = [sync EXCEPT !.leased = FALSE]
    /\ UNCHANGED <<Connection, tasks, run, Inbox, Answers, hold, Campaign>>

BecomesDue ==
    /\ sync.status # "NONE" /\ ~sync.due
    /\ sync' = [sync EXCEPT !.due = TRUE]
    /\ UNCHANGED <<Connection, tasks, run, Inbox, Answers, hold, Campaign, faults>>

\* disconnect_mailbox: the credential is destroyed, the generation moves on.
Disconnect ==
    /\ mailbox.connected /\ mailbox.gen + 1 < MaxGen /\ Fault
    /\ mailbox' = [mailbox EXCEPT !.connected = FALSE, !.gen = @ + 1]
    /\ live' = live \ {mailbox.gen}
    /\ UNCHANGED <<rows, sync, tasks, run, Inbox, Answers, hold, Campaign>>

\* complete_gmail_oauth on an existing mailbox, with or without the read scope.
Reconnect(readable) ==
    /\ mailbox.gen < MaxGen /\ (readable \/ mailbox.gen + 1 < MaxGen)
    /\ ~mailbox.connected \/ ~mailbox.readable
    /\ mailbox' = [connected |-> TRUE, readable |-> readable, gen |-> mailbox.gen + 1]
    /\ rows' = rows \cup {mailbox.gen + 1} /\ live' = live \cup {mailbox.gen + 1}
    /\ UNCHANGED <<sync, tasks, run, Inbox, Answers, hold, Campaign, faults>>

Arrive ==
    /\ arrived + 1 \in Mails
    /\ arrived' = arrived + 1
    /\ UNCHANGED <<Connection, sync, tasks, run, floor, Answers, hold, Campaign, faults>>

\* The provider forgets the history before now.
HistoryExpires ==
    /\ floor < arrived /\ Fault
    /\ floor' = arrived
    /\ UNCHANGED <<Connection, sync, tasks, run, arrived, Answers, hold, Campaign>>

\* The outcome of the outreach message, and with it its identifiers.
RecordOutcome ==
    /\ outreach = "SENDING"
    /\ outreach' = "SENT"
    /\ UNCHANGED <<Connection, sync, tasks, run, Inbox, Answers, hold, enrollment, followUp, faults>>

\* The send worker authorizes the follow-up for an active enrollment only, and
\* not while the mailbox is held; the attempt may end in a retry.
SendFollowUp ==
    /\ outreach = "SENT" /\ followUp \in Cancellable
    /\ enrollment = "ACTIVE" /\ ~hold
    /\ followUp' = "SENDING"
    /\ UNCHANGED <<Connection, sync, tasks, run, Inbox, Answers, hold, outreach, enrollment, faults>>

EndFollowUp ==
    /\ followUp = "SENDING"
    /\ \/ followUp' = "SENT" /\ UNCHANGED faults
       \/ Fault /\ followUp' = "RETRY_SCHEDULED"
    /\ UNCHANGED <<Connection, sync, tasks, run, Inbox, Answers, hold, outreach, enrollment>>

Next ==
    \/ EnsureSyncState \/ RecoverLease \/ \E o \in Owners : ClaimDue(o)
    \/ \E w \in Workers : Sync(w) \/ WorkerCrash(w)
    \/ LeaseExpires \/ BecomesDue \/ Disconnect \/ Arrive \/ HistoryExpires
    \/ \E b \in BOOLEAN : Reconnect(b)
    \/ RecordOutcome \/ SendFollowUp \/ EndFollowUp

\* The scheduler ticks, leases and due times pass, workers make progress, the
\* user reconnects with the scope reading needs, outcomes are recorded.
Fairness ==
    /\ WF_vars(EnsureSyncState) /\ WF_vars(\E o \in Owners : ClaimDue(o))
    /\ WF_vars(LeaseExpires) /\ WF_vars(BecomesDue)
    /\ \A w \in Workers : WF_vars(Sync(w))
    /\ WF_vars(RecordOutcome) /\ WF_vars(Reconnect(TRUE))

Spec == Init /\ [][Next]_vars /\ Fairness

-----------------------------------------------------------------------------
(* Properties *)

\* The mails a cursor claims to be behind it.
Behind(c) == IF c.mode = "hist" THEN 1..(IF c.next - 1 > c.base THEN c.next - 1 ELSE c.base) ELSE 1..(c.next - 1)

\* No mail is skipped: whatever the checkpoint of the row, and the page a
\* worker is about to continue from, has passed was handled in a committed
\* page, whoever wrote it and however many workers ran past their lease
\* (advance_sync_checkpoint compares no owner).
CheckpointCoversRead ==
    /\ \A m \in Behind(sync.cursor) : assoc[m] # "none"
    /\ \A w \in Workers : run[w].pc = "fetch" => \A m \in Behind(run[w].cursor) : assoc[m] # "none"

\* Once a reply of the recipient was matched, in the page that stored it or in
\* a later sweep, no follow-up of that enrollment goes out: the association
\* and the stop are one transaction.
NoFollowUpAfterReply ==
    [][\A m \in Mails :
         (Kind[m] = "reply" /\ assoc[m] = "MATCHED" /\ followUp # "SENDING") => followUp' # "SENDING"]_vars

\* A task that read the mailbox as disconnected parks the row after it was
\* re-armed for the new connection: nothing will ever arm it again.
ParkedForGood == sync.status = "UNAVAILABLE" /\ mailbox.connected /\ sync.gen = mailbox.gen

\* A reply that reaches the inbox stops its enrollment, although it may arrive
\* before its message's identifiers are recorded, workers die, leases expire
\* and checkpoints are lost; only a row parked for good is excepted.
EveryReplyStops ==
    \A m \in Mails : (Kind[m] = "reply" /\ arrived >= m) ~> (enrollment = "STOPPED" \/ ParkedForGood)

=============================================================================
