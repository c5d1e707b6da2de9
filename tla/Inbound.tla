-------------------------------- MODULE Inbound --------------------------------
(***************************************************************************)
(* Bounces, complaints and unsubscribe requests, and the campaign sends    *)
(* they must stop.  An event reaches the platform as a signed webhook (a   *)
(* receipt, a safety hold on the mailbox, an event.process task), as a     *)
(* delivery-status notification read by mailbox sync, or as a click on an  *)
(* unsubscribe link.  All three end in one transaction that suppresses the *)
(* address, stops its enrollments and cancels its unsent messages, and     *)
(* that takes row locks in the opposite order of the send worker's.        *)
(*                                                                         *)
(* Uncommitted writes are kept in the worker's record and applied by its   *)
(* commit; a row lock is held from the statement that takes it to the end  *)
(* of the transaction.  A provider's redelivery of a webhook finds its     *)
(* receipt and returns without a change: it is a stuttering step.  The     *)
(* webhooks of Gmail and Microsoft only leave a receipt and have no effect *)
(* here.                                                                   *)
(***************************************************************************)
EXTENDS Naturals, FiniteSets

CONSTANTS
    Workers,       \* event workers, sync workers and API processes
    Events, Messages, Addresses, Enrollments, Mailboxes,
    Source,        \* Events -> how the event reaches the platform
    Kind,          \* Events -> what it says
    About,         \* Events -> the message it is about
    AddressOf, EnrollmentOf, MailboxOf,   \* of each message
    PreviousOf,    \* the message a follow-up follows, itself for a first message
    MaxRetries,    \* max_retries of event.process
    MaxFaults      \* bound on crashes, errors, lost or repeated deliveries, manual suppressions

ASSUME InboundAssumption ==
    /\ Source \in [Events -> {"WEBHOOK", "DSN", "LINK"}]
    /\ Kind \in [Events -> {"HARD", "SOFT", "COMPLAINT", "UNSUBSCRIBE"}]
    /\ About \in [Events -> Messages]
    /\ AddressOf \in [Messages -> Addresses]
    /\ EnrollmentOf \in [Messages -> Enrollments]
    /\ MailboxOf \in [Messages -> Mailboxes]
    /\ PreviousOf \in [Messages -> Messages]
    /\ \A m, n \in Messages : EnrollmentOf[m] = EnrollmentOf[n] => AddressOf[m] = AddressOf[n]
    /\ {MaxRetries, MaxFaults} \subseteq Nat
    /\ Workers \cap Messages = {} /\ "free" \notin Workers \cup Messages   \* holders of locks

VARIABLES
    receipt,     \* receipt_status; for a DSN or a click, whether it was applied
    hold,        \* status of the safety hold of each receipt
    pending,     \* mailboxes.pending_safety_count
    tasks,       \* deliveries to come: task in the queue, mail in the inbox, click
    tries,       \* retries of its task
    run,         \* the transaction each worker executes
    suppressed,  \* reasons of the ACTIVE suppressions of each address
    enrollment,  \* campaign_enrollments.state
    message,     \* messages.status
    bounce,      \* message_events.bounce_type of each message
    sender,      \* how far a send worker is with each message
    lock,        \* holder of each row lock
    faults
vars == <<receipt, hold, pending, tasks, tries, run, suppressed, enrollment,
          message, bounce, sender, lock, faults>>

Rows == Messages \cup Enrollments \cup Mailboxes
Free == "free"
Idle == [pc |-> "idle"]
\* QUEUED also stands for SCHEDULED and RETRY_SCHEDULED, ENDED for SKIPPED and
\* FAILED.
Cancellable == {"QUEUED"}
Reason == [k \in {"HARD", "COMPLAINT", "UNSUBSCRIBE"} |->
             IF k = "HARD" THEN "HARD_BOUNCE" ELSE k]

Target(e) == AddressOf[About[e]]
Prohibits(e) == Kind[e] \in DOMAIN Reason
Running(e) == {w \in Workers : run[w] # Idle /\ run[w].event = e}
Locked(e) == \E w \in Running(e) : run[w].pc # "failed"   \* the row of the receipt

\* The first message of each enrollment is with the provider.
Init ==
    /\ receipt = [e \in Events |-> "NONE"] /\ hold = [e \in Events |-> "NONE"]
    /\ pending = [b \in Mailboxes |-> 0]
    /\ tasks = [e \in Events |-> IF Source[e] = "WEBHOOK" THEN 0 ELSE 1] /\ tries = [e \in Events |-> 0]
    /\ run = [w \in Workers |-> Idle]
    /\ suppressed = [a \in Addresses |-> {}]
    /\ enrollment = [c \in Enrollments |-> "ACTIVE"]
    /\ message = [m \in Messages |-> IF PreviousOf[m] = m THEN "SENDING" ELSE "NONE"]
    /\ bounce = [m \in Messages |-> "NONE"]
    /\ sender = [m \in Messages |-> "idle"]
    /\ lock = [r \in Rows |-> Free]
    /\ faults = 0

Evidence == <<receipt, hold, pending, tasks, tries>>
Outreach == <<suppressed, enrollment, bounce>>
Fault == faults < MaxFaults /\ faults' = faults + 1
Unlocked(p) == [r \in Rows |-> IF lock[r] = p THEN Free ELSE lock[r]]
Lock(r, p) == lock[r] = Free /\ lock' = [lock EXCEPT ![r] = p]

-----------------------------------------------------------------------------
(* The sends *)

\* The follow-up of an accepted message, in the transaction that advances its
\* enrollment (which locks the enrollment).
Advance(m) ==
    /\ message[m] = "NONE" /\ message[PreviousOf[m]] = "SENT"
    /\ enrollment[EnrollmentOf[m]] = "ACTIVE" /\ lock[EnrollmentOf[m]] = Free
    /\ message' = [message EXCEPT ![m] = "QUEUED"]
    /\ UNCHANGED <<Evidence, run, Outreach, sender, lock, faults>>

\* load_message_for_send: message (SKIP LOCKED), enrollment, mailbox.
LockMessage(m) ==
    /\ sender[m] = "idle" /\ message[m] = "QUEUED"
    /\ Lock(m, m)
    /\ sender' = [sender EXCEPT ![m] = "message"]
    /\ UNCHANGED <<Evidence, run, Outreach, message, faults>>

LockEnrollment(m) ==
    /\ sender[m] = "message"
    /\ Lock(EnrollmentOf[m], m)
    /\ sender' = [sender EXCEPT ![m] = "enrollment"]
    /\ UNCHANGED <<Evidence, run, Outreach, message, faults>>

\* The last lock, and the gates: a stopped enrollment or a hold defers the
\* message, a suppressed address ends it.
LockMailbox(m) ==
    /\ sender[m] = "enrollment"
    /\ lock[MailboxOf[m]] = Free
    /\ LET refused == enrollment[EnrollmentOf[m]] # "ACTIVE"
           skipped == ~refused /\ suppressed[AddressOf[m]] # {}
           held == pending[MailboxOf[m]] > 0
       IN  IF refused \/ skipped \/ held
           THEN /\ sender' = [sender EXCEPT ![m] = "idle"]
                /\ lock' = Unlocked(m)
                /\ message' = [message EXCEPT ![m] = IF skipped THEN "ENDED" ELSE @]
           ELSE /\ sender' = [sender EXCEPT ![m] = "passed"]
                /\ Lock(MailboxOf[m], m)
                /\ UNCHANGED message
    /\ UNCHANGED <<Evidence, run, Outreach, faults>>

\* The authorization commits: from here the email is on its way.
Authorize(m) ==
    /\ sender[m] = "passed"
    /\ message' = [message EXCEPT ![m] = "SENDING"]
    /\ sender' = [sender EXCEPT ![m] = "idle"]
    /\ lock' = Unlocked(m)
    /\ UNCHANGED <<Evidence, run, Outreach, faults>>

\* The attempt is settled: accepted, refused for good, or to be retried.  An
\* email whose bounce or click exists was accepted.
Settle(m) ==
    /\ message[m] = "SENDING" /\ lock[m] = Free
    /\ \E s \in {"SENT", "ENDED", "QUEUED"} :
         /\ (\E e \in Events : About[e] = m /\ (receipt[e] # "NONE" \/ Source[e] # "WEBHOOK")) => s = "SENT"
         /\ message' = [message EXCEPT ![m] = s]
    /\ UNCHANGED <<Evidence, run, Outreach, sender, lock, faults>>

-----------------------------------------------------------------------------
(* An event reaches the platform *)

\* Mutant: every write of a hold that is not ACTIVE counts as a release.
X_Counter(e, new) ==
    [pending EXCEPT ![MailboxOf[About[e]]] = IF new = "ACTIVE" THEN @ + 1 ELSE @ - 1]

\* Trigger app_maintain_safety_counter.
Counter(e, new) ==
    LET active(s) == IF s = "ACTIVE" THEN 1 ELSE 0
    IN  [pending EXCEPT ![MailboxOf[About[e]]] = @ + active(new) - active(hold[e])]

\* create_safety_hold, in the transaction that stores the receipt.
PlaceHold(e) ==
    /\ lock[MailboxOf[About[e]]] = Free
    /\ hold' = [hold EXCEPT ![e] = "ACTIVE"]
    /\ pending' = Counter(e, "ACTIVE")

\* The task is sent after the commit, and an error of the broker is swallowed.
Dispatch(e) ==
    \/ tasks' = [tasks EXCEPT ![e] = 1] /\ UNCHANGED faults
    \/ Fault /\ UNCHANGED tasks

StoreReceipt(e) == receipt[e] = "NONE" /\ receipt' = [receipt EXCEPT ![e] = "RECEIVED"]
Sent(m) == message[m] \in {"SENDING", "SENT"}

\* The webhook of bounces, complaints and unsubscribe requests.
AcceptSafety(e) ==
    /\ Source[e] = "WEBHOOK" /\ Sent(About[e])
    /\ StoreReceipt(e) /\ PlaceHold(e) /\ Dispatch(e)
    /\ UNCHANGED <<tries, run, Outreach, message, sender, lock>>

\* An address the user adds to the workspace's list (counted among the faults).
SuppressManually(a) ==
    /\ "MANUAL" \notin suppressed[a] /\ Fault
    /\ suppressed' = [suppressed EXCEPT ![a] = @ \cup {"MANUAL"}]
    /\ UNCHANGED <<Evidence, run, enrollment, message, bounce, sender, lock>>

\* Only a MANUAL suppression can be released.
ReleaseManually(a) ==
    /\ "MANUAL" \in suppressed[a]
    /\ suppressed' = [suppressed EXCEPT ![a] = @ \ {"MANUAL"}]
    /\ UNCHANGED <<Evidence, run, enrollment, message, bounce, sender, lock, faults>>

-----------------------------------------------------------------------------
(* The transaction of an event *)

\* A bounce is matched to a message that is SENT.
Matched(e) == Kind[e] \in {"HARD", "SOFT"} /\ message[About[e]] = "SENT"

\* Of a notification found in a mailbox only the matched message is believed,
\* never the address it names.
Acts(e) == Prohibits(e) /\ (Source[e] = "DSN" => Matched(e))

\* The rows the first UPDATE will want: what its snapshot shows as ACTIVE.
ActiveEnrollments(a) ==
    {c \in Enrollments : enrollment[c] = "ACTIVE" /\ \E m \in Messages : EnrollmentOf[m] = c /\ AddressOf[m] = a}

Apply(w, e) ==
    run' = [run EXCEPT ![w] =
              [pc |-> IF Acts(e) THEN "stop" ELSE "finish", event |-> e, matched |-> Matched(e),
               want |-> IF Acts(e) THEN ActiveEnrollments(Target(e)) ELSE {}]]

\* claim_receipt_for_processing under the row lock of the receipt: a receipt
\* that is PROCESSED, or locked by another worker, ends the task.
Claim(w, e) ==
    /\ Source[e] = "WEBHOOK" /\ run[w] = Idle /\ tasks[e] > 0
    /\ \/ tasks' = [tasks EXCEPT ![e] = @ - 1] /\ UNCHANGED faults
       \/ Fault /\ UNCHANGED tasks    \* the broker delivers twice
    /\ IF receipt[e] = "PROCESSED" \/ Locked(e) THEN UNCHANGED run ELSE Apply(w, e)
    /\ UNCHANGED <<receipt, hold, pending, tries, Outreach, message, sender, lock>>

\* The page transaction of mailbox sync reaches the notification.
ReadNotice(w, e) ==
    /\ Source[e] = "DSN" /\ run[w] = Idle /\ tasks[e] > 0 /\ Sent(About[e])
    /\ tasks' = [tasks EXCEPT ![e] = 0]
    /\ Apply(w, e)
    /\ UNCHANGED <<receipt, hold, pending, tries, Outreach, message, sender, lock, faults>>

\* A valid token is answered in the request itself.
Click(w, e) ==
    /\ Source[e] = "LINK" /\ run[w] = Idle /\ tasks[e] > 0 /\ Sent(About[e])
    /\ tasks' = [tasks EXCEPT ![e] = 0]
    /\ Apply(w, e)
    /\ UNCHANGED <<receipt, hold, pending, tries, Outreach, message, sender, lock, faults>>

Begin(w, e) == Claim(w, e) \/ ReadNotice(w, e) \/ Click(w, e)

\* stop_active_enrollments and cancel_non_terminal_messages lock row after row.
LockNext(w) ==
    /\ run[w].pc \in {"stop", "cancel"}
    /\ \E r \in run[w].want :
         /\ Lock(r, w)
         /\ run' = [run EXCEPT ![w].want = @ \ {r}]
    /\ UNCHANGED <<Evidence, Outreach, message, sender, faults>>

Cancel(w) ==
    /\ run[w].pc = "stop" /\ run[w].want = {}
    /\ LET mine == {m \in Messages : AddressOf[m] = Target(run[w].event) /\ message[m] \in Cancellable}
       IN  run' = [run EXCEPT ![w].pc = "cancel", ![w].want = mine]
    /\ UNCHANGED <<Evidence, Outreach, message, sender, lock, faults>>

\* upsert_message_bounce: HARD outranks SOFT.
Worse(old, new) == IF "HARD" \in {old, new} THEN "HARD" ELSE new

Suppress(e) == [suppressed EXCEPT ![Target(e)] = @ \cup {Reason[Kind[e]]}]

\* A row that changed while the UPDATE waited for it is looked at again.
Stop(w) == [c \in Enrollments |-> IF lock[c] = w /\ enrollment[c] = "ACTIVE" THEN "STOPPED" ELSE enrollment[c]]
Skip(w) == [m \in Messages |-> IF lock[m] = w /\ message[m] \in Cancellable THEN "ENDED" ELSE message[m]]
Resolve(e) == [hold EXCEPT ![e] = IF @ = "ACTIVE" THEN "RESOLVED" ELSE @]

\* Suppression, stop, cancellation, bounce, hold and receipt commit together.
Commit(w) ==
    LET e == run[w].event
        acts == run[w].pc = "cancel"
    IN  /\ run[w].pc \in {"cancel", "finish"} /\ run[w].want = {}
        /\ hold[e] = "ACTIVE" => lock[MailboxOf[About[e]]] = Free
        /\ suppressed' = IF acts THEN Suppress(e) ELSE suppressed
        /\ enrollment' = Stop(w) /\ message' = Skip(w)
        /\ bounce' = [bounce EXCEPT ![About[e]] = IF run[w].matched THEN Worse(@, Kind[e]) ELSE @]
        /\ hold' = Resolve(e) /\ pending' = Counter(e, hold'[e])
        /\ receipt' = [receipt EXCEPT ![e] = IF Prohibits(e) /\ ~acts THEN "UNMATCHED" ELSE "PROCESSED"]
        /\ run' = [run EXCEPT ![w] = Idle]
        /\ lock' = Unlocked(w)
        /\ UNCHANGED <<tasks, tries, sender, faults>>

\* Mutant: the locks of a rolled back transaction stay.
X_Rollback(w) ==
    /\ run' = [run EXCEPT ![w] = Idle]
    /\ UNCHANGED <<receipt, hold, pending, tasks, tries, Outreach, message, sender, lock>>

\* The transaction is rolled back.  A page of notifications will be read
\* again; a person whose click failed has to click again.
Rollback(w) ==
    LET e == run[w].event
    IN  /\ run' = [run EXCEPT ![w] = IF Source[e] = "WEBHOOK" THEN [pc |-> "failed", event |-> e] ELSE Idle]
        /\ tasks' = [tasks EXCEPT ![e] = IF Source[e] = "DSN" THEN 1 ELSE @]
        /\ lock' = Unlocked(w)
        /\ UNCHANGED <<receipt, hold, pending, tries, Outreach, message, sender>>

Fail(w) == run[w].pc \in {"stop", "cancel", "finish"} /\ Fault /\ Rollback(w)

\* Mutant: a failed event gives up its hold.
X_MarkFailed(w) ==
    LET e == run[w].event
    IN  /\ run[w].pc = "failed" /\ ~Locked(e)
        /\ receipt' = [receipt EXCEPT ![e] = "FAILED"]
        /\ hold' = [hold EXCEPT ![e] = IF @ = "ACTIVE" THEN "RESOLVED" ELSE @]
        /\ pending' = Counter(e, hold'[e])
        /\ run' = [run EXCEPT ![w] = Idle]
        /\ UNCHANGED <<tasks, tries, Outreach, message, sender, lock, faults>>

\* mark_receipt_failed in a transaction of its own, whatever the receipt has
\* become; then the task is retried with a delay, a bounded number of times.
MarkFailed(w) ==
    LET e == run[w].event
    IN  /\ run[w].pc = "failed" /\ ~Locked(e)
        /\ receipt' = [receipt EXCEPT ![e] = "FAILED"]
        /\ IF tries[e] < MaxRetries
           THEN /\ tries' = [tries EXCEPT ![e] = @ + 1]
                /\ tasks' = [tasks EXCEPT ![e] = @ + 1]
           ELSE UNCHANGED <<tasks, tries>>
        /\ run' = [run EXCEPT ![w] = Idle]
        /\ UNCHANGED <<hold, pending, Outreach, message, sender, lock, faults>>

\* The task was acknowledged when it was received: a crash loses it.
WorkerCrash(w) ==
    LET e == run[w].event
    IN  /\ run[w] # Idle /\ Fault
        /\ run' = [run EXCEPT ![w] = Idle]
        /\ tasks' = [tasks EXCEPT ![e] = IF Source[e] = "DSN" THEN 1 ELSE @]
        /\ lock' = Unlocked(w)
        /\ UNCHANGED <<receipt, hold, pending, tries, Outreach, message, sender>>

-----------------------------------------------------------------------------
(* PostgreSQL's deadlock detector *)

\* The rows an actor waits for.
Awaits(p) ==
    IF p \in Workers
    THEN CASE run[p].pc \in {"stop", "cancel"} /\ run[p].want # {} -> run[p].want
           [] OTHER -> {}
    ELSE CASE sender[p] = "message" -> {EnrollmentOf[p]}
           [] sender[p] = "enrollment" -> {MailboxOf[p]}
           [] OTHER -> {}

\* Everyone in the set waits only for rows of the others, and is waited for.
Deadlocked(S) ==
    /\ S # {}
    /\ \A p \in S : /\ Awaits(p) # {} /\ {lock[r] : r \in Awaits(p)} \subseteq S \ {p}
                     /\ \E q \in S : \E r \in Awaits(q) : lock[r] = p

\* One transaction of a deadlock is rolled back: a send worker's (its message
\* stays QUEUED and is dispatched again), or an event's.
Detect ==
    \E S \in SUBSET (Workers \cup Messages) : Deadlocked(S) /\ \E p \in S :
        IF p \in Workers
        THEN /\ (S \subseteq Workers /\ UNCHANGED faults) \/ Fault
             /\ Rollback(p)
        ELSE /\ sender' = [sender EXCEPT ![p] = "idle"]
             /\ lock' = Unlocked(p)
             /\ UNCHANGED <<Evidence, run, Outreach, message, faults>>

-----------------------------------------------------------------------------
SendStep(m) == LockMessage(m) \/ LockEnrollment(m) \/ LockMailbox(m) \/ Authorize(m)
EventStep(w) == LockNext(w) \/ Cancel(w) \/ Commit(w) \/ MarkFailed(w)

Next ==
    \/ \E m \in Messages : SendStep(m) \/ Advance(m) \/ Settle(m)
    \/ \E e \in Events : AcceptSafety(e) \/ \E w \in Workers : Begin(w, e)
    \/ \E w \in Workers : EventStep(w) \/ Fail(w) \/ WorkerCrash(w)
    \/ \E a \in Addresses : SuppressManually(a) \/ ReleaseManually(a)
    \/ Detect

\* Workers take the tasks there are and carry on; a lock that is waited for is
\* granted in turn (strong fairness), a deadlock is detected.
Fairness ==
    /\ \A m \in Messages : WF_vars(LockEnrollment(m) \/ LockMailbox(m) \/ Authorize(m) \/ Settle(m))
    /\ SF_vars(\E w \in Workers, e \in Events : Claim(w, e) \/ ReadNotice(w, e))
    /\ SF_vars(\E w \in Workers : EventStep(w))
    /\ WF_vars(Detect)

Spec == Init /\ [][Next]_vars /\ Fairness

-----------------------------------------------------------------------------
(* Properties *)

\* The counter the send gate reads is the number of holds in force, through
\* failures, retries and repeated deliveries of the same event.
CountMatchesHolds ==
    \A b \in Mailboxes : pending[b] = Cardinality({e \in Events : MailboxOf[About[e]] = b /\ hold[e] = "ACTIVE"})

\* From the moment a safety event is acknowledged no message to its address is
\* authorized on its mailbox, and once it is applied none on any mailbox: the
\* hold is not given up before the suppression is in force.
Forbids(e, m) ==
    /\ Prohibits(e) /\ Target(e) = AddressOf[m]
    /\ \/ hold[e] = "ACTIVE" /\ MailboxOf[About[e]] = MailboxOf[m]
       \/ hold[e] = "RESOLVED" \/ receipt[e] = "PROCESSED"
NothingSentAfterEvent ==
    [][\A m \in Messages : message[m] # "SENDING" /\ message'[m] = "SENDING" => \A e \in Events : ~Forbids(e, m)]_vars

\* In the end every event that reached the platform is applied, or nothing in
\* the system knows any more that it is there.
Accepted(e) == receipt[e] # "NONE" \/ (Source[e] = "DSN" /\ message[About[e]] = "SENT")
Lost(e) == receipt[e] \in {"RECEIVED", "FAILED"} /\ tasks[e] = 0 /\ Running(e) = {}
Applied(e) == receipt[e] \in {"PROCESSED", "UNMATCHED"}
EveryEventApplied == <>[](\A e \in Events : Accepted(e) => Applied(e) \/ Lost(e))

=============================================================================
