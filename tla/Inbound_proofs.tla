----------------------------- MODULE Inbound_proofs -----------------------------
(***************************************************************************)
(* Theorems about Inbound, for any workers, events, messages, addresses,   *)
(* enrollments and mailboxes; and, from there on, about Imports, the other *)
(* part that writes the suppression list, for any files, rows and workers. *)
(***************************************************************************)
EXTENDS Inbound, Imports, Integers, Sequences, FiniteSetTheorems, TLAPS

-----------------------------------------------------------------------------
(* Types *)

Actors == Workers \union Messages

RunType ==
    {Idle}
    \union [pc : {"stop", "cancel", "finish"}, event : Events, matched : BOOLEAN, want : SUBSET Rows]
    \union [pc : {"failed"}, event : Events]

TypeOK ==
    /\ receipt \in [Events -> {"NONE", "RECEIVED", "PROCESSED", "UNMATCHED", "FAILED"}]
    /\ hold \in [Events -> {"NONE", "ACTIVE", "RESOLVED"}]
    /\ pending \in [Mailboxes -> Int]
    /\ run \in [Workers -> RunType]
    /\ suppressed \in [Addresses -> SUBSET {"MANUAL", "HARD_BOUNCE", "COMPLAINT", "UNSUBSCRIBE"}]
    /\ enrollment \in [Enrollments -> {"ACTIVE", "STOPPED"}]
    /\ message \in [Messages -> {"NONE", "QUEUED", "SENDING", "SENT", "ENDED"}]
    /\ sender \in [Messages -> {"idle", "message", "enrollment", "passed"}]
    /\ lock \in [Rows -> Actors \union {Free}]

-----------------------------------------------------------------------------
(* The inductive invariant *)

\* The holds the counter of a mailbox stands for.
ActiveHolds(b) == {e \in Events : MailboxOf[About[e]] = b /\ hold[e] = "ACTIVE"}

\* What was applied is in force, and only a webhook ever placed a hold.
SuppressionInv ==
    \A e \in Events :
        /\ Prohibits(e) /\ (hold[e] = "RESOLVED" \/ receipt[e] = "PROCESSED") =>
              Reason[Kind[e]] \in suppressed[Target(e)]
        /\ hold[e] # "NONE" => Source[e] = "WEBHOOK"

\* A transaction that stops an address has, or is about to lock, every enrollment
\* of that address that is still ACTIVE; one that only settles its receipt is of a
\* notification that matched nothing, if of a prohibiting event at all.
StopFact(w) ==
    /\ run[w].pc = "finish" => (Prohibits(run[w].event) => Source[run[w].event] = "DSN")
    /\ run[w].pc \in {"stop", "cancel"} =>
          /\ Prohibits(run[w].event)
          /\ \A m \in Messages :
               AddressOf[m] = Target(run[w].event) /\ enrollment[EnrollmentOf[m]] = "ACTIVE" =>
                  \/ lock[EnrollmentOf[m]] = w
                  \/ run[w].pc = "stop" /\ EnrollmentOf[m] \in run[w].want

\* A send worker that passed the gates still has what it found there.
SendFact(m) ==
    /\ sender[m] \in {"enrollment", "passed"} => lock[EnrollmentOf[m]] = m
    /\ sender[m] = "passed" =>
          /\ lock[MailboxOf[m]] = m
          /\ enrollment[EnrollmentOf[m]] = "ACTIVE"
          /\ \A e \in Events : ~Forbids(e, m)

InboundInv ==
    /\ TypeOK /\ CountMatchesHolds
    /\ \A b \in Mailboxes : IsFiniteSet(ActiveHolds(b))
    /\ SuppressionInv
    /\ \A w \in Workers : StopFact(w)
    /\ \A m \in Messages : SendFact(m)

-----------------------------------------------------------------------------
(* What the steps have in common *)

\* Those who hold locks are told apart.
LEMMA Holders ==
    /\ \A w \in Workers : w \notin Messages /\ w # Free
    /\ \A m \in Messages : m \notin Workers /\ m # Free
    /\ \A m \in Messages : /\ EnrollmentOf[m] \in Enrollments /\ EnrollmentOf[m] \in Rows
                           /\ MailboxOf[m] \in Mailboxes /\ MailboxOf[m] \in Rows
                           /\ m \in Rows /\ AddressOf[m] \in Addresses
    /\ \A e \in Events : About[e] \in Messages /\ Target(e) \in Addresses
  BY InboundAssumption DEF Free, Rows, Target

\* Who does not move keeps what is known of him, if rows that others hold stay theirs,
\* enrollments only stop, and no event begins to forbid an email that passed the gates.
LEMMA OthersKeep ==
    ASSUME InboundInv, NEW S \in SUBSET Actors,
           \A r \in Rows : lock[r] \notin S \union {Free} => lock'[r] = lock[r],
           \A c \in Enrollments : /\ enrollment'[c] = "ACTIVE" => enrollment[c] = "ACTIVE"
                                  /\ enrollment'[c] # enrollment[c] => lock[c] \in S,
           \A w \in Workers \ S : run'[w] = run[w],
           \A m \in Messages \ S : sender'[m] = sender[m],
           \A m \in Messages \ S, e \in Events : sender[m] = "passed" /\ Forbids(e, m)' => Forbids(e, m)
    PROVE  /\ \A w \in Workers \ S : StopFact(w)'
           /\ \A m \in Messages \ S : SendFact(m)'
PROOF
  <1>1. ASSUME NEW w \in Workers \ S PROVE StopFact(w)'
    <2>1. StopFact(w) /\ w # Free
      BY Holders DEF InboundInv
    <2>2. \A r \in Rows : lock[r] = w => lock'[r] = w
      BY <2>1
    <2>3. \A e : Target(e)' = Target(e) /\ (Prohibits(e)' <=> Prohibits(e))
      BY DEF Target, Prohibits
    <2>. QED BY <1>1, <2>1, <2>2, <2>3, Holders DEF StopFact
  <1>2. ASSUME NEW m \in Messages \ S PROVE SendFact(m)'
    <2>1. SendFact(m) /\ m # Free
      BY Holders DEF InboundInv
    <2>2. \A r \in Rows : lock[r] = m => lock'[r] = m
      BY <2>1
    <2>3. sender[m] = "passed" => enrollment'[EnrollmentOf[m]] = enrollment[EnrollmentOf[m]]
      BY <1>2, <2>1, Holders DEF SendFact
    <2>. QED BY <1>2, <2>1, <2>2, <2>3, Holders DEF SendFact
  <1>. QED
    BY <1>1, <1>2

\* The locks of an actor that waits for none any more.
LEMMA LockTaken ==
    ASSUME TypeOK, NEW p \in Actors, NEW r \in Rows, Lock(r, p)
    PROVE  /\ lock' \in [Rows -> Actors \union {Free}] /\ lock'[r] = p
           /\ \A q \in Rows : lock[q] # Free => lock'[q] = lock[q]
  BY DEF Lock, TypeOK

\* The end of a transaction.
LEMMA LocksReleased ==
    ASSUME TypeOK, NEW p \in Actors, lock' = Unlocked(p)
    PROVE  /\ lock' \in [Rows -> Actors \union {Free}]
           /\ \A q \in Rows : lock[q] # p => lock'[q] = lock[q]
  BY DEF Unlocked, TypeOK

\* A step that leaves receipts, holds and suppressions as they are.
LEMMA EvidenceKept ==
    ASSUME InboundInv, UNCHANGED <<receipt, hold, pending, suppressed>>
    PROVE  /\ CountMatchesHolds' /\ SuppressionInv' /\ \A b \in Mailboxes : IsFiniteSet(ActiveHolds(b))'
           /\ \A e, m : Forbids(e, m)' <=> Forbids(e, m)
  BY DEF InboundInv, CountMatchesHolds, SuppressionInv, ActiveHolds, Forbids, Prohibits, Target

-----------------------------------------------------------------------------
(* The sends *)

\* A send worker that takes its first two locks.
LEMMA LockStep ==
    ASSUME InboundInv, NEW m \in Messages, LockMessage(m) \/ LockEnrollment(m)
    PROVE  InboundInv'
PROOF
  <1>0. TypeOK /\ m \in Actors /\ UNCHANGED <<receipt, hold, pending, run, suppressed, enrollment, message>>
    BY DEF InboundInv, Actors, LockMessage, LockEnrollment, Evidence, Outreach
  <1>1. PICK r \in Rows, s \in {"message", "enrollment"} :
           /\ Lock(r, m) /\ sender' = [sender EXCEPT ![m] = s]
           /\ s = "enrollment" => r = EnrollmentOf[m]
    BY Holders DEF LockMessage, LockEnrollment
  <1>2. /\ lock' \in [Rows -> Actors \union {Free}] /\ lock'[r] = m
        /\ \A q \in Rows : lock[q] # Free => lock'[q] = lock[q]
    BY <1>0, <1>1, LockTaken
  <1>3. TypeOK'
    BY <1>0, <1>1, <1>2 DEF TypeOK
  <1>4. (\A w \in Workers \ {m} : StopFact(w)') /\ \A n \in Messages \ {m} : SendFact(n)'
    BY <1>0, <1>1, <1>2, EvidenceKept, OthersKeep, ZenonT(60) DEF TypeOK
  <1>5. SendFact(m)'
    BY <1>0, <1>1, <1>2 DEF TypeOK, SendFact
  <1>6. \A w \in Workers : w # m
    BY Holders
  <1>. QED
    BY <1>0, <1>3, <1>4, <1>5, <1>6, EvidenceKept DEF InboundInv

\* The gates: a message passes them when its address is not suppressed, its enrollment
\* goes on and its mailbox has no hold, and so when no event forbids it.
LEMMA GatesStep ==
    ASSUME InboundInv, NEW m \in Messages, LockMailbox(m)
    PROVE  InboundInv'
PROOF
  <1>0. TypeOK /\ m \in Actors /\ UNCHANGED <<receipt, hold, pending, run, suppressed, enrollment>>
        /\ \A w \in Workers : w # m
    BY Holders DEF InboundInv, Actors, LockMailbox, Evidence, Outreach
  <1>1. CASE /\ sender' = [sender EXCEPT ![m] = "idle"] /\ lock' = Unlocked(m)
             /\ \E s \in {"ENDED", message[m]} : message' = [message EXCEPT ![m] = s]
    <2>1. /\ lock' \in [Rows -> Actors \union {Free}]
          /\ \A q \in Rows : lock[q] # m => lock'[q] = lock[q]
      BY <1>0, <1>1, LocksReleased
    <2>2. TypeOK'
      BY <1>0, <1>1, <2>1 DEF TypeOK
    <2>3. (\A w \in Workers \ {m} : StopFact(w)') /\ \A n \in Messages \ {m} : SendFact(n)'
      BY <1>0, <1>1, <2>1, EvidenceKept, OthersKeep DEF TypeOK
    <2>4. SendFact(m)'
      BY <1>0, <1>1 DEF TypeOK, SendFact
    <2>. QED BY <1>0, <2>2, <2>3, <2>4, EvidenceKept DEF InboundInv
  <1>2. CASE /\ sender' = [sender EXCEPT ![m] = "passed"] /\ Lock(MailboxOf[m], m) /\ UNCHANGED message
             /\ sender[m] = "enrollment" /\ enrollment[EnrollmentOf[m]] = "ACTIVE"
             /\ suppressed[AddressOf[m]] = {} /\ ~(pending[MailboxOf[m]] > 0)
    <2>1. /\ lock' \in [Rows -> Actors \union {Free}] /\ lock'[MailboxOf[m]] = m
          /\ \A q \in Rows : lock[q] # Free => lock'[q] = lock[q]
      BY <1>0, <1>2, LockTaken, Holders
    <2>2. TypeOK'
      BY <1>0, <1>2, <2>1 DEF TypeOK
    <2>3. (\A w \in Workers \ {m} : StopFact(w)') /\ \A n \in Messages \ {m} : SendFact(n)'
      <3>. PICK S \in SUBSET Actors : S = {m}
        BY <1>0
      <3>1. \A w \in Workers \ S : run'[w] = run[w]
        BY <1>0
      <3>2. \A n \in Messages \ S : sender'[n] = sender[n]
        BY <1>0, <1>2 DEF TypeOK
      <3>. QED BY <1>0, <2>1, <3>1, <3>2, EvidenceKept, OthersKeep
    <2>4. ActiveHolds(MailboxOf[m]) = {}
      <3>1. PICK b \in Mailboxes : b = MailboxOf[m]
        BY Holders
      <3>2. IsFiniteSet(ActiveHolds(b)) /\ pending[b] = Cardinality(ActiveHolds(b)) /\ ~(pending[b] > 0)
        BY <1>2, <3>1 DEF InboundInv, CountMatchesHolds, ActiveHolds
      <3>3. Cardinality(ActiveHolds(b)) \in Nat
        BY <3>2, FS_CardinalityType
      <3>4. Cardinality(ActiveHolds(b)) = 0
        BY <3>2, <3>3
      <3>. QED BY <3>1, <3>2, <3>4, FS_EmptySet
    <2>5. ASSUME NEW e \in Events PROVE ~Forbids(e, m)
      <3>1. SuppressionInv
        BY DEF InboundInv
      <3>. QED BY <1>2, <2>4, <3>1 DEF Forbids, ActiveHolds, SuppressionInv
    <2>6. lock'[EnrollmentOf[m]] = m
      <3>1. lock[EnrollmentOf[m]] = m /\ m # Free /\ EnrollmentOf[m] \in Rows
        BY <1>2, Holders DEF InboundInv, SendFact
      <3>. QED BY <2>1, <3>1
    <2>7. SendFact(m)'
      <3>1. \A e \in Events : ~Forbids(e, m)'
        BY <1>0, <2>5, EvidenceKept
      <3>. QED BY <1>0, <1>2, <2>1, <2>6, <3>1 DEF SendFact, TypeOK
    <2>. QED BY <1>0, <2>2, <2>3, <2>7, EvidenceKept DEF InboundInv
  <1>3. \/ /\ sender' = [sender EXCEPT ![m] = "idle"] /\ lock' = Unlocked(m)
           /\ \E s \in {"ENDED", message[m]} : message' = [message EXCEPT ![m] = s]
        \/ /\ sender' = [sender EXCEPT ![m] = "passed"] /\ Lock(MailboxOf[m], m) /\ UNCHANGED message
           /\ sender[m] = "enrollment" /\ enrollment[EnrollmentOf[m]] = "ACTIVE"
           /\ suppressed[AddressOf[m]] = {} /\ ~(pending[MailboxOf[m]] > 0)
    BY DEF LockMailbox
  <1>. QED
    BY <1>1, <1>2, <1>3

\* The authorization, and the roll back of a send worker: its locks are free again.
LEMMA SenderEnds ==
    ASSUME InboundInv, NEW m \in Messages, sender' = [sender EXCEPT ![m] = "idle"], lock' = Unlocked(m),
           message' = message \/ message' = [message EXCEPT ![m] = "SENDING"],
           UNCHANGED <<receipt, hold, pending, run, suppressed, enrollment>>
    PROVE  InboundInv'
PROOF
  <1>0. TypeOK /\ m \in Actors /\ \A w \in Workers : w # m
    BY Holders DEF InboundInv, Actors
  <1>1. /\ lock' \in [Rows -> Actors \union {Free}]
        /\ \A q \in Rows : lock[q] # m => lock'[q] = lock[q]
    BY <1>0, LocksReleased
  <1>2. TypeOK'
    BY <1>0, <1>1 DEF TypeOK
  <1>3. (\A w \in Workers \ {m} : StopFact(w)') /\ \A n \in Messages \ {m} : SendFact(n)'
    <2>. PICK S \in SUBSET Actors : S = {m}
      BY <1>0
    <2>1. \A n \in Messages \ S : sender'[n] = sender[n]
      BY <1>0 DEF TypeOK
    <2>. QED BY <1>0, <1>1, <2>1, EvidenceKept, OthersKeep
  <1>4. SendFact(m)'
    BY <1>0 DEF TypeOK, SendFact
  <1>. QED
    BY <1>0, <1>2, <1>3, <1>4, EvidenceKept DEF InboundInv

\* A follow-up is planned, or an attempt settled.
LEMMA MessageStep ==
    ASSUME InboundInv, NEW m \in Messages, Advance(m) \/ Settle(m)
    PROVE  InboundInv'
PROOF
  <1>0. TypeOK /\ UNCHANGED <<receipt, hold, pending, run, suppressed, enrollment, sender, lock>>
    BY DEF InboundInv, Advance, Settle, Evidence, Outreach
  <1>1. PICK s \in {"QUEUED", "SENT", "ENDED"} : message' = [message EXCEPT ![m] = s]
    BY DEF Advance, Settle
  <1>2. TypeOK'
    BY <1>0, <1>1 DEF TypeOK
  <1>3. (\A w \in Workers : StopFact(w)') /\ \A n \in Messages : SendFact(n)'
    <2>. PICK S \in SUBSET Actors : S = {}
      OBVIOUS
    <2>. QED BY <1>0, EvidenceKept, OthersKeep
  <1>. QED
    BY <1>0, <1>2, <1>3, EvidenceKept DEF InboundInv

-----------------------------------------------------------------------------
(* Holds and suppressions *)

\* The trigger of the holds keeps the counter of their mailbox right.
LEMMA CountKept ==
    ASSUME InboundInv, NEW e \in Events, NEW new \in {"ACTIVE", "RESOLVED", "NONE"},
           hold' = [hold EXCEPT ![e] = new], pending' = Counter(e, new)
    PROVE  /\ CountMatchesHolds' /\ \A b \in Mailboxes : IsFiniteSet(ActiveHolds(b))'
           /\ pending' \in [Mailboxes -> Int] /\ hold' \in [Events -> {"NONE", "ACTIVE", "RESOLVED"}]
PROOF
  <1>0. /\ hold \in [Events -> {"NONE", "ACTIVE", "RESOLVED"}] /\ pending \in [Mailboxes -> Int]
        /\ \A b \in Mailboxes : IsFiniteSet(ActiveHolds(b)) /\ pending[b] = Cardinality(ActiveHolds(b))
    BY DEF InboundInv, TypeOK, CountMatchesHolds, ActiveHolds
  <1>. PICK box \in Mailboxes : box = MailboxOf[About[e]]
    BY Holders
  <1>. PICK n \in Int : n = pending[box] + (IF new = "ACTIVE" THEN 1 ELSE 0) - (IF hold[e] = "ACTIVE" THEN 1 ELSE 0)
    BY <1>0
  <1>1. pending' = [pending EXCEPT ![box] = n]
    BY DEF Counter
  <1>2. pending' \in [Mailboxes -> Int] /\ pending'[box] = n /\ \A b \in Mailboxes \ {box} : pending'[b] = pending[b]
    BY <1>0, <1>1
  <1>3. hold'[e] = new /\ (\A d \in Events \ {e} : hold'[d] = hold[d])
        /\ hold' \in [Events -> {"NONE", "ACTIVE", "RESOLVED"}]
    BY <1>0
  <1>4. ASSUME NEW b \in Mailboxes
        PROVE  IsFiniteSet(ActiveHolds(b))' /\ pending'[b] = Cardinality(ActiveHolds(b))'
    <2>1. CASE b # box \/ (new = "ACTIVE" <=> hold[e] = "ACTIVE")
      <3>1. ActiveHolds(b)' = ActiveHolds(b)
        BY <1>3, <2>1 DEF ActiveHolds
      <3>2. pending'[b] = pending[b]
        BY <1>0, <1>2, <2>1
      <3>. QED BY <1>0, <3>1, <3>2
    <2>2. CASE b = box /\ new = "ACTIVE" /\ hold[e] # "ACTIVE"
      <3>1. ActiveHolds(b)' = ActiveHolds(b) \union {e} /\ e \notin ActiveHolds(b)
        BY <1>3, <2>2 DEF ActiveHolds
      <3>2. pending'[b] = pending[b] + 1
        BY <1>0, <1>2, <2>2
      <3>. QED BY <1>0, <3>1, <3>2, FS_AddElement
    <2>3. CASE b = box /\ new # "ACTIVE" /\ hold[e] = "ACTIVE"
      <3>1. ActiveHolds(b)' = ActiveHolds(b) \ {e} /\ e \in ActiveHolds(b)
        BY <1>3, <2>3 DEF ActiveHolds
      <3>2. pending'[b] = pending[b] - 1
        BY <1>0, <1>2, <2>3
      <3>. QED BY <1>0, <3>1, <3>2, FS_RemoveElement
    <2>. QED BY <2>1, <2>2, <2>3
  <1>. QED
    BY <1>2, <1>3, <1>4 DEF CountMatchesHolds, ActiveHolds

\* A webhook is accepted: its hold needs the row of its mailbox, which no email that
\* passed the gates of that mailbox has left free.
LEMMA AcceptStep ==
    ASSUME InboundInv, NEW e \in Events, AcceptSafety(e)
    PROVE  InboundInv'
PROOF
  <1>0. /\ TypeOK /\ UNCHANGED <<run, suppressed, enrollment, message, sender, lock>>
        /\ Source[e] = "WEBHOOK" /\ receipt[e] = "NONE" /\ receipt' = [receipt EXCEPT ![e] = "RECEIVED"]
        /\ hold' = [hold EXCEPT ![e] = "ACTIVE"] /\ pending' = Counter(e, "ACTIVE")
        /\ lock[MailboxOf[About[e]]] = Free
    BY DEF InboundInv, AcceptSafety, StoreReceipt, PlaceHold, Outreach
  <1>. PICK new \in {"ACTIVE", "RESOLVED", "NONE"} : new = "ACTIVE"
    OBVIOUS
  <1>1. /\ CountMatchesHolds' /\ \A b \in Mailboxes : IsFiniteSet(ActiveHolds(b))'
        /\ pending' \in [Mailboxes -> Int] /\ hold' \in [Events -> {"NONE", "ACTIVE", "RESOLVED"}]
    BY <1>0, CountKept
  <1>2. TypeOK'
    BY <1>0, <1>1 DEF TypeOK
  <1>3. SuppressionInv'
    BY <1>0 DEF InboundInv, TypeOK, SuppressionInv, Prohibits, Target
  <1>4. ASSUME NEW m \in Messages, NEW d \in Events, sender[m] = "passed", Forbids(d, m)' PROVE Forbids(d, m)
    <2>1. lock[MailboxOf[m]] = m /\ m # Free
      BY <1>4, Holders DEF InboundInv, SendFact
    <2>. QED BY <1>0, <1>4, <2>1 DEF TypeOK, Forbids, Prohibits, Target
  <1>5. (\A w \in Workers : StopFact(w)') /\ \A m \in Messages : SendFact(m)'
    <2>. PICK S \in SUBSET Actors : S = {}
      OBVIOUS
    <2>. QED BY <1>0, <1>4, OthersKeep
  <1>. QED
    BY <1>1, <1>2, <1>3, <1>5 DEF InboundInv

\* The user's own list: what an event suppressed stays suppressed.
LEMMA ManualStep ==
    ASSUME InboundInv, NEW a \in Addresses, SuppressManually(a) \/ ReleaseManually(a)
    PROVE  InboundInv'
PROOF
  <1>0. TypeOK /\ UNCHANGED <<receipt, hold, pending, run, enrollment, message, sender, lock>>
    BY DEF InboundInv, SuppressManually, ReleaseManually, Evidence, Outreach
  <1>1. /\ suppressed' \in [Addresses -> SUBSET {"MANUAL", "HARD_BOUNCE", "COMPLAINT", "UNSUBSCRIBE"}]
        /\ \A b \in Addresses : suppressed[b] \ {"MANUAL"} \subseteq suppressed'[b]
    <2>1. PICK v \in SUBSET {"MANUAL", "HARD_BOUNCE", "COMPLAINT", "UNSUBSCRIBE"} :
            suppressed' = [suppressed EXCEPT ![a] = v] /\ suppressed[a] \ {"MANUAL"} \subseteq v
      BY <1>0 DEF TypeOK, SuppressManually, ReleaseManually
    <2>. QED BY <1>0, <2>1 DEF TypeOK
  <1>2. TypeOK'
    BY <1>0, <1>1 DEF TypeOK
  <1>3. SuppressionInv'
    <2>1. \A e \in Events : Prohibits(e) => Reason[Kind[e]] # "MANUAL"
      BY DEF Prohibits, Reason
    <2>2. \A e \in Events : Target(e) \in Addresses
      BY Holders
    <2>3. SuppressionInv /\ \A e : Target(e)' = Target(e) /\ (Prohibits(e)' <=> Prohibits(e))
      BY DEF InboundInv, Target, Prohibits
    <2>. QED BY <1>0, <1>1, <2>1, <2>2, <2>3 DEF SuppressionInv
  <1>4. CountMatchesHolds' /\ \A b \in Mailboxes : IsFiniteSet(ActiveHolds(b))'
    BY <1>0 DEF InboundInv, CountMatchesHolds, ActiveHolds
  <1>5. (\A w \in Workers : StopFact(w)') /\ \A m \in Messages : SendFact(m)'
    <2>. PICK S \in SUBSET Actors : S = {}
      OBVIOUS
    <2>1. \A m, e : Forbids(e, m)' <=> Forbids(e, m)
      BY <1>0 DEF Forbids, Prohibits, Target
    <2>. QED BY <1>0, <2>1, OthersKeep
  <1>. QED
    BY <1>2, <1>3, <1>4, <1>5 DEF InboundInv

-----------------------------------------------------------------------------
(* The transaction of an event *)

\* A worker whose step leaves everything alone but its own locks and record.
LEMMA WorkerStep ==
    ASSUME InboundInv, NEW w \in Workers, NEW r \in RunType, run' = [run EXCEPT ![w] = r],
           UNCHANGED <<receipt, hold, pending, suppressed, enrollment, message, sender>>,
           lock' \in [Rows -> Actors \union {Free}],
           \A q \in Rows : lock[q] \notin {w, Free} => lock'[q] = lock[q],
           StopFact(w)'
    PROVE  InboundInv'
PROOF
  <1>0. TypeOK /\ w \in Actors /\ \A m \in Messages : m # w
    BY Holders DEF InboundInv, Actors
  <1>1. TypeOK'
    BY <1>0 DEF TypeOK
  <1>2. (\A v \in Workers \ {w} : StopFact(v)') /\ \A m \in Messages \ {w} : SendFact(m)'
    <2>. PICK S \in SUBSET Actors : S = {w}
      BY <1>0
    <2>1. \A v \in Workers \ S : run'[v] = run[v]
      BY <1>0 DEF TypeOK
    <2>. QED BY <1>0, <2>1, EvidenceKept, OthersKeep
  <1>. QED
    BY <1>0, <1>1, <1>2, EvidenceKept DEF InboundInv

\* A transaction begins with what its snapshot shows.
LEMMA BeginStep ==
    ASSUME InboundInv, NEW w \in Workers, NEW e \in Events, Begin(w, e)
    PROVE  InboundInv'
PROOF
  <1>0. TypeOK /\ UNCHANGED <<receipt, hold, pending, suppressed, enrollment, message, sender, lock>>
    BY DEF InboundInv, Begin, Claim, ReadNotice, Click, Outreach
  <1>1. lock' \in [Rows -> Actors \union {Free}] /\ \A q \in Rows : lock'[q] = lock[q]
    BY <1>0 DEF TypeOK
  <1>2. CASE UNCHANGED run
    <2>1. run[w] \in RunType /\ run' = [run EXCEPT ![w] = run[w]]
      BY <1>0, <1>2 DEF TypeOK
    <2>2. StopFact(w)'
      BY <1>0, <1>2 DEF InboundInv, StopFact, Target, Prohibits
    <2>. QED BY <1>0, <1>1, <2>1, <2>2, WorkerStep
  <1>3. CASE Apply(w, e)
    <2>1. PICK r : /\ r = [pc |-> IF Acts(e) THEN "stop" ELSE "finish", event |-> e, matched |-> Matched(e),
                          want |-> IF Acts(e) THEN ActiveEnrollments(Target(e)) ELSE {}]
                   /\ run' = [run EXCEPT ![w] = r]
      BY <1>3 DEF Apply
    <2>2. r \in RunType
      <3>1. ActiveEnrollments(Target(e)) \in SUBSET Rows /\ Matched(e) \in BOOLEAN
        BY DEF ActiveEnrollments, Rows, Matched
      <3>. QED BY <2>1, <3>1 DEF RunType
    <2>3. run'[w] = r
      BY <1>0, <2>1 DEF TypeOK
    <2>4. StopFact(w)'
      <3>1. CASE Acts(e)
        <4>1. \A m \in Messages : AddressOf[m] = Target(e) /\ enrollment[EnrollmentOf[m]] = "ACTIVE" =>
                 EnrollmentOf[m] \in ActiveEnrollments(Target(e))
          BY Holders DEF ActiveEnrollments
        <4>2. r.pc = "stop" /\ r.event = e /\ r.want = ActiveEnrollments(Target(e))
          BY <2>1, <3>1
        <4>. QED BY <1>0, <2>3, <3>1, <4>1, <4>2 DEF StopFact, Target, Prohibits, Acts
      <3>2. CASE ~Acts(e)
        <4>1. r.pc = "finish" /\ r.event = e
          BY <2>1, <3>2
        <4>. QED BY <2>3, <3>2, <4>1 DEF StopFact, Acts, Prohibits
      <3>. QED BY <3>1, <3>2
    <2>. QED BY <1>0, <1>1, <2>1, <2>2, <2>4, WorkerStep
  <1>. QED
    BY <1>2, <1>3 DEF Begin, Claim, ReadNotice, Click

\* One more row of those a statement wants is locked.
LEMMA LockNextStep ==
    ASSUME InboundInv, NEW w \in Workers, LockNext(w)
    PROVE  InboundInv'
PROOF
  <1>0. TypeOK /\ UNCHANGED <<receipt, hold, pending, suppressed, enrollment, message, sender>> /\ w \in Actors
        /\ run[w].pc \in {"stop", "cancel"} /\ StopFact(w)
    BY DEF InboundInv, LockNext, Evidence, Outreach, Actors
  <1>1. run[w] \in [pc : {"stop", "cancel", "finish"}, event : Events, matched : BOOLEAN, want : SUBSET Rows]
    BY <1>0 DEF TypeOK, RunType, Idle
  <1>2. PICK q \in run[w].want : Lock(q, w) /\ run' = [run EXCEPT ![w].want = @ \ {q}]
    BY DEF LockNext
  <1>3. PICK r : r = [run[w] EXCEPT !.want = run[w].want \ {q}]
    OBVIOUS
  <1>4. r \in RunType /\ r.pc = run[w].pc /\ r.event = run[w].event /\ r.want = run[w].want \ {q}
    BY <1>1, <1>3 DEF RunType
  <1>5. run' = [run EXCEPT ![w] = r] /\ run'[w] = r
    BY <1>0, <1>2, <1>3 DEF TypeOK
  <1>6. /\ lock' \in [Rows -> Actors \union {Free}] /\ lock'[q] = w
        /\ \A p \in Rows : lock[p] # Free => lock'[p] = lock[p]
    BY <1>0, <1>1, <1>2, LockTaken
  <1>7. StopFact(w)'
    <2>1. w # Free /\ \A m \in Messages : EnrollmentOf[m] \in Rows
      BY Holders
    <2>2. ASSUME NEW m \in Messages, AddressOf[m] = Target(r.event), enrollment[EnrollmentOf[m]] = "ACTIVE"
          PROVE  lock'[EnrollmentOf[m]] = w \/ (r.pc = "stop" /\ EnrollmentOf[m] \in r.want)
      BY <1>0, <1>4, <1>6, <2>1, <2>2 DEF StopFact
    <2>. QED BY <1>0, <1>4, <1>5, <2>2 DEF StopFact, Target, Prohibits
  <1>. QED
    BY <1>0, <1>4, <1>5, <1>6, <1>7, WorkerStep

\* The second statement begins when the first has all it wanted.
LEMMA CancelStep ==
    ASSUME InboundInv, NEW w \in Workers, Cancel(w)
    PROVE  InboundInv'
PROOF
  <1>0. TypeOK /\ UNCHANGED <<receipt, hold, pending, suppressed, enrollment, message, sender, lock>>
        /\ run[w].pc = "stop" /\ run[w].want = {} /\ StopFact(w)
    BY DEF InboundInv, Cancel, Evidence, Outreach
  <1>1. run[w] \in [pc : {"stop", "cancel", "finish"}, event : Events, matched : BOOLEAN, want : SUBSET Rows]
    BY <1>0 DEF TypeOK, RunType, Idle
  <1>2. PICK mine \in SUBSET Rows : run' = [run EXCEPT ![w].pc = "cancel", ![w].want = mine]
    BY DEF Cancel, Rows
  <1>3. PICK r : r = [run[w] EXCEPT !.pc = "cancel", !.want = mine]
    OBVIOUS
  <1>4. r \in RunType /\ r.pc = "cancel" /\ r.event = run[w].event
    BY <1>1, <1>3 DEF RunType
  <1>5. run' = [run EXCEPT ![w] = r] /\ run'[w] = r
    BY <1>0, <1>2, <1>3 DEF TypeOK
  <1>6. StopFact(w)'
    BY <1>0, <1>4, <1>5 DEF StopFact, Target, Prohibits
  <1>. QED
    BY <1>0, <1>4, <1>5, <1>6, WorkerStep DEF TypeOK

\* A transaction that is rolled back, and the record of its failure or of its end.
LEMMA GiveUp ==
    ASSUME InboundInv, NEW w \in Workers,
           run' = [run EXCEPT ![w] = Idle]
              \/ \E e \in Events : run' = [run EXCEPT ![w] = [pc |-> "failed", event |-> e]],
           UNCHANGED <<receipt, hold, pending, suppressed, enrollment, message, sender>>,
           lock' = Unlocked(w)
    PROVE  InboundInv'
PROOF
  <1>0. TypeOK /\ w \in Actors
    BY DEF InboundInv, Actors
  <1>1. PICK r \in RunType : run' = [run EXCEPT ![w] = r] /\ r.pc \in {"idle", "failed"}
    <2>1. CASE run' = [run EXCEPT ![w] = Idle]
      <3>1. Idle \in RunType /\ Idle.pc = "idle"
        BY DEF RunType, Idle
      <3>. QED BY <2>1, <3>1
    <2>2. ASSUME NEW e \in Events, run' = [run EXCEPT ![w] = [pc |-> "failed", event |-> e]]
          PROVE  \E r \in RunType : run' = [run EXCEPT ![w] = r] /\ r.pc \in {"idle", "failed"}
      <3>1. [pc |-> "failed", event |-> e] \in RunType
        BY DEF RunType
      <3>. QED BY <2>2, <3>1
    <2>. QED BY <2>1, <2>2
  <1>2. StopFact(w)'
    BY <1>0, <1>1 DEF TypeOK, StopFact
  <1>. QED
    BY <1>0, <1>1, <1>2, LocksReleased, WorkerStep

\* The commit of an event: its suppression is in force when its hold is resolved and
\* its receipt processed; an email to the address that passed the gates would hold the
\* row of an enrollment the transaction has locked.
LEMMA CommitStep ==
    ASSUME InboundInv, NEW w \in Workers, Commit(w)
    PROVE  InboundInv'
PROOF
  <1>0. TypeOK /\ w \in Actors /\ SuppressionInv /\ UNCHANGED sender
        /\ run[w].pc \in {"cancel", "finish"} /\ StopFact(w)
    BY DEF InboundInv, Commit, Actors
  <1>1. run[w] \in [pc : {"stop", "cancel", "finish"}, event : Events, matched : BOOLEAN, want : SUBSET Rows]
    BY <1>0 DEF TypeOK, RunType, Idle
  <1>. PICK e \in Events : e = run[w].event
    BY <1>1
  <1>. PICK acts \in BOOLEAN : acts <=> run[w].pc = "cancel"
    OBVIOUS
  <1>2. /\ suppressed' = IF acts THEN Suppress(e) ELSE suppressed
        /\ enrollment' = Stop(w) /\ message' = Skip(w)
        /\ hold' = Resolve(e) /\ pending' = Counter(e, hold'[e])
        /\ receipt' = [receipt EXCEPT ![e] = IF Prohibits(e) /\ ~acts THEN "UNMATCHED" ELSE "PROCESSED"]
        /\ run' = [run EXCEPT ![w] = Idle] /\ lock' = Unlocked(w)
        /\ hold[e] = "ACTIVE" => lock[MailboxOf[About[e]]] = Free
    BY DEF Commit
  <1>3. PICK new \in {"ACTIVE", "RESOLVED", "NONE"} :
           new = (IF hold[e] = "ACTIVE" THEN "RESOLVED" ELSE hold[e]) /\ hold' = [hold EXCEPT ![e] = new]
    BY <1>0, <1>2 DEF TypeOK, Resolve
  <1>4. pending' = Counter(e, new)
    BY <1>0, <1>2, <1>3 DEF TypeOK
  <1>5. /\ CountMatchesHolds' /\ \A b \in Mailboxes : IsFiniteSet(ActiveHolds(b))'
        /\ pending' \in [Mailboxes -> Int] /\ hold' \in [Events -> {"NONE", "ACTIVE", "RESOLVED"}]
    BY <1>3, <1>4, CountKept
  <1>6. (acts /\ Prohibits(e)) \/ ~Prohibits(e) \/ (~acts /\ Source[e] = "DSN")
    <2>1. CASE run[w].pc = "cancel"
      <3>1. acts
        BY <2>1
      <3>2. Prohibits(e)
        BY <1>0, <2>1 DEF StopFact
      <3>. QED BY <3>1, <3>2
    <2>2. CASE run[w].pc = "finish"
      <3>1. ~acts
        BY <2>2
      <3>2. Prohibits(e) => Source[e] = "DSN"
        BY <1>0, <2>2 DEF StopFact
      <3>. QED BY <3>1, <3>2
    <2>. QED BY <1>0, <2>1, <2>2
  <1>7. /\ suppressed' \in [Addresses -> SUBSET {"MANUAL", "HARD_BOUNCE", "COMPLAINT", "UNSUBSCRIBE"}]
        /\ \A a \in Addresses : suppressed[a] \subseteq suppressed'[a]
        /\ Prohibits(e) /\ acts => Reason[Kind[e]] \in suppressed'[Target(e)]
    <2>1. CASE ~acts
      BY <1>0, <1>2, <2>1 DEF TypeOK
    <2>2. CASE acts /\ Prohibits(e)
      <3>1. Reason[Kind[e]] \in {"HARD_BOUNCE", "COMPLAINT", "UNSUBSCRIBE"}
        BY <2>2 DEF Prohibits, Reason
      <3>2. suppressed' = [suppressed EXCEPT ![Target(e)] = @ \union {Reason[Kind[e]]}] /\ Target(e) \in Addresses
        BY <1>2, <2>2, Holders DEF Suppress
      <3>. QED BY <1>0, <3>1, <3>2 DEF TypeOK
    <2>3. CASE acts /\ ~Prohibits(e)
      <3>. QED BY <1>0, <2>3 DEF StopFact
    <2>. QED BY <2>1, <2>2, <2>3
  <1>8. /\ enrollment' \in [Enrollments -> {"ACTIVE", "STOPPED"}]
        /\ \A c \in Enrollments : /\ enrollment'[c] = "ACTIVE" => enrollment[c] = "ACTIVE"
                                  /\ enrollment'[c] # enrollment[c] => lock[c] = w
        /\ message' \in [Messages -> {"NONE", "QUEUED", "SENDING", "SENT", "ENDED"}]
    BY <1>0, <1>2 DEF TypeOK, Stop, Skip
  <1>9. /\ lock' \in [Rows -> Actors \union {Free}]
        /\ \A q \in Rows : lock[q] # w => lock'[q] = lock[q]
    BY <1>0, <1>2, LocksReleased
  <1>10. TypeOK'
    <2>1. run' \in [Workers -> RunType]
      BY <1>0, <1>2 DEF TypeOK, RunType
    <2>2. receipt' \in [Events -> {"NONE", "RECEIVED", "PROCESSED", "UNMATCHED", "FAILED"}]
      BY <1>0, <1>2 DEF TypeOK
    <2>. QED BY <1>0, <1>5, <1>7, <1>8, <1>9, <2>1, <2>2 DEF TypeOK
  <1>11. SuppressionInv'
    <2>. SUFFICES ASSUME NEW d \in Events
                  PROVE  /\ Prohibits(d) /\ (hold'[d] = "RESOLVED" \/ receipt'[d] = "PROCESSED") =>
                               Reason[Kind[d]] \in suppressed'[Target(d)]
                         /\ hold'[d] # "NONE" => Source[d] = "WEBHOOK"
      BY DEF SuppressionInv, Prohibits, Target
    <2>1. CASE d # e
      <3>1. hold'[d] = hold[d] /\ receipt'[d] = receipt[d]
        BY <1>0, <1>2, <1>3, <2>1 DEF TypeOK
      <3>. QED BY <1>0, <1>7, <3>1, Holders DEF SuppressionInv
    <2>2. CASE d = e
      <3>1. hold'[e] = new /\ (new # "NONE" => hold[e] # "NONE")
            /\ (new = "RESOLVED" => hold[e] \in {"ACTIVE", "RESOLVED"})
        BY <1>0, <1>3 DEF TypeOK
      <3>2. receipt'[e] = IF Prohibits(e) /\ ~acts THEN "UNMATCHED" ELSE "PROCESSED"
        BY <1>0, <1>2 DEF TypeOK
      <3>3. hold[e] # "NONE" => Source[e] = "WEBHOOK"
        BY <1>0 DEF SuppressionInv
      <3>. QED BY <1>6, <1>7, <2>2, <3>1, <3>2, <3>3
    <2>. QED BY <2>1, <2>2
  <1>12. ASSUME NEW m \in Messages, NEW d \in Events, sender[m] = "passed", Forbids(d, m)'
         PROVE  Forbids(d, m)
    <2>1. /\ lock[MailboxOf[m]] = m /\ lock[EnrollmentOf[m]] = m /\ enrollment[EnrollmentOf[m]] = "ACTIVE"
          /\ m # Free /\ m # w
      BY <1>12, Holders DEF InboundInv, SendFact
    <2>2. CASE d # e
      <3>1. hold'[d] = hold[d] /\ receipt'[d] = receipt[d]
        BY <1>0, <1>2, <1>3, <2>2 DEF TypeOK
      <3>. QED BY <1>12, <3>1 DEF Forbids, Prohibits, Target
    <2>3. CASE d = e
      <3>1. Prohibits(e) /\ Target(e) = AddressOf[m]
        BY <1>12, <2>3 DEF Forbids, Prohibits, Target
      <3>2. ~acts
        BY <1>0, <2>1, <3>1 DEF StopFact
      <3>3. receipt'[e] = "UNMATCHED" /\ Source[e] = "DSN"
        BY <1>0, <1>2, <1>6, <3>1, <3>2 DEF TypeOK
      <3>4. hold[e] = "NONE" /\ hold'[e] = "NONE"
        BY <1>0, <1>3, <3>3 DEF TypeOK, SuppressionInv
      <3>. QED BY <1>12, <2>3, <3>3, <3>4 DEF Forbids
    <2>. QED BY <2>2, <2>3
  <1>13. (\A v \in Workers \ {w} : StopFact(v)') /\ \A m \in Messages \ {w} : SendFact(m)'
    <2>. PICK S \in SUBSET Actors : S = {w}
      BY <1>0
    <2>1. \A v \in Workers \ S : run'[v] = run[v]
      BY <1>0, <1>2 DEF TypeOK
    <2>. QED BY <1>0, <1>8, <1>9, <1>12, <2>1, OthersKeep
  <1>14. StopFact(w)'
    BY <1>0, <1>2 DEF TypeOK, StopFact, Idle
  <1>. QED
    BY <1>5, <1>10, <1>11, <1>13, <1>14, Holders DEF InboundInv

\* A failure is written on the receipt, whatever that has become; hold and
\* suppression stay.
LEMMA MarkFailedStep ==
    ASSUME InboundInv, NEW w \in Workers, MarkFailed(w)
    PROVE  InboundInv'
PROOF
  <1>0. TypeOK /\ UNCHANGED <<hold, pending, suppressed, enrollment, message, sender, lock>>
        /\ run' = [run EXCEPT ![w] = Idle] /\ run[w].pc = "failed" /\ w \in Actors
    BY DEF InboundInv, MarkFailed, Outreach, Actors
  <1>1. run[w].event \in Events
    BY <1>0 DEF TypeOK, RunType, Idle
  <1>. PICK e \in Events : e = run[w].event
    BY <1>1
  <1>2. receipt' = [receipt EXCEPT ![e] = "FAILED"]
    BY DEF MarkFailed
  <1>3. TypeOK'
    BY <1>0, <1>2 DEF TypeOK, RunType
  <1>4. CountMatchesHolds' /\ \A b \in Mailboxes : IsFiniteSet(ActiveHolds(b))'
    BY <1>0 DEF InboundInv, CountMatchesHolds, ActiveHolds
  <1>5. \A d \in Events : receipt'[d] = "PROCESSED" => receipt[d] = "PROCESSED"
    BY <1>0, <1>2 DEF TypeOK
  <1>6. SuppressionInv'
    BY <1>0, <1>5 DEF InboundInv, SuppressionInv, Prohibits, Target
  <1>7. (\A v \in Workers \ {w} : StopFact(v)') /\ \A m \in Messages \ {w} : SendFact(m)'
    <2>. PICK S \in SUBSET Actors : S = {w}
      BY <1>0
    <2>1. \A v \in Workers \ S : run'[v] = run[v]
      BY <1>0 DEF TypeOK
    <2>2. \A m \in Messages, d \in Events : Forbids(d, m)' => Forbids(d, m)
      BY <1>0, <1>5 DEF Forbids, Prohibits, Target
    <2>. QED BY <1>0, <2>1, <2>2, OthersKeep
  <1>8. StopFact(w)'
    BY <1>0 DEF TypeOK, StopFact, Idle
  <1>. QED
    BY <1>3, <1>4, <1>6, <1>7, <1>8, Holders DEF InboundInv

\* A failure, a crash, or a deadlock that is resolved ends a transaction.
LEMMA EndStep ==
    ASSUME InboundInv,
           \/ \E w \in Workers : Fail(w) \/ WorkerCrash(w)
           \/ Detect
    PROVE  InboundInv'
PROOF
  <1>1. ASSUME NEW w \in Workers, run[w] # Idle, Rollback(w) \/ WorkerCrash(w)
        PROVE  InboundInv'
    <2>1. run[w].event \in Events
      BY <1>1 DEF InboundInv, TypeOK, RunType
    <2>2. /\ UNCHANGED <<receipt, hold, pending, suppressed, enrollment, message, sender>>
          /\ lock' = Unlocked(w)
          /\ run' = [run EXCEPT ![w] = Idle]
             \/ run' = [run EXCEPT ![w] = [pc |-> "failed", event |-> run[w].event]]
      BY <1>1 DEF Rollback, WorkerCrash, Outreach
    <2>. QED BY <2>1, <2>2, GiveUp
  <1>2. CASE \E w \in Workers : Fail(w) \/ WorkerCrash(w)
    BY <1>1, <1>2 DEF Fail, WorkerCrash, Idle
  <1>3. CASE Detect
    <2>1. PICK p \in Actors : /\ Awaits(p) # {}
                              /\ IF p \in Workers THEN Rollback(p)
                                 ELSE /\ sender' = [sender EXCEPT ![p] = "idle"] /\ lock' = Unlocked(p)
                                      /\ UNCHANGED <<Evidence, run, Outreach, message>>
      BY <1>3 DEF Detect, Deadlocked, Actors
    <2>2. CASE p \in Workers
      <3>1. run[p].pc \in {"stop", "cancel"}
        <4>1. CASE run[p].pc \in {"stop", "cancel"} /\ run[p].want # {}
          BY <4>1
        <4>2. CASE ~(run[p].pc \in {"stop", "cancel"} /\ run[p].want # {})
          BY <2>1, <2>2, <4>2 DEF Awaits
        <4>. QED BY <4>1, <4>2
      <3>. QED BY <1>1, <2>1, <2>2, <3>1 DEF Idle
    <2>3. CASE p \notin Workers
      BY <2>1, <2>3, SenderEnds DEF Actors, Evidence, Outreach
    <2>. QED BY <2>2, <2>3
  <1>. QED
    BY <1>2, <1>3

-----------------------------------------------------------------------------
(* The theorems *)

\* Nobody holds anything at the beginning.
LEMMA Begun == Init => InboundInv
PROOF
  <1>. SUFFICES ASSUME Init PROVE InboundInv
    OBVIOUS
  <1>1. TypeOK
    BY DEF Init, TypeOK, RunType
  <1>2. \A b \in Mailboxes : ActiveHolds(b) = {} /\ pending[b] = 0
    BY DEF Init, ActiveHolds
  <1>3. CountMatchesHolds /\ \A b \in Mailboxes : IsFiniteSet(ActiveHolds(b))
    BY <1>2, FS_EmptySet DEF CountMatchesHolds, ActiveHolds
  <1>4. SuppressionInv /\ (\A w \in Workers : StopFact(w)) /\ \A m \in Messages : SendFact(m)
    BY DEF Init, SuppressionInv, StopFact, SendFact, Idle
  <1>. QED
    BY <1>1, <1>3, <1>4 DEF InboundInv

\* Every step keeps the invariant.
LEMMA InboundKept == InboundInv /\ [Next]_vars => InboundInv'
PROOF
  <1>. SUFFICES ASSUME InboundInv, [Next]_vars PROVE InboundInv'
    OBVIOUS
  <1>1. CASE UNCHANGED vars
    BY <1>1 DEF vars, InboundInv, TypeOK, CountMatchesHolds, ActiveHolds, SuppressionInv, StopFact, SendFact,
                Forbids, Prohibits, Target
  <1>2. ASSUME NEW m \in Messages, SendStep(m) \/ Advance(m) \/ Settle(m)
        PROVE  InboundInv'
    <2>1. CASE LockMessage(m) \/ LockEnrollment(m)
      BY <2>1, LockStep
    <2>2. CASE LockMailbox(m)
      BY <2>2, GatesStep
    <2>3. CASE Authorize(m)
      BY <2>3, SenderEnds DEF Authorize, Evidence, Outreach
    <2>4. CASE Advance(m) \/ Settle(m)
      BY <2>4, MessageStep
    <2>. QED BY <1>2, <2>1, <2>2, <2>3, <2>4 DEF SendStep
  <1>3. CASE \E e \in Events : AcceptSafety(e) \/ \E w \in Workers : Begin(w, e)
    BY <1>3, AcceptStep, BeginStep
  <1>4. ASSUME NEW w \in Workers, EventStep(w)
        PROVE  InboundInv'
    BY <1>4, LockNextStep, CancelStep, CommitStep, MarkFailedStep DEF EventStep
  <1>5. CASE (\E w \in Workers : Fail(w) \/ WorkerCrash(w)) \/ Detect
    BY <1>5, EndStep
  <1>6. CASE \E a \in Addresses : SuppressManually(a) \/ ReleaseManually(a)
    BY <1>6, ManualStep
  <1>. QED
    BY <1>1, <1>2, <1>3, <1>4, <1>5, <1>6 DEF Next

\* The inductive invariant holds in every reachable state.
THEOREM InboundInvariance == Spec => []InboundInv
PROOF
  <1>. QED
    BY Begun, InboundKept, PTL DEF Spec

\* The counter the send gate reads is the number of holds in force on its mailbox,
\* through failures, retries and repeated deliveries of any number of events.
THEOREM CounterIsRight == Spec => []CountMatchesHolds
PROOF
  <1>1. InboundInv => CountMatchesHolds
    BY DEF InboundInv
  <1>. QED
    BY <1>1, InboundInvariance, PTL

\* Only an authorization puts an email on its way, and one that passed the gates still
\* has an address and a mailbox that no event forbids: whoever would apply such an
\* event waits for a row the send worker holds.
THEOREM EventsStopSends == Spec => NothingSentAfterEvent
PROOF
  <1>1. InboundInv /\ [Next]_vars =>
          [\A m \in Messages : message[m] # "SENDING" /\ message'[m] = "SENDING" => \A e \in Events : ~Forbids(e, m)]_vars
    <2>. SUFFICES ASSUME InboundInv, [Next]_vars, NEW m \in Messages,
                         message[m] # "SENDING", message'[m] = "SENDING", NEW e \in Events
                  PROVE  ~Forbids(e, m)
      OBVIOUS
    <2>0. TypeOK
      BY DEF InboundInv
    <2>1. CASE UNCHANGED message
      BY <2>1
    <2>2. ASSUME NEW n \in Messages, LockMailbox(n) \/ Advance(n) \/ Settle(n)
          PROVE  FALSE
      <3>1. PICK s \in {"QUEUED", "SENT", "ENDED", message[n]} : message' = [message EXCEPT ![n] = s]
        BY <2>0, <2>2 DEF LockMailbox, Advance, Settle, TypeOK
      <3>. QED BY <2>0, <3>1 DEF TypeOK
    <2>3. ASSUME NEW n \in Messages, Authorize(n)
          PROVE  ~Forbids(e, m)
      <3>1. m = n /\ sender[m] = "passed"
        BY <2>0, <2>3 DEF Authorize, TypeOK
      <3>. QED BY <3>1 DEF InboundInv, SendFact
    <2>4. ASSUME NEW w \in Workers, Commit(w)
          PROVE  FALSE
      BY <2>0, <2>4 DEF Commit, Skip, TypeOK
    <2>5. CASE vars' = vars
      BY <2>1, <2>5 DEF vars
    <2>6. ASSUME NEW n \in Messages, LockMessage(n) \/ LockEnrollment(n) PROVE UNCHANGED message
      BY <2>6 DEF LockMessage, LockEnrollment
    <2>7. ASSUME NEW d \in Events, AcceptSafety(d) \/ \E w \in Workers : Begin(w, d) PROVE UNCHANGED message
      BY <2>7 DEF AcceptSafety, Begin, Claim, ReadNotice, Click
    <2>8. ASSUME NEW w \in Workers, LockNext(w) \/ Cancel(w) \/ MarkFailed(w) \/ Fail(w) \/ WorkerCrash(w)
          PROVE  UNCHANGED message
      BY <2>8 DEF LockNext, Cancel, MarkFailed, Fail, Rollback, WorkerCrash
    <2>9. ASSUME NEW a \in Addresses, SuppressManually(a) \/ ReleaseManually(a) PROVE UNCHANGED message
      BY <2>9 DEF SuppressManually, ReleaseManually
    <2>10. CASE Detect
      <3>1. UNCHANGED message
        BY <2>10 DEF Detect, Rollback
      <3>. QED BY <2>1, <3>1
    <2>. QED BY <2>1, <2>2, <2>3, <2>4, <2>5, <2>6, <2>7, <2>8, <2>9, <2>10 DEF Next, SendStep, EventStep
  <1>. QED
    BY <1>1, InboundInvariance, PTL DEF Spec, NothingSentAfterEvent

-----------------------------------------------------------------------------
(* Imports: types *)

Outcomes  == {"ACCEPTED", "DUPLICATE", "REJECTED"}
JobStates == {NONE, "PENDING", "PROCESSING", "COMPLETED", "COMPLETED_WITH_ERRORS", "FAILED"}

JobType == [status : JobStates, cursor : Nat, owner : Nat, live : BOOLEAN,
            accepted : Nat, duplicate : Nat, rejected : Nat]

WorkerType ==
    {IdleImporter}
    \union [pc : {"claimed"}, file : Files, id : Nat, job : JobType]
    \union [pc : {"again", "failing"}, file : Files, id : Nat, job : {NoJob}]

ImportsTypeOK ==
    /\ job \in [Files -> JobType]
    /\ task \subseteq [file : Files, id : Nat]
    /\ sent \in [Files -> Nat]
    /\ worker \in [Importers -> WorkerType]
    /\ result = [f \in Files |-> result[f]]
    /\ \A f \in Files : result[f] \in [1..Total(f) -> {NONE} \union Outcomes]
    /\ suppression \in [People -> {NONE, "ACTIVE", "RELEASED"}]
    /\ edits \in Nat

-----------------------------------------------------------------------------
(* Imports: the inductive invariant *)

\* Two rows of a job, or two snapshots of it, that stand at the same place.
Level(i, j) == /\ i.cursor = j.cursor /\ i.accepted = j.accepted
               /\ i.duplicate = j.duplicate /\ i.rejected = j.rejected

Claims(w, f) == worker[w].pc = "claimed" /\ worker[w].file = f

\* Every row up to a cursor has a result.
Handled(f, cursor) == \A r \in 1..Total(f) : r <= cursor => result[f][r] # NONE

\* A row whose insert is not committed is not there yet.
ConfirmInv == \A f \in confirming \cap Files : job[f] = NoJob

\* A worker has a file whose job exists, and continues from a cursor behind which
\* every row is handled: that of the job itself unless it shares its snapshot.
WorkerInv ==
    \A w \in Importers :
        /\ worker[w].pc # "idle" => job[worker[w].file].status # NONE
        /\ worker[w].pc = "claimed" =>
              /\ Handled(worker[w].file, worker[w].job.cursor)
              /\ worker[w].file \notin overlapped => Level(worker[w].job, job[worker[w].file])

\* Unless snapshots overlapped, a file has one worker, and no row ahead of the
\* cursor is handled.
LoneInv ==
    \A f \in Files \ overlapped :
        /\ \A v, w \in Importers : Claims(v, f) /\ Claims(w, f) => v = w
        /\ \A r \in 1..Total(f) : r > job[f].cursor => result[f][r] = NONE

\* Rows that are not rejected name addresses.
NamedInv ==
    \A f \in Files : \A r \in 1..Total(f) :
       result[f][r] \in {"ACCEPTED", "DUPLICATE"} => RowsOf[f][r] \in People

ImportsInv ==
    /\ ImportsTypeOK /\ NoRowSkipped /\ CountersMatchRows /\ NamedInv
    /\ ConfirmInv /\ WorkerInv /\ LoneInv

-----------------------------------------------------------------------------
(* Batches *)

\* A row gets one of three results.
LEMMA RowOutcome ==
    ASSUME NEW f, NEW rows, NEW r
    PROVE  RowStatus(f, rows, r) \in Outcomes
  BY DEF RowStatus, Outcomes

\* A row that is not rejected names an address.
LEMMA RowNamed ==
    ASSUME ImportsAssumption, NEW f \in Files, NEW rows \in SUBSET (1..Total(f)), NEW r \in rows,
           RowStatus(f, rows, r) # "REJECTED"
    PROVE  RowsOf[f][r] \in Named(f, rows) /\ RowsOf[f][r] \in People
PROOF
  <1>1. Valid(f, r)
    BY DEF RowStatus
  <1>2. RowsOf[f] \in Seq(People \union {BAD}) /\ r \in 1..Len(RowsOf[f])
    BY DEF ImportsAssumption, Total
  <1>3. RowsOf[f][r] \in People \union {BAD}
    BY <1>2
  <1>. QED
    BY <1>1, <1>3 DEF Named, Valid

\* The length of a file is a number.
LEMMA TotalNat ==
    ASSUME ImportsAssumption, NEW f \in Files
    PROVE  Total(f) \in Nat
PROOF
  <1>1. RowsOf[f] \in Seq(People \union {BAD})
    BY DEF ImportsAssumption
  <1>. QED BY <1>1 DEF Total

\* A batch follows the cursor, and moves it over its own rows; the last one moves
\* it over all the file.
LEMMA BatchMoves ==
    ASSUME ImportsAssumption, NEW f \in Files, NEW cursor \in Nat
    PROVE  /\ BatchRows(f, cursor) \subseteq 1..Total(f)
           /\ \A r \in BatchRows(f, cursor) : r > cursor
           /\ Max(BatchRows(f, cursor) \cup {cursor}) \in Nat
           /\ \A r \in 1..Total(f) : r <= Max(BatchRows(f, cursor) \cup {cursor})
                                     <=> r <= cursor \/ r \in BatchRows(f, cursor)
           /\ LastBatch(f, BatchRows(f, cursor)) =>
                 \A r \in 1..Total(f) : r <= cursor \/ r \in BatchRows(f, cursor)
PROOF
  <1>0. Total(f) \in Nat /\ BatchSize \in Nat \ {0}
    BY TotalNat DEF ImportsAssumption
  <1>. PICK n \in Nat : n = Total(f)
    BY <1>0
  <1>. PICK size \in Nat \ {0} : size = BatchSize
    BY <1>0
  <1>. PICK rows : rows = {r \in 1..n : cursor < r /\ r <= cursor + size}
    OBVIOUS
  <1>1. rows = BatchRows(f, cursor)
    BY DEF BatchRows
  <1>. PICK top \in Nat : top = IF n <= cursor THEN cursor ELSE IF n <= cursor + size THEN n ELSE cursor + size
    OBVIOUS
  <1>2. top \in rows \union {cursor} /\ \A y \in rows \union {cursor} : top >= y
    OBVIOUS
  <1>3. \A x \in rows \union {cursor} : (\A y \in rows \union {cursor} : x >= y) => x = top
    BY <1>2
  <1>4. Max(rows \cup {cursor}) = top
    BY <1>2, <1>3 DEF Max
  <1>5. \A r \in 1..n : r <= top <=> r <= cursor \/ r \in rows
    OBVIOUS
  <1>6. ASSUME rows = {} \/ n \in rows, NEW r \in 1..n
        PROVE  r <= cursor \/ r \in rows
    <2>1. CASE n \in rows
      BY <2>1
    <2>2. CASE rows = {}
      <3>1. cursor + 1 \notin rows
        BY <2>2
      <3>2. ~(cursor + 1 <= n)
        BY <3>1
      <3>. QED BY <3>2
    <2>. QED BY <1>6, <2>1, <2>2
  <1>. QED
    BY <1>1, <1>4, <1>5, <1>6 DEF LastBatch

-----------------------------------------------------------------------------
(* Steps that handle no row *)

\* A step that leaves results, counters and cursors alone.
LEMMA SteadyStep ==
    ASSUME ImportsInv, ImportsTypeOK', ConfirmInv', result' = result, overlapped \subseteq overlapped',
           \A a \in People : suppression[a] # NONE => suppression'[a] # NONE,
           \A f \in Files : /\ Level(job'[f], job[f])
                            /\ job'[f].status \in Completed => job[f].status \in Completed,
           \A w \in Importers :
              /\ worker'[w].pc # "idle" => job'[worker'[w].file].status # NONE
              /\ worker'[w].pc = "claimed" =>
                    \/ worker'[w] = worker[w]
                    \/ Level(worker'[w].job, job[worker'[w].file]),
           \A f \in Files \ overlapped' : \A v, w \in Importers : Claims(v, f)' /\ Claims(w, f)' => v = w,
           ImportsAssumption
    PROVE  ImportsInv'
PROOF
  <1>0. NamedInv'
    BY DEF ImportsInv, NamedInv
  <1>1. NoRowSkipped'
    <2>. SUFFICES ASSUME NEW f \in Files, NEW r \in 1..Total(f)
                  PROVE  /\ r <= job'[f].cursor => result[f][r] # NONE
                         /\ job'[f].status \in Completed => result[f][r] # NONE
                         /\ (KindOf[f] = "SUPPRESSION" /\ result[f][r] \in {"ACCEPTED", "DUPLICATE"})
                               => suppression'[RowsOf[f][r]] # NONE
      BY DEF NoRowSkipped
    <2>1. job'[f].cursor = job[f].cursor /\ (job'[f].status \in Completed => job[f].status \in Completed)
      BY DEF Level
    <2>2. result[f][r] \in {"ACCEPTED", "DUPLICATE"} => RowsOf[f][r] \in People
      BY DEF ImportsInv, NamedInv
    <2>. QED
      BY <2>1, <2>2 DEF ImportsInv, NoRowSkipped
  <1>2. CountersMatchRows'
    <2>. SUFFICES ASSUME NEW f \in Files \ overlapped'
                  PROVE  LET Of(s) == Cardinality({r \in 1..Total(f) : result[f][r] = s})
                         IN  /\ job'[f].accepted = Of("ACCEPTED")
                             /\ job'[f].duplicate = Of("DUPLICATE")
                             /\ job'[f].rejected = Of("REJECTED")
      BY ZenonT(60) DEF CountersMatchRows
    <2>1. f \in Files \ overlapped /\ Level(job'[f], job[f])
      OBVIOUS
    <2>. QED BY <2>1 DEF ImportsInv, CountersMatchRows, Level
  <1>3. WorkerInv'
    <2>. SUFFICES ASSUME NEW w \in Importers, worker'[w].pc = "claimed"
                  PROVE  /\ \A r \in 1..Total(worker'[w].file) :
                               r <= worker'[w].job.cursor => result[worker'[w].file][r] # NONE
                         /\ worker'[w].file \notin overlapped' =>
                               Level(worker'[w].job, job'[worker'[w].file])
      BY DEF WorkerInv, Handled
    <2>1. worker'[w].file \in Files
      <3>1. worker'[w] \in WorkerType
        BY DEF ImportsTypeOK
      <3>. QED BY <3>1 DEF WorkerType, IdleImporter
    <2>. PICK f \in Files : f = worker'[w].file
      BY <2>1
    <2>2. Level(job'[f], job[f])
      OBVIOUS
    <2>3. CASE worker'[w] = worker[w]
      <3>1. worker[w].pc = "claimed" /\ worker[w].file = f
        BY <2>3
      <3>2. \A r \in 1..Total(f) : r <= worker[w].job.cursor => result[f][r] # NONE
        BY <3>1 DEF ImportsInv, WorkerInv, Handled
      <3>3. f \notin overlapped => Level(worker[w].job, job[f])
        BY <3>1 DEF ImportsInv, WorkerInv
      <3>. QED BY <2>2, <2>3, <3>2, <3>3 DEF Level
    <2>4. CASE Level(worker'[w].job, job[f])
      <3>1. \A r \in 1..Total(f) : r <= job[f].cursor => result[f][r] # NONE
        BY DEF ImportsInv, NoRowSkipped
      <3>. QED BY <2>2, <2>4, <3>1 DEF Level
    <2>. QED BY <2>3, <2>4
  <1>4. LoneInv'
    <2>1. \A f \in Files \ overlapped' : \A r \in 1..Total(f) : r > job'[f].cursor => result'[f][r] = NONE
      BY DEF ImportsInv, LoneInv, Level
    <2>. QED BY <2>1 DEF LoneInv
  <1>. QED
    BY <1>0, <1>1, <1>2, <1>3, <1>4 DEF ImportsInv

\* A job that fails stays where it is.
LEMMA FailedJob ==
    ASSUME ImportsTypeOK, NEW f \in Files,
           job' = [job EXCEPT ![f].status = "FAILED", ![f].owner = 0, ![f].live = FALSE]
    PROVE  /\ job' \in [Files -> JobType]
           /\ \A g \in Files : /\ job'[g] \in JobType /\ Level(job'[g], job[g])
                               /\ (job'[g] = job[g] \/ (g = f /\ job'[g].status = "FAILED"))
PROOF
  <1>. PICK old \in JobType : old = job[f]
    BY DEF ImportsTypeOK
  <1>. PICK new : new = [old EXCEPT !.status = "FAILED", !.owner = 0, !.live = FALSE]
    OBVIOUS
  <1>1. job' = [job EXCEPT ![f] = new]
    BY DEF ImportsTypeOK
  <1>2. /\ new.status = "FAILED" /\ new.cursor = old.cursor /\ new.accepted = old.accepted
        /\ new.duplicate = old.duplicate /\ new.rejected = old.rejected
    BY DEF JobType
  <1>3. new \in JobType
    BY <1>2 DEF JobType, JobStates
  <1>. QED BY <1>1, <1>2, <1>3 DEF ImportsTypeOK, Level

\* A worker that is not idle has a file of an import, and keeps its snapshot only
\* while it is claimed.
LEMMA BusyWorker ==
    ASSUME ImportsTypeOK, NEW w \in Importers, worker[w].pc # "idle"
    PROVE  /\ worker[w].file \in Files /\ worker[w].id \in Nat
           /\ worker[w].pc \in {"claimed", "again", "failing"}
           /\ worker[w].pc = "claimed" =>
                 /\ worker[w].job \in JobType
                 /\ worker[w] \in [pc : {"claimed"}, file : Files, id : Nat, job : JobType]
PROOF
  <1>1. worker[w] \in WorkerType
    BY DEF ImportsTypeOK
  <1>. QED BY <1>1 DEF WorkerType, IdleImporter

\* The request that confirms an upload, up to its commit or its failure.
LEMMA RequestStep ==
    ASSUME ImportsAssumption, ImportsInv, NEW f \in Files, Request(f)
    PROVE  ImportsInv'
PROOF
  <1>. ImportsTypeOK /\ ConfirmInv /\ WorkerInv /\ LoneInv
    BY DEF ImportsInv
  <1>. PICK created : created = [NoJob EXCEPT !.status = "PENDING"]
    OBVIOUS
  <1>1. /\ NoJob \in JobType /\ created \in JobType /\ Level(created, NoJob)
        /\ created.status = "PENDING"
    BY DEF NoJob, JobType, JobStates, Level
  <1>2. \/ job' = job
        \/ f \in confirming /\ confirming' = confirming \ {f} /\ job[f] = NoJob
           /\ job' = [job EXCEPT ![f] = created]
    BY DEF Request, ConfirmImport, CommitConfirm, RollBackConfirm, ConfirmInv, Inserted
  <1>3. UNCHANGED <<worker, result, suppression, overlapped, edits>>
    BY DEF Request, ConfirmImport, CommitConfirm, RollBackConfirm, contacts
  <1>4. \A g \in Files : /\ job'[g] \in JobType /\ Level(job'[g], job[g])
                         /\ (job'[g] = job[g] \/ job'[g].status = "PENDING")
    BY <1>1, <1>2 DEF ImportsTypeOK, Level
  <1>5. task' \subseteq [file : Files, id : Nat] /\ sent' \in [Files -> Nat]
    <2>1. CASE ConfirmImport(f)
      <3>1. sent[f] + 1 \in Nat
        BY DEF ImportsTypeOK
      <3>2. [file |-> f, id |-> sent[f] + 1] \in [file : Files, id : Nat]
        BY <3>1
      <3>. QED BY <2>1, <3>1, <3>2 DEF ConfirmImport, ImportsTypeOK
    <2>2. CASE CommitConfirm(f) \/ RollBackConfirm(f)
      BY <2>2 DEF CommitConfirm, RollBackConfirm, queue, ImportsTypeOK
    <2>. QED BY <2>1, <2>2 DEF Request
  <1>6. ImportsTypeOK'
    BY <1>2, <1>3, <1>4, <1>5 DEF ImportsTypeOK
  <1>7. ConfirmInv'
    BY <1>2 DEF Request, ConfirmImport, CommitConfirm, RollBackConfirm, ConfirmInv, KeyIsFree,
       ImportsTypeOK
  <1>8. \A g \in Files : job'[g].status # NONE \/ job'[g] = job[g]
    BY <1>4 DEF ImportsAssumption
  <1>9. ASSUME NEW w \in Importers, worker'[w].pc # "idle"
        PROVE  job'[worker'[w].file].status # NONE
    BY <1>3, <1>8, <1>9, BusyWorker DEF WorkerInv
  <1>10. \A g \in Files : job'[g].status \in Completed => job[g].status \in Completed
    BY <1>4 DEF Completed
  <1>11. \A g \in Files \ overlapped' : \A v, w \in Importers : Claims(v, g)' /\ Claims(w, g)' => v = w
    BY <1>3 DEF LoneInv, Claims
  <1>. QED
    BY <1>3, <1>4, <1>6, <1>7, <1>9, <1>10, <1>11, SteadyStep

\* Steps of workers that handle nothing: they give up, end, die or send the task again.
LEMMA ImporterStep ==
    ASSUME ImportsAssumption, ImportsInv, NEW w \in Importers,
           BatchFails(w) \/ FailJob(w) \/ SendAgain(w) \/ Crash(w)
    PROVE  ImportsInv'
PROOF
  <1>. ImportsTypeOK /\ ConfirmInv /\ WorkerInv /\ LoneInv
    BY DEF ImportsInv
  <1>0. worker[w].pc # "idle"
    BY DEF BatchFails, FailJob, SendAgain, Crash
  <1>. PICK f \in Files : f = worker[w].file
    BY <1>0, BusyWorker
  <1>3. UNCHANGED <<confirming, result, suppression, overlapped, sent, edits>>
    BY DEF BatchFails, FailJob, SendAgain, Crash, contacts, queue
  <1>4. \A g \in Files : /\ job'[g] \in JobType /\ Level(job'[g], job[g])
                         /\ (job'[g] = job[g] \/ (g = f /\ job'[g].status = "FAILED"))
        /\ job' \in [Files -> JobType]
    <2>1. CASE FailJob(w)
      BY <2>1, FailedJob DEF FailJob
    <2>2. CASE job' = job
      BY <2>2 DEF ImportsTypeOK, Level
    <2>. QED BY <2>1, <2>2 DEF BatchFails, SendAgain, Crash
  <1>. PICK next : next = worker'[w]
    OBVIOUS
  <1>5. /\ next \in WorkerType /\ next.pc # "claimed" /\ (next.pc # "idle" => next.file = f)
        /\ \A v \in Importers : v # w => worker'[v] = worker[v]
        /\ worker' \in [Importers -> WorkerType]
    <2>1. CASE worker' = [worker EXCEPT ![w] = IdleImporter]
      BY <2>1 DEF ImportsTypeOK, WorkerType, IdleImporter
    <2>2. CASE worker' = [worker EXCEPT ![w].pc = "failing", ![w].job = NoJob]
      <3>1. worker[w] \in [pc : {"claimed", "again", "failing"}, file : Files, id : Nat,
                            job : JobType \union {NoJob}]
        <4>1. worker[w] \in WorkerType
          BY DEF ImportsTypeOK
        <4>. QED BY <1>0, <4>1 DEF WorkerType, IdleImporter
      <3>2. /\ worker'[w] \in [pc : {"failing"}, file : Files, id : Nat, job : {NoJob}]
            /\ worker'[w].file = f
        BY <2>2, <3>1 DEF ImportsTypeOK
      <3>. QED BY <2>2, <3>2 DEF ImportsTypeOK, WorkerType
    <2>. QED BY <2>1, <2>2 DEF BatchFails, FailJob, SendAgain, Crash
  <1>6. task' \subseteq [file : Files, id : Nat]
    <2>1. [file |-> worker[w].file, id |-> worker[w].id] \in [file : Files, id : Nat]
      BY <1>0, BusyWorker
    <2>2. task' = task \/ task' = task \union {[file |-> worker[w].file, id |-> worker[w].id]}
      BY DEF BatchFails, FailJob, SendAgain, Crash, queue
    <2>. QED BY <2>1, <2>2 DEF ImportsTypeOK
  <1>7. ImportsTypeOK'
    BY <1>3, <1>4, <1>5, <1>6 DEF ImportsTypeOK
  <1>8. job[f].status # NONE
    BY <1>0 DEF WorkerInv
  <1>9. ConfirmInv'
    <2>1. f \notin confirming
      BY <1>8 DEF ConfirmInv, NoJob
    <2>. QED BY <1>3, <1>4, <2>1 DEF ConfirmInv
  <1>10. \A g \in Files : job'[g].status # NONE \/ job'[g] = job[g]
    BY <1>4 DEF ImportsAssumption
  <1>11. ASSUME NEW v \in Importers
         PROVE  /\ worker'[v].pc # "idle" => job'[worker'[v].file].status # NONE
                /\ worker'[v].pc = "claimed" => worker'[v] = worker[v]
    <2>1. CASE v = w
      <3>1. job'[f].status # NONE
        BY <1>8, <1>10
      <3>2. next.pc # "idle" => next.file = f
        BY <1>5
      <3>3. next.pc # "claimed"
        BY <1>5
      <3>. QED BY <2>1, <3>1, <3>2, <3>3
    <2>2. CASE v # w
      <3>1. worker'[v] = worker[v]
        BY <1>5, <2>2
      <3>2. worker[v].pc # "idle" => worker[v].file \in Files /\ job[worker[v].file].status # NONE
        BY BusyWorker DEF WorkerInv
      <3>. QED BY <1>10, <3>1, <3>2
    <2>. QED BY <2>1, <2>2
  <1>12. \A g \in Files : job'[g].status \in Completed => job[g].status \in Completed
    BY <1>4 DEF Completed
  <1>13. \A g \in Files \ overlapped' : \A u, v \in Importers : Claims(u, g)' /\ Claims(v, g)' => u = v
    BY <1>3, <1>11 DEF LoneInv, Claims
  <1>. QED
    BY <1>3, <1>4, <1>7, <1>9, <1>11, <1>12, <1>13, SteadyStep

\* A lease that runs out.
LEMMA LeaseStep ==
    ASSUME ImportsAssumption, ImportsInv, NEW f \in Files, LeaseExpires(f)
    PROVE  ImportsInv'
PROOF
  <1>. ImportsTypeOK /\ ConfirmInv /\ WorkerInv /\ LoneInv
    BY DEF ImportsInv
  <1>1. UNCHANGED <<confirming, worker, result, suppression, overlapped, task, sent, edits>>
    BY DEF LeaseExpires, contacts, queue
  <1>2. \A g \in Files : /\ job'[g] \in JobType /\ Level(job'[g], job[g])
                         /\ job'[g].status = job[g].status
                         /\ job[g].status # "PROCESSING" => job'[g] = job[g]
    BY ZenonT(60) DEF LeaseExpires, ImportsTypeOK, JobType, Level
  <1>3. ImportsTypeOK'
    BY <1>1, <1>2 DEF ImportsTypeOK, LeaseExpires
  <1>4. ConfirmInv'
    <2>1. NoJob.status # "PROCESSING"
      BY DEF NoJob, ImportsAssumption
    <2>. QED BY <1>1, <1>2, <2>1 DEF ConfirmInv
  <1>5. \A w \in Importers : worker'[w].pc # "idle" => job'[worker'[w].file].status # NONE
    BY <1>1, <1>2, BusyWorker DEF WorkerInv
  <1>6. \A g \in Files \ overlapped' : \A v, w \in Importers : Claims(v, g)' /\ Claims(w, g)' => v = w
    BY <1>1 DEF LoneInv, Claims
  <1>. QED
    BY <1>1, <1>2, <1>3, <1>4, <1>5, <1>6, SteadyStep
\* A claim moves no job.
LEMMA ClaimedJob ==
    ASSUME NEW old \in JobType, NEW id \in Nat
    PROVE  /\ Claimed(old, id) \in JobType /\ Level(Claimed(old, id), old)
           /\ Claimed(old, id).status = "PROCESSING"
PROOF
  <1>. PICK new : new = [old EXCEPT !.status = "PROCESSING", !.owner = id, !.live = TRUE]
    OBVIOUS
  <1>1. /\ new.status = "PROCESSING" /\ new.cursor = old.cursor /\ new.accepted = old.accepted
        /\ new.duplicate = old.duplicate /\ new.rejected = old.rejected
    BY DEF JobType
  <1>2. new \in JobType
    BY <1>1 DEF JobType, JobStates
  <1>3. new = Claimed(old, id)
    BY DEF Claimed
  <1>. QED BY <1>1, <1>2, <1>3 DEF Level

\* A task that is taken claims its job, or is turned away.
LEMMA ClaimStep ==
    ASSUME ImportsAssumption, ImportsInv, NEW w \in Importers, NEW t \in task, ClaimJob(w, t)
    PROVE  ImportsInv'
PROOF
  <1>. ImportsTypeOK /\ ConfirmInv /\ WorkerInv /\ LoneInv
    BY DEF ImportsInv
  <1>0. t.file \in Files /\ t.id \in Nat
    BY DEF ImportsTypeOK
  <1>. PICK f \in Files : f = t.file
    BY <1>0
  <1>. PICK j : j = Claimed(job[f], t.id)
    OBVIOUS
  <1>1. j \in JobType /\ Level(j, job[f]) /\ j.status = "PROCESSING"
    BY <1>0, ClaimedJob DEF ImportsTypeOK
  <1>2. /\ UNCHANGED <<confirming, sent, result, suppression, edits>>
        /\ task' \subseteq task /\ worker[w].pc = "idle"
    BY DEF ClaimJob, contacts
  <1>3. CASE ~Claimable(job[f], t.id)
    <2>1. UNCHANGED <<job, worker, overlapped>>
      BY <1>3 DEF ClaimJob
    <2>2. ImportsTypeOK'
      BY <1>2, <2>1 DEF ImportsTypeOK
    <2>3. ConfirmInv'
      BY <1>2, <2>1 DEF ConfirmInv
    <2>4. \A v \in Importers : worker'[v].pc # "idle" => job'[worker'[v].file].status # NONE
      BY <2>1 DEF WorkerInv
    <2>5. \A g \in Files \ overlapped' : \A u, v \in Importers : Claims(u, g)' /\ Claims(v, g)' => u = v
      BY <2>1 DEF LoneInv, Claims
    <2>6. \A g \in Files : Level(job'[g], job[g])
      BY <2>1 DEF Level
    <2>. QED
      BY <1>2, <2>1, <2>2, <2>3, <2>4, <2>5, <2>6, SteadyStep
  <1>4. CASE Claimable(job[f], t.id)
    <2>. PICK new : new = [pc |-> "claimed", file |-> f, id |-> t.id, job |-> j]
      OBVIOUS
    <2>1. /\ job' = [job EXCEPT ![f] = j] /\ worker' = [worker EXCEPT ![w] = new]
          /\ overlapped' = IF \E v \in Importers : worker[v].file = f /\ worker[v].pc # "again"
                           THEN overlapped \cup {f} ELSE overlapped
      BY <1>4 DEF ClaimJob
    <2>2. new \in WorkerType /\ new.pc = "claimed" /\ new.file = f /\ new.job = j
      BY <1>0, <1>1 DEF WorkerType
    <2>3. job[f].status \in {"PENDING", "PROCESSING"} /\ job[f].status # NONE
      BY <1>4 DEF Claimable, ImportsAssumption
    <2>4. /\ \A g \in Files : g # f => job'[g] = job[g]
          /\ job'[f] = j
          /\ \A v \in Importers : v # w => worker'[v] = worker[v]
          /\ worker'[w] = new
      BY <2>1 DEF ImportsTypeOK
    <2>5. ImportsTypeOK'
      BY <1>1, <1>2, <2>1, <2>2 DEF ImportsTypeOK
    <2>6. f \notin confirming
      BY <2>3 DEF ConfirmInv, NoJob
    <2>7. ConfirmInv'
      BY <1>2, <2>4, <2>6 DEF ConfirmInv
    <2>8. \A g \in Files : /\ Level(job'[g], job[g])
                           /\ job'[g].status \in Completed => job[g].status \in Completed
                           /\ job'[g].status # NONE \/ job'[g] = job[g]
      BY <1>1, <2>4 DEF Level, Completed, ImportsAssumption
    <2>9. ASSUME NEW v \in Importers
          PROVE  /\ worker'[v].pc # "idle" => job'[worker'[v].file].status # NONE
                 /\ worker'[v].pc = "claimed" =>
                       worker'[v] = worker[v] \/ Level(worker'[v].job, job[worker'[v].file])
      <3>1. CASE v = w
        BY <1>1, <2>2, <2>3, <2>4, <2>8, <3>1
      <3>2. CASE v # w
        <4>1. worker'[v] = worker[v]
          BY <2>4, <3>2
        <4>2. worker[v].pc # "idle" => worker[v].file \in Files /\ job[worker[v].file].status # NONE
          BY BusyWorker DEF WorkerInv
        <4>. QED BY <2>8, <4>1, <4>2
      <3>. QED BY <3>1, <3>2
    <2>10. ASSUME NEW g \in Files \ overlapped', NEW u \in Importers, NEW v \in Importers,
                  Claims(u, g)', Claims(v, g)'
           PROVE  u = v
      <3>1. g \notin overlapped
        BY <2>1
      <3>2. CASE g = f
        <4>1. \A x \in Importers : ~Claims(x, f)
          BY <2>1, <3>2 DEF Claims
        <4>. QED BY <2>4, <3>2, <4>1, <2>10 DEF Claims
      <3>3. CASE g # f
        <4>1. Claims(u, g) /\ Claims(v, g)
          BY <2>2, <2>4, <2>10, <3>3 DEF Claims
        <4>. QED BY <3>1, <4>1 DEF LoneInv
      <3>. QED BY <3>2, <3>3
    <2>. QED
      BY <1>2, <2>1, <2>5, <2>7, <2>8, <2>9, <2>10, SteadyStep
  <1>. QED BY <1>3, <1>4

\* The commands of users and the captures of lists, which see no import.
LEMMA CommandStep ==
    ASSUME ImportsAssumption, ImportsInv, Command \/ UNCHANGED importsVars
    PROVE  ImportsInv'
PROOF
  <1>. ImportsTypeOK /\ ConfirmInv /\ WorkerInv /\ LoneInv
    BY DEF ImportsInv
  <1>1. UNCHANGED <<job, confirming, task, sent, worker, result, overlapped>>
    BY DEF Command, CreateLead, CreateSuppression, ReleaseSuppression, UpdateLead, ArchiveList,
       Capture, CheckMember, AddMember, RemoveMember, importsVars, queue
  <1>2. edits' \in Nat
    <2>1. edits' = edits \/ edits' = edits + 1
      BY DEF Command, CreateLead, CreateSuppression, ReleaseSuppression, UpdateLead, ArchiveList,
               Capture, CheckMember, AddMember, RemoveMember, importsVars, Edit
    <2>. QED BY <2>1 DEF ImportsTypeOK
  <1>3. \/ suppression' = suppression
        \/ \E a \in People : suppression' = [suppression EXCEPT ![a] = "ACTIVE"]
        \/ \E a \in People : suppression' = [suppression EXCEPT ![a] = "RELEASED"]
    <2>1. ASSUME NEW a \in People, CreateSuppression(a) \/ ReleaseSuppression(a)
          PROVE  \/ suppression' = [suppression EXCEPT ![a] = "ACTIVE"]
                 \/ suppression' = [suppression EXCEPT ![a] = "RELEASED"]
      BY <2>1 DEF CreateSuppression, ReleaseSuppression
    <2>2. ASSUME ~\E a \in People : CreateSuppression(a) \/ ReleaseSuppression(a)
          PROVE  suppression' = suppression
      BY <2>2 DEF Command, CreateLead, UpdateLead, ArchiveList, Capture, CheckMember, AddMember,
                    RemoveMember, importsVars, contacts
    <2>. QED BY <2>1, <2>2
  <1>4. /\ suppression' \in [People -> {NONE, "ACTIVE", "RELEASED"}]
        /\ \A a \in People : suppression[a] # NONE => suppression'[a] # NONE
    BY <1>3 DEF ImportsTypeOK, ImportsAssumption
  <1>5. ImportsTypeOK'
    BY <1>1, <1>2, <1>4 DEF ImportsTypeOK
  <1>6. ConfirmInv'
    BY <1>1 DEF ConfirmInv
  <1>7. \A w \in Importers : worker'[w].pc # "idle" => job'[worker'[w].file].status # NONE
    BY <1>1 DEF WorkerInv
  <1>8. \A f \in Files \ overlapped' : \A v, w \in Importers : Claims(v, f)' /\ Claims(w, f)' => v = w
    BY <1>1 DEF LoneInv, Claims
  <1>9. \A f \in Files : Level(job'[f], job[f])
    BY <1>1 DEF Level
  <1>. QED
    BY <1>1, <1>4, <1>5, <1>6, <1>7, <1>8, <1>9, SteadyStep
-----------------------------------------------------------------------------
(* A batch *)

\* The rows of the batch that get a status.
Given(f, rows, s) == {r \in rows : RowStatus(f, rows, r) = s}

\* A snapshot of a job with a batch of rows added to it.
Advances(old, f, rows, new) ==
    /\ new \in JobType
    /\ new.cursor = Max(rows \cup {old.cursor})
    /\ new.accepted = old.accepted + Cardinality(Given(f, rows, "ACCEPTED"))
    /\ new.duplicate = old.duplicate + Cardinality(Given(f, rows, "DUPLICATE"))
    /\ new.rejected = old.rejected + Cardinality(Given(f, rows, "REJECTED"))

\* A job whose cursor and counters are replaced by numbers is a job.
LEMMA JobRewritten ==
    ASSUME NEW old \in JobType, NEW c \in Nat, NEW a \in Nat, NEW d \in Nat, NEW r \in Nat
    PROVE  [old EXCEPT !.cursor = c, !.accepted = a, !.duplicate = d, !.rejected = r] \in JobType
  BY DEF JobType

\* What a worker is about to write is its snapshot and its batch.
LEMMA ProgressMade ==
    ASSUME ImportsAssumption, NEW w \in Importers,
           NEW f \in Files, f = worker[w].file,
           NEW old \in JobType, old = worker[w].job,
           NEW rows, rows = BatchRows(f, old.cursor)
    PROVE  Advances(old, f, rows, Progress(w, rows))
PROOF
  <1>1. old.cursor \in Nat /\ old.accepted \in Nat /\ old.duplicate \in Nat /\ old.rejected \in Nat
    BY DEF JobType
  <1>2. rows \subseteq 1..Total(f) /\ Max(rows \cup {old.cursor}) \in Nat
    BY <1>1, BatchMoves
  <1>3. IsFiniteSet(rows)
    <2>1. IsFiniteSet(1..Total(f))
      <3>1. 1 \in Int /\ Total(f) \in Int
        BY TotalNat
      <3>. QED BY <3>1, FS_Interval
    <2>. QED BY <1>2, <2>1, FS_Subset
  <1>4. \A s \in Outcomes : Cardinality(Given(f, rows, s)) \in Nat
    BY <1>3, FS_Subset, FS_CardinalityType DEF Given
  <1>5. ASSUME NEW m \in Nat, NEW s \in Outcomes PROVE m + Cardinality(Given(f, rows, s)) \in Nat
    BY <1>4
  <1>6. PICK c \in Nat : c = Max(rows \cup {old.cursor})
    BY <1>2
  <1>7. PICK a \in Nat : a = old.accepted + Cardinality(Given(f, rows, "ACCEPTED"))
    BY <1>1, <1>5 DEF Outcomes
  <1>8. PICK d \in Nat : d = old.duplicate + Cardinality(Given(f, rows, "DUPLICATE"))
    BY <1>1, <1>5 DEF Outcomes
  <1>9. PICK r \in Nat : r = old.rejected + Cardinality(Given(f, rows, "REJECTED"))
    BY <1>1, <1>5 DEF Outcomes
  <1>10. PICK p : p = [old EXCEPT !.cursor = c, !.accepted = a, !.duplicate = d, !.rejected = r]
    OBVIOUS
  <1>11. p = Progress(w, rows)
    BY <1>6, <1>7, <1>8, <1>9, <1>10 DEF Progress, Given
  <1>12. p \in JobType
    BY <1>10, JobRewritten
  <1>13. p.cursor = c /\ p.accepted = a /\ p.duplicate = d /\ p.rejected = r /\ p.status = old.status
    BY <1>10 DEF JobType
  <1>. QED BY <1>6, <1>7, <1>8, <1>9, <1>11, <1>12, <1>13 DEF Advances

\* What the transaction of a batch does to its rows.
LEMMA BatchResults ==
    ASSUME ImportsAssumption, ImportsTypeOK, NEW w \in Importers, ProcessBatch(w),
           NEW f \in Files, f = worker[w].file,
           NEW rows \in SUBSET (1..Total(f)), rows = BatchRows(f, worker[w].job.cursor)
    PROVE  /\ result' = [g \in Files |-> result'[g]]
           /\ \A g \in Files : result'[g] \in [1..Total(g) -> {NONE} \union Outcomes]
           /\ \A g \in Files : g # f => result'[g] = result[g]
           /\ \A r \in 1..Total(f) :
                 result'[f][r] = IF r \in rows /\ result[f][r] = NONE THEN RowStatus(f, rows, r)
                                 ELSE result[f][r]
PROOF
  <1>. PICK new : new = [r \in 1..Total(f) |-> IF r \in rows /\ result[f][r] = NONE
                                              THEN RowStatus(f, rows, r) ELSE result[f][r]]
    OBVIOUS
  <1>1. result' = [result EXCEPT ![f] = new]
    BY DEF ProcessBatch, InsertRowResults, ImportsTypeOK
  <1>2. new \in [1..Total(f) -> {NONE} \union Outcomes]
    BY RowOutcome, ZenonT(60) DEF ImportsTypeOK
  <1>. QED BY <1>1, <1>2 DEF ImportsTypeOK

\* What it does to the job and to its worker.
LEMMA BatchRecords ==
    ASSUME ImportsAssumption, ImportsInv, NEW w \in Importers, ProcessBatch(w),
           NEW f \in Files, f = worker[w].file,
           NEW rows, rows = BatchRows(f, worker[w].job.cursor),
           NEW p \in JobType, p = Progress(w, rows)
    PROVE  /\ job' \in [Files -> JobType]
           /\ \A g \in Files : g # f => job'[g] = job[g]
           /\ Level(job'[f], p)
           /\ job'[f].status # NONE
           /\ job'[f].status \in Completed => LastBatch(f, rows)
           /\ worker' \in [Importers -> WorkerType]
           /\ \A v \in Importers : v # w => worker'[v] = worker[v]
           /\ worker'[w].pc # "claimed"
           /\ worker'[w].pc # "idle" => worker'[w].file = f
PROOF
  <1>0. ImportsTypeOK /\ job[f].status # NONE /\ job[f].status \in JobStates
    BY DEF ImportsInv, WorkerInv, ProcessBatch, ImportsTypeOK, JobType
  <1>1. CASE LastBatch(f, rows)
    <2>. PICK state \in Completed : state = IF p.rejected = 0 THEN "COMPLETED" ELSE "COMPLETED_WITH_ERRORS"
      BY DEF Completed
    <2>. PICK new : new = [p EXCEPT !.status = state, !.owner = 0, !.live = FALSE]
      OBVIOUS
    <2>1. job' = [job EXCEPT ![f] = new] /\ worker' = [worker EXCEPT ![w] = IdleImporter]
      BY <1>1 DEF ProcessBatch, FinalizeJob
    <2>2. /\ new.status = state /\ new.cursor = p.cursor /\ new.accepted = p.accepted
          /\ new.duplicate = p.duplicate /\ new.rejected = p.rejected
      BY DEF JobType
    <2>3. new \in JobType
      BY <2>2, ZenonT(60) DEF JobType, JobStates, Completed
    <2>. QED
      BY <1>0, <1>1, <2>1, <2>2, <2>3 DEF ImportsTypeOK, WorkerType, IdleImporter, Level, Completed,
         ImportsAssumption
  <1>2. CASE ~LastBatch(f, rows)
    <2>. PICK state \in JobStates : state = job[f].status
      BY <1>0
    <2>. PICK new : new = [p EXCEPT !.status = state]
      OBVIOUS
    <2>. PICK busy : busy = [worker[w] EXCEPT !.pc = "again", !.job = NoJob]
      OBVIOUS
    <2>1. job' = [job EXCEPT ![f] = new] /\ worker' = [worker EXCEPT ![w] = busy]
      BY <1>0, <1>2 DEF ProcessBatch, UpdateProgress, ImportsTypeOK
    <2>2. /\ new.status = state /\ new.cursor = p.cursor /\ new.accepted = p.accepted
          /\ new.duplicate = p.duplicate /\ new.rejected = p.rejected
      BY DEF JobType
    <2>3. new \in JobType
      BY <2>2 DEF JobType
    <2>4. worker[w] \in [pc : {"claimed"}, file : Files, id : Nat, job : JobType]
      BY <1>0, BusyWorker DEF ProcessBatch
    <2>5. busy \in [pc : {"again"}, file : Files, id : Nat, job : {NoJob}] /\ busy.file = f
      BY <2>4
    <2>6. state \notin Completed
      BY <1>2 DEF ProcessBatch, Refused
    <2>. QED
      BY <1>0, <2>1, <2>2, <2>3, <2>5, <2>6 DEF ImportsTypeOK, WorkerType, Level
  <1>. QED BY <1>1, <1>2

\* What it does to suppressions.
LEMMA BatchSuppresses ==
    ASSUME ImportsTypeOK, NEW w \in Importers, ProcessBatch(w), NEW f \in Files, f = worker[w].file,
           NEW rows, rows = BatchRows(f, worker[w].job.cursor)
    PROVE  /\ suppression' \in [People -> {NONE, "ACTIVE", "RELEASED"}]
           /\ \A a \in People : suppression'[a] = suppression[a] \/ suppression'[a] = "ACTIVE"
           /\ KindOf[f] = "SUPPRESSION" => \A a \in Named(f, rows) \cap People : suppression'[a] = "ACTIVE"
PROOF
  <1>1. CASE KindOf[f] = "LEADS"
    BY <1>1 DEF ProcessBatch, ImportsTypeOK
  <1>2. CASE KindOf[f] # "LEADS"
    BY <1>2 DEF ProcessBatch, UpsertSuppressions, ImportsTypeOK
  <1>. QED BY <1>1, <1>2
\* Rows that were ahead of the cursor are counted once, when they are handled.
LEMMA BatchCounts ==
    ASSUME ImportsAssumption, NEW f \in Files, ImportsTypeOK,
           result[f] \in [1..Total(f) -> {NONE} \union Outcomes],
           NEW rows \in SUBSET (1..Total(f)), \A r \in rows : result[f][r] = NONE,
           \A r \in 1..Total(f) : result'[f][r] = IF r \in rows /\ result[f][r] = NONE
                                                  THEN RowStatus(f, rows, r) ELSE result[f][r],
           NEW s \in Outcomes
    PROVE  Cardinality({r \in 1..Total(f) : result'[f][r] = s})
              = Cardinality({r \in 1..Total(f) : result[f][r] = s}) + Cardinality(Given(f, rows, s))
PROOF
  <1>. PICK S : S = {r \in 1..Total(f) : result[f][r] = s}
    OBVIOUS
  <1>. PICK T : T = {r \in rows : RowStatus(f, rows, r) = s}
    OBVIOUS
  <1>1. NONE # s
    BY DEF ImportsAssumption, Outcomes
  <1>2. {r \in 1..Total(f) : result'[f][r] = s} = S \union T
    BY <1>1
  <1>3. S \cap T = {}
    BY <1>1
  <1>4. IsFiniteSet(1..Total(f))
    <2>1. 1 \in Int /\ Total(f) \in Int
      BY TotalNat
    <2>. QED BY <2>1, FS_Interval
  <1>5. IsFiniteSet(S) /\ IsFiniteSet(T) /\ Cardinality(S) \in Nat /\ Cardinality(T) \in Nat
    BY <1>4, FS_Subset, FS_CardinalityType
  <1>6. Cardinality(S \union T) = Cardinality(S) + Cardinality(T) - Cardinality({})
    <2>1. Cardinality(S \union T) = Cardinality(S) + Cardinality(T) - Cardinality(S \cap T)
      BY <1>5, FS_Union
    <2>. QED BY <1>3, <2>1
  <1>7. Cardinality({}) = 0
    BY FS_EmptySet
  <1>8. Given(f, rows, s) = T
    BY DEF Given
  <1>9. Cardinality(S \union T) = Cardinality(S) + Cardinality(T)
    BY <1>5, <1>6, <1>7
  <1>. QED BY <1>2, <1>8, <1>9

\* A batch keeps the invariant.
LEMMA ImportStep ==
    ASSUME ImportsAssumption, ImportsInv, NEW w \in Importers, ProcessBatch(w)
    PROVE  ImportsInv'
PROOF
  <1>. ImportsTypeOK /\ ConfirmInv /\ WorkerInv /\ LoneInv /\ NoRowSkipped /\ CountersMatchRows /\ NamedInv
    BY DEF ImportsInv
  <1>0. worker[w].pc = "claimed" /\ worker[w].file \in Files /\ worker[w].job \in JobType
    BY BusyWorker DEF ProcessBatch
  <1>. PICK f \in Files : f = worker[w].file
    BY <1>0
  <1>. PICK old \in JobType : old = worker[w].job
    BY <1>0
  <1>. PICK cursor \in Nat : cursor = old.cursor
    BY DEF JobType
  <1>. PICK rows \in SUBSET (1..Total(f)) : rows = BatchRows(f, cursor)
    BY BatchMoves
  <1>1. /\ \A r \in rows : r > cursor
        /\ \A r \in 1..Total(f) : r <= Max(rows \cup {cursor}) <=> r <= cursor \/ r \in rows
        /\ LastBatch(f, rows) => \A r \in 1..Total(f) : r <= cursor \/ r \in rows
    BY BatchMoves
  <1>2. Advances(old, f, rows, Progress(w, rows))
    <2>1. f = worker[w].file /\ old = worker[w].job /\ rows = BatchRows(f, old.cursor)
      BY <1>0
    <2>. QED BY <2>1, ProgressMade
  <1>. PICK p : p = Progress(w, rows)
    OBVIOUS
  <1>20. /\ p \in JobType
         /\ p.cursor = Max(rows \cup {cursor})
         /\ p.accepted = old.accepted + Cardinality(Given(f, rows, "ACCEPTED"))
         /\ p.duplicate = old.duplicate + Cardinality(Given(f, rows, "DUPLICATE"))
         /\ p.rejected = old.rejected + Cardinality(Given(f, rows, "REJECTED"))
    BY <1>2 DEF Advances
  <1>3. /\ result' = [g \in Files |-> result'[g]]
        /\ \A g \in Files : result'[g] \in [1..Total(g) -> {NONE} \union Outcomes]
        /\ \A g \in Files : g # f => result'[g] = result[g]
        /\ \A r \in 1..Total(f) :
              result'[f][r] = IF r \in rows /\ result[f][r] = NONE THEN RowStatus(f, rows, r)
                              ELSE result[f][r]
    BY BatchResults
  <1>4. /\ job' \in [Files -> JobType]
        /\ \A g \in Files : g # f => job'[g] = job[g]
        /\ Level(job'[f], p)
        /\ job'[f].status # NONE
        /\ job'[f].status \in Completed => LastBatch(f, rows)
        /\ worker' \in [Importers -> WorkerType]
        /\ \A v \in Importers : v # w => worker'[v] = worker[v]
        /\ worker'[w].pc # "claimed"
        /\ worker'[w].pc # "idle" => worker'[w].file = f
    BY <1>20, BatchRecords
  <1>5. /\ suppression' \in [People -> {NONE, "ACTIVE", "RELEASED"}]
        /\ \A a \in People : suppression'[a] = suppression[a] \/ suppression'[a] = "ACTIVE"
        /\ KindOf[f] = "SUPPRESSION" => \A a \in Named(f, rows) \cap People : suppression'[a] = "ACTIVE"
    BY BatchSuppresses
  <1>6. UNCHANGED <<confirming, task, sent, overlapped, edits>>
    BY DEF ProcessBatch, queue
  <1>7. ImportsTypeOK'
    BY <1>3, <1>4, <1>5, <1>6 DEF ImportsTypeOK
  <1>8. /\ \A r \in 1..Total(f) : r <= cursor => result[f][r] # NONE
        /\ job[f].status # NONE
        /\ f \notin overlapped => Level(old, job[f])
    BY <1>0 DEF WorkerInv, Handled
  <1>9. \A g \in Files : \A r \in 1..Total(g) : result[g][r] # NONE => result'[g][r] = result[g][r]
    BY <1>3
  <1>10. \A r \in rows : result'[f][r] # NONE
    <2>1. \A r \in rows : RowStatus(f, rows, r) # NONE
      BY RowOutcome DEF Outcomes, ImportsAssumption
    <2>. QED BY <1>3, <2>1
  <1>11. job'[f].cursor = Max(rows \cup {cursor})
    BY <1>20, <1>4 DEF Level
  <1>12. NamedInv'
    <2>1. \A r \in rows : RowStatus(f, rows, r) \in {"ACCEPTED", "DUPLICATE"} => RowsOf[f][r] \in People
      BY RowNamed
    <2>. QED BY <1>3, <2>1 DEF NamedInv
  <1>13. NoRowSkipped'
    <2>. SUFFICES ASSUME NEW g \in Files, NEW r \in 1..Total(g)
                  PROVE  /\ r <= job'[g].cursor => result'[g][r] # NONE
                         /\ job'[g].status \in Completed => result'[g][r] # NONE
                         /\ (KindOf[g] = "SUPPRESSION" /\ result'[g][r] \in {"ACCEPTED", "DUPLICATE"})
                               => suppression'[RowsOf[g][r]] # NONE
      BY DEF NoRowSkipped
    <2>1. /\ r <= job'[g].cursor => result'[g][r] # NONE
          /\ job'[g].status \in Completed => result'[g][r] # NONE
      <3>1. CASE g = f
        BY <1>1, <1>4, <1>8, <1>9, <1>10, <1>11, <3>1
      <3>2. CASE g # f
        BY <1>3, <1>4, <3>2 DEF NoRowSkipped
      <3>. QED BY <3>1, <3>2
    <2>2. ASSUME KindOf[g] = "SUPPRESSION", result'[g][r] \in {"ACCEPTED", "DUPLICATE"}
          PROVE  suppression'[RowsOf[g][r]] # NONE
      <3>1. CASE result'[g][r] = result[g][r]
        <4>1. RowsOf[g][r] \in People /\ suppression[RowsOf[g][r]] # NONE
          BY <2>2, <3>1 DEF NamedInv, NoRowSkipped
        <4>. QED BY <1>5, <4>1 DEF ImportsAssumption
      <3>2. CASE result'[g][r] # result[g][r]
        <4>1. g = f /\ r \in rows /\ RowStatus(f, rows, r) # "REJECTED"
          BY <1>3, <2>2, <3>2
        <4>2. RowsOf[f][r] \in Named(f, rows) /\ RowsOf[f][r] \in People
          BY <4>1, RowNamed
        <4>. QED BY <1>5, <2>2, <4>1, <4>2 DEF ImportsAssumption
      <3>. QED BY <3>1, <3>2
    <2>. QED BY <2>1, <2>2
  <1>14. CountersMatchRows'
    <2>. SUFFICES ASSUME NEW g \in Files \ overlapped
                  PROVE  /\ job'[g].accepted = Cardinality({r \in 1..Total(g) : result'[g][r] = "ACCEPTED"})
                         /\ job'[g].duplicate = Cardinality({r \in 1..Total(g) : result'[g][r] = "DUPLICATE"})
                         /\ job'[g].rejected = Cardinality({r \in 1..Total(g) : result'[g][r] = "REJECTED"})
      BY <1>6 DEF CountersMatchRows
    <2>0. /\ job[g].accepted = Cardinality({r \in 1..Total(g) : result[g][r] = "ACCEPTED"})
          /\ job[g].duplicate = Cardinality({r \in 1..Total(g) : result[g][r] = "DUPLICATE"})
          /\ job[g].rejected = Cardinality({r \in 1..Total(g) : result[g][r] = "REJECTED"})
      BY DEF CountersMatchRows
    <2>1. CASE g = f
      <3>1. Level(old, job[f])
        BY <1>8, <2>1
      <3>2. \A r \in rows : result[f][r] = NONE
        BY <1>1, <2>1, <3>1 DEF LoneInv, Level
      <3>3. \A s \in Outcomes : Cardinality({r \in 1..Total(f) : result'[f][r] = s})
               = Cardinality({r \in 1..Total(f) : result[f][r] = s}) + Cardinality(Given(f, rows, s))
        BY <1>3, <3>2, BatchCounts DEF ImportsTypeOK
      <3>4. /\ job'[f].accepted = job[f].accepted + Cardinality(Given(f, rows, "ACCEPTED"))
            /\ job'[f].duplicate = job[f].duplicate + Cardinality(Given(f, rows, "DUPLICATE"))
            /\ job'[f].rejected = job[f].rejected + Cardinality(Given(f, rows, "REJECTED"))
        BY <1>20, <1>4, <3>1 DEF Level
      <3>. QED BY <2>0, <2>1, <3>3, <3>4 DEF Outcomes
    <2>2. CASE g # f
      <3>1. job'[g] = job[g] /\ result'[g] = result[g]
        BY <1>3, <1>4, <2>2
      <3>. QED BY <2>0, <3>1
    <2>. QED BY <2>1, <2>2
  <1>15. ConfirmInv'
    <2>1. f \notin confirming
      BY <1>8 DEF ConfirmInv, NoJob
    <2>. QED BY <1>4, <1>6, <2>1 DEF ConfirmInv
  <1>16. WorkerInv'
    <2>. SUFFICES ASSUME NEW v \in Importers, worker'[v].pc # "idle"
                  PROVE  /\ job'[worker'[v].file].status # NONE
                         /\ worker'[v].pc = "claimed" =>
                               /\ \A r \in 1..Total(worker'[v].file) :
                                     r <= worker'[v].job.cursor => result'[worker'[v].file][r] # NONE
                               /\ worker'[v].file \notin overlapped =>
                                     Level(worker'[v].job, job'[worker'[v].file])
      BY <1>6 DEF WorkerInv, Handled
    <2>1. CASE v = w
      BY <1>4, <2>1
    <2>2. CASE v # w
      <3>1. worker'[v] = worker[v]
        BY <1>4, <2>2
      <3>. PICK g \in Files : g = worker[v].file
        BY <3>1, BusyWorker
      <3>2. job'[g].status # NONE
        BY <1>4, <3>1 DEF WorkerInv
      <3>3. ASSUME worker[v].pc = "claimed"
            PROVE  /\ \A r \in 1..Total(g) : r <= worker[v].job.cursor => result'[g][r] # NONE
                   /\ g \notin overlapped => Level(worker[v].job, job'[g])
        <4>1. \A r \in 1..Total(g) : r <= worker[v].job.cursor => result[g][r] # NONE
          BY <3>3 DEF WorkerInv, Handled
        <4>2. ASSUME g \notin overlapped PROVE g # f
          <5>1. Claims(v, g) /\ Claims(w, f)
            BY <1>0, <3>3 DEF Claims
          <5>. QED BY <2>2, <4>2, <5>1 DEF LoneInv
        <4>3. g \notin overlapped => Level(worker[v].job, job[g])
          BY <3>3 DEF WorkerInv
        <4>. QED BY <1>4, <1>9, <4>1, <4>2, <4>3
      <3>. QED BY <3>1, <3>2, <3>3
    <2>. QED BY <2>1, <2>2
  <1>17. LoneInv'
    <2>. SUFFICES ASSUME NEW g \in Files \ overlapped
                  PROVE  /\ \A u, v \in Importers : Claims(u, g)' /\ Claims(v, g)' => u = v
                         /\ \A r \in 1..Total(g) : r > job'[g].cursor => result'[g][r] = NONE
      BY <1>6 DEF LoneInv
    <2>1. \A u \in Importers : Claims(u, g)' => Claims(u, g)
      BY <1>4 DEF Claims
    <2>2. ASSUME NEW r \in 1..Total(g), r > job'[g].cursor PROVE result'[g][r] = NONE
      <3>1. CASE g = f
        <4>1. r > Max(rows \cup {cursor})
          BY <1>11, <2>2, <3>1
        <4>2. ~(r <= Max(rows \cup {cursor}))
          <5>1. Max(rows \cup {cursor}) \in Nat
            BY <1>20 DEF JobType
          <5>. QED BY <4>1, <5>1
        <4>3. r > cursor /\ r \notin rows
          BY <1>1, <3>1, <4>2
        <4>4. result[f][r] = NONE
          BY <1>8, <3>1, <4>3 DEF LoneInv, Level
        <4>. QED BY <1>3, <3>1, <4>3, <4>4
      <3>2. CASE g # f
        BY <1>3, <1>4, <2>2, <3>2 DEF LoneInv
      <3>. QED BY <3>1, <3>2
    <2>. QED BY <2>1, <2>2 DEF LoneInv
  <1>. QED
    BY <1>7, <1>12, <1>13, <1>14, <1>15, <1>16, <1>17 DEF ImportsInv

-----------------------------------------------------------------------------
(* Imports: the theorems *)

\* Nothing is handled before the first import.
LEMMA ImportsBegin ==
    ASSUME ImportsAssumption, ImportsInit
    PROVE  ImportsInv
PROOF
  <1>1. ImportsTypeOK
    BY DEF ImportsInit, ImportsTypeOK, NoJob, JobType, JobStates, WorkerType
  <1>2. \A f \in Files : \A r \in 1..Total(f) : result[f][r] = NONE
    BY DEF ImportsInit
  <1>3. /\ \A f \in Files : job[f] = NoJob
        /\ \A w \in Importers : worker[w].pc = "idle"
        /\ NoJob.status = NONE /\ NoJob.cursor = 0
        /\ NoJob.accepted = 0 /\ NoJob.duplicate = 0 /\ NoJob.rejected = 0
    BY DEF ImportsInit, NoJob, IdleImporter
  <1>4. NoRowSkipped /\ NamedInv
    BY <1>2, <1>3 DEF NoRowSkipped, NamedInv, Completed, ImportsAssumption
  <1>5. CountersMatchRows
    <2>1. \A f \in Files : \A s \in Outcomes : {r \in 1..Total(f) : result[f][r] = s} = {}
      BY <1>2 DEF Outcomes, ImportsAssumption
    <2>. QED BY <1>3, <2>1, FS_EmptySet DEF CountersMatchRows, Outcomes
  <1>6. ConfirmInv /\ WorkerInv /\ LoneInv
    BY <1>2, <1>3 DEF ImportsInit, ConfirmInv, WorkerInv, LoneInv, Claims
  <1>. QED
    BY <1>1, <1>4, <1>5, <1>6 DEF ImportsInv

\* Every step keeps the invariant.
LEMMA EveryImportStep ==
    ASSUME ImportsAssumption, ImportsInv, [ImportsNext]_importsVars
    PROVE  ImportsInv'
  BY RequestStep, LeaseStep, ClaimStep, ImportStep, ImporterStep, CommandStep DEF ImportsNext, TakeTask, Run

\* Every reachable state of an import satisfies the invariant: confirm requests, leases,
\* batches, crashes and users' commands in any order.
THEOREM ImportsInvariance == ImportsSpec => []ImportsInv
PROOF
  <1>1. ImportsInit => ImportsInv
    BY ImportsBegin, ImportsAssumption
  <1>2. ImportsInv /\ [ImportsNext]_importsVars => ImportsInv'
    BY EveryImportStep, ImportsAssumption
  <1>. QED
    BY <1>1, <1>2, PTL DEF ImportsSpec

\* No row is skipped, whatever ran twice, crashed or lost its lease: a row the cursor
\* has passed has a result, a completed job has passed every row, and what a suppression
\* file named and did not reject is on the list.
THEOREM NoRowIsSkipped == ImportsSpec => []NoRowSkipped
PROOF
  <1>1. ImportsInv => NoRowSkipped
    BY DEF ImportsInv
  <1>. QED
    BY <1>1, ImportsInvariance, PTL

\* The counters of a job are those of its rows' results after every commit, crash and
\* retry, unless two workers ran on one snapshot of it.
THEOREM CountersAreRight == ImportsSpec => []CountersMatchRows
PROOF
  <1>1. ImportsInv => CountersMatchRows
    BY DEF ImportsInv
  <1>. QED
    BY <1>1, ImportsInvariance, PTL

\* The rows a batch names are handled for the first time.
LEMMA BatchIsFirst ==
    ASSUME ImportsAssumption, ImportsInv, overlapped = {}, NEW w \in Importers, ProcessBatch(w),
           NEW a \in Named(worker[w].file, BatchRows(worker[w].file, worker[w].job.cursor))
    PROVE  \E f \in Files : \E r \in 1..Total(f) :
              RowsOf[f][r] = a /\ result[f][r] = NONE /\ result'[f][r] # NONE
PROOF
  <1>. ImportsTypeOK /\ WorkerInv /\ LoneInv
    BY DEF ImportsInv
  <1>0. worker[w].pc = "claimed" /\ worker[w].file \in Files /\ worker[w].job \in JobType
    BY BusyWorker DEF ProcessBatch
  <1>. PICK f \in Files : f = worker[w].file
    BY <1>0
  <1>. PICK cursor \in Nat : cursor = worker[w].job.cursor
    BY <1>0 DEF JobType
  <1>. PICK rows \in SUBSET (1..Total(f)) : rows = BatchRows(f, cursor)
    BY BatchMoves, ZenonT(60)
  <1>. PICK r \in rows : RowsOf[f][r] = a
    BY DEF Named
  <1>1. Level(worker[w].job, job[f])
    BY <1>0 DEF WorkerInv
  <1>2. result[f][r] = NONE
    <2>1. r \in 1..Total(f) /\ r > cursor
      BY BatchMoves, ZenonT(60)
    <2>2. job[f].cursor = cursor
      BY <1>1 DEF Level
    <2>. QED BY <2>1, <2>2 DEF LoneInv
  <1>3. result'[f][r] = RowStatus(f, rows, r)
    BY <1>2, BatchResults
  <1>4. RowStatus(f, rows, r) # NONE
    BY RowOutcome DEF Outcomes, ImportsAssumption
  <1>. QED BY <1>2, <1>3, <1>4

\* What a user released or removed comes back by a user's command or by a row that is
\* handled for the first time, unless two workers ran on one snapshot of a job.
THEOREM NothingReturns == ImportsSpec => NothingComesBack
PROOF
  <1>. DEFINE First(a) == \E f \in Files : \E r \in 1..Total(f) :
                             RowsOf[f][r] = a /\ result[f][r] = NONE /\ result'[f][r] # NONE
              Stays == \/ edits' # edits \/ adding' # adding \/ overlapped # {}
                       \/ /\ \A a \in People :
                                suppression[a] = "RELEASED" /\ suppression'[a] = "ACTIVE" => First(a)
                          /\ \A m \in members' \ members : First(lead'[m[2]].address)
  <1>1. ASSUME ImportsAssumption, ImportsInv, NEW w \in Importers, ProcessBatch(w), overlapped = {}
        PROVE  Stays
    <2>. ImportsTypeOK
      BY <1>1 DEF ImportsInv
    <2>. PICK f \in Files : f = worker[w].file
      BY <1>1, BusyWorker DEF ProcessBatch
    <2>. PICK rows : rows = BatchRows(f, worker[w].job.cursor)
      OBVIOUS
    <2>1. ASSUME NEW a \in Named(f, rows) PROVE First(a)
      <3>1. a \in Named(worker[w].file, BatchRows(worker[w].file, worker[w].job.cursor))
        OBVIOUS
      <3>. QED BY <1>1, <3>1, BatchIsFirst, ZenonT(60)
    <2>2. \A a \in People : suppression'[a] # suppression[a] => a \in Named(f, rows)
      BY <1>1 DEF ProcessBatch, UpsertSuppressions, ImportsTypeOK
    <2>3. ASSUME NEW m \in members' \ members PROVE lead'[m[2]].address \in Named(f, rows)
      BY <1>1, <2>3 DEF ProcessBatch, UpsertLeads
    <2>. QED BY <2>1, <2>2, <2>3 DEF ImportsAssumption
  <1>2. ASSUME ImportsInv, Command PROVE Stays
    <2>1. edits \in Nat
      BY <1>2 DEF ImportsInv, ImportsTypeOK
    <2>2. \/ edits' = edits + 1
          \/ \E l \in Lists, i \in Ids : AddMember(l, i)
          \/ UNCHANGED contacts
      BY <1>2 DEF Command, CreateLead, CreateSuppression, ReleaseSuppression, UpdateLead,
         ArchiveList, Capture, CheckMember, RemoveMember, Edit
    <2>3. ASSUME NEW l \in Lists, NEW i \in Ids, AddMember(l, i) PROVE adding' # adding
      BY <2>3 DEF AddMember
    <2>. QED BY <2>1, <2>2, <2>3 DEF contacts
  <1>3. ASSUME \/ \E f \in Files : Request(f) \/ LeaseExpires(f)
               \/ TakeTask
               \/ \E w \in Importers : BatchFails(w) \/ FailJob(w) \/ SendAgain(w) \/ Crash(w)
               \/ UNCHANGED importsVars
        PROVE  Stays
    <2>1. UNCHANGED contacts
      BY <1>3 DEF Request, ConfirmImport, CommitConfirm, RollBackConfirm, LeaseExpires,
         TakeTask, ClaimJob, BatchFails, FailJob, SendAgain, Crash, importsVars
    <2>. QED BY <2>1 DEF contacts
  <1>4. ImportsInv /\ [ImportsNext]_importsVars => Stays
    <2>. SUFFICES ASSUME ImportsInv, [ImportsNext]_importsVars, overlapped = {} PROVE Stays
      OBVIOUS
    <2>. QED BY <1>1, <1>2, <1>3, ImportsAssumption DEF ImportsNext, Run
  <1>5. ImportsInv /\ [ImportsNext]_importsVars =>
          [\/ edits' # edits \/ adding' # adding \/ overlapped # {}
           \/ LET first(a) == \E f \in Files : \E r \in 1..Total(f) :
                                 /\ RowsOf[f][r] = a
                                 /\ result[f][r] = NONE /\ result'[f][r] # NONE
              IN  /\ \A a \in People : (suppression[a] = "RELEASED"
                                        /\ suppression'[a] = "ACTIVE") => first(a)
                  /\ \A m \in members' \ members : first(lead'[m[2]].address)]_importsVars
    BY <1>4
  <1>. QED
    BY <1>5, ImportsInvariance, PTL DEF ImportsSpec, NothingComesBack

=============================================================================
