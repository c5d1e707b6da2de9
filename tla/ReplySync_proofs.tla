---------------------------- MODULE ReplySync_proofs ----------------------------
(***************************************************************************)
(* Theorems about ReplySync, for any workers, lease tokens, mails, kinds   *)
(* of mail and bounds.                                                     *)
(***************************************************************************)
EXTENDS ReplySync, TLAPS

-----------------------------------------------------------------------------
(* Types *)

Cursors == [mode : {"none", "full", "hist"}, base : Nat, next : Nat \ {0}]
Tokens  == Owners \union {NoOwner}
MailboxType == [connected : BOOLEAN, readable : BOOLEAN, gen : Nat]
SyncType == [status : {"NONE", "INITIALIZING", "CURRENT", "LAGGING", "RESYNC_REQUIRED", "UNAVAILABLE"},
             gen : Nat, cursor : Cursors, owner : Tokens, leased : BOOLEAN, due : BOOLEAN]
PageType == [mails : SUBSET Mails, more : BOOLEAN, cursor : Cursors]

RunType ==
    {Idle}
    \union [pc : {"begin"}, owner : Owners, mailbox : MailboxType]
    \union [pc : {"credential", "rotate", "fetch"}, owner : Owners, gen : Nat, pages : Nat, cursor : Cursors]
    \union [pc : {"store"}, owner : Owners, gen : Nat, pages : Nat, page : PageType]
    \union [pc : {"resync", "finish"}, owner : Owners]
    \union [pc : {"release"}, owner : Owners, due : BOOLEAN]

TypeOK ==
    /\ mailbox \in MailboxType
    /\ sync \in SyncType
    /\ tasks \subseteq Owners
    /\ run \in [Workers -> RunType]
    /\ arrived \in Nat /\ 1 .. arrived \subseteq Mails
    /\ assoc \in [Mails -> {"none", "dropped", "UNRESOLVED", "MATCHED"}]
    /\ enrollment \in {"ACTIVE", "STOPPED"}
    /\ followUp \in {"SCHEDULED", "RETRY_SCHEDULED", "SENDING", "SENT", "CANCELLED"}

-----------------------------------------------------------------------------
(* The inductive invariant *)

\* A cursor points into the inbox as it was once.
InRange(c) == c.base <= arrived /\ c.next <= arrived + 1

\* Everything behind a cursor was handled.
Covered(c) == InRange(c) /\ \A m \in Behind(c) : assoc[m] # "none"

\* A worker continues from a cursor that is covered, and a page in its hands covers
\* what is missing behind its own cursor.
RunCovered(w) ==
    /\ run[w].pc \in {"credential", "rotate", "fetch"} => Covered(run[w].cursor)
    /\ run[w].pc = "store" =>
          /\ InRange(run[w].page.cursor)
          /\ \A m \in Behind(run[w].page.cursor) : assoc[m] # "none" \/ m \in run[w].page.mails

\* A reply that was matched has stopped the enrollment.
MatchedStops == \A m \in Mails : Kind[m] = "reply" /\ assoc[m] = "MATCHED" => enrollment # "ACTIVE"

SyncInv ==
    /\ TypeOK
    /\ Covered(sync.cursor)
    /\ \A w \in Workers : RunCovered(w)
    /\ MatchedStops

-----------------------------------------------------------------------------
(* Cursors and pages *)

\* The beginning of a listing has nothing behind it.
LEMMA NothingBehind ==
    ASSUME TypeOK
    PROVE  NoCursor \in Cursors /\ Covered(NoCursor)
  BY DEF TypeOK, NoCursor, Cursors, Covered, InRange, Behind

\* What is behind a cursor in range has arrived.
LEMMA BehindArrived ==
    ASSUME TypeOK, NEW c \in Cursors, InRange(c)
    PROVE  Behind(c) \subseteq 1 .. arrived /\ Behind(c) \subseteq Mails
PROOF
  <1>1. c.base \in Nat /\ c.next \in Nat \ {0} /\ arrived \in Nat /\ c.base <= arrived /\ c.next <= arrived + 1
    BY DEF TypeOK, Cursors, InRange
  <1>2. Behind(c) \subseteq 1 .. arrived
    <2>1. CASE c.mode = "hist" /\ c.next - 1 > c.base
      BY <1>1, <2>1 DEF Behind
    <2>2. CASE c.mode = "hist" /\ ~(c.next - 1 > c.base)
      BY <1>1, <2>2 DEF Behind
    <2>3. CASE c.mode # "hist"
      BY <1>1, <2>3 DEF Behind
    <2>. QED BY <2>1, <2>2, <2>3
  <1>. QED
    BY <1>2 DEF TypeOK

\* The page at a cursor: what its own cursor has behind it was behind the first one,
\* or is in the page.  The history position a full listing ends with is that of its
\* first page, when everything up to it had arrived.
LEMMA PageCovers ==
    ASSUME TypeOK, NEW c \in Cursors, Covered(c)
    PROVE  /\ Page(c) \in PageType /\ InRange(Page(c).cursor)
           /\ \A m \in Behind(Page(c).cursor) : assoc[m] # "none" \/ m \in Page(c).mails
PROOF
  <1>. DEFINE base == IF c.mode = "none" THEN arrived ELSE c.base
              mode == IF c.mode = "none" THEN "full" ELSE c.mode
              end == IF mode = "full" THEN base ELSE arrived
  <1>1. /\ c.base \in Nat /\ c.next \in Nat \ {0} /\ arrived \in Nat /\ c.base <= arrived /\ c.next <= arrived + 1
        /\ c.mode \in {"none", "full", "hist"}
        /\ \A m \in Behind(c) : assoc[m] # "none"
    BY DEF TypeOK, Cursors, Covered, InRange
  <1>2. base \in Nat /\ base <= arrived /\ end \in Nat /\ end <= arrived /\ mode \in {"full", "hist"}
        /\ (mode = "full" => c.mode # "hist") /\ (mode = "hist" => c.mode = "hist" /\ base = c.base /\ end = arrived)
    BY <1>1
  <1>3. PICK mails : mails = {c.next} \cap (1 .. arrived)
    OBVIOUS
  <1>4. mails \in SUBSET Mails /\ (c.next <= arrived => c.next \in mails)
    BY <1>1, <1>3 DEF TypeOK
  <1>5. CASE c.next < arrived
    <2>1. PICK next : next = [mode |-> mode, base |-> base, next |-> c.next + 1]
      OBVIOUS
    <2>2. Page(c) = [mails |-> mails, more |-> TRUE, cursor |-> next]
      BY <1>3, <1>5, <2>1 DEF Page
    <2>3. next \in Cursors /\ next.mode = mode /\ next.base = base /\ next.next = c.next + 1
      BY <1>1, <1>2, <2>1 DEF Cursors
    <2>4. InRange(next)
      BY <1>1, <1>2, <1>5, <2>3 DEF InRange
    <2>5. Behind(next) \subseteq Behind(c) \union {c.next}
      <3>1. CASE mode = "full"
        BY <1>1, <1>2, <2>3, <3>1 DEF Behind
      <3>2. CASE mode = "hist"
        <4>. HIDE DEF base, mode, end
        <4>1. Behind(next) = 1 .. (IF c.next > c.base THEN c.next ELSE c.base)
          BY <1>1, <1>2, <2>3, <3>2 DEF Behind
        <4>2. Behind(c) = 1 .. (IF c.next - 1 > c.base THEN c.next - 1 ELSE c.base)
          BY <1>2, <3>2 DEF Behind
        <4>3. CASE c.next > c.base
          BY <1>1, <4>1, <4>2, <4>3
        <4>4. CASE ~(c.next > c.base)
          BY <1>1, <4>1, <4>2, <4>4
        <4>. QED BY <4>3, <4>4
      <3>. QED BY <1>2, <3>1, <3>2
    <2>6. c.next \in mails
      BY <1>1, <1>4, <1>5
    <2>7. \A m \in Behind(next) : assoc[m] # "none" \/ m \in mails
      BY <1>1, <2>5, <2>6
    <2>. HIDE DEF base, mode, end
    <2>. QED BY <1>4, <2>2, <2>3, <2>4, <2>7 DEF PageType
  <1>6. CASE ~(c.next < arrived)
    <2>1. PICK next : next = [mode |-> "hist", base |-> end, next |-> end + 1]
      OBVIOUS
    <2>2. Page(c) = [mails |-> mails, more |-> FALSE, cursor |-> next]
      <3>1. (c.next < arrived) = FALSE
        BY <1>1, <1>6
      <3>. QED BY <1>3, <2>1, <3>1 DEF Page
    <2>3. next \in Cursors /\ next.mode = "hist" /\ next.base = end /\ next.next = end + 1
      BY <1>1, <1>2, <2>1 DEF Cursors
    <2>. HIDE DEF base, mode, end
    <2>4. InRange(next)
      BY <1>1, <1>2, <2>3 DEF InRange
    <2>5. Behind(next) = 1 .. end
      BY <1>2, <2>3 DEF Behind
    <2>6. \A m \in 1 .. end : m < c.next \/ m = c.next
      BY <1>1, <1>2, <1>6
    <2>7. \A m \in 1 .. end : m < c.next => m \in Behind(c)
      BY <1>1, <1>2 DEF Behind
    <2>8. \A m \in 1 .. end : m = c.next => m \in mails
      BY <1>1, <1>2, <1>4
    <2>9. \A m \in Behind(next) : assoc[m] # "none" \/ m \in mails
      BY <1>1, <2>5, <2>6, <2>7, <2>8
    <2>. QED BY <1>4, <2>2, <2>3, <2>4, <2>9 DEF PageType
  <1>. QED
    BY <1>5, <1>6

\* What is covered stays covered, and so do the workers that do not move.
LEMMA OthersKeep ==
    ASSUME TypeOK, \A w \in Workers : RunCovered(w),
           arrived' \in {arrived, arrived + 1}, NEW S \in SUBSET Workers,
           \A m \in Mails : assoc[m] # "none" => assoc'[m] # "none",
           \A w \in Workers \ S : run'[w] = run[w]
    PROVE  /\ \A c \in Cursors : Covered(c) => Covered(c)'
           /\ \A w \in Workers \ S : RunCovered(w)'
PROOF
  <1>1. \A c \in Cursors : InRange(c) => InRange(c)'
    BY DEF TypeOK, Cursors, InRange
  <1>2. \A c \in Cursors : Behind(c)' = Behind(c)
    BY DEF Behind
  <1>3. \A c \in Cursors : InRange(c) => Behind(c) \subseteq Mails
    BY BehindArrived
  <1>4. \A c \in Cursors : Covered(c) => Covered(c)'
    BY <1>1, <1>2, <1>3 DEF Covered
  <1>5. ASSUME NEW w \in Workers \ S PROVE RunCovered(w)'
    <2>1. CASE run[w].pc \in {"credential", "rotate", "fetch"}
      <3>1. PICK c \in Cursors : c = run[w].cursor
        BY <2>1 DEF TypeOK, RunType, Idle
      <3>2. Covered(c)'
        BY <1>4, <2>1, <3>1 DEF RunCovered
      <3>. QED BY <1>5, <2>1, <3>1, <3>2 DEF RunCovered
    <2>2. CASE run[w].pc = "store"
      <3>1. run[w].page \in PageType
        BY <2>2 DEF TypeOK, RunType, Idle
      <3>. PICK c \in Cursors : c = run[w].page.cursor
        BY <3>1 DEF PageType
      <3>2. InRange(c)' /\ Behind(c)' = Behind(c) /\ Behind(c) \subseteq Mails
        BY <1>1, <1>2, <1>3, <2>2 DEF RunCovered
      <3>3. \A m \in Behind(c) : assoc'[m] # "none" \/ m \in run[w].page.mails
        BY <2>2, <3>2 DEF RunCovered
      <3>. QED BY <1>5, <2>2, <3>2, <3>3 DEF RunCovered
    <2>3. CASE run[w].pc \notin {"credential", "rotate", "fetch", "store"}
      BY <1>5, <2>3 DEF RunCovered
    <2>. QED BY <2>1, <2>2, <2>3
  <1>. QED
    BY <1>4, <1>5

\* A step that handles no mail: the invariant follows from the types, the checkpoint
\* and the worker that moves.
LEMMA NoMailHandled ==
    ASSUME SyncInv, TypeOK', arrived' \in {arrived, arrived + 1}, UNCHANGED <<assoc, enrollment>>,
           NEW S \in SUBSET Workers, \A w \in Workers \ S : run'[w] = run[w],
           sync'.cursor \in {sync.cursor, NoCursor},
           \A w \in S : \/ run'[w].pc \notin {"credential", "rotate", "fetch", "store"}
                        \/ /\ run'[w].pc \in {"credential", "rotate", "fetch"}
                           /\ \E c \in Cursors : run'[w].cursor = c /\ Covered(c)
                        \/ RunCovered(w)'
    PROVE  SyncInv'
PROOF
  <1>1. (\A c \in Cursors : Covered(c) => Covered(c)') /\ \A w \in Workers \ S : RunCovered(w)'
    BY OthersKeep DEF SyncInv
  <1>2. Covered(sync.cursor)'
    <2>1. sync.cursor \in Cursors /\ Covered(sync.cursor)
      BY DEF SyncInv, TypeOK, SyncType
    <2>. PICK c \in Cursors : c = sync'.cursor /\ Covered(c)
      BY <2>1, NothingBehind DEF SyncInv
    <2>. QED BY <1>1 DEF Covered, InRange, Behind
  <1>3. ASSUME NEW w \in S PROVE RunCovered(w)'
    <2>1. CASE run'[w].pc \notin {"credential", "rotate", "fetch", "store"}
      BY <2>1 DEF RunCovered
    <2>2. CASE run'[w].pc \in {"credential", "rotate", "fetch"}
               /\ \E c \in Cursors : run'[w].cursor = c /\ Covered(c)
      <3>. PICK c \in Cursors : run'[w].cursor = c /\ Covered(c)
        BY <2>2
      <3>1. Covered(c)'
        BY <1>1
      <3>. QED BY <2>2, <3>1 DEF RunCovered
    <2>. QED BY <1>3, <2>1, <2>2
  <1>4. MatchedStops'
    BY DEF SyncInv, MatchedStops
  <1>. QED
    BY <1>1, <1>2, <1>3, <1>4 DEF SyncInv

-----------------------------------------------------------------------------
(* The steps *)

\* What a row of mailbox_sync_states may become.
LEMMA SyncRows ==
    ASSUME TypeOK, NEW o \in Tokens, NEW due \in BOOLEAN
    PROVE  /\ InsertSyncState \in SyncType /\ InsertSyncState.cursor = sync.cursor
           /\ RearmSyncState \in SyncType /\ RearmSyncState.cursor = sync.cursor
           /\ MarkSyncUnavailable \in SyncType /\ MarkSyncUnavailable.cursor = sync.cursor
           /\ Released(o, due) \in SyncType /\ Released(o, due).cursor = sync.cursor
           /\ MarkResyncRequired(Released(o, due)) \in SyncType
           /\ MarkResyncRequired(Released(o, due)).cursor = NoCursor
           /\ [sync EXCEPT !.owner = o, !.leased = TRUE] \in SyncType
           /\ [sync EXCEPT !.owner = o, !.leased = TRUE].cursor = sync.cursor
           /\ [sync EXCEPT !.owner = o] \in SyncType /\ [sync EXCEPT !.owner = o].cursor = sync.cursor
           /\ [sync EXCEPT !.leased = FALSE] \in SyncType /\ [sync EXCEPT !.leased = FALSE].cursor = sync.cursor
           /\ [sync EXCEPT !.due = TRUE] \in SyncType /\ [sync EXCEPT !.due = TRUE].cursor = sync.cursor
PROOF
  <1>1. sync \in SyncType /\ mailbox.gen \in Nat /\ NoOwner \in Tokens
    BY DEF TypeOK, MailboxType, Tokens
  <1>2. Released(o, due) \in SyncType /\ Released(o, due).cursor = sync.cursor
    BY <1>1 DEF Released, SyncType
  <1>3. /\ MarkResyncRequired(Released(o, due)) \in SyncType
        /\ MarkResyncRequired(Released(o, due)).cursor = NoCursor
    BY <1>2, NothingBehind DEF MarkResyncRequired, SyncType
  <1>4. /\ InsertSyncState \in SyncType /\ InsertSyncState.cursor = sync.cursor
        /\ RearmSyncState \in SyncType /\ RearmSyncState.cursor = sync.cursor
        /\ MarkSyncUnavailable \in SyncType /\ MarkSyncUnavailable.cursor = sync.cursor
    BY <1>1 DEF InsertSyncState, RearmSyncState, MarkSyncUnavailable, SyncType
  <1>5. /\ [sync EXCEPT !.owner = o, !.leased = TRUE] \in SyncType
        /\ [sync EXCEPT !.owner = o, !.leased = TRUE].cursor = sync.cursor
        /\ [sync EXCEPT !.owner = o] \in SyncType /\ [sync EXCEPT !.owner = o].cursor = sync.cursor
        /\ [sync EXCEPT !.leased = FALSE] \in SyncType /\ [sync EXCEPT !.leased = FALSE].cursor = sync.cursor
        /\ [sync EXCEPT !.due = TRUE] \in SyncType /\ [sync EXCEPT !.due = TRUE].cursor = sync.cursor
    BY <1>1 DEF SyncType
  <1>. QED
    BY <1>2, <1>3, <1>4, <1>5

\* Scheduler, time, user, provider and send worker handle no mail and run no task.
LEMMA OutsideStep ==
    ASSUME SyncInv,
           \/ EnsureSyncState \/ RecoverLease \/ \E o \in Owners : ClaimDue(o)
           \/ LeaseExpires \/ BecomesDue \/ Disconnect \/ Arrive \/ HistoryExpires
           \/ \E b \in BOOLEAN : Reconnect(b)
           \/ RecordOutcome \/ SendFollowUp \/ EndFollowUp
    PROVE  SyncInv'
PROOF
  <1>. USE DEF Connection, Inbox, Answers, Campaign
  <1>0. TypeOK /\ NoOwner \in Tokens /\ TRUE \in BOOLEAN /\ \A o \in Owners : o \in Tokens
    BY DEF SyncInv, Tokens
  <1>. PICK S \in SUBSET Workers : S = {}
    OBVIOUS
  <1>1. SUFFICES TypeOK' /\ arrived' \in {arrived, arrived + 1} /\ UNCHANGED <<run, assoc, enrollment>>
                 /\ sync'.cursor = sync.cursor
    BY <1>1, NoMailHandled
  <1>2. CASE EnsureSyncState
    BY <1>0, <1>2, SyncRows DEF EnsureSyncState, TypeOK
  <1>3. CASE RecoverLease
    BY <1>0, <1>3, SyncRows DEF RecoverLease, TypeOK
  <1>4. CASE \E o \in Owners : ClaimDue(o)
    <2>. PICK o \in Owners : ClaimDue(o)
      BY <1>4
    <2>1. PICK t \in Tokens : t = o
      BY <1>0
    <2>2. sync' = [sync EXCEPT !.owner = t, !.leased = TRUE] /\ tasks' \in {tasks, tasks \union {o}}
      BY <2>1 DEF ClaimDue
    <2>3. sync' \in SyncType /\ sync'.cursor = sync.cursor
      BY <1>0, <2>2, SyncRows
    <2>4. UNCHANGED <<mailbox, run, arrived, assoc, enrollment, followUp>> /\ tasks' \subseteq Owners
      BY <1>0, <2>2 DEF ClaimDue, TypeOK
    <2>. QED BY <1>0, <2>3, <2>4 DEF TypeOK
  <1>5. CASE LeaseExpires
    BY <1>0, <1>5, SyncRows DEF LeaseExpires, TypeOK
  <1>6. CASE BecomesDue
    BY <1>0, <1>6, SyncRows DEF BecomesDue, TypeOK
  <1>7. CASE Disconnect
    <2>1. PICK n \in Nat : n = mailbox.gen + 1
      BY <1>0 DEF TypeOK, MailboxType
    <2>2. mailbox' = [mailbox EXCEPT !.connected = FALSE, !.gen = n]
      BY <1>7, <2>1 DEF Disconnect
    <2>3. mailbox' \in MailboxType
      BY <1>0, <2>2 DEF TypeOK, MailboxType
    <2>4. UNCHANGED <<sync, tasks, run, arrived, assoc, enrollment, followUp>>
      BY <1>7 DEF Disconnect
    <2>. QED BY <1>0, <2>3, <2>4 DEF TypeOK
  <1>8. CASE \E b \in BOOLEAN : Reconnect(b)
    BY <1>0, <1>8 DEF Reconnect, TypeOK, MailboxType
  <1>9. CASE Arrive
    <2>1. 1 .. (arrived + 1) = (1 .. arrived) \union {arrived + 1} /\ arrived + 1 \in Nat
      BY <1>0 DEF TypeOK
    <2>. QED BY <1>0, <1>9, <2>1 DEF Arrive, TypeOK
  <1>10. CASE HistoryExpires
    BY <1>0, <1>10 DEF HistoryExpires, TypeOK
  <1>11. CASE RecordOutcome \/ SendFollowUp \/ EndFollowUp
    BY <1>0, <1>11 DEF RecordOutcome, SendFollowUp, EndFollowUp, TypeOK
  <1>. QED
    BY <1>2, <1>3, <1>4, <1>5, <1>6, <1>7, <1>8, <1>9, <1>10, <1>11

\* A worker that ends, fails or takes a task knows no cursor; one that continues knows
\* a cursor that is covered, or a page that covers what its cursor leaves.
Continues(r) ==
    \/ r.pc \notin {"credential", "rotate", "fetch", "store"}
    \/ r.pc \in {"credential", "rotate", "fetch"} /\ \E c \in Cursors : r.cursor = c /\ Covered(c)
    \/ /\ r.pc = "store" /\ InRange(r.page.cursor)
       /\ \A m \in Behind(r.page.cursor) : assoc[m] # "none" \/ m \in r.page.mails

\* What every step of a worker does that handles no mail.
Turns(w) ==
    /\ UNCHANGED <<arrived, assoc, enrollment, followUp>>
    /\ mailbox' \in MailboxType /\ tasks' \subseteq Owners
    /\ sync' \in SyncType /\ sync'.cursor \in {sync.cursor, NoCursor}
    /\ \E r \in RunType : run' = [run EXCEPT ![w] = r] /\ Continues(r)

\* Such a step keeps the invariant.
LEMMA TurnsKeep ==
    ASSUME SyncInv, NEW w \in Workers, Turns(w)
    PROVE  SyncInv'
PROOF
  <1>0. TypeOK
    BY DEF SyncInv
  <1>. PICK S \in SUBSET Workers : S = {w}
    OBVIOUS
  <1>. PICK r \in RunType : run' = [run EXCEPT ![w] = r] /\ Continues(r)
    BY DEF Turns
  <1>1. run'[w] = r /\ (\A v \in Workers \ S : run'[v] = run[v]) /\ run' \in [Workers -> RunType]
    BY <1>0 DEF TypeOK
  <1>2. TypeOK'
    BY <1>0, <1>1 DEF Turns, TypeOK
  <1>3. r.pc = "store" => RunCovered(w)'
    BY <1>1 DEF Turns, Continues, RunCovered, InRange, Behind
  <1>4. /\ arrived' \in {arrived, arrived + 1} /\ UNCHANGED <<assoc, enrollment>>
        /\ sync'.cursor \in {sync.cursor, NoCursor}
    BY DEF Turns
  <1>5. \A v \in S : \/ run'[v].pc \notin {"credential", "rotate", "fetch", "store"}
                     \/ /\ run'[v].pc \in {"credential", "rotate", "fetch"}
                        /\ \E c \in Cursors : run'[v].cursor = c /\ Covered(c)
                     \/ RunCovered(v)'
    BY <1>1, <1>3 DEF Continues
  <1>. QED BY <1>1, <1>2, <1>4, <1>5, NoMailHandled

\* A worker that is done is idle.
LEMMA IdleContinues == Idle \in RunType /\ Continues(Idle) /\ Idle.pc = "idle"
  BY DEF RunType, Idle, Continues

\* The worker at each stage of a task holds the owner token it was given, and what
\* that stage knows.
LEMMA RunAt ==
    ASSUME TypeOK, NEW w \in Workers
    PROVE  /\ run[w].pc = "begin" =>
                 run[w] \in [pc : {"begin"}, owner : Owners, mailbox : MailboxType]
           /\ run[w].pc \in {"credential", "rotate", "fetch"} =>
                 run[w] \in [pc : {"credential", "rotate", "fetch"}, owner : Owners, gen : Nat, pages : Nat, cursor : Cursors]
           /\ run[w].pc = "store" =>
                 run[w] \in [pc : {"store"}, owner : Owners, gen : Nat, pages : Nat, page : PageType]
           /\ run[w].pc \in {"resync", "finish"} => run[w] \in [pc : {"resync", "finish"}, owner : Owners]
           /\ run[w].pc = "release" => run[w] \in [pc : {"release"}, owner : Owners, due : BOOLEAN]
           /\ run[w] # Idle => run[w].owner \in Owners
  BY DEF TypeOK, RunType, Idle

\* A worker that gives the lease back and ends.
LEMMA EndsKeep ==
    ASSUME SyncInv, NEW w \in Workers, NEW due \in BOOLEAN, run[w] # Idle,
           sync' = Released(run[w].owner, due), Step(w, Idle),
           UNCHANGED <<arrived, assoc, enrollment, followUp, mailbox, tasks>>
    PROVE  Turns(w)
PROOF
  <1>0. TypeOK
    BY DEF SyncInv
  <1>. PICK o \in Tokens : o = run[w].owner
    BY <1>0, RunAt DEF Tokens
  <1>1. sync' \in SyncType /\ sync'.cursor = sync.cursor
    BY <1>0, SyncRows
  <1>. QED BY <1>0, <1>1, IdleContinues DEF Turns, TypeOK, Step

\* Every step of a worker but those that handle mail.
LEMMA WorkerStep ==
    ASSUME SyncInv, NEW w \in Workers,
           \/ \E o \in Owners : Deliver(w, o)
           \/ Park(w) \/ Acquire(w) \/ LoadCredential(w) \/ Rotate(w) \/ Fetch(w)
           \/ Resync(w) \/ Release(w) \/ WorkerCrash(w)
    PROVE  Turns(w)
PROOF
  <1>. USE DEF Connection, Inbox, Answers, Campaign
  <1>0. TypeOK /\ RunCovered(w) /\ Covered(sync.cursor) /\ sync \in SyncType /\ mailbox \in MailboxType
        /\ tasks \subseteq Owners /\ run \in [Workers -> RunType]
    BY DEF SyncInv, TypeOK
  <1>1. (run[w] = Idle => run[w].pc = "idle") /\ FALSE \in BOOLEAN /\ TRUE \in BOOLEAN
    BY DEF Idle
  <1>2. CASE \E o \in Owners : Deliver(w, o)
    <2>. PICK o \in Owners : Deliver(w, o)
      BY <1>2
    <2>. PICK r : r = [pc |-> "begin", owner |-> o, mailbox |-> mailbox]
      OBVIOUS
    <2>1. r \in [pc : {"begin"}, owner : Owners, mailbox : MailboxType]
      BY <1>0
    <2>2. r \in RunType /\ Continues(r)
      BY <2>1 DEF RunType, Continues
    <2>. QED BY <1>0, <2>2 DEF Deliver, Turns, Step
  <1>3. CASE Park(w)
    <2>1. sync' \in SyncType /\ sync'.cursor = sync.cursor
      <3>. PICK t \in Tokens : t = NoOwner
        BY DEF Tokens
      <3>1. MarkSyncUnavailable \in SyncType /\ MarkSyncUnavailable.cursor = sync.cursor
        BY <1>0, <1>1, SyncRows
      <3>. QED BY <1>3, <3>1 DEF Park
    <2>. QED BY <1>0, <1>3, <2>1, IdleContinues DEF Park, Turns, Step
  <1>4. CASE Acquire(w)
    <2>1. run[w] \in [pc : {"begin"}, owner : Owners, mailbox : MailboxType]
      BY <1>0, <1>4, RunAt DEF Acquire
    <2>2. CASE ~Available(run[w].owner)
      BY <1>0, <1>4, <2>2, IdleContinues DEF Acquire, Turns, Step
    <2>3. CASE Available(run[w].owner)
      <3>. PICK o \in Tokens : o = run[w].owner
        BY <2>1 DEF Tokens
      <3>. PICK c \in Cursors : c = (IF sync.status = "RESYNC_REQUIRED" THEN NoCursor ELSE sync.cursor) /\ Covered(c)
        BY <1>0, NothingBehind DEF SyncType
      <3>. PICK n \in Nat : n = run[w].mailbox.gen
        BY <2>1 DEF MailboxType
      <3>. PICK r : r = [pc |-> "credential", owner |-> o, gen |-> n, pages |-> 0, cursor |-> c]
        OBVIOUS
      <3>1. r \in [pc : {"credential", "rotate", "fetch"}, owner : Owners, gen : Nat, pages : Nat, cursor : Cursors]
            /\ r.pc = "credential" /\ r.cursor = c
        BY <2>1
      <3>2. r \in RunType /\ Continues(r)
        BY <3>1 DEF RunType, Continues
      <3>3. sync' = [sync EXCEPT !.owner = o, !.leased = TRUE] /\ run' = [run EXCEPT ![w] = r]
        BY <1>4, <2>3 DEF Acquire, Step
      <3>4. sync' \in SyncType /\ sync'.cursor = sync.cursor
        BY <1>0, <1>1, <3>3, SyncRows
      <3>5. UNCHANGED <<arrived, assoc, enrollment, followUp, mailbox, tasks>>
        BY <1>4 DEF Acquire
      <3>. QED BY <1>0, <3>2, <3>3, <3>4, <3>5 DEF Turns
    <2>. QED BY <2>2, <2>3
  <1>5. CASE LoadCredential(w)
    <2>1. /\ run[w] \in [pc : {"credential", "rotate", "fetch"}, owner : Owners, gen : Nat, pages : Nat, cursor : Cursors]
          /\ run[w].pc = "credential" /\ UNCHANGED <<arrived, assoc, enrollment, followUp, mailbox, tasks>>
      BY <1>0, <1>5, RunAt DEF LoadCredential
    <2>2. CASE Fails(w)
      BY <1>1, <2>1, <2>2, EndsKeep DEF Fails
    <2>3. CASE \E pc \in {"fetch", "rotate"} : Step(w, [run[w] EXCEPT !.pc = pc]) /\ UNCHANGED sync
      <3>. PICK pc \in {"fetch", "rotate"} : Step(w, [run[w] EXCEPT !.pc = pc]) /\ UNCHANGED sync
        BY <2>3
      <3>. PICK r : r = [run[w] EXCEPT !.pc = pc]
        OBVIOUS
      <3>1. r \in [pc : {"credential", "rotate", "fetch"}, owner : Owners, gen : Nat, pages : Nat, cursor : Cursors]
            /\ r.pc = pc /\ r.cursor = run[w].cursor
        BY <2>1
      <3>2. Covered(run[w].cursor) /\ run[w].cursor \in Cursors
        BY <1>0, <2>1 DEF RunCovered
      <3>3. r \in RunType /\ Continues(r)
        BY <3>1, <3>2 DEF RunType, Continues
      <3>. QED BY <1>0, <2>1, <3>3 DEF Turns, Step
    <2>. QED BY <1>5, <2>2, <2>3 DEF LoadCredential
  <1>6. CASE Rotate(w)
    <2>1. /\ run[w] \in [pc : {"credential", "rotate", "fetch"}, owner : Owners, gen : Nat, pages : Nat, cursor : Cursors]
          /\ run[w].pc = "rotate" /\ UNCHANGED <<arrived, assoc, enrollment, followUp, tasks>>
      BY <1>0, <1>6, RunAt DEF Rotate
    <2>2. CASE Fails(w) /\ UNCHANGED Connection
      BY <1>1, <2>1, <2>2, EndsKeep DEF Fails
    <2>3. CASE ~(Fails(w) /\ UNCHANGED Connection)
      <3>. PICK g \in Nat : g = run[w].gen + 1
        BY <2>1
      <3>1. /\ mailbox' = [mailbox EXCEPT !.connected = TRUE, !.gen = g] /\ sync' = [sync EXCEPT !.gen = g]
            /\ Step(w, [run[w] EXCEPT !.pc = "fetch", !.gen = g])
        BY <1>6, <2>3 DEF Rotate
      <3>. PICK r : r = [run[w] EXCEPT !.pc = "fetch", !.gen = g]
        OBVIOUS
      <3>2. r \in [pc : {"credential", "rotate", "fetch"}, owner : Owners, gen : Nat, pages : Nat, cursor : Cursors]
            /\ r.pc = "fetch" /\ r.cursor = run[w].cursor
        BY <2>1
      <3>3. Covered(run[w].cursor) /\ run[w].cursor \in Cursors
        BY <1>0, <2>1 DEF RunCovered
      <3>4. r \in RunType /\ Continues(r)
        BY <3>2, <3>3 DEF RunType, Continues
      <3>5. mailbox' \in MailboxType
        BY <1>0, <3>1 DEF MailboxType
      <3>6. sync' \in SyncType /\ sync'.cursor = sync.cursor
        BY <1>0, <3>1 DEF SyncType
      <3>. QED BY <1>0, <2>1, <3>1, <3>4, <3>5, <3>6 DEF Turns, Step
    <2>. QED BY <2>2, <2>3
  <1>7. CASE Fetch(w)
    <2>1. /\ run[w] \in [pc : {"credential", "rotate", "fetch"}, owner : Owners, gen : Nat, pages : Nat, cursor : Cursors]
          /\ run[w].pc = "fetch" /\ UNCHANGED <<arrived, assoc, enrollment, followUp, mailbox, tasks>>
      BY <1>0, <1>7, RunAt DEF Fetch
    <2>2. CASE Fails(w)
      BY <1>1, <2>1, <2>2, EndsKeep DEF Fails
    <2>3. CASE Step(w, [pc |-> "resync", owner |-> run[w].owner]) /\ UNCHANGED sync
      <3>. PICK r : r = [pc |-> "resync", owner |-> run[w].owner]
        OBVIOUS
      <3>1. r \in [pc : {"resync", "finish"}, owner : Owners] /\ r.pc = "resync"
        BY <2>1
      <3>2. r \in RunType /\ Continues(r)
        BY <3>1 DEF RunType, Continues
      <3>. QED BY <1>0, <2>1, <2>3, <3>2 DEF Turns, Step
    <2>4. CASE /\ Step(w, [pc |-> "store", owner |-> run[w].owner, pages |-> run[w].pages,
                           page |-> Page(run[w].cursor), gen |-> run[w].gen])
               /\ UNCHANGED sync
      <3>. PICK c \in Cursors : c = run[w].cursor /\ Covered(c)
        BY <1>0, <2>1 DEF RunCovered
      <3>. PICK page \in PageType :
              /\ page = Page(c) /\ InRange(page.cursor)
              /\ \A m \in Behind(page.cursor) : assoc[m] # "none" \/ m \in page.mails
        BY <1>0, PageCovers
      <3>. PICK r : r = [pc |-> "store", owner |-> run[w].owner, pages |-> run[w].pages, page |-> page, gen |-> run[w].gen]
        OBVIOUS
      <3>1. r \in [pc : {"store"}, owner : Owners, gen : Nat, pages : Nat, page : PageType]
            /\ r.pc = "store" /\ r.page = page
        BY <2>1
      <3>2. r \in RunType /\ Continues(r)
        BY <3>1 DEF RunType, Continues
      <3>. QED BY <1>0, <2>1, <2>4, <3>2 DEF Turns, Step
    <2>. QED BY <1>7, <2>2, <2>3, <2>4 DEF Fetch
  <1>8. CASE Resync(w)
    <2>1. run[w] # Idle /\ UNCHANGED <<arrived, assoc, enrollment, followUp, mailbox, tasks>>
      BY <1>1, <1>8 DEF Resync
    <2>. PICK o \in Tokens : o = run[w].owner
      BY <1>0, <2>1, RunAt DEF Tokens
    <2>. PICK due \in BOOLEAN : due = TRUE
      OBVIOUS
    <2>2. sync' = MarkResyncRequired(Released(o, due))
      BY <1>8 DEF Resync
    <2>3. sync' \in SyncType /\ sync'.cursor = NoCursor
      BY <1>0, <2>2, SyncRows
    <2>. QED BY <1>0, <1>8, <2>1, <2>3, IdleContinues DEF Resync, Turns, Step
  <1>9. CASE Release(w)
    <2>1. run[w] \in [pc : {"release"}, owner : Owners, due : BOOLEAN] /\ run[w] # Idle
      BY <1>0, <1>1, <1>9, RunAt DEF Release
    <2>. PICK due \in BOOLEAN : due = run[w].due
      BY <2>1
    <2>. QED BY <1>9, <2>1, EndsKeep DEF Release
  <1>10. CASE WorkerCrash(w)
    BY <1>0, <1>10, IdleContinues, RunAt DEF WorkerCrash, Turns, Step
  <1>. QED
    BY <1>2, <1>3, <1>4, <1>5, <1>6, <1>7, <1>8, <1>9, <1>10

-----------------------------------------------------------------------------
(* Mail is handled *)

\* Stopping the campaign for a set of mails: the enrollment and the follow-up keep
\* their types, a stopped enrollment stays stopped, and a reply among the mails stops it.
LEMMA Stopping ==
    ASSUME TypeOK, NEW ms, StopCampaign(ms)
    PROVE  /\ enrollment' \in {"ACTIVE", "STOPPED"}
           /\ followUp' \in {"SCHEDULED", "RETRY_SCHEDULED", "SENDING", "SENT", "CANCELLED"}
           /\ (enrollment # "ACTIVE" => enrollment' # "ACTIVE")
           /\ (\A m \in ms : Kind[m] = "reply" => enrollment' # "ACTIVE")
           /\ followUp' \in {followUp, "CANCELLED"}
PROOF
  <1>1. CASE \E m \in ms : Qualifies(m)
    BY <1>1 DEF StopCampaign, TypeOK
  <1>2. CASE ~\E m \in ms : Qualifies(m)
    BY <1>2 DEF StopCampaign, TypeOK, Qualifies
  <1>. QED
    BY <1>1, <1>2

\* Handling some mails, with the stop of what they answer: what was handled stays
\* handled, and a matched reply has stopped the enrollment.
LEMMA Handling ==
    ASSUME TypeOK, MatchedStops, NEW ms, StopCampaign(ms),
           assoc' \in [Mails -> {"none", "dropped", "UNRESOLVED", "MATCHED"}],
           \A m \in Mails : assoc'[m] = "MATCHED" => assoc[m] = "MATCHED" \/ m \in ms
    PROVE  MatchedStops'
PROOF
  <1>. SUFFICES ASSUME NEW m \in Mails, Kind[m] = "reply", assoc'[m] = "MATCHED"
                PROVE  enrollment' # "ACTIVE"
    BY DEF MatchedStops
  <1>1. CASE assoc[m] = "MATCHED"
    BY <1>1, Stopping DEF MatchedStops
  <1>2. CASE m \in ms
    BY <1>2, Stopping
  <1>. QED
    BY <1>1, <1>2

\* A page is stored: its mails are handled, so the checkpoint that moves to its cursor
\* is covered, whoever moves it and wherever it was.
LEMMA StorePageKeeps ==
    ASSUME SyncInv, NEW w \in Workers, StorePage(w)
    PROVE  SyncInv'
PROOF
  <1>0. TypeOK /\ MatchedStops /\ RunCovered(w) /\ \A v \in Workers : RunCovered(v)
    BY DEF SyncInv
  <1>1. /\ run[w] \in [pc : {"store"}, owner : Owners, gen : Nat, pages : Nat, page : PageType]
        /\ UNCHANGED <<mailbox, tasks, arrived>>
    BY <1>0, RunAt DEF StorePage, Connection, Inbox
  <1>. PICK page \in PageType : page = run[w].page
    BY <1>1
  <1>2. page.mails \subseteq Mails /\ page.cursor \in Cursors /\ page.more \in BOOLEAN
    BY DEF PageType
  <1>. PICK new : new = NewMails(page.mails)
    OBVIOUS
  <1>3. /\ assoc' = [m \in Mails |-> IF m \in new THEN Association(m) ELSE assoc[m]]
        /\ StopCampaign({m \in new : Matches(m)})
        /\ sync' = AdvanceCheckpoint(page)
    BY DEF StorePage
  <1>4. \A m \in Mails : Association(m) \in {"dropped", "UNRESOLVED", "MATCHED"}
                         /\ (Association(m) = "MATCHED" => Matches(m))
    BY DEF Association
  <1>5. assoc' \in [Mails -> {"none", "dropped", "UNRESOLVED", "MATCHED"}]
    BY <1>0, <1>3, <1>4 DEF TypeOK
  <1>6. \A m \in Mails : /\ assoc[m] # "none" => assoc'[m] # "none"
                         /\ m \in page.mails => assoc'[m] # "none"
                         /\ assoc'[m] = "MATCHED" => assoc[m] = "MATCHED" \/ m \in {n \in new : Matches(n)}
    BY <1>3, <1>4 DEF NewMails
  <1>7. MatchedStops'
    <2>. PICK ms : ms = {n \in new : Matches(n)}
      OBVIOUS
    <2>1. StopCampaign(ms) /\ \A m \in Mails : assoc'[m] = "MATCHED" => assoc[m] = "MATCHED" \/ m \in ms
      BY <1>3, <1>6
    <2>. QED BY <1>0, <1>5, <2>1, Handling
  <1>8. /\ enrollment' \in {"ACTIVE", "STOPPED"}
        /\ followUp' \in {"SCHEDULED", "RETRY_SCHEDULED", "SENDING", "SENT", "CANCELLED"}
    <2>. PICK ms : ms = {n \in new : Matches(n)}
      OBVIOUS
    <2>. QED BY <1>0, <1>3, Stopping
  <1>9. sync' \in SyncType /\ sync'.cursor = page.cursor
    <2>1. sync \in SyncType
      BY <1>0 DEF TypeOK
    <2>. QED BY <1>2, <1>3, <2>1 DEF AdvanceCheckpoint, SyncType
  <1>10. \A c \in Cursors : c = page.cursor => Covered(c)'
    <2>. SUFFICES ASSUME NEW c \in Cursors, c = page.cursor PROVE Covered(c)'
      OBVIOUS
    <2>1. InRange(c) /\ \A m \in Behind(c) : assoc[m] # "none" \/ m \in page.mails
      BY <1>0, <1>1 DEF RunCovered
    <2>2. Behind(c) \subseteq Mails
      BY <1>0, <2>1, BehindArrived
    <2>. QED BY <1>1, <1>6, <2>1, <2>2 DEF Covered, InRange, Behind
  <1>11. \E r \in RunType : /\ run' = [run EXCEPT ![w] = r]
                            /\ r.pc = "store" => FALSE
                            /\ r.pc \in {"credential", "rotate", "fetch"} => r.cursor = page.cursor
    <2>1. CASE ~page.more
      <3>. PICK r : r = [pc |-> "finish", owner |-> run[w].owner]
        OBVIOUS
      <3>1. r \in [pc : {"resync", "finish"}, owner : Owners] /\ r.pc = "finish"
        BY <1>1
      <3>2. run' = [run EXCEPT ![w] = r] /\ r \in RunType
        BY <2>1, <3>1 DEF StorePage, Step, RunType
      <3>. QED BY <3>1, <3>2
    <2>2. CASE page.more /\ run[w].pages + 1 < MaxPages
      <3>. PICK n \in Nat : n = run[w].pages + 1
        BY <1>1
      <3>. PICK r : r = [pc |-> "fetch", owner |-> run[w].owner, gen |-> run[w].gen, pages |-> n, cursor |-> page.cursor]
        OBVIOUS
      <3>1. r \in [pc : {"credential", "rotate", "fetch"}, owner : Owners, gen : Nat, pages : Nat, cursor : Cursors]
            /\ r.pc = "fetch" /\ r.cursor = page.cursor
        BY <1>1, <1>2
      <3>2. run' = [run EXCEPT ![w] = r] /\ r \in RunType
        BY <2>2, <3>1 DEF StorePage, Step, RunType
      <3>. QED BY <3>1, <3>2
    <2>3. CASE page.more /\ ~(run[w].pages + 1 < MaxPages)
      <3>. PICK r : r = [pc |-> "release", owner |-> run[w].owner, due |-> TRUE]
        OBVIOUS
      <3>1. r \in [pc : {"release"}, owner : Owners, due : BOOLEAN] /\ r.pc = "release"
        BY <1>1
      <3>2. run' = [run EXCEPT ![w] = r] /\ r \in RunType
        BY <2>3, <3>1 DEF StorePage, Step, RunType
      <3>. QED BY <3>1, <3>2
    <2>. QED BY <2>1, <2>2, <2>3
  <1>12. /\ run' \in [Workers -> RunType] /\ RunCovered(w)'
         /\ \A v \in Workers \ {w} : run'[v] = run[v]
    <2>. PICK r \in RunType : /\ run' = [run EXCEPT ![w] = r]
                              /\ r.pc = "store" => FALSE
                              /\ r.pc \in {"credential", "rotate", "fetch"} => r.cursor = page.cursor
      BY <1>11
    <2>1. run'[w] = r /\ run' \in [Workers -> RunType] /\ \A v \in Workers \ {w} : run'[v] = run[v]
      BY <1>0 DEF TypeOK
    <2>. PICK c \in Cursors : c = page.cursor
      BY <1>2
    <2>2. Covered(c)'
      BY <1>10
    <2>. QED BY <2>1, <2>2 DEF RunCovered
  <1>13. TypeOK'
    BY <1>0, <1>1, <1>5, <1>8, <1>9, <1>12 DEF TypeOK
  <1>14. Covered(sync.cursor)'
    <2>. PICK c \in Cursors : c = page.cursor
      BY <1>2
    <2>1. Covered(c)' /\ c = sync'.cursor
      BY <1>9, <1>10
    <2>. QED BY <2>1 DEF Covered, InRange, Behind
  <1>15. \A v \in Workers : RunCovered(v)'
    <2>. PICK S \in SUBSET Workers : S = {w}
      OBVIOUS
    <2>1. /\ arrived' \in {arrived, arrived + 1} /\ \A m \in Mails : assoc[m] # "none" => assoc'[m] # "none"
          /\ \A v \in Workers \ S : run'[v] = run[v]
      BY <1>1, <1>6, <1>12
    <2>2. \A v \in Workers \ S : RunCovered(v)'
      BY <1>0, <2>1, OthersKeep
    <2>. QED BY <1>12, <2>2
  <1>. QED
    BY <1>7, <1>13, <1>14, <1>15 DEF SyncInv

\* The sweep at the end of a traversal matches mails that were stored unresolved, and
\* stops what the replies among them answer.
LEMMA FinishKeeps ==
    ASSUME SyncInv, NEW w \in Workers, Finish(w)
    PROVE  SyncInv'
PROOF
  <1>0. TypeOK /\ MatchedStops /\ Covered(sync.cursor) /\ \A v \in Workers : RunCovered(v)
    BY DEF SyncInv
  <1>1. /\ run[w] \in [pc : {"resync", "finish"}, owner : Owners]
        /\ UNCHANGED <<mailbox, sync, tasks, arrived>>
    BY <1>0, RunAt DEF Finish, Connection, Inbox
  <1>. PICK ms : ms = Swept
    OBVIOUS
  <1>2. assoc' = [m \in Mails |-> IF m \in ms THEN "MATCHED" ELSE assoc[m]] /\ StopCampaign(ms)
    BY DEF Finish
  <1>3. /\ assoc' \in [Mails -> {"none", "dropped", "UNRESOLVED", "MATCHED"}]
        /\ \A m \in Mails : /\ assoc[m] # "none" => assoc'[m] # "none"
                            /\ assoc'[m] = "MATCHED" => assoc[m] = "MATCHED" \/ m \in ms
    BY <1>0, <1>2 DEF TypeOK
  <1>4. MatchedStops'
    BY <1>0, <1>2, <1>3, Handling
  <1>5. /\ enrollment' \in {"ACTIVE", "STOPPED"}
        /\ followUp' \in {"SCHEDULED", "RETRY_SCHEDULED", "SENDING", "SENT", "CANCELLED"}
    BY <1>0, <1>2, Stopping
  <1>. PICK r : r = [pc |-> "release", owner |-> run[w].owner, due |-> FALSE]
    OBVIOUS
  <1>6. r \in [pc : {"release"}, owner : Owners, due : BOOLEAN] /\ r.pc = "release"
    BY <1>1
  <1>7. r \in RunType /\ run' = [run EXCEPT ![w] = r]
    BY <1>6 DEF Finish, Step, RunType
  <1>8. run'[w] = r /\ run' \in [Workers -> RunType] /\ \A v \in Workers \ {w} : run'[v] = run[v]
    BY <1>0, <1>7 DEF TypeOK
  <1>9. TypeOK'
    BY <1>0, <1>1, <1>3, <1>5, <1>8 DEF TypeOK
  <1>. PICK S \in SUBSET Workers : S = {w}
    OBVIOUS
  <1>10. (\A c \in Cursors : Covered(c) => Covered(c)') /\ \A v \in Workers \ S : RunCovered(v)'
    BY <1>0, <1>1, <1>3, <1>8, OthersKeep
  <1>11. RunCovered(w)'
    BY <1>6, <1>8 DEF RunCovered
  <1>12. Covered(sync.cursor)'
    <2>. PICK c \in Cursors : c = sync.cursor
      BY <1>0 DEF TypeOK, SyncType
    <2>1. Covered(c)' /\ c = sync'.cursor
      BY <1>0, <1>1, <1>10
    <2>. QED BY <2>1 DEF Covered, InRange, Behind
  <1>. QED
    BY <1>4, <1>9, <1>10, <1>11, <1>12 DEF SyncInv

-----------------------------------------------------------------------------
(* The theorems *)

\* A mailbox nobody has read yet.
LEMMA SyncStarts ==
    ASSUME ReplySyncAssumption, Init
    PROVE  SyncInv
PROOF
  <1>1. 1 .. arrived \subseteq Mails /\ arrived \in Nat
    BY DEF Init
  <1>2. sync \in SyncType /\ mailbox \in MailboxType
    <2>1. NoCursor \in Cursors
      BY DEF NoCursor, Cursors
    <2>. QED BY <2>1 DEF Init, SyncType, MailboxType, Tokens
  <1>3. TypeOK
    BY <1>1, <1>2 DEF Init, TypeOK, RunType
  <1>4. Covered(sync.cursor)
    BY <1>3, NothingBehind DEF Init
  <1>5. \A w \in Workers : RunCovered(w)
    BY DEF Init, RunCovered, Idle
  <1>. QED
    BY <1>3, <1>4, <1>5 DEF SyncInv, MatchedStops, Init

\* Every step keeps the invariant.
LEMMA SyncKept ==
    ASSUME SyncInv, [Next]_vars
    PROVE  SyncInv'
PROOF
  <1>1. CASE \E w \in Workers : Sync(w) \/ WorkerCrash(w)
    <2>. PICK w \in Workers : Sync(w) \/ WorkerCrash(w)
      BY <1>1
    <2>1. CASE StorePage(w)
      BY <2>1, StorePageKeeps
    <2>2. CASE Finish(w)
      BY <2>2, FinishKeeps
    <2>3. CASE ~StorePage(w) /\ ~Finish(w)
      <3>1. Turns(w)
        BY <2>3, WorkerStep DEF Sync
      <3>. QED BY <3>1, TurnsKeep
    <2>. QED BY <2>1, <2>2, <2>3
  <1>2. CASE UNCHANGED vars
    BY <1>2 DEF vars, SyncInv, TypeOK, Covered, InRange, Behind, RunCovered, MatchedStops
  <1>3. CASE Next /\ ~\E w \in Workers : Sync(w) \/ WorkerCrash(w)
    BY <1>3, OutsideStep DEF Next
  <1>. QED
    BY <1>1, <1>2, <1>3

\* The invariant is inductive.
THEOREM SyncInvariance == Spec => []SyncInv
PROOF
  <1>1. Init => SyncInv
    BY SyncStarts, ReplySyncAssumption
  <1>2. SyncInv /\ [Next]_vars => SyncInv'
    BY SyncKept
  <1>. QED
    BY <1>1, <1>2, PTL DEF Spec

\* No mail is skipped: everything the checkpoint has passed, and everything a worker
\* is about to continue past, was handled in a committed page, although the lease can
\* run out under a worker and nobody compares the owner when the checkpoint moves.
THEOREM NoMailIsSkipped == Spec => []CheckpointCoversRead
PROOF
  <1>1. SyncInv => CheckpointCoversRead
    BY DEF SyncInv, Covered, RunCovered, CheckpointCoversRead
  <1>. QED
    BY <1>1, SyncInvariance, PTL

\* Once a reply was matched, no follow-up of its enrollment goes out.
THEOREM RepliesStopFollowUps == Spec => NoFollowUpAfterReply
PROOF
  <1>1. SyncInv /\ [Next]_vars =>
            [\A m \in Mails :
               (Kind[m] = "reply" /\ assoc[m] = "MATCHED" /\ followUp # "SENDING") => followUp' # "SENDING"]_vars
    <2>. SUFFICES ASSUME SyncInv, [Next]_vars, NEW m \in Mails, Kind[m] = "reply", assoc[m] = "MATCHED",
                         followUp # "SENDING"
                  PROVE  followUp' # "SENDING"
      OBVIOUS
    <2>1. enrollment # "ACTIVE" /\ TypeOK
      BY DEF SyncInv, MatchedStops
    <2>. USE DEF Connection, Inbox, Answers, Campaign
    <2>2. CASE \E w \in Workers : StorePage(w) \/ Finish(w)
      <3>1. \E ms : StopCampaign(ms)
        BY <2>2 DEF StorePage, Finish
      <3>. QED BY <2>1, <3>1, Stopping
    <2>3. CASE \E w \in Workers : (Sync(w) \/ WorkerCrash(w)) /\ ~StorePage(w) /\ ~Finish(w)
      <3>. PICK w \in Workers : (Sync(w) \/ WorkerCrash(w)) /\ ~StorePage(w) /\ ~Finish(w)
        BY <2>3
      <3>1. Turns(w)
        BY WorkerStep DEF Sync
      <3>. QED BY <3>1 DEF Turns
    <2>4. CASE EnsureSyncState \/ RecoverLease \/ \E o \in Owners : ClaimDue(o)
      BY <2>4 DEF EnsureSyncState, RecoverLease, ClaimDue
    <2>5. CASE LeaseExpires \/ BecomesDue \/ Disconnect \/ Arrive \/ HistoryExpires \/ \E b \in BOOLEAN : Reconnect(b)
      BY <2>5 DEF LeaseExpires, BecomesDue, Disconnect, Arrive, HistoryExpires, Reconnect
    <2>6. CASE RecordOutcome \/ EndFollowUp
      BY <2>6 DEF RecordOutcome, EndFollowUp
    <2>7. CASE SendFollowUp
      BY <2>1, <2>7 DEF SendFollowUp
    <2>8. CASE UNCHANGED vars
      BY <2>8 DEF vars
    <2>. QED BY <2>2, <2>3, <2>4, <2>5, <2>6, <2>7, <2>8 DEF Next
  <1>. QED
    BY <1>1, SyncInvariance, PTL DEF Spec, NoFollowUpAfterReply

=============================================================================
