---------------------------- MODULE Planning_proofs ----------------------------
(***************************************************************************)
(* Theorems about Planning, for any workers, revisions, leads, emails,     *)
(* chunks and bounds.                                                      *)
(***************************************************************************)
EXTENDS Planning, FiniteSetTheorems, WellFoundedInduction, TLAPS

-----------------------------------------------------------------------------
(* Types *)

TaskType == [job : Jobs, id : Ids, abandon : {FALSE}] \union [job : Audiences, id : Ids, abandon : {TRUE}]
JobType  == [state : {"NONE", "PENDING", "PROCESSING", "READY", "FAILED"}, owner : {0} \union Ids,
             live : BOOLEAN, cursor : Nat]

WorkType ==
    {Idle}
    \union [pc : {"claimed"}, task : TaskType, cursor : Nat]
    \union [pc : {"read"}, task : TaskType, cursor : Nat, rows : SUBSET Leads, upto : Nat, full : BOOLEAN]
    \union [pc : {"next", "render", "failing"}, task : TaskType]

EnrollmentType == [state : {"NONE", "PASSED", "ACTIVE", "STOPPED", "COMPLETED", "FAILED"}, step : {0} \union Steps]
MessageStates  == {"NONE", "PLANNED", "SCHEDULED", "SENDING", "SENT", "FAILED", "SKIPPED"}

TypeOK ==
    /\ status \in {"DRAFT", "SCHEDULED", "RUNNING", "PAUSED", "ARCHIVED"}
    /\ planned \in BOOLEAN
    /\ draft \in Audiences \union {None} /\ active \in Audiences \union {None}
    /\ audience \in [Audiences -> {"NONE", "CAPTURING", "READY", "FAILED", "ABANDONED"}]
    /\ member \in [Audiences -> [Leads -> {"NONE", "ACCEPTED", "EXCLUDED"}]]
    /\ job \in [Jobs -> JobType]
    /\ tasks \subseteq TaskType
    /\ work \in [Workers -> WorkType]
    /\ enrollment \in [Leads -> EnrollmentType]
    /\ message \in [Leads -> [Steps -> MessageStates]]
    /\ sweep \subseteq Leads

-----------------------------------------------------------------------------
(* The inductive invariant *)

\* A task that plans has the whole work of its phase to do.
Reading(w, p) == work[w].pc = "read" /\ work[w].task.job = p /\ ~work[w].task.abandon

\* A campaign that was never activated has no revision and no planning under way;
\* the revision of one that was is READY, and stays what it is.
ActivationInv ==
    /\ status = "DRAFT" => active = None
    /\ active = None =>
          /\ \A l \in Leads : enrollment[l].state = "NONE"
          /\ ~planned
          /\ \A t \in tasks : t.job \notin Phases
          /\ \A w \in Workers : work[w] # Idle => work[w].pc # "render" /\ work[w].task.job \notin Phases
    /\ active # None => audience[active] = "READY"

\* An enrollment and its emails begin together.
BeginInv ==
    \A l \in Leads :
        /\ enrollment[l].state \in {"NONE", "PASSED"} => \A s \in Steps : message[l][s] = "NONE"
        /\ enrollment[l].state \notin {"NONE", "PASSED"} => message[l][1] # "NONE"
        /\ enrollment[l].state = "ACTIVE" => enrollment[l].step \in Steps

\* What a progression transaction holds stays progressable; what a rendering task
\* holds stays PLANNED, and no other has it.
HoldInv ==
    /\ \A l \in sweep : Progressable(l)
    /\ \A w \in Workers : Reading(w, "RENDER") => \A l \in work[w].rows : message[l][1] = "PLANNED"
    /\ \A v, w \in Workers : Reading(v, "RENDER") /\ Reading(w, "RENDER") /\ v # w =>
          work[v].rows \cap work[w].rows = {}

\* Everyone accepted up to ordinal n was enrolled or passed over.
EnrolledUpTo(n) == \A l \in Leads : l <= n /\ l \in Accepted(active) => enrollment[l].state # "NONE"

\* The cursors of the enrollment, of the job and of every task that works on it,
\* have nobody missed behind them; a chunk that is not full is the last.
CursorInv ==
    active # None =>
        /\ planned => \A l \in Accepted(active) : enrollment[l].state # "NONE"
        /\ EnrolledUpTo(job["ENROLL"].cursor)
        /\ \A w \in Workers :
              /\ work[w].pc \in {"claimed", "read"} /\ work[w].task.job = "ENROLL" =>
                    EnrolledUpTo(work[w].cursor)
              /\ Reading(w, "ENROLL") =>
                    /\ work[w].rows \subseteq Accepted(active)
                    /\ \A l \in work[w].rows : l <= work[w].upto
                    /\ ~work[w].full => \A l \in Accepted(active) : l <= work[w].upto

PlanningInv ==
    /\ TypeOK /\ JobMatchesAudience /\ ActivationInv /\ BeginInv /\ OneStepAtATime
    /\ HoldInv /\ NobodyMissed /\ CursorInv

-----------------------------------------------------------------------------
(* Chunks *)

\* A set of natural numbers that is not empty has a least member.
LEMMA LeastMember ==
    ASSUME NEW T \in SUBSET Nat, T # {}
    PROVE  \E x \in T : \A y \in T : x <= y
PROOF
  <1>1. \E x \in T : \A y \in T : ~(<<y, x>> \in OpToRel(<, Nat))
    BY NatLessThanWellFounded, WFMin, Zenon
  <1>2. \A x, y \in Nat : ~(<<y, x>> \in OpToRel(<, Nat)) => x <= y
    BY DEF OpToRel
  <1>. QED
    BY <1>1, <1>2

\* Min and Max of a set of numbers up to n are members of it, and bound it.
LEMMA MinMember ==
    ASSUME NEW T \in SUBSET Nat, T # {}
    PROVE  Min(T) \in T /\ \A y \in T : Min(T) <= y
  BY LeastMember DEF Min

LEMMA MaxMember ==
    ASSUME NEW n \in Nat, NEW T \in SUBSET (1 .. n), T # {}
    PROVE  Max(T) \in T /\ \A y \in T : Max(T) >= y
PROOF
  <1>. DEFINE U == {k \in Nat : n - k \in T}
  <1>1. PICK t \in T : TRUE
    OBVIOUS
  <1>2. n - t \in U
    <2>1. t \in 1 .. n
      BY <1>1
    <2>2. n - t \in Nat /\ n - (n - t) = t
      BY <2>1
    <2>. QED BY <1>1, <2>2
  <1>3. PICK u \in U : \A k \in U : u <= k
    BY <1>2, LeastMember
  <1>4. ASSUME NEW y \in T PROVE n - u >= y
    <2>1. y \in 1 .. n
      BY <1>4
    <2>2. n - y \in Nat /\ n - (n - y) = y
      BY <2>1
    <2>3. n - y \in U
      BY <1>4, <2>2
    <2>4. u <= n - y
      BY <1>3, <2>3
    <2>. QED BY <1>3, <2>1, <2>4
  <1>5. n - u \in T
    BY <1>3
  <1>6. \E x \in T : \A y \in T : x >= y
    BY <1>4, <1>5
  <1>. QED
    BY <1>6 DEF Max

\* The leads are finitely many.
LEMMA LeadsFinite ==
    ASSUME NEW S \in SUBSET Leads
    PROVE  IsFiniteSet(S) /\ Cardinality(S) \in Nat
PROOF
  <1>1. IsFiniteSet(Leads)
    BY FS_Interval, PlanningAssumption DEF Leads
  <1>. QED
    BY <1>1, FS_Subset, FS_CardinalityType

\* A chunk that is not full is all there is.
LEMMA ShortBatch ==
    ASSUME NEW S \in SUBSET Leads, Cardinality(Batch(S)) # BatchSize
    PROVE  Batch(S) = S
PROOF
  <1>. DEFINE UpTo(l) == {k \in S : k <= l}
  <1>0. /\ BatchSize \in Nat \ {0} /\ NumLeads \in Nat
        /\ S \in SUBSET Nat /\ \A k \in S : k \in Nat
        /\ Batch(S) \in SUBSET S /\ Batch(S) \in SUBSET Leads
    <2>1. BatchSize \in Nat \ {0} /\ NumLeads \in Nat
      BY PlanningAssumption
    <2>2. \A k \in S : k \in Nat
      BY DEF Leads
    <2>3. Batch(S) \in SUBSET S
      BY DEF Batch
    <2>. QED BY <2>1, <2>2, <2>3
  <1>. SUFFICES ASSUME Batch(S) # S PROVE Cardinality(Batch(S)) = BatchSize
    OBVIOUS
  <1>1. PICK l \in S \ Batch(S) : \A k \in S \ Batch(S) : l <= k
    BY <1>0, LeastMember
  <1>2. \A k \in S : IsFiniteSet(UpTo(k)) /\ Cardinality(UpTo(k)) \in Nat
    BY LeadsFinite
  <1>3. \A k \in S : k \in Batch(S) <=> Cardinality(UpTo(k)) <= BatchSize
    BY DEF Batch
  <1>4. \A j, k \in S : j <= k => Cardinality(UpTo(j)) <= Cardinality(UpTo(k))
    <2>1. ASSUME NEW j \in S, NEW k \in S, j <= k PROVE UpTo(j) \in SUBSET UpTo(k)
      <3>1. \A i \in S : i <= j => i <= k
        BY <1>0, <2>1
      <3>. QED BY <3>1
    <2>. QED BY <1>2, <2>1, FS_Subset
  <1>. HIDE DEF UpTo
  <1>5. \A k \in S : k < l => k \in Batch(S)
    BY <1>0, <1>1
  <1>6. \A k \in Batch(S) : k < l
    <2>1. ASSUME NEW k \in Batch(S), l <= k PROVE FALSE
      <3>0. k \in S /\ l \in S /\ l \notin Batch(S)
        BY <1>0, <1>1
      <3>1. Cardinality(UpTo(l)) <= Cardinality(UpTo(k))
        BY <1>4, <2>1, <3>0
      <3>2. Cardinality(UpTo(k)) <= BatchSize /\ ~(Cardinality(UpTo(l)) <= BatchSize)
        BY <1>3, <3>0
      <3>3. Cardinality(UpTo(k)) \in Nat /\ Cardinality(UpTo(l)) \in Nat
        BY <1>2, <3>0
      <3>. QED BY <1>0, <3>1, <3>2, <3>3
    <2>2. \A k \in Batch(S) : k \in Nat /\ l \in Nat
      BY <1>0, <1>1
    <2>. QED BY <2>1, <2>2
  <1>7. UpTo(l) = Batch(S) \union {l} /\ l \notin Batch(S)
    <2>1. l \in S /\ l \notin Batch(S) /\ \A k \in S : k <= l <=> k = l \/ k \in Batch(S)
      BY <1>0, <1>1, <1>5, <1>6
    <2>. QED BY <1>0, <2>1 DEF UpTo
  <1>8. IsFiniteSet(Batch(S)) /\ Cardinality(Batch(S)) \in Nat
    BY <1>0, LeadsFinite
  <1>9. Cardinality(UpTo(l)) = Cardinality(Batch(S)) + 1
    BY <1>7, <1>8, FS_AddElement
  <1>10. Cardinality(UpTo(l)) > BatchSize
    BY <1>0, <1>1, <1>2, <1>3
  <1>11. Cardinality(Batch(S)) >= BatchSize
    BY <1>0, <1>8, <1>9, <1>10
  <1>12. Cardinality(Batch(S)) <= BatchSize
    <2>1. CASE Batch(S) = {}
      BY <1>0, <2>1, FS_EmptySet
    <2>2. CASE Batch(S) # {}
      <3>. DEFINE m == Max(Batch(S))
      <3>1. m \in Batch(S) /\ \A k \in Batch(S) : m >= k
        BY <1>0, <2>2, MaxMember DEF Leads
      <3>. HIDE DEF m
      <3>2. Batch(S) \in SUBSET UpTo(m)
        BY <1>0, <3>1 DEF UpTo
      <3>3. Cardinality(Batch(S)) <= Cardinality(UpTo(m))
        BY <1>0, <1>2, <3>1, <3>2, FS_Subset
      <3>4. Cardinality(UpTo(m)) <= BatchSize
        BY <1>0, <1>3, <3>1
      <3>5. Cardinality(UpTo(m)) \in Nat
        BY <1>0, <1>2, <3>1
      <3>. QED BY <1>0, <1>8, <3>3, <3>4, <3>5
    <2>. QED BY <2>1, <2>2
  <1>. QED
    BY <1>0, <1>8, <1>11, <1>12

-----------------------------------------------------------------------------
(* What the steps have in common *)

\* What BeginInv and OneStepAtATime say of one lead.
Begun(l) ==
    /\ enrollment[l].state \in {"NONE", "PASSED"} => \A s \in Steps : message[l][s] = "NONE"
    /\ enrollment[l].state \notin {"NONE", "PASSED"} => message[l][1] # "NONE"
    /\ enrollment[l].state = "ACTIVE" => enrollment[l].step \in Steps

Stepwise(l) ==
    /\ \A s, t \in Steps : s < t /\ message[l][t] # "NONE" => message[l][s] = "SENT"
    /\ enrollment[l].state = "ACTIVE" => \A s \in Steps : message[l][s] # "NONE" <=> s <= enrollment[l].step
    /\ enrollment[l].state = "COMPLETED" => \A s \in Steps : message[l][s] = "SENT"
    /\ enrollment[l].state = "FAILED" => \E s \in Steps : message[l][s] = "FAILED"

\* A worker that goes on with a task it has without reading, or takes one of the
\* queue and its cursor.
WorkMoves(w) ==
    \/ work'[w] = work[w] \/ work'[w] = Idle
    \/ /\ work[w] # Idle /\ work'[w].pc \in {"next", "render", "failing"}
       /\ work'[w].task = work[w].task
       /\ work'[w].pc = "render" => work[w].task.job \in Phases
    \/ /\ work'[w].pc = "claimed" /\ work'[w].task \in tasks
       /\ work'[w].cursor = job[work'[w].task.job].cursor

\* The names of the jobs are all different.
LEMMA Names ==
    /\ Jobs = Audiences \union {"ENROLL", "RENDER"} /\ Phases = {"ENROLL", "RENDER"}
    /\ "ENROLL" \notin Audiences /\ "RENDER" \notin Audiences /\ None \notin Audiences
  BY PlanningAssumption DEF Jobs, Phases, None

\* The ordinals and steps are natural numbers.
LEMMA Numbers ==
    /\ NumLeads \in Nat \ {0} /\ NumSteps \in Nat \ {0} /\ NumIds \in Nat \ {0}
    /\ \A l \in Leads : l \in Nat \ {0}
    /\ \A s \in Steps : s \in Nat \ {0}
    /\ 1 \in Steps /\ 1 \in Ids
PROOF
  <1>1. NumLeads \in Nat \ {0} /\ NumSteps \in Nat \ {0} /\ NumIds \in Nat \ {0}
    BY PlanningAssumption
  <1>. QED
    BY <1>1 DEF Leads, Steps, Ids

\* What a worker that has read holds.
LEMMA ReadType ==
    ASSUME TypeOK, NEW w \in Workers, work[w].pc = "read"
    PROVE  /\ work[w].task \in TaskType /\ work[w].cursor \in Nat /\ work[w].upto \in Nat
           /\ work[w].rows \in SUBSET Leads /\ work[w].full \in BOOLEAN /\ work[w] # Idle
PROOF
  <1>1. work[w] \in [pc : {"read"}, task : TaskType, cursor : Nat, rows : SUBSET Leads, upto : Nat, full : BOOLEAN]
    BY DEF TypeOK, WorkType, Idle
  <1>. QED
    BY <1>1 DEF Idle

\* A step of the planning that neither reads nor enrolls keeps what is known of
\* the outreach.
LEMMA PlanKept ==
    ASSUME PlanningInv, TypeOK', UNCHANGED <<active, planned, enrollment, message, sweep>>,
           status' = "DRAFT" => status = "DRAFT",
           \A a \in Audiences : audience[a] = "READY" => audience'[a] = "READY",
           active # None => member'[active] = member[active],
           \A t \in tasks' : t.job \in Phases => active # None,
           \A w \in Workers : WorkMoves(w),
           job'["ENROLL"].cursor \in {0, job["ENROLL"].cursor}
    PROVE  /\ ActivationInv' /\ BeginInv' /\ OneStepAtATime' /\ HoldInv' /\ NobodyMissed' /\ CursorInv'
PROOF
  <1>0. TypeOK /\ ActivationInv /\ BeginInv /\ OneStepAtATime /\ HoldInv /\ NobodyMissed /\ CursorInv
    BY DEF PlanningInv
  <1>1. active # None => active \in Audiences /\ Accepted(active)' = Accepted(active)
    BY <1>0 DEF TypeOK, Accepted
  <1>2. ASSUME NEW w \in Workers
        PROVE  /\ work'[w] # Idle /\ (work'[w].pc = "render" \/ work'[w].task.job \in Phases) => active # None
               /\ \A p \in Phases : Reading(w, p)' => Reading(w, p) /\ work'[w] = work[w]
               /\ work'[w].pc \in {"claimed", "read"} /\ work'[w].task.job = "ENROLL" =>
                    \/ work[w].pc \in {"claimed", "read"} /\ work'[w] = work[w]
                    \/ work'[w].cursor = job["ENROLL"].cursor
    <2>1. CASE work'[w] = work[w] \/ work'[w] = Idle
      BY <1>0, <2>1 DEF ActivationInv, Reading, Idle
    <2>2. CASE work[w] # Idle /\ work'[w].pc \in {"next", "render", "failing"} /\ work'[w].task = work[w].task
               /\ (work'[w].pc = "render" => work[w].task.job \in Phases)
      BY <1>0, <2>2 DEF ActivationInv, Reading
    <2>3. CASE /\ work'[w].pc = "claimed" /\ work'[w].task \in tasks
               /\ work'[w].cursor = job[work'[w].task.job].cursor
      BY <1>0, <2>3 DEF ActivationInv, Reading
    <2>. QED BY <2>1, <2>2, <2>3 DEF WorkMoves
  <1>3. ActivationInv'
    BY <1>0, <1>1, <1>2, Names DEF ActivationInv
  <1>4. BeginInv' /\ OneStepAtATime'
    BY <1>0 DEF BeginInv, OneStepAtATime
  <1>5. HoldInv'
    <2>1. "RENDER" \in Phases
      BY Names
    <2>. QED BY <1>0, <1>2, <2>1 DEF HoldInv, Progressable
  <1>6. NobodyMissed'
    BY <1>0, <1>1 DEF NobodyMissed, ActivationInv
  <1>7. CursorInv'
    <2>. SUFFICES ASSUME active # None PROVE CursorInv'
      BY DEF CursorInv
    <2>1. \A n \in Nat : EnrolledUpTo(n)' <=> EnrolledUpTo(n)
      BY <1>1 DEF EnrolledUpTo
    <2>2. EnrolledUpTo(0)
      BY Numbers DEF EnrolledUpTo
    <2>3. job["ENROLL"].cursor \in Nat /\ job'["ENROLL"].cursor \in Nat
      BY <1>0, Names DEF TypeOK, JobType
    <2>4. \A w \in Workers : work'[w].pc \in {"claimed", "read"} => work'[w].cursor \in Nat
      BY DEF TypeOK, WorkType, Idle
    <2>5. (\A l \in Accepted(active) : planned => enrollment[l].state # "NONE")'
      BY <1>0, <1>1 DEF CursorInv
    <2>6. EnrolledUpTo(job["ENROLL"].cursor) /\ EnrolledUpTo(job'["ENROLL"].cursor)
      BY <1>0, <2>2 DEF CursorInv
    <2>7. \A w \in Workers : work'[w].pc \in {"claimed", "read"} /\ work'[w].task.job = "ENROLL" =>
             EnrolledUpTo(work'[w].cursor)
      BY <1>0, <1>2, <2>6 DEF CursorInv
    <2>8. \A n \in Nat : n = job'["ENROLL"].cursor => EnrolledUpTo(n)'
      BY <2>1, <2>6
    <2>9. \A w \in Workers, n \in Nat : work'[w].pc \in {"claimed", "read"} /\ work'[w].task.job = "ENROLL"
             /\ n = work'[w].cursor => EnrolledUpTo(n)'
      BY <2>1, <2>7
    <2>10. (\A w \in Workers : Reading(w, "ENROLL") =>
                    /\ work[w].rows \subseteq Accepted(active)
                    /\ \A l \in work[w].rows : l <= work[w].upto
                    /\ ~work[w].full => \A l \in Accepted(active) : l <= work[w].upto)'
      BY <1>0, <1>1, <1>2, Names DEF CursorInv
    <2>. QED
      BY <1>0, <1>1, <2>3, <2>4, <2>5, <2>8, <2>9, <2>10 DEF CursorInv
  <1>. QED
    BY <1>3, <1>4, <1>5, <1>6, <1>7

\* A step of one lead's sequence keeps the planning, and what is known of the
\* other leads.
LEMMA SequenceKept ==
    ASSUME PlanningInv, TypeOK', UNCHANGED <<Campaign, audience, member, job, tasks, work>>,
           NEW l \in Leads,
           \A k \in Leads \ {l} : enrollment'[k] = enrollment[k] /\ message'[k] = message[k],
           enrollment'[l] = enrollment[l]
              \/ {enrollment[l].state, enrollment'[l].state} \cap {"NONE", "PASSED"} = {},
           Begun(l)', Stepwise(l)',
           \A k \in sweep' : Progressable(k)',
           \A w \in Workers : Reading(w, "RENDER") /\ l \in work[w].rows => message'[l][1] = message[l][1]
    PROVE  PlanningInv'
PROOF
  <1>0. TypeOK /\ ActivationInv /\ BeginInv /\ OneStepAtATime /\ HoldInv /\ NobodyMissed /\ CursorInv
        /\ JobMatchesAudience
    BY DEF PlanningInv
  <1>1. UNCHANGED <<status, active, planned>> /\ \A a \in Audiences \union {None} : Accepted(a)' = Accepted(a)
    BY DEF Campaign, Accepted
  <1>2. \A k \in Leads : /\ enrollment'[k].state = "NONE" <=> enrollment[k].state = "NONE"
                         /\ enrollment'[k].state = "PASSED" <=> enrollment[k].state = "PASSED"
    OBVIOUS
  <1>3. \A k \in Leads : Begun(k)' /\ Stepwise(k)'
    BY <1>0 DEF BeginInv, OneStepAtATime, Begun, Stepwise
  <1>4. BeginInv' /\ OneStepAtATime'
    BY <1>3 DEF BeginInv, OneStepAtATime, Begun, Stepwise
  <1>5. ActivationInv' /\ JobMatchesAudience'
    BY <1>0, <1>1, <1>2 DEF ActivationInv, JobMatchesAudience
  <1>6. HoldInv'
    <2>1. \A w \in Workers : Reading(w, "RENDER")' <=> Reading(w, "RENDER")
      BY DEF Reading
    <2>2. \A w \in Workers : Reading(w, "RENDER") => \A k \in work[w].rows : k \in Leads
      BY <1>0, ReadType DEF Reading
    <2>3. \A w \in Workers : Reading(w, "RENDER") => \A k \in work[w].rows : message'[k][1] = "PLANNED"
      BY <1>0, <2>2 DEF HoldInv
    <2>. QED BY <1>0, <2>1, <2>3 DEF HoldInv
  <1>7. NobodyMissed'
    <2>1. planned => active \in Audiences
      BY <1>0 DEF TypeOK, ActivationInv
    <2>2. \A k \in Leads : enrollment'[k].state \notin {"NONE", "PASSED"} => message'[k][1] # "NONE"
      BY <1>3 DEF Begun
    <2>3. \A a \in Audiences : Accepted(a) \subseteq Leads
      BY DEF Accepted
    <2>. QED BY <1>0, <1>1, <1>2, <2>1, <2>2, <2>3 DEF NobodyMissed, TypeOK
  <1>8. CursorInv'
    <2>. SUFFICES ASSUME active # None PROVE CursorInv'
      BY <1>1 DEF CursorInv
    <2>1. active \in Audiences /\ Accepted(active)' = Accepted(active) /\ Accepted(active) \subseteq Leads
      BY <1>0, <1>1 DEF TypeOK, Accepted
    <2>2. \A n \in Nat : EnrolledUpTo(n)' <=> EnrolledUpTo(n)
      BY <1>1, <1>2, <2>1 DEF EnrolledUpTo
    <2>3. job["ENROLL"].cursor \in Nat
      BY <1>0, Names DEF TypeOK, JobType
    <2>4. \A w \in Workers : work[w].pc \in {"claimed", "read"} => work[w].cursor \in Nat
      BY <1>0 DEF TypeOK, WorkType, Idle
    <2>5. EnrolledUpTo(job["ENROLL"].cursor)'
      BY <1>0, <2>2, <2>3 DEF CursorInv
    <2>6. \A w \in Workers : work[w].pc \in {"claimed", "read"} /\ work[w].task.job = "ENROLL"
             => EnrolledUpTo(work[w].cursor)'
      BY <1>0, <2>2, <2>4 DEF CursorInv
    <2>. QED BY <1>0, <1>1, <1>2, <2>1, <2>5, <2>6 DEF CursorInv, Reading
  <1>. QED
    BY <1>4, <1>5, <1>6, <1>7, <1>8 DEF PlanningInv

-----------------------------------------------------------------------------
(* Requests *)

\* A task of a queue is what it was made of.
LEMMA PublishTyped ==
    ASSUME TypeOK, NEW t \in TaskType, Publish(t)
    PROVE  tasks' \subseteq TaskType /\ \A u \in tasks' : u \in tasks \/ u = t
  BY DEF Publish, TypeOK

\* The name of a new task.
LEMMA FreshName ==
    ASSUME NEW j \in Jobs, FreshIds(j) # {}
    PROVE  Min(FreshIds(j)) \in Ids
PROOF
  <1>1. FreshIds(j) \in SUBSET Ids /\ FreshIds(j) \in SUBSET Nat
    BY DEF FreshIds, Ids
  <1>. QED
    BY <1>1, MinMember

\* The status, the start and the draft revision of a campaign.
LEMMA StatusStep ==
    ASSUME PlanningInv, Pause \/ Resume \/ Archive \/ \E a \in Audiences : CommitAudience(a)
    PROVE  PlanningInv'
PROOF
  <1>1. /\ UNCHANGED <<planned, active, audience, member, job, tasks, work, enrollment, message, sweep>>
        /\ status' \in {"DRAFT", "SCHEDULED", "RUNNING", "PAUSED", "ARCHIVED"}
        /\ status' = "DRAFT" => status = "DRAFT"
        /\ draft' \in Audiences \union {None}
    BY DEF Pause, Resume, Archive, CommitAudience, SetStatus, Outreach, PlanningInv, TypeOK
  <1>2. TypeOK'
    BY <1>1 DEF PlanningInv, TypeOK
  <1>3. JobMatchesAudience'
    BY <1>1 DEF PlanningInv, JobMatchesAudience
  <1>4. (\A w \in Workers : WorkMoves(w)) /\ \A t \in tasks' : t.job \in Phases => active # None
    BY <1>1 DEF WorkMoves, PlanningInv, ActivationInv
  <1>. QED
    BY <1>1, <1>2, <1>3, <1>4, PlanKept DEF PlanningInv

\* A selection begins, or is to be abandoned.
LEMMA SelectionStep ==
    ASSUME PlanningInv, SelectAudience \/ \E a \in Audiences : RequestAbandon(a)
    PROVE  PlanningInv'
PROOF
  <1>0. UNCHANGED <<status, planned, draft, active, member, work, enrollment, message, sweep>> /\ TypeOK
    BY DEF SelectAudience, RequestAbandon, Campaign, Outreach, PlanningInv
  <1>1. PICK t \in TaskType :
          /\ t.job \in Audiences /\ Publish(t)
          /\ \/ UNCHANGED <<audience, job>>
             \/ \E a \in Audiences : /\ audience[a] = "NONE"
                                     /\ audience' = [audience EXCEPT ![a] = "CAPTURING"]
                                     /\ job' = [job EXCEPT ![a] = NewJob]
    <2>1. CASE SelectAudience
      <3>. DEFINE a == CHOOSE b \in Audiences : audience[b] = "NONE"
      <3>1. a \in Audiences /\ audience[a] = "NONE"
        BY <2>1 DEF SelectAudience
      <3>2. Task(a, 1) \in TaskType /\ Task(a, 1).job = a
        BY <3>1, Numbers, Names DEF Task, TaskType
      <3>3. /\ audience' = [audience EXCEPT ![a] = "CAPTURING"] /\ job' = [job EXCEPT ![a] = NewJob]
            /\ Publish(Task(a, 1))
        BY <2>1 DEF SelectAudience
      <3>. HIDE DEF a
      <3>. QED BY <3>1, <3>2, <3>3
    <2>2. ASSUME NEW a \in Audiences, RequestAbandon(a)
          PROVE  \E t \in TaskType : t.job \in Audiences /\ Publish(t) /\ UNCHANGED <<audience, job>>
      <3>1. Min(FreshIds(a)) \in Ids
        BY <2>2, FreshName, Names DEF RequestAbandon
      <3>. PICK n \in Ids : n = Min(FreshIds(a))
        BY <3>1
      <3>2. PICK t : t = [Task(a, n) EXCEPT !.abandon = TRUE]
        OBVIOUS
      <3>3. t = [job |-> a, id |-> n, abandon |-> TRUE]
        BY <3>2 DEF Task
      <3>4. t \in TaskType /\ t.job = a
        BY <3>3 DEF TaskType
      <3>5. Publish(t) /\ UNCHANGED <<audience, job>>
        BY <2>2, <3>2 DEF RequestAbandon
      <3>. QED BY <3>4, <3>5
    <2>. QED BY <2>1, <2>2
  <1>2. tasks' \subseteq TaskType /\ \A u \in tasks' : u \in tasks \/ u = t
    BY <1>0, <1>1, PublishTyped
  <1>3. /\ audience' \in [Audiences -> {"NONE", "CAPTURING", "READY", "FAILED", "ABANDONED"}]
        /\ job' \in [Jobs -> JobType] /\ job'["ENROLL"] = job["ENROLL"]
        /\ \A a \in Audiences : audience[a] = "READY" => audience'[a] = "READY"
        /\ JobMatchesAudience'
    <2>1. NewJob \in JobType /\ NewJob.state = "PENDING"
      BY DEF NewJob, NoJob, JobType
    <2>2. CASE UNCHANGED <<audience, job>>
      BY <1>0, <2>2 DEF TypeOK, PlanningInv, JobMatchesAudience
    <2>3. ASSUME NEW a \in Audiences, audience[a] = "NONE", audience' = [audience EXCEPT ![a] = "CAPTURING"],
                 job' = [job EXCEPT ![a] = NewJob]
          PROVE  <1>3!:
      <3>1. /\ audience' \in [Audiences -> {"NONE", "CAPTURING", "READY", "FAILED", "ABANDONED"}]
            /\ job' \in [Jobs -> JobType]
        BY <1>0, <2>1, <2>3, Names DEF TypeOK
      <3>2. /\ audience'[a] = "CAPTURING" /\ job'[a].state = "PENDING" /\ job'["ENROLL"] = job["ENROLL"]
            /\ \A b \in Audiences \ {a} : audience'[b] = audience[b] /\ job'[b] = job[b]
        BY <1>0, <2>1, <2>3, Names DEF TypeOK
      <3>. QED BY <2>3, <3>1, <3>2 DEF PlanningInv, JobMatchesAudience
    <2>. QED BY <1>1, <2>2, <2>3
  <1>4. TypeOK'
    BY <1>0, <1>2, <1>3 DEF TypeOK
  <1>5. (\A w \in Workers : WorkMoves(w)) /\ \A u \in tasks' : u.job \in Phases => active # None
    BY <1>0, <1>1, <1>2, Names DEF WorkMoves, PlanningInv, ActivationInv
  <1>. QED
    BY <1>0, <1>3, <1>4, <1>5, PlanKept DEF PlanningInv

\* Activation: the revision that is READY becomes that of the campaign, which had
\* none, and so neither enrollments nor tasks that plan.
LEMMA ActivateStep ==
    ASSUME PlanningInv, NEW later \in BOOLEAN, Activate(later)
    PROVE  PlanningInv'
PROOF
  <1>0. /\ TypeOK /\ ActivationInv /\ BeginInv /\ HoldInv /\ JobMatchesAudience /\ OneStepAtATime /\ NobodyMissed
        /\ active = None /\ draft \in Audiences /\ audience[draft] = "READY"
        /\ status' # "DRAFT" /\ status' \in {"SCHEDULED", "RUNNING"} /\ active' = draft
        /\ UNCHANGED <<planned, draft, audience, member, work, enrollment, message, sweep>>
        /\ job' = [j \in Jobs |-> IF j \in Phases THEN NewJob ELSE job[j]]
        /\ Publish(Task("ENROLL", 1))
    BY DEF Activate, AudienceReady, SetActivated, Outreach, PlanningInv, ActivationInv, TypeOK
  <1>1. Task("ENROLL", 1) \in TaskType
    BY Numbers, Names DEF Task, TaskType
  <1>2. NewJob \in JobType /\ NewJob.cursor = 0
    BY DEF NewJob, NoJob, JobType
  <1>3. job' \in [Jobs -> JobType] /\ job'["ENROLL"].cursor = 0 /\ \A a \in Audiences : job'[a] = job[a]
    BY <1>0, <1>2, Names DEF TypeOK
  <1>4. TypeOK'
    BY <1>0, <1>1, <1>3, PublishTyped DEF TypeOK
  <1>5. ActivationInv'
    BY <1>0, Names DEF ActivationInv
  <1>6. JobMatchesAudience' /\ BeginInv' /\ OneStepAtATime' /\ HoldInv'
    BY <1>0, <1>3 DEF JobMatchesAudience, BeginInv, OneStepAtATime, HoldInv, Progressable, Reading
  <1>7. NobodyMissed'
    BY <1>0 DEF ActivationInv, NobodyMissed
  <1>8. CursorInv'
    <2>1. \A w \in Workers : work[w] # Idle => work[w].task.job # "ENROLL"
      BY <1>0, Names DEF ActivationInv
    <2>2. \A w \in Workers : work[w].pc \in {"claimed", "read"} => work[w] # Idle
      BY DEF Idle
    <2>3. EnrolledUpTo(0)'
      BY Numbers DEF EnrolledUpTo
    <2>. QED
      BY <1>0, <1>3, <2>1, <2>2, <2>3 DEF CursorInv, ActivationInv, Reading
  <1>. QED
    BY <1>4, <1>5, <1>6, <1>7, <1>8 DEF PlanningInv

-----------------------------------------------------------------------------
(* Tasks that read *)

\* A task that is taken claims its job and knows its cursor, or is dropped.
LEMMA TakeStep ==
    ASSUME PlanningInv, NEW w \in Workers, NEW t \in tasks, Take(w, t)
    PROVE  PlanningInv'
PROOF
  <1>0. /\ UNCHANGED <<status, planned, draft, active, audience, member, enrollment, message, sweep>>
        /\ tasks' \subseteq tasks /\ TypeOK /\ t \in TaskType /\ t.job \in Jobs /\ t.id \in Ids
    BY Names DEF Take, Campaign, Outreach, PlanningInv, TypeOK, TaskType
  <1>1. /\ job' \in [Jobs -> JobType]
        /\ \A j \in Jobs : /\ job'[j].cursor = job[j].cursor
                           /\ job[j].state \notin {"PENDING", "PROCESSING"} => job'[j].state = job[j].state
                           /\ job[j].state \in {"PENDING", "PROCESSING"} => job'[j].state \in {"PENDING", "PROCESSING"}
        /\ work' \in [Workers -> WorkType] /\ \A v \in Workers : WorkMoves(v)
    <2>1. CASE Claimable(t) /\ Claim(w, t)
      <3>1. job' = [job EXCEPT ![t.job] = [job[t.job] EXCEPT !.state = "PROCESSING", !.owner = t.id, !.live = TRUE]]
        BY <1>0, <2>1 DEF Claim, TypeOK
      <3>2. job[t.job] \in JobType
        BY <1>0 DEF TypeOK
      <3>3. LET r == [job[t.job] EXCEPT !.state = "PROCESSING", !.owner = t.id, !.live = TRUE]
            IN r \in JobType /\ r.state = "PROCESSING" /\ r.cursor = job[t.job].cursor
        BY <1>0, <3>2 DEF JobType
      <3>4. job[t.job].state \in {"PENDING", "PROCESSING"}
        BY <2>1 DEF Claimable
      <3>5. [pc |-> "claimed", task |-> t, cursor |-> job[t.job].cursor] \in WorkType
        BY <1>0, <3>2 DEF JobType, WorkType
      <3>6. work' \in [Workers -> WorkType]
        BY <1>0, <2>1, <3>5 DEF Claim, TypeOK
      <3>7. \A v \in Workers : WorkMoves(v)
        BY <1>0, <2>1 DEF Claim, TypeOK, WorkMoves
      <3>. QED BY <1>0, <3>1, <3>3, <3>4, <3>6, <3>7 DEF TypeOK
    <2>2. CASE UNCHANGED <<job, work>>
      BY <1>0, <2>2 DEF TypeOK, WorkMoves
    <2>. QED BY <2>1, <2>2 DEF Take
  <1>2. TypeOK'
    BY <1>0, <1>1 DEF TypeOK
  <1>3. JobMatchesAudience'
    BY <1>0, <1>1, Names DEF PlanningInv, JobMatchesAudience, TypeOK, JobType
  <1>4. \A u \in tasks' : u.job \in Phases => active # None
    BY <1>0 DEF PlanningInv, ActivationInv
  <1>. QED
    BY <1>0, <1>1, <1>2, <1>3, <1>4, PlanKept, Names DEF PlanningInv

\* A worker that reads only learns: it may when its rows are as they have to be.
LEMMA HoldEffect ==
    ASSUME PlanningInv, NEW w \in Workers, work[w].pc = "claimed",
           NEW rows \in SUBSET Leads, NEW upto \in Nat, NEW full \in BOOLEAN, Hold(w, rows, upto, full),
           UNCHANGED <<Campaign, audience, member, job, tasks, suppressed, Outreach, sweep, trouble, faults>>,
           work[w].task.job = "RENDER" => \A l \in rows : message[l][1] = "PLANNED" /\ l \notin Locked,
           work[w].task.job = "ENROLL" =>
              /\ rows \subseteq Accepted(active)
              /\ \A l \in rows : l <= upto
              /\ ~full => \A l \in Accepted(active) : l <= upto
    PROVE  PlanningInv'
PROOF
  <1>0. /\ UNCHANGED <<status, planned, draft, active, audience, member, job, tasks, enrollment, message, sweep>>
        /\ TypeOK /\ ActivationInv /\ HoldInv /\ CursorInv
    BY DEF Campaign, Outreach, PlanningInv
  <1>. DEFINE r == [pc |-> "read", task |-> work[w].task, cursor |-> work[w].cursor,
                    rows |-> rows, upto |-> upto, full |-> full]
  <1>1. work[w].task \in TaskType /\ work[w].cursor \in Nat /\ work[w] # Idle
    <2>1. work[w] \in [pc : {"claimed"}, task : TaskType, cursor : Nat]
      BY <1>0 DEF TypeOK, WorkType, Idle
    <2>. QED BY <2>1 DEF Idle
  <1>2. r \in WorkType /\ work' = [work EXCEPT ![w] = r]
    BY <1>1 DEF WorkType, Hold
  <1>3. work' \in [Workers -> WorkType] /\ work'[w] = r /\ \A v \in Workers \ {w} : work'[v] = work[v]
    BY <1>0, <1>2 DEF TypeOK
  <1>4. TypeOK'
    BY <1>0, <1>3 DEF TypeOK
  <1>5. JobMatchesAudience' /\ BeginInv' /\ OneStepAtATime' /\ NobodyMissed'
    BY <1>0 DEF PlanningInv, JobMatchesAudience, BeginInv, OneStepAtATime, NobodyMissed, Accepted
  <1>6. ActivationInv'
    BY <1>0, <1>1, <1>3 DEF ActivationInv
  <1>7. HoldInv'
    <2>1. \A k \in sweep' : Progressable(k)'
      BY <1>0 DEF HoldInv, Progressable
    <2>2. \A v \in Workers \ {w} : (Reading(v, "RENDER")' <=> Reading(v, "RENDER"))
                                   /\ (Reading(v, "RENDER") => work[v].rows \subseteq Locked)
      BY <1>0, <1>3 DEF Reading, Locked, Doing
    <2>3. Reading(w, "RENDER")' => work[w].task.job = "RENDER" /\ work'[w].rows = rows
      BY <1>3 DEF Reading
    <2>4. \A v \in Workers : Reading(v, "RENDER")' => \A k \in work'[v].rows : message'[k][1] = "PLANNED"
      BY <1>0, <1>3, <2>2, <2>3 DEF HoldInv
    <2>5. \A u, v \in Workers : Reading(u, "RENDER")' /\ Reading(v, "RENDER")' /\ u # v =>
             work'[u].rows \cap work'[v].rows = {}
      <3>1. ASSUME NEW v \in Workers \ {w}, Reading(v, "RENDER")', Reading(w, "RENDER")'
            PROVE  work'[v].rows \cap work'[w].rows = {}
        BY <1>3, <2>2, <2>3, <3>1
      <3>2. ASSUME NEW u \in Workers \ {w}, NEW v \in Workers \ {w}, u # v,
                   Reading(u, "RENDER")', Reading(v, "RENDER")'
            PROVE  work'[u].rows \cap work'[v].rows = {}
        BY <1>0, <1>3, <2>2, <3>2 DEF HoldInv
      <3>. QED BY <3>1, <3>2
    <2>. QED BY <2>1, <2>4, <2>5 DEF HoldInv
  <1>8. CursorInv'
    <2>. SUFFICES ASSUME active # None PROVE CursorInv'
      BY <1>0 DEF CursorInv
    <2>1. Accepted(active)' = Accepted(active) /\ \A n : EnrolledUpTo(n)' <=> EnrolledUpTo(n)
      BY <1>0 DEF Accepted, EnrolledUpTo
    <2>2. \A v \in Workers : work'[v].pc \in {"claimed", "read"} /\ work'[v].task.job = "ENROLL" =>
             EnrolledUpTo(work'[v].cursor)
      BY <1>0, <1>3 DEF CursorInv
    <2>3. \A v \in Workers, n \in Nat : work'[v].pc \in {"claimed", "read"} /\ work'[v].task.job = "ENROLL"
             /\ n = work'[v].cursor => EnrolledUpTo(n)'
      BY <2>1, <2>2
    <2>4. \A v \in Workers : work'[v].pc \in {"claimed", "read"} => work'[v].cursor \in Nat
      BY <1>3 DEF WorkType, Idle
    <2>5. ASSUME NEW v \in Workers, Reading(v, "ENROLL")'
          PROVE  /\ work'[v].rows \subseteq Accepted(active)
                 /\ \A l \in work'[v].rows : l <= work'[v].upto
                 /\ ~work'[v].full => \A l \in Accepted(active) : l <= work'[v].upto
      <3>1. CASE v = w
        BY <1>3, <2>5, <3>1 DEF Reading
      <3>2. CASE v # w
        BY <1>0, <1>3, <2>5, <3>2 DEF Reading, CursorInv
      <3>. QED BY <3>1, <3>2
    <2>6. job["ENROLL"].cursor \in Nat
      BY <1>0, Names DEF TypeOK, JobType
    <2>7. \A n \in Nat : n = job["ENROLL"].cursor => EnrolledUpTo(n)'
      BY <1>0, <2>1 DEF CursorInv
    <2>. QED
      BY <1>0, <2>1, <2>3, <2>4, <2>5, <2>6, <2>7 DEF CursorInv
  <1>. QED
    BY <1>4, <1>5, <1>6, <1>7, <1>8 DEF PlanningInv

\* A capture reads the candidates after its cursor.
LEMMA ReadLeadsStep ==
    ASSUME PlanningInv, NEW w \in Workers, ReadLeads(w)
    PROVE  PlanningInv'
PROOF
  <1>1. work[w].pc = "claimed" /\ work[w].task.job \in Audiences /\ work[w].cursor \in Nat
    BY DEF ReadLeads, Doing, PlanningInv, TypeOK, WorkType, Idle
  <1>2. PICK batch \in SUBSET Leads : Hold(w, batch \ suppressed, work[w].cursor + Cardinality(batch), TRUE)
    BY DEF ReadLeads, Batch
  <1>3. PICK rows \in SUBSET Leads, upto \in Nat, full \in BOOLEAN : Hold(w, rows, upto, full)
    <2>1. work[w].cursor + Cardinality(batch) \in Nat
      BY <1>1, LeadsFinite
    <2>. QED BY <1>2, <2>1
  <1>. QED
    BY <1>1, <1>3, HoldEffect, Names DEF ReadLeads

\* An enrollment reads the accepted members after its cursor: those it leaves out
\* of a chunk come later, or are suppressed.
LEMMA ReadMembersStep ==
    ASSUME PlanningInv, NEW w \in Workers, ReadMembers(w)
    PROVE  PlanningInv'
PROOF
  <1>0. work[w].pc = "claimed" /\ work[w].task.job = "ENROLL" /\ work[w].cursor \in Nat /\ work[w] # Idle
    BY DEF ReadMembers, Doing, PlanningInv, TypeOK, WorkType, Idle
  <1>1. active \in Audiences
    BY <1>0, Names DEF PlanningInv, ActivationInv, TypeOK
  <1>. DEFINE rest == {l \in Accepted(active) : l > work[w].cursor}
  <1>. PICK batch : batch = Batch(rest)
    OBVIOUS
  <1>2. batch \subseteq rest /\ Accepted(active) \subseteq Leads /\ rest \in SUBSET Leads /\ batch \in SUBSET Leads
    BY DEF Batch, Accepted
  <1>3. PICK upto : upto = IF batch = {} THEN work[w].cursor ELSE Max(batch)
    OBVIOUS
  <1>4. upto \in Nat /\ \A l \in batch : l <= upto
    <2>1. CASE batch = {}
      BY <1>0, <1>3, <2>1
    <2>2. CASE batch # {}
      <3>1. Max(batch) \in batch /\ \A l \in batch : Max(batch) >= l
        BY <1>2, <2>2, MaxMember, Numbers DEF Leads
      <3>2. upto = Max(batch)
        BY <1>3, <2>2
      <3>. QED BY <1>2, <3>1, <3>2, Numbers
    <2>. QED BY <2>1, <2>2
  <1>5. PICK full \in BOOLEAN : full <=> Cardinality(batch) = BatchSize
    OBVIOUS
  <1>6. ~full => \A l \in Accepted(active) : l <= upto
    <2>. SUFFICES ASSUME ~full PROVE \A l \in Accepted(active) : l <= upto
      OBVIOUS
    <2>1. batch = rest
      BY <1>2, <1>5, ShortBatch
    <2>2. work[w].cursor <= upto
      <3>1. CASE batch = {}
        BY <1>0, <1>3, <3>1
      <3>2. CASE batch # {}
        <4>1. PICK l \in batch : TRUE
          BY <3>2
        <4>. QED BY <1>0, <1>2, <1>4, <4>1, Numbers
      <3>. QED BY <3>1, <3>2
    <2>3. ASSUME NEW l \in Accepted(active) PROVE l <= upto
      <3>1. l \in Nat
        BY <1>2, Numbers
      <3>2. l > work[w].cursor => l \in batch
        BY <2>1
      <3>. QED BY <1>0, <1>4, <2>2, <3>1, <3>2
    <2>. QED BY <2>3
  <1>7. Hold(w, batch \ suppressed, upto, full)
    <2>1. Hold(w, batch \ suppressed, upto, Cardinality(batch) = BatchSize)
      BY <1>3 DEF ReadMembers
    <2>2. full = (Cardinality(batch) = BatchSize)
      BY <1>5
    <2>. QED BY <2>1, <2>2
  <1>. PICK rows \in SUBSET Leads : rows = batch \ suppressed
    BY <1>2
  <1>8. Hold(w, rows, upto, full) /\ rows \subseteq Accepted(active) /\ \A l \in rows : l <= upto
    BY <1>2, <1>4, <1>7
  <1>. QED
    BY <1>0, <1>4, <1>6, <1>8, HoldEffect DEF ReadMembers

\* A rendering task takes messages that are PLANNED and that no other has.
LEMMA ReadPlannedStep ==
    ASSUME PlanningInv, NEW w \in Workers, ReadPlanned(w)
    PROVE  PlanningInv'
PROOF
  <1>0. work[w].pc = "claimed" /\ work[w].task.job = "RENDER"
    BY DEF ReadPlanned, Doing
  <1>1. PICK rows \in SUBSET Leads :
          /\ \A l \in rows : message[l][1] = "PLANNED" /\ l \notin Locked
          /\ Hold(w, rows, 0, Cardinality(rows) = BatchSize)
    BY DEF ReadPlanned, kSubset
  <1>2. PICK full \in BOOLEAN, upto \in Nat : Hold(w, rows, upto, full)
    BY <1>1
  <1>. QED
    BY <1>0, <1>1, <1>2, HoldEffect DEF ReadPlanned

-----------------------------------------------------------------------------
(* Tasks that write *)

\* The statements on a planning job: its progress leaves the state alone, its end
\* resets the cursor.
LEMMA JobRows ==
    ASSUME TypeOK, NEW w \in Workers, work[w] # Idle, NEW upto \in Nat
    PROVE  /\ Progress(w, upto) \in [Jobs -> JobType]
           /\ \A j \in Jobs : /\ Progress(w, upto)[j].state = job[j].state
                              /\ Progress(w, upto)[j].cursor \in {job[j].cursor, upto}
                              /\ j # work[w].task.job => Progress(w, upto)[j] = job[j]
PROOF
  <1>. PICK t \in TaskType : t = work[w].task
    BY DEF TypeOK, WorkType
  <1>1. t.job \in Jobs /\ t.id \in Ids
    BY Names DEF TaskType
  <1>2. CASE Ended(t.job)
    BY <1>2 DEF Progress, TypeOK, JobType
  <1>3. CASE ~Ended(t.job)
    <2>1. job[t.job] \in JobType
      BY <1>1 DEF TypeOK
    <2>2. PICK r : r = [job[t.job] EXCEPT !.cursor = upto, !.owner = t.id, !.live = TRUE]
      OBVIOUS
    <2>3. r \in JobType /\ r.state = job[t.job].state /\ r.cursor = upto
      BY <1>1, <2>1, <2>2 DEF JobType
    <2>4. Progress(w, upto) = [job EXCEPT ![t.job] = r]
      BY <1>1, <1>3, <2>2 DEF Progress, TypeOK
    <2>. QED BY <1>1, <2>3, <2>4 DEF TypeOK
  <1>. QED
    BY <1>2, <1>3

\* The end of a job: a row with that state and without a cursor, the others as they were.
LEMMA EndedRows ==
    ASSUME TypeOK, NEW j \in Jobs, NEW state \in {"READY", "FAILED"}
    PROVE  /\ Finish(j, state) \in [Jobs -> JobType]
           /\ Finish(j, state)[j].state = state /\ Finish(j, state)[j].cursor = 0
           /\ \A i \in Jobs \ {j} : Finish(j, state)[i] = job[i]
PROOF
  <1>1. PICK r : r = [NoJob EXCEPT !.state = state]
    OBVIOUS
  <1>2. r \in JobType /\ r.state = state /\ r.cursor = 0
    BY <1>1 DEF NoJob, JobType
  <1>3. Finish(j, state) = [job EXCEPT ![j] = r]
    BY <1>1 DEF Finish
  <1>. QED
    BY <1>2, <1>3 DEF TypeOK

\* What a worker that is not idle works on.
LEMMA Tasks ==
    ASSUME TypeOK, NEW w \in Workers, work[w] # Idle
    PROVE  /\ work[w].task \in TaskType /\ work[w].task.job \in Jobs
           /\ work[w].task.abandon => work[w].task.job \in Audiences
PROOF
  <1>1. work[w].task \in TaskType
    BY DEF TypeOK, WorkType
  <1>. QED
    BY <1>1, Names DEF TaskType

\* A worker that ends or goes on without reading.
LEMMA WorkMoved ==
    ASSUME TypeOK, NEW w \in Workers, work[w] # Idle,
           \/ work' = [work EXCEPT ![w] = Idle]
           \/ \E pc \in {"next", "failing"} : WentTo(w, pc)
           \/ WentTo(w, "render") /\ work[w].task.job \in Phases
    PROVE  work' \in [Workers -> WorkType] /\ \A v \in Workers : WorkMoves(v)
PROOF
  <1>1. work[w].task \in TaskType
    BY Tasks
  <1>2. CASE work' = [work EXCEPT ![w] = Idle]
    BY <1>2 DEF TypeOK, WorkType, WorkMoves
  <1>3. ASSUME NEW pc \in {"next", "render", "failing"}, WentTo(w, pc), pc = "render" => work[w].task.job \in Phases
        PROVE  work' \in [Workers -> WorkType] /\ \A v \in Workers : WorkMoves(v)
    <2>. PICK r : r = [pc |-> pc, task |-> work[w].task]
      OBVIOUS
    <2>1. r \in WorkType /\ r.pc = pc /\ r.task = work[w].task
      BY <1>1 DEF WorkType
    <2>2. work' = [work EXCEPT ![w] = r]
      BY <1>3 DEF WentTo
    <2>3. work' \in [Workers -> WorkType] /\ work'[w] = r /\ \A v \in Workers \ {w} : work'[v] = work[v]
      BY <2>1, <2>2 DEF TypeOK
    <2>4. WorkMoves(w)
      BY <1>3, <2>1, <2>3 DEF WorkMoves
    <2>. QED BY <2>3, <2>4 DEF WorkMoves
  <1>. QED
    BY <1>2, <1>3

\* A chunk of a capture: members enter while the revision is CAPTURING, and the last
\* chunk ends revision and job together.
LEMMA CommitCaptureStep ==
    ASSUME PlanningInv, NEW w \in Workers, CommitCapture(w)
    PROVE  PlanningInv'
PROOF
  <1>0. /\ UNCHANGED <<status, planned, draft, active, tasks, enrollment, message, sweep>>
        /\ TypeOK /\ work[w].pc = "read" /\ work[w] # Idle /\ work[w].task.job \in Audiences
        /\ work[w].upto \in Nat
    BY ReadType DEF CommitCapture, Doing, Campaign, Outreach, PlanningInv
  <1>. PICK a \in Audiences : a = work[w].task.job
    BY <1>0
  <1>. PICK upto \in Nat : upto = work[w].upto
    BY <1>0
  <1>1. CASE audience[a] # "CAPTURING"
    <2>1. WentTo(w, "failing") /\ UNCHANGED <<audience, member, job>>
      BY <1>1 DEF CommitCapture
    <2>2. work' \in [Workers -> WorkType] /\ \A v \in Workers : WorkMoves(v)
      BY <1>0, <2>1, WorkMoved
    <2>3. TypeOK' /\ JobMatchesAudience'
      BY <1>0, <2>1, <2>2 DEF TypeOK, PlanningInv, JobMatchesAudience
    <2>4. \A u \in tasks' : u.job \in Phases => active # None
      BY <1>0 DEF PlanningInv, ActivationInv
    <2>. QED BY <1>0, <2>1, <2>2, <2>3, <2>4, PlanKept DEF PlanningInv
  <1>2. CASE audience[a] = "CAPTURING"
    <2>1. PICK batch : member' = [member EXCEPT ![a] = Captured(w, batch)]
      BY <1>2 DEF CommitCapture
    <2>2. Captured(w, batch) \in [Leads -> {"NONE", "ACCEPTED", "EXCLUDED"}]
      BY <1>0 DEF Captured, TypeOK
    <2>3. /\ member' \in [Audiences -> [Leads -> {"NONE", "ACCEPTED", "EXCLUDED"}]]
          /\ \A b \in Audiences \ {a} : member'[b] = member[b]
      BY <1>0, <2>1, <2>2 DEF TypeOK
    <2>4. active # a
      BY <1>2, Names DEF PlanningInv, ActivationInv
    <2>5. \/ /\ job' = Finish(a, "READY") /\ audience' = [audience EXCEPT ![a] = "READY"]
             /\ work' = [work EXCEPT ![w] = Idle]
          \/ job' = Progress(w, upto) /\ WentTo(w, "next") /\ UNCHANGED audience
      BY <1>2 DEF CommitCapture
    <2>6. work' \in [Workers -> WorkType] /\ \A v \in Workers : WorkMoves(v)
      BY <1>0, <2>5, WorkMoved
    <2>7. /\ job' \in [Jobs -> JobType] /\ job'["ENROLL"] = job["ENROLL"]
          /\ audience' \in [Audiences -> {"NONE", "CAPTURING", "READY", "FAILED", "ABANDONED"}]
          /\ JobMatchesAudience' /\ \A b \in Audiences : audience[b] = "READY" => audience'[b] = "READY"
      <3>1. CASE job' = Finish(a, "READY") /\ audience' = [audience EXCEPT ![a] = "READY"]
        <4>1. /\ job' \in [Jobs -> JobType] /\ job'[a].state = "READY"
              /\ \A i \in Jobs \ {a} : job'[i] = job[i]
          <5>. PICK end \in {"READY", "FAILED"} : end = "READY"
            OBVIOUS
          <5>1. a \in Jobs /\ job' = Finish(a, end)
            BY <3>1, Names
          <5>. QED BY <1>0, <5>1, EndedRows
        <4>. QED BY <1>0, <3>1, <4>1, Names DEF TypeOK, PlanningInv, JobMatchesAudience
      <3>2. CASE job' = Progress(w, upto) /\ UNCHANGED audience
        <4>1. /\ job' \in [Jobs -> JobType]
              /\ \A j \in Jobs : job'[j].state = job[j].state /\ (j # a => job'[j] = job[j])
          BY <1>0, <3>2, JobRows
        <4>. QED BY <1>0, <3>2, <4>1, Names DEF TypeOK, PlanningInv, JobMatchesAudience
      <3>. QED BY <2>5, <3>1, <3>2
    <2>8. TypeOK'
      BY <1>0, <2>3, <2>6, <2>7 DEF TypeOK
    <2>9. \A u \in tasks' : u.job \in Phases => active # None
      BY <1>0 DEF PlanningInv, ActivationInv
    <2>10. active # None => member'[active] = member[active]
      BY <1>0, <2>3, <2>4 DEF TypeOK
    <2>. QED BY <1>0, <2>6, <2>7, <2>8, <2>9, <2>10, PlanKept DEF PlanningInv
  <1>. QED
    BY <1>1, <1>2

\* What ends a job with its revision, or leaves both, or ends a job that plans.
LEMMA EndingEffect ==
    ASSUME PlanningInv, NEW w \in Workers, work[w] # Idle,
           UNCHANGED <<Campaign, member, Outreach, sweep>>,
           tasks' \subseteq tasks,
           \/ work' = [work EXCEPT ![w] = Idle]
           \/ \E pc \in {"next", "failing"} : WentTo(w, pc),
           \/ UNCHANGED <<job, audience>>
           \/ \E a \in Audiences, end \in {"FAILED", "ABANDONED"} :
                 /\ audience[a] = "CAPTURING"
                 /\ job' = Finish(a, "FAILED") /\ audience' = [audience EXCEPT ![a] = end]
           \/ \E j \in Phases, end \in {"READY", "FAILED"} : job' = Finish(j, end) /\ UNCHANGED audience
           \/ work[w].task.job \in Phases /\ UNCHANGED audience
              /\ job' = Progress(w, job[work[w].task.job].cursor)
    PROVE  PlanningInv'
PROOF
  <1>0. UNCHANGED <<status, planned, draft, active, member, enrollment, message, sweep>> /\ TypeOK
    BY DEF Campaign, Outreach, PlanningInv
  <1>1. work' \in [Workers -> WorkType] /\ \A v \in Workers : WorkMoves(v)
    BY <1>0, WorkMoved
  <1>2. /\ job' \in [Jobs -> JobType] /\ job'["ENROLL"].cursor \in {0, job["ENROLL"].cursor}
        /\ audience' \in [Audiences -> {"NONE", "CAPTURING", "READY", "FAILED", "ABANDONED"}]
        /\ JobMatchesAudience' /\ \A b \in Audiences : audience[b] = "READY" => audience'[b] = "READY"
    <2>1. CASE UNCHANGED <<job, audience>>
      BY <1>0, <2>1 DEF TypeOK, PlanningInv, JobMatchesAudience
    <2>2. ASSUME NEW a \in Audiences, NEW end \in {"FAILED", "ABANDONED"}, audience[a] = "CAPTURING",
                 job' = Finish(a, "FAILED"), audience' = [audience EXCEPT ![a] = end]
          PROVE  <1>2!:
      <3>1. /\ job' \in [Jobs -> JobType] /\ job'[a].state = "FAILED"
            /\ \A i \in Jobs \ {a} : job'[i] = job[i]
        <4>. PICK how \in {"READY", "FAILED"} : how = "FAILED"
          OBVIOUS
        <4>1. a \in Jobs /\ job' = Finish(a, how)
          BY <2>2, Names
        <4>. QED BY <1>0, <4>1, EndedRows
      <3>2. /\ audience' \in [Audiences -> {"NONE", "CAPTURING", "READY", "FAILED", "ABANDONED"}]
            /\ audience'[a] = end /\ \A b \in Audiences \ {a} : audience'[b] = audience[b]
        BY <1>0, <2>2 DEF TypeOK
      <3>. QED BY <2>2, <3>1, <3>2, Names DEF PlanningInv, JobMatchesAudience
    <2>3. ASSUME NEW j \in Phases, NEW end \in {"READY", "FAILED"}, job' = Finish(j, end), UNCHANGED audience
          PROVE  <1>2!:
      <3>1. /\ job' \in [Jobs -> JobType] /\ job'[j].cursor = 0 /\ \A i \in Jobs \ {j} : job'[i] = job[i]
        <4>1. j \in Jobs
          BY Names
        <4>. QED BY <1>0, <2>3, <4>1, EndedRows
      <3>. QED BY <1>0, <2>3, <3>1, Names, ZenonT(60) DEF TypeOK, PlanningInv, JobMatchesAudience
    <2>4. CASE work[w].task.job \in Phases /\ UNCHANGED audience
               /\ job' = Progress(w, job[work[w].task.job].cursor)
      <3>. PICK j \in Phases : j = work[w].task.job
        BY <2>4
      <3>1. PICK n \in Nat : n = job[j].cursor
        BY <1>0, Names DEF TypeOK, JobType
      <3>2. /\ job' \in [Jobs -> JobType]
            /\ \A i \in Jobs : /\ job'[i].state = job[i].state /\ job'[i].cursor \in {job[i].cursor, n}
                               /\ i # j => job'[i] = job[i]
        BY <1>0, <2>4, <3>1, JobRows
      <3>. QED BY <1>0, <2>4, <3>1, <3>2, Names, ZenonT(60) DEF TypeOK, PlanningInv, JobMatchesAudience
    <2>. QED BY <2>1, <2>2, <2>3, <2>4
  <1>3. TypeOK'
    BY <1>0, <1>1, <1>2 DEF TypeOK
  <1>4. \A u \in tasks' : u.job \in Phases => active # None
    BY <1>0 DEF PlanningInv, ActivationInv
  <1>. QED
    BY <1>0, <1>1, <1>2, <1>3, <1>4, PlanKept DEF PlanningInv

\* A capture that is abandoned, a job that fails, a worker that errs or dies.
LEMMA EndingStep ==
    ASSUME PlanningInv, NEW w \in Workers, CommitAbandon(w) \/ Fail(w) \/ Error(w) \/ Crash(w)
    PROVE  PlanningInv'
PROOF
  <1>0. TypeOK /\ work[w] # Idle /\ tasks' = tasks /\ UNCHANGED <<Campaign, member, Outreach, sweep>>
    BY DEF CommitAbandon, Fail, Error, Crash, Idle, PlanningInv
  <1>. PICK j \in Jobs : j = work[w].task.job /\ (work[w].task.abandon => j \in Audiences)
    BY <1>0, Tasks
  <1>1. CASE Error(w) \/ Crash(w)
    <2>1. UNCHANGED <<job, audience>> /\ (WentTo(w, "failing") \/ work' = [work EXCEPT ![w] = Idle])
      BY <1>1 DEF Error, Crash
    <2>. QED BY <1>0, <2>1, EndingEffect
  <1>2. CASE CommitAbandon(w)
    <2>1. j \in Audiences
      BY <1>2 DEF CommitAbandon
    <2>2. CASE audience[j] = "CAPTURING"
      <3>1. /\ job' = Finish(j, "FAILED") /\ audience' = [audience EXCEPT ![j] = "ABANDONED"]
            /\ work' = [work EXCEPT ![w] = Idle]
        BY <1>2, <2>2 DEF CommitAbandon
      <3>. QED BY <1>0, <2>1, <2>2, <3>1, EndingEffect
    <2>3. CASE audience[j] # "CAPTURING"
      <3>1. WentTo(w, "failing") /\ UNCHANGED <<job, audience>>
        BY <1>2, <2>3 DEF CommitAbandon
      <3>. QED BY <1>0, <3>1, EndingEffect
    <2>. QED BY <2>2, <2>3
  <1>3. CASE Fail(w)
    <2>1. work' = [work EXCEPT ![w] = Idle]
      BY <1>3 DEF Fail
    <2>2. CASE j \in Audiences
      <3>1. FailCapture(j)
        BY <1>3, <2>2 DEF Fail
      <3>2. \/ UNCHANGED <<job, audience>>
            \/ /\ audience[j] = "CAPTURING"
               /\ job' = Finish(j, "FAILED") /\ audience' = [audience EXCEPT ![j] = "FAILED"]
        BY <3>1 DEF FailCapture
      <3>. QED BY <1>0, <2>1, <2>2, <3>2, EndingEffect
    <2>3. CASE j \notin Audiences
      <3>1. FailPlanning(j) /\ j \in Phases
        BY <1>3, <2>3, Names DEF Fail
      <3>. QED BY <1>0, <2>1, <3>1, EndingEffect DEF FailPlanning
    <2>. QED BY <2>2, <2>3
  <1>. QED
    BY <1>1, <1>2, <1>3

-----------------------------------------------------------------------------
(* Chunks of messages *)

\* The end of a chunk that changes emails: what the invariant asks of it, given that
\* the worker no longer holds its rows.
LEMMA OutreachKept ==
    ASSUME PlanningInv, TypeOK', JobMatchesAudience', active # None,
           UNCHANGED <<status, active, audience, member, tasks, sweep>>,
           NEW w \in Workers, work[w] # Idle, ~Reading(w, "RENDER")', ~Reading(w, "ENROLL")',
           WorkMoves(w), \A v \in Workers \ {w} : work'[v] = work[v],
           work'[w].pc \notin {"claimed", "read"},
           \A l \in Leads : /\ enrollment[l].state # "NONE" => enrollment'[l].state # "NONE"
                            /\ enrollment'[l].state # "NONE" => enrollment[l].state # "NONE" \/ l \in Accepted(active)
                            /\ Begun(l)' /\ Stepwise(l)',
           \A l \in sweep : Progressable(l)',
           \A v \in Workers \ {w} : Reading(v, "RENDER") => \A l \in work[v].rows : message'[l][1] = "PLANNED",
           planned' => \A l \in Accepted(active) : enrollment'[l].state # "NONE",
           EnrolledUpTo(job'["ENROLL"].cursor) \/ \A n \in Nat : n = job'["ENROLL"].cursor => EnrolledUpTo(n)'
    PROVE  PlanningInv'
PROOF
  <1>0. /\ TypeOK /\ ActivationInv /\ HoldInv /\ NobodyMissed /\ CursorInv
        /\ active \in Audiences /\ Accepted(active)' = Accepted(active) /\ Accepted(active) \subseteq Leads
    BY DEF PlanningInv, TypeOK, Accepted
  <1>1. BeginInv' /\ OneStepAtATime'
    BY DEF BeginInv, OneStepAtATime, Begun, Stepwise
  <1>2. ActivationInv'
    BY <1>0 DEF ActivationInv
  <1>3. HoldInv'
    <2>1. \A v \in Workers : Reading(v, "RENDER")' => v # w /\ Reading(v, "RENDER") /\ work'[v] = work[v]
      BY DEF Reading
    <2>. QED BY <1>0, <2>1 DEF HoldInv
  <1>4. NobodyMissed'
    <2>1. \A l \in Leads : enrollment'[l].state \notin {"NONE", "PASSED"} => message'[l][1] # "NONE"
      BY DEF Begun
    <2>2. planned' => \A l \in Accepted(active) : enrollment'[l].state # "NONE"
                       /\ (enrollment'[l].state # "PASSED" => message'[l][1] # "NONE")
      BY <1>0, <2>1
    <2>3. \A l \in Leads : enrollment'[l].state # "NONE" => audience'[active] = "READY" /\ l \in Accepted(active)
      BY <1>0 DEF NobodyMissed, ActivationInv
    <2>. QED BY <1>0, <2>2, <2>3 DEF NobodyMissed
  <1>5. CursorInv'
    <2>1. \A n \in Nat : EnrolledUpTo(n) => EnrolledUpTo(n)'
      BY <1>0 DEF EnrolledUpTo
    <2>2. job'["ENROLL"].cursor \in Nat
      BY Names DEF TypeOK, JobType
    <2>3. \A n \in Nat : n = job'["ENROLL"].cursor => EnrolledUpTo(n)'
      BY <2>1
    <2>4. \A v \in Workers, n \in Nat : work'[v].pc \in {"claimed", "read"} /\ work'[v].task.job = "ENROLL"
             /\ n = work'[v].cursor => EnrolledUpTo(n)'
      BY <1>0, <2>1 DEF CursorInv
    <2>5. \A v \in Workers : work'[v].pc \in {"claimed", "read"} => work'[v].cursor \in Nat
      BY DEF TypeOK, WorkType, Idle
    <2>6. ASSUME NEW v \in Workers, Reading(v, "ENROLL")'
          PROVE  /\ work'[v].rows \subseteq Accepted(active)
                 /\ \A l \in work'[v].rows : l <= work'[v].upto
                 /\ ~work'[v].full => \A l \in Accepted(active) : l <= work'[v].upto
      BY <1>0, <2>6 DEF Reading, CursorInv
    <2>. QED BY <1>0, <2>2, <2>3, <2>4, <2>5, <2>6 DEF CursorInv
  <1>. QED
    BY <1>1, <1>2, <1>3, <1>4, <1>5 DEF PlanningInv

\* Rendering gives the emails that are PLANNED their due times.
LEMMA CommitRenderStep ==
    ASSUME PlanningInv, NEW w \in Workers, CommitRender(w)
    PROVE  PlanningInv'
PROOF
  <1>0. /\ TypeOK /\ BeginInv /\ OneStepAtATime /\ HoldInv /\ ActivationInv /\ CursorInv /\ NobodyMissed
        /\ UNCHANGED <<status, planned, draft, active, audience, member, tasks, enrollment, sweep>>
        /\ work[w].pc = "read" /\ work[w].task.job = "RENDER" /\ Reading(w, "RENDER") /\ work[w] # Idle
    BY ReadType DEF CommitRender, Doing, Reading, Campaign, PlanningInv
  <1>. PICK rows \in SUBSET Leads : rows = work[w].rows
    BY <1>0, ReadType
  <1>1. active # None
    BY <1>0, Names DEF ActivationInv
  <1>2. /\ message' \in [Leads -> [Steps -> MessageStates]]
        /\ \A l \in rows : message[l][1] = "PLANNED" /\ message'[l] = [message[l] EXCEPT ![1] = "SCHEDULED"]
        /\ \A l \in Leads \ rows : message'[l] = message[l]
    <2>1. \A l \in Leads : [message[l] EXCEPT ![1] = "SCHEDULED"] \in [Steps -> MessageStates]
      BY <1>0 DEF TypeOK, MessageStates
    <2>2. message' = Rendered(rows)
      BY DEF CommitRender
    <2>. QED BY <1>0, <2>1, <2>2 DEF Rendered, TypeOK, HoldInv
  <1>3. \A l \in Leads, s \in Steps : /\ message'[l][s] \in {"NONE", "SENT", "FAILED"} \/ message[l][s] \in {"NONE", "SENT", "FAILED"}
                                            => message'[l][s] = message[l][s]
    <2>1. ASSUME NEW l \in Leads, NEW s \in Steps
          PROVE  message'[l][s] = message[l][s] \/ (message[l][s] = "PLANNED" /\ message'[l][s] = "SCHEDULED")
      <3>1. CASE l \in rows
        <4>1. message[l] \in [Steps -> MessageStates] /\ message[l][1] = "PLANNED"
              /\ message'[l] = [message[l] EXCEPT ![1] = "SCHEDULED"]
          BY <1>0, <1>2, <3>1 DEF TypeOK
        <4>. QED BY <4>1
      <3>2. CASE l \notin rows
        BY <1>2, <3>2
      <3>. QED BY <3>1, <3>2
    <2>. QED BY <2>1
  <1>4. /\ job' \in [Jobs -> JobType] /\ \A j \in Jobs \ {"RENDER"} : job'[j] = job[j]
        /\ work' = [work EXCEPT ![w] = Idle] \/ WentTo(w, "next")
    <2>1. CASE job' = Progress(w, job["RENDER"].cursor) /\ WentTo(w, "next")
      <3>1. PICK n \in Nat : n = job["RENDER"].cursor
        BY <1>0, Names DEF TypeOK, JobType
      <3>. QED BY <1>0, <2>1, <3>1, JobRows
    <2>2. CASE job' = Finish("RENDER", "READY") /\ work' = [work EXCEPT ![w] = Idle]
      <3>. PICK j \in Jobs, state \in {"READY", "FAILED"} : j = "RENDER" /\ state = "READY"
        BY Names
      <3>1. job' = Finish(j, state)
        BY <2>2
      <3>. QED BY <1>0, <2>2, <3>1, EndedRows
    <2>. QED BY <2>1, <2>2 DEF CommitRender
  <1>5. work' \in [Workers -> WorkType] /\ \A v \in Workers : WorkMoves(v)
    BY <1>0, <1>4, WorkMoved
  <1>6. /\ \A v \in Workers \ {w} : work'[v] = work[v]
        /\ work'[w].pc \notin {"claimed", "read"} /\ ~Reading(w, "RENDER")' /\ ~Reading(w, "ENROLL")'
    BY <1>0, <1>4 DEF TypeOK, WentTo, Reading, Idle
  <1>7. TypeOK'
    BY <1>0, <1>2, <1>4, <1>5 DEF TypeOK
  <1>8. JobMatchesAudience'
    BY <1>0, <1>4, Names DEF PlanningInv, JobMatchesAudience
  <1>9. ASSUME NEW l \in Leads PROVE Begun(l)' /\ Stepwise(l)'
    <2>1. Begun(l) /\ Stepwise(l)
      BY <1>0 DEF BeginInv, OneStepAtATime, Begun, Stepwise
    <2>2. \A s \in Steps : /\ (message'[l][s] = "NONE") <=> (message[l][s] = "NONE")
                           /\ (message'[l][s] = "SENT") <=> (message[l][s] = "SENT")
                           /\ (message'[l][s] = "FAILED") <=> (message[l][s] = "FAILED")
      BY <1>3
    <2>. QED BY <1>0, <2>1, <2>2, Numbers DEF Begun, Stepwise
  <1>10. \A l \in sweep : Progressable(l)'
    <2>1. \A l \in sweep : l \in Leads /\ Progressable(l)
      BY <1>0 DEF HoldInv, TypeOK
    <2>2. \A l \in sweep : enrollment[l].step \in Steps
      BY <1>0, <2>1 DEF BeginInv, Progressable
    <2>. QED BY <1>0, <1>3, <2>1, <2>2 DEF Progressable
  <1>11. \A v \in Workers \ {w} : Reading(v, "RENDER") => \A l \in work[v].rows : message'[l][1] = "PLANNED"
    <2>1. ASSUME NEW v \in Workers \ {w}, Reading(v, "RENDER") PROVE \A l \in work[v].rows : l \in Leads \ rows
      BY <1>0, <2>1, ReadType DEF Reading, HoldInv
    <2>. QED BY <1>0, <1>2, <2>1 DEF HoldInv
  <1>12. planned' => \A l \in Accepted(active) : enrollment'[l].state # "NONE"
    BY <1>0, <1>1 DEF CursorInv
  <1>13. \A n \in Nat : n = job'["ENROLL"].cursor => EnrolledUpTo(n)'
    BY <1>0, <1>1, <1>4, Names DEF CursorInv, EnrolledUpTo, Accepted
  <1>. QED
    BY <1>0, <1>1, <1>5, <1>6, <1>7, <1>8, <1>9, <1>10, <1>11, <1>12, <1>13, OutreachKept

\* What a chunk of the enrollment writes of one lead: the enrollment with its first
\* email, nothing, or that it was passed over.
LEMMA EnrolledLead ==
    ASSUME TypeOK, BeginInv, NEW rows \in SUBSET Leads, NEW over \in SUBSET Leads, over \cap rows = {},
           enrollment' = [l \in Leads |-> IF l \in over /\ enrollment[l].state = "NONE"
                            THEN [state |-> "PASSED", step |-> 0] ELSE Enrolled(rows)[l]],
           message' = FirstMessages(rows), NEW l \in Leads
    PROVE  /\ enrollment'[l] \in EnrollmentType /\ message'[l] \in [Steps -> MessageStates]
           /\ \/ /\ l \in rows /\ enrollment'[l] = [state |-> "ACTIVE", step |-> 1]
                 /\ enrollment[l].state \in {"NONE", "PASSED"}
                 /\ \A s \in Steps : message[l][s] = "NONE" /\ message'[l][s] = IF s = 1 THEN "PLANNED" ELSE "NONE"
              \/ /\ enrollment'[l] = enrollment[l] /\ message'[l] = message[l]
                 /\ l \in over \union rows => enrollment[l].state # "NONE"
              \/ /\ l \in over /\ enrollment'[l] = [state |-> "PASSED", step |-> 0]
                 /\ enrollment[l].state = "NONE" /\ message'[l] = message[l]
PROOF
  <1>1. enrollment[l] \in EnrollmentType /\ message[l] \in [Steps -> MessageStates]
    BY DEF TypeOK
  <1>2. /\ enrollment[l].state \in {"NONE", "PASSED"} => \A s \in Steps : message[l][s] = "NONE"
        /\ enrollment[l].state \notin {"NONE", "PASSED"} => message[l][1] # "NONE"
    BY DEF BeginInv
  <1>3. message'[l] = IF l \in rows /\ message[l][1] = "NONE" THEN [message[l] EXCEPT ![1] = "PLANNED"] ELSE message[l]
    BY DEF FirstMessages
  <1>4. Enrolled(rows)[l] = IF l \in rows /\ enrollment[l].state \in {"NONE", "PASSED"}
                            THEN [state |-> "ACTIVE", step |-> 1] ELSE enrollment[l]
    BY DEF Enrolled
  <1>5. [state |-> "ACTIVE", step |-> 1] \in EnrollmentType /\ [state |-> "PASSED", step |-> 0] \in EnrollmentType
    BY Numbers DEF EnrollmentType
  <1>6. CASE l \in rows /\ enrollment[l].state \in {"NONE", "PASSED"}
    <2>1. enrollment'[l] = [state |-> "ACTIVE", step |-> 1]
      BY <1>4, <1>6
    <2>2. message'[l] = [message[l] EXCEPT ![1] = "PLANNED"]
      BY <1>2, <1>3, <1>6, Numbers
    <2>3. message'[l] \in [Steps -> MessageStates] /\ \A s \in Steps : message'[l][s] = IF s = 1 THEN "PLANNED" ELSE message[l][s]
      BY <1>1, <2>2 DEF MessageStates
    <2>. QED BY <1>2, <1>5, <1>6, <2>1, <2>3
  <1>7. CASE l \in rows /\ enrollment[l].state \notin {"NONE", "PASSED"}
    BY <1>1, <1>2, <1>3, <1>4, <1>7
  <1>8. CASE l \notin rows /\ l \in over /\ enrollment[l].state = "NONE"
    BY <1>1, <1>3, <1>5, <1>8
  <1>9. CASE l \notin rows /\ ~(l \in over /\ enrollment[l].state = "NONE")
    BY <1>1, <1>3, <1>4, <1>9
  <1>. QED
    BY <1>6, <1>7, <1>8, <1>9

\* A chunk of the enrollment: the members it read enter with their first email, those
\* it leaves out behind its last ordinal are passed over, and so nobody is missed.
LEMMA CommitEnrollStep ==
    ASSUME PlanningInv, NEW w \in Workers, CommitEnroll(w)
    PROVE  PlanningInv'
PROOF
  <1>0. /\ TypeOK /\ BeginInv /\ OneStepAtATime /\ HoldInv /\ ActivationInv /\ CursorInv /\ NobodyMissed
        /\ UNCHANGED <<status, future, draft, active, audience, member, tasks, suppressed, sweep>>
        /\ work[w].pc = "read" /\ work[w].task.job = "ENROLL" /\ Reading(w, "ENROLL") /\ work[w] # Idle
        /\ work[w].rows \in SUBSET Leads /\ work[w].cursor \in Nat /\ work[w].upto \in Nat
    BY ReadType DEF CommitEnroll, Doing, Reading, PlanningInv
  <1>1. active # None /\ active \in Audiences
    BY <1>0, Names DEF ActivationInv, TypeOK
  <1>2. CASE ~WithinTotal(work[w].upto)
    <2>1. WentTo(w, "failing") /\ UNCHANGED <<enrollment, message, job, planned>>
      BY <1>2 DEF CommitEnroll
    <2>. QED BY <1>0, <2>1, EndingEffect DEF Campaign, Outreach
  <1>3. CASE WithinTotal(work[w].upto)
    <2>. PICK rows \in SUBSET Leads, cursor \in Nat, upto \in Nat :
            rows = work[w].rows /\ cursor = work[w].cursor /\ upto = work[w].upto
      BY <1>0
    <2>. DEFINE over == {l \in Accepted(active) : cursor < l /\ l <= upto} \ rows
    <2>1. /\ enrollment' = [l \in Leads |-> IF l \in over /\ enrollment[l].state = "NONE"
                              THEN [state |-> "PASSED", step |-> 0] ELSE Enrolled(rows)[l]]
          /\ message' = FirstMessages(rows)
          /\ \/ work[w].full /\ job' = Progress(w, upto) /\ WentTo(w, "next") /\ UNCHANGED planned
             \/ ~work[w].full /\ CompleteEnroll /\ WentTo(w, "render")
      BY <1>3 DEF CommitEnroll
    <2>2. /\ over \in SUBSET Leads /\ over \cap rows = {} /\ over \subseteq Accepted(active)
          /\ rows \subseteq Accepted(active)
          /\ EnrolledUpTo(cursor)
          /\ ~work[w].full => \A l \in Accepted(active) : l <= upto
      BY <1>0, <1>1 DEF CursorInv, Accepted
    <2>3. \A l \in Accepted(active) : l \in Nat /\ (l <= upto => l <= cursor \/ l \in over \union rows)
      BY Numbers DEF Accepted
    <2>. HIDE DEF over
    <2>4. \A l \in Leads :
           /\ enrollment'[l] \in EnrollmentType /\ message'[l] \in [Steps -> MessageStates]
           /\ \/ /\ l \in rows /\ enrollment'[l] = [state |-> "ACTIVE", step |-> 1]
                 /\ enrollment[l].state \in {"NONE", "PASSED"}
                 /\ \A s \in Steps : message[l][s] = "NONE" /\ message'[l][s] = IF s = 1 THEN "PLANNED" ELSE "NONE"
              \/ /\ enrollment'[l] = enrollment[l] /\ message'[l] = message[l]
                 /\ l \in over \union rows => enrollment[l].state # "NONE"
              \/ /\ l \in over /\ enrollment'[l] = [state |-> "PASSED", step |-> 0]
                 /\ enrollment[l].state = "NONE" /\ message'[l] = message[l]
      BY <1>0, <2>1, <2>2, EnrolledLead
    <2>5. enrollment' \in [Leads -> EnrollmentType] /\ message' \in [Leads -> [Steps -> MessageStates]]
      BY <2>1, <2>4 DEF FirstMessages
    <2>6. /\ job' \in [Jobs -> JobType] /\ \A a \in Audiences : job'[a] = job[a]
          /\ job'["ENROLL"].cursor \in {0, job["ENROLL"].cursor, upto}
          /\ WentTo(w, "next") \/ WentTo(w, "render")
      <3>1. CASE job' = Progress(w, upto) /\ WentTo(w, "next")
        <4>1. /\ \A j \in Jobs : job'[j].cursor = job[j].cursor \/ job'[j].cursor = upto
              /\ \A j \in Jobs : j # "ENROLL" => job'[j] = job[j]
          BY <1>0, <3>1, JobRows
        <4>2. job' \in [Jobs -> JobType]
          BY <1>0, <3>1, JobRows
        <4>3. "ENROLL" \in Jobs /\ \A a \in Audiences : a \in Jobs /\ a # "ENROLL"
          BY Names
        <4>4. \A a \in Audiences : job'[a] = job[a]
          BY <4>1, <4>3
        <4>5. job'["ENROLL"].cursor = job["ENROLL"].cursor \/ job'["ENROLL"].cursor = upto
          BY <4>1, <4>3
        <4>. QED BY <3>1, <4>2, <4>4, <4>5
      <3>2. CASE CompleteEnroll /\ WentTo(w, "render")
        <4>. PICK j \in Jobs, state \in {"READY", "FAILED"} : j = "ENROLL" /\ state = "READY"
          BY Names
        <4>1. job' = Finish(j, state)
          BY <3>2 DEF CompleteEnroll
        <4>2. /\ job' \in [Jobs -> JobType] /\ job'[j].cursor = 0
              /\ \A i \in Jobs \ {j} : job'[i] = job[i]
          BY <1>0, <4>1, EndedRows
        <4>. QED BY <3>2, <4>2, Names
      <3>. QED BY <2>1, <3>1, <3>2
    <2>7. work' \in [Workers -> WorkType] /\ \A v \in Workers : WorkMoves(v)
      BY <1>0, <2>6, WorkMoved, Names
    <2>8. /\ \A v \in Workers \ {w} : work'[v] = work[v]
          /\ work'[w].pc \notin {"claimed", "read"} /\ ~Reading(w, "RENDER")' /\ ~Reading(w, "ENROLL")'
      BY <1>0, <2>6 DEF TypeOK, WentTo, Reading
    <2>9. planned' \in BOOLEAN
      BY <1>0, <2>1 DEF CompleteEnroll, TypeOK
    <2>10. TypeOK'
      BY <1>0, <2>5, <2>6, <2>7, <2>9 DEF TypeOK
    <2>11. JobMatchesAudience'
      BY <1>0, <2>6 DEF PlanningInv, JobMatchesAudience
    <2>12. ASSUME NEW l \in Leads
           PROVE  /\ enrollment[l].state # "NONE" => enrollment'[l].state # "NONE"
                  /\ enrollment'[l].state # "NONE" => enrollment[l].state # "NONE" \/ l \in Accepted(active)
                  /\ Begun(l)' /\ Stepwise(l)'
      <3>1. Begun(l) /\ Stepwise(l)
        BY <1>0 DEF BeginInv, OneStepAtATime, Begun, Stepwise
      <3>2. CASE /\ l \in rows /\ enrollment'[l] = [state |-> "ACTIVE", step |-> 1]
                 /\ enrollment[l].state \in {"NONE", "PASSED"}
                 /\ \A s \in Steps : message[l][s] = "NONE" /\ message'[l][s] = IF s = 1 THEN "PLANNED" ELSE "NONE"
        <4>1. \A s \in Steps : s \in Nat \ {0} /\ message'[l][s] = IF s = 1 THEN "PLANNED" ELSE "NONE"
          BY <3>2, Numbers
        <4>2. Begun(l)' /\ Stepwise(l)'
          BY <3>2, <4>1, Numbers DEF Begun, Stepwise
        <4>. QED BY <2>2, <3>2, <4>2
      <3>3. CASE enrollment'[l] = enrollment[l] /\ message'[l] = message[l]
        BY <3>1, <3>3 DEF Begun, Stepwise
      <3>4. CASE /\ l \in over /\ enrollment'[l] = [state |-> "PASSED", step |-> 0]
                 /\ enrollment[l].state = "NONE" /\ message'[l] = message[l]
        BY <2>2, <3>1, <3>4 DEF Begun, Stepwise
      <3>. QED BY <2>4, <3>2, <3>3, <3>4
    <2>13. \A l \in sweep : Progressable(l)'
      <3>1. \A l \in sweep : l \in Leads /\ Progressable(l)
        BY <1>0 DEF HoldInv, TypeOK
      <3>2. \A l \in sweep : enrollment'[l] = enrollment[l] /\ message'[l] = message[l]
        BY <2>4, <3>1 DEF Progressable
      <3>. QED BY <3>1, <3>2 DEF Progressable
    <2>14. ASSUME NEW v \in Workers \ {w}, Reading(v, "RENDER"), NEW l \in work[v].rows
           PROVE  message'[l][1] = "PLANNED"
      <3>1. l \in Leads /\ message[l][1] = "PLANNED"
        BY <1>0, <2>14, ReadType DEF HoldInv, Reading
      <3>. QED BY <2>4, <3>1, Numbers
    <2>15. ASSUME NEW l \in Accepted(active), l <= upto PROVE enrollment'[l].state # "NONE"
      <3>1. l \in Leads /\ (l <= cursor \/ l \in over \union rows)
        BY <2>3, <2>15 DEF Accepted
      <3>2. CASE l <= cursor
        BY <2>2, <2>12, <3>1, <3>2 DEF EnrolledUpTo
      <3>3. CASE l \in over \union rows
        BY <2>4, <3>1, <3>3
      <3>. QED BY <3>1, <3>2, <3>3
    <2>16. planned' => \A l \in Accepted(active) : enrollment'[l].state # "NONE"
      <3>1. CASE UNCHANGED planned
        BY <1>0, <1>1, <2>12, <3>1 DEF CursorInv, Accepted
      <3>2. CASE ~work[w].full
        BY <2>2, <2>15, <3>2
      <3>. QED BY <2>1, <3>1, <3>2
    <2>17. \A n \in Nat : n = job'["ENROLL"].cursor => EnrolledUpTo(n)'
      <3>0. Accepted(active)' = Accepted(active)
        BY <1>0 DEF Accepted
      <3>1. CASE job'["ENROLL"].cursor = 0
        BY <3>1, Numbers DEF EnrolledUpTo
      <3>2. CASE job'["ENROLL"].cursor = job["ENROLL"].cursor
        BY <1>0, <1>1, <2>12, <3>0, <3>2 DEF CursorInv, EnrolledUpTo
      <3>3. CASE job'["ENROLL"].cursor = upto
        BY <2>15, <3>0, <3>3 DEF EnrolledUpTo
      <3>. QED BY <2>6, <3>1, <3>2, <3>3
    <2>. QED
      BY <1>0, <1>1, <2>7, <2>8, <2>10, <2>11, <2>12, <2>13, <2>14, <2>16, <2>17, OutreachKept
  <1>. QED
    BY <1>2, <1>3

\* A task queues itself again, or the first task that renders.
LEMMA ContinueStep ==
    ASSUME PlanningInv, NEW w \in Workers, Continue(w)
    PROVE  PlanningInv'
PROOF
  <1>0. /\ UNCHANGED <<status, planned, draft, active, audience, member, job, enrollment, message, sweep>>
        /\ TypeOK /\ work[w].pc \in {"next", "render"} /\ work[w] # Idle /\ work' = [work EXCEPT ![w] = Idle]
    BY DEF Continue, Campaign, Outreach, PlanningInv, Idle
  <1>1. work[w].task \in TaskType
    BY <1>0, Tasks
  <1>2. PICK t \in TaskType : /\ tasks' = tasks \union {t}
                              /\ t = work[w].task \/ work[w].pc = "render"
    <2>1. CASE work[w].pc = "next" /\ tasks' = tasks \union {work[w].task}
      BY <1>1, <2>1
    <2>2. CASE work[w].pc = "render" /\ FreshIds("RENDER") # {}
               /\ tasks' = tasks \union {Task("RENDER", Min(FreshIds("RENDER")))}
      <3>. PICK j \in Jobs : j = "RENDER"
        BY Names
      <3>1. Min(FreshIds(j)) \in Ids
        BY <2>2, FreshName
      <3>. PICK n \in Ids : n = Min(FreshIds(j))
        BY <3>1
      <3>2. Task(j, n) \in TaskType
        BY DEF Task, TaskType
      <3>. QED BY <2>2, <3>2
    <2>. QED BY <2>1, <2>2 DEF Continue
  <1>3. TypeOK' /\ \A v \in Workers : WorkMoves(v)
    <2>1. work' \in [Workers -> WorkType] /\ \A v \in Workers : WorkMoves(v)
      BY <1>0, WorkMoved
    <2>. QED BY <1>0, <1>2, <2>1 DEF TypeOK
  <1>4. JobMatchesAudience'
    BY <1>0 DEF PlanningInv, JobMatchesAudience
  <1>5. \A u \in tasks' : u.job \in Phases => active # None
    <2>1. \A u \in tasks : u.job \in Phases => active # None
      BY DEF PlanningInv, ActivationInv
    <2>2. CASE t = work[w].task
      BY <1>0, <1>2, <2>1, <2>2 DEF PlanningInv, ActivationInv
    <2>3. CASE work[w].pc = "render"
      <3>. QED BY <1>0, <1>2, <2>1, <2>3 DEF PlanningInv, ActivationInv
    <2>. QED BY <1>2, <2>2, <2>3
  <1>. QED
    BY <1>0, <1>3, <1>4, <1>5, PlanKept DEF PlanningInv

\* A lease runs out.
LEMMA ExpireStep ==
    ASSUME PlanningInv, NEW j \in Jobs, Expire(j)
    PROVE  PlanningInv'
PROOF
  <1>0. /\ UNCHANGED <<status, planned, draft, active, audience, member, tasks, work, enrollment, message, sweep>>
        /\ TypeOK
    BY DEF Expire, Campaign, Outreach, PlanningInv
  <1>1. PICK r : r = [job[j] EXCEPT !.live = FALSE]
    OBVIOUS
  <1>2. r \in JobType /\ r.state = job[j].state /\ r.cursor = job[j].cursor
    BY <1>0, <1>1 DEF TypeOK, JobType
  <1>3. job' = [job EXCEPT ![j] = r]
    BY <1>0, <1>1 DEF Expire, TypeOK
  <1>4. /\ job' \in [Jobs -> JobType]
        /\ \A i \in Jobs : job'[i].state = job[i].state /\ job'[i].cursor = job[i].cursor
    BY <1>0, <1>2, <1>3 DEF TypeOK
  <1>5. TypeOK' /\ JobMatchesAudience'
    BY <1>0, <1>4, Names DEF TypeOK, PlanningInv, JobMatchesAudience
  <1>6. (\A v \in Workers : WorkMoves(v)) /\ \A u \in tasks' : u.job \in Phases => active # None
    BY <1>0 DEF WorkMoves, PlanningInv, ActivationInv
  <1>. QED
    BY <1>0, <1>4, <1>5, <1>6, Names, PlanKept DEF PlanningInv

-----------------------------------------------------------------------------
(* The sequence under way *)

\* An email under way that gets another state keeps the order of the emails.
LEMMA EmailMoves ==
    ASSUME PlanningInv, NEW l \in Leads, NEW s \in Steps, NEW o \in {"SENDING", "SKIPPED", "SENT", "FAILED"},
           message[l][s] \in {"SCHEDULED", "SENDING"}, message' = [message EXCEPT ![l][s] = o],
           UNCHANGED <<Campaign, audience, member, job, tasks, work, suppressed, enrollment, sweep>>
    PROVE  PlanningInv'
PROOF
  <1>0. /\ TypeOK /\ BeginInv /\ OneStepAtATime /\ HoldInv
        /\ UNCHANGED <<status, planned, draft, active, audience, member, job, tasks, work, enrollment, sweep>>
    BY DEF PlanningInv, Campaign
  <1>1. /\ message' \in [Leads -> [Steps -> MessageStates]] /\ message'[l][s] = o
        /\ \A t \in Steps \ {s} : message'[l][t] = message[l][t]
        /\ \A k \in Leads \ {l} : message'[k] = message[k]
    <2>1. message[l] \in [Steps -> MessageStates] /\ o \in MessageStates
      BY <1>0 DEF TypeOK, MessageStates
    <2>2. PICK row : row = [message[l] EXCEPT ![s] = o]
      OBVIOUS
    <2>3. row \in [Steps -> MessageStates] /\ row[s] = o /\ \A t \in Steps \ {s} : row[t] = message[l][t]
      BY <2>1, <2>2
    <2>4. message' = [message EXCEPT ![l] = row]
      BY <1>0, <2>2 DEF TypeOK
    <2>. QED BY <1>0, <2>3, <2>4 DEF TypeOK
  <1>2. TypeOK'
    BY <1>0, <1>1 DEF TypeOK
  <1>3. Begun(l) /\ Stepwise(l)
    BY <1>0 DEF BeginInv, OneStepAtATime, Begun, Stepwise
  <1>4. \A t \in Steps : t \in Nat /\ (message'[l][t] = "NONE" <=> message[l][t] = "NONE")
    BY <1>1, Numbers
  <1>5. Begun(l)'
    BY <1>0, <1>3, <1>4, Numbers DEF Begun
  <1>6. Stepwise(l)'
    <2>1. \A t \in Steps : message[l][t] = "SENT" => message'[l][t] = "SENT"
      BY <1>1
    <2>2. \A t \in Steps : message[l][t] = "FAILED" => message'[l][t] = "FAILED"
      BY <1>1
    <2>3. \A r, t \in Steps : r < t /\ message'[l][t] # "NONE" => message'[l][r] = "SENT"
      BY <1>3, <1>4, <2>1 DEF Stepwise
    <2>. QED BY <1>0, <1>3, <1>4, <2>1, <2>2, <2>3 DEF Stepwise
  <1>7. \A k \in sweep' : Progressable(k)'
    <2>1. \A k \in sweep : k \in Leads /\ Progressable(k) /\ enrollment[k].step \in Steps
      BY <1>0 DEF TypeOK, HoldInv, BeginInv, Progressable
    <2>2. \A k \in sweep : message'[k][enrollment[k].step] = message[k][enrollment[k].step]
      BY <1>1, <2>1 DEF Progressable
    <2>. QED BY <1>0, <2>1, <2>2 DEF Progressable
  <1>8. \A w \in Workers : Reading(w, "RENDER") /\ l \in work[w].rows => message'[l][1] = message[l][1]
    BY <1>0, <1>1, Numbers DEF HoldInv
  <1>. QED
    BY <1>0, <1>1, <1>2, <1>5, <1>6, <1>7, <1>8, SequenceKept

\* A stop reaches a lead whose rows nobody holds.
LEMMA StopStep ==
    ASSUME PlanningInv, NEW l \in Leads, Stop(l)
    PROVE  PlanningInv'
PROOF
  <1>0. /\ TypeOK /\ BeginInv /\ OneStepAtATime /\ HoldInv
        /\ UNCHANGED <<status, planned, draft, active, audience, member, job, tasks, work, sweep>>
        /\ enrollment[l].state = "ACTIVE" /\ l \notin sweep /\ l \notin Locked
        /\ UNCHANGED Campaign
    BY DEF PlanningInv, Campaign, Stop
  <1>1. enrollment' \in [Leads -> EnrollmentType] /\ enrollment'[l].state = "STOPPED"
        /\ \A k \in Leads \ {l} : enrollment'[k] = enrollment[k]
    <2>1. [state |-> "STOPPED", step |-> 0] \in EnrollmentType
      BY DEF EnrollmentType
    <2>. QED BY <1>0, <2>1 DEF Stop, TypeOK
  <1>2. /\ message' \in [Leads -> [Steps -> MessageStates]] /\ \A k \in Leads \ {l} : message'[k] = message[k]
        /\ \A s \in Steps : message'[l][s] = IF message[l][s] \in {"PLANNED", "SCHEDULED"} THEN "SKIPPED" ELSE message[l][s]
    <2>1. message[l] \in [Steps -> MessageStates]
      BY <1>0 DEF TypeOK
    <2>2. PICK row : row = [s \in Steps |-> IF message[l][s] \in {"PLANNED", "SCHEDULED"} THEN "SKIPPED" ELSE message[l][s]]
      OBVIOUS
    <2>3. row \in [Steps -> MessageStates]
      BY <2>1, <2>2 DEF MessageStates
    <2>4. message' = [message EXCEPT ![l] = row]
      BY <1>0, <2>2 DEF Stop, TypeOK
    <2>. QED BY <1>0, <2>2, <2>3, <2>4 DEF TypeOK
  <1>3. TypeOK'
    BY <1>0, <1>1, <1>2 DEF TypeOK
  <1>4. Begun(l) /\ Stepwise(l)
    BY <1>0 DEF BeginInv, OneStepAtATime, Begun, Stepwise
  <1>5. \A s \in Steps : /\ message'[l][s] = "NONE" <=> message[l][s] = "NONE"
                         /\ message'[l][s] = "SENT" <=> message[l][s] = "SENT"
    BY <1>2
  <1>6. Begun(l)' /\ Stepwise(l)'
    BY <1>0, <1>1, <1>4, <1>5, Numbers DEF Begun, Stepwise
  <1>7. \A k \in sweep' : Progressable(k)'
    BY <1>0, <1>1, <1>2 DEF TypeOK, HoldInv, Progressable
  <1>8. \A w \in Workers : Reading(w, "RENDER") => l \notin work[w].rows
    BY <1>0 DEF Locked, Doing, Reading
  <1>. QED
    BY <1>0, <1>1, <1>2, <1>3, <1>6, <1>7, <1>8, SequenceKept

\* A suppression changes, or a progression transaction locks an enrollment that is
\* progressable.
LEMMA LookStep ==
    ASSUME PlanningInv, NEW l \in Leads, ChangeSuppression(l) \/ BeginSweep(l)
    PROVE  PlanningInv'
PROOF
  <1>0. /\ TypeOK /\ BeginInv /\ OneStepAtATime /\ HoldInv
        /\ UNCHANGED <<status, planned, draft, active, audience, member, job, tasks, work, enrollment, message>>
        /\ UNCHANGED Campaign /\ sweep' \subseteq sweep \union {l} /\ (sweep' # sweep => Progressable(l))
    BY DEF PlanningInv, Campaign, Outreach, ChangeSuppression, BeginSweep
  <1>1. TypeOK'
    BY <1>0 DEF TypeOK
  <1>2. Begun(l)' /\ Stepwise(l)'
    BY <1>0 DEF BeginInv, OneStepAtATime, Begun, Stepwise
  <1>3. \A k \in sweep' : Progressable(k)'
    BY <1>0 DEF HoldInv, Progressable
  <1>. QED
    BY <1>0, <1>1, <1>2, <1>3, SequenceKept

\* The progression of an enrollment it locked: its current email was accepted, and so
\* were those before; the next one is the first that is not planned.
LEMMA EndSweepStep ==
    ASSUME PlanningInv, NEW l \in Leads, EndSweep(l)
    PROVE  PlanningInv'
PROOF
  <1>0. /\ TypeOK /\ BeginInv /\ OneStepAtATime /\ HoldInv
        /\ UNCHANGED <<status, planned, draft, active, audience, member, job, tasks, work>>
        /\ UNCHANGED Campaign /\ l \in sweep /\ sweep' = sweep \ {l}
    BY DEF PlanningInv, Campaign, EndSweep
  <1>. PICK step \in Steps : step = enrollment[l].step
    BY <1>0 DEF HoldInv, Progressable, BeginInv
  <1>1. enrollment[l].state = "ACTIVE" /\ message[l][step] \in {"SENT", "FAILED"} /\ Begun(l) /\ Stepwise(l)
    BY <1>0 DEF HoldInv, Progressable, BeginInv, OneStepAtATime, Begun, Stepwise
  <1>2. step \in Nat /\ step >= 1 /\ step <= NumSteps /\ NumSteps \in Nat /\ \A s \in Steps : s \in Nat
    BY Numbers DEF Steps
  <1>3. \A s \in Steps : (message[l][s] # "NONE" <=> s <= step) /\ (s < step => message[l][s] = "SENT")
    BY <1>1, <1>2 DEF Stepwise
  <1>4. enrollment[l] \in EnrollmentType /\ message[l] \in [Steps -> MessageStates]
    BY <1>0 DEF TypeOK
  <1>5. SUFFICES /\ enrollment' \in [Leads -> EnrollmentType] /\ message' \in [Leads -> [Steps -> MessageStates]]
                 /\ \A k \in Leads \ {l} : enrollment'[k] = enrollment[k] /\ message'[k] = message[k]
                 /\ enrollment'[l].state \notin {"NONE", "PASSED"} /\ message'[l][1] = message[l][1]
                 /\ enrollment'[l].state = "ACTIVE" => enrollment'[l].step \in Steps
                 /\ Stepwise(l)'
    <2>1. TypeOK'
      BY <1>0, <1>5 DEF TypeOK
    <2>2. message[l][1] # "NONE"
      BY <1>1 DEF Begun
    <2>3. Begun(l)'
      BY <1>5, <2>2 DEF Begun
    <2>4. \A k \in sweep' : Progressable(k)'
      BY <1>0, <1>5 DEF TypeOK, HoldInv, Progressable
    <2>. QED BY <1>0, <1>1, <1>5, <2>1, <2>3, <2>4, SequenceKept
  <1>6. ASSUME NEW state \in {"FAILED", "COMPLETED"}, End(l, state), state = "FAILED" => message[l][step] = "FAILED",
               state = "COMPLETED" => message[l][step] = "SENT" /\ step = NumSteps
        PROVE  <1>5!1
    <2>1. [state |-> state, step |-> 0] \in EnrollmentType
      BY DEF EnrollmentType
    <2>2. /\ enrollment' \in [Leads -> EnrollmentType] /\ enrollment'[l].state = state /\ message' = message
          /\ \A k \in Leads \ {l} : enrollment'[k] = enrollment[k]
      BY <1>0, <1>6, <2>1 DEF End, TypeOK
    <2>3. state = "COMPLETED" => \A s \in Steps : message[l][s] = "SENT"
      <3>1. \A s \in Steps : s < NumSteps \/ s = NumSteps
        BY Numbers DEF Steps
      <3>2. CASE step = NumSteps /\ message[l][step] = "SENT"
        BY <1>3, <3>1, <3>2
      <3>. QED BY <1>6, <3>2
    <2>4. Stepwise(l)'
      BY <1>1, <1>6, <2>2, <2>3 DEF Stepwise
    <2>. QED BY <1>0, <2>2, <2>4 DEF TypeOK
  <1>7. CASE UNCHANGED Outreach
    BY <1>0, <1>1, <1>7 DEF Outreach, TypeOK, Stepwise
  <1>8. CASE PlanFollowUp(l)
    <2>. PICK next \in Steps : next = step + 1
      BY <1>2, <1>8 DEF PlanFollowUp, Steps
    <2>1. message[l][step] = "SENT" /\ FollowUp(l, next) /\ Advance(l, next) /\ next \in Nat /\ next # 1
      BY <1>1, <1>2, <1>8 DEF PlanFollowUp, Current
    <2>2. message[l][next] = "NONE"
      BY <1>2, <1>3
    <2>3. PICK row : row = [message[l] EXCEPT ![next] = "SCHEDULED"]
      OBVIOUS
    <2>4. message' = [message EXCEPT ![l] = row]
      BY <1>0, <2>1, <2>2, <2>3 DEF FollowUp, TypeOK
    <2>5. row \in [Steps -> MessageStates] /\ row[next] = "SCHEDULED" /\ \A s \in Steps \ {next} : row[s] = message[l][s]
      BY <1>4, <2>3 DEF MessageStates
    <2>6. PICK e : e = [enrollment[l] EXCEPT !.step = next]
      OBVIOUS
    <2>7. e \in EnrollmentType /\ e.state = "ACTIVE" /\ e.step = next
      BY <1>1, <1>4, <2>6 DEF EnrollmentType
    <2>8. enrollment' = [enrollment EXCEPT ![l] = e]
      BY <1>0, <2>1, <2>6 DEF Advance, TypeOK
    <2>9. /\ message' \in [Leads -> [Steps -> MessageStates]] /\ message'[l] = row
          /\ enrollment' \in [Leads -> EnrollmentType] /\ enrollment'[l] = e
          /\ \A k \in Leads \ {l} : enrollment'[k] = enrollment[k] /\ message'[k] = message[k]
      BY <1>0, <2>4, <2>5, <2>7, <2>8 DEF TypeOK
    <2>10. \A s \in Steps : /\ row[s] # "NONE" <=> s <= next
                            /\ s < next => row[s] = "SENT"
      <3>1. ASSUME NEW s \in Steps PROVE (row[s] # "NONE" <=> s <= next) /\ (s < next => row[s] = "SENT")
        <4>1. CASE s = next
          BY <1>2, <2>5, <4>1
        <4>2. CASE s # next
          <5>1. s \in Nat /\ step \in Nat /\ next = step + 1
            BY <1>2
          <5>2. (s <= next <=> s <= step) /\ (s < next <=> s = step \/ s < step)
            BY <4>2, <5>1
          <5>3. row[s] = message[l][s]
            BY <2>5, <4>2
          <5>. QED BY <1>3, <2>1, <5>2, <5>3
        <4>. QED BY <4>1, <4>2
      <3>. QED BY <3>1
    <2>11. \A r, t \in Steps : r < t /\ t <= next => r < next
      BY <1>2
    <2>12. Stepwise(l)'
      BY <2>7, <2>9, <2>10, <2>11 DEF Stepwise
    <2>. QED BY <2>1, <2>5, <2>7, <2>9, <2>12, Numbers
  <1>9. PICK failed \in {"FAILED", "COMPLETED"}, completed \in {"FAILED", "COMPLETED"} :
          failed = "FAILED" /\ completed = "COMPLETED"
    OBVIOUS
  <1>10. CASE FailEnrollment(l)
    <2>1. End(l, failed) /\ message[l][step] = "FAILED"
      BY <1>9, <1>10 DEF FailEnrollment, Current
    <2>. QED BY <1>6, <1>9, <2>1
  <1>11. CASE CompleteEnrollment(l)
    <2>1. End(l, completed) /\ message[l][step] = "SENT" /\ step = NumSteps
      BY <1>1, <1>9, <1>11 DEF CompleteEnrollment, Current
    <2>. QED BY <1>6, <1>9, <2>1
  <1>. QED
    BY <1>7, <1>8, <1>10, <1>11 DEF EndSweep, LeaveWaiting

-----------------------------------------------------------------------------
(* The theorems *)

\* Nothing was selected, planned or sent at the beginning.
LEMMA Begin == Init => PlanningInv
PROOF
  <1>. SUFFICES ASSUME Init PROVE PlanningInv
    OBVIOUS
  <1>1. TypeOK
    <2>1. NoJob \in JobType /\ [state |-> "NONE", step |-> 0] \in EnrollmentType /\ "NONE" \in MessageStates
      BY DEF NoJob, JobType, EnrollmentType, MessageStates
    <2>. QED BY <2>1 DEF Init, TypeOK, WorkType
  <1>2. job["ENROLL"].cursor = 0 /\ \A j \in Jobs : job[j].state = "NONE"
    BY Names DEF Init, NoJob
  <1>3. JobMatchesAudience
    BY <1>2, Names DEF Init, JobMatchesAudience
  <1>4. ActivationInv /\ HoldInv /\ NobodyMissed /\ CursorInv
    BY <1>2 DEF Init, ActivationInv, HoldInv, NobodyMissed, CursorInv, Reading, Idle
  <1>5. BeginInv /\ OneStepAtATime
    BY DEF Init, BeginInv, OneStepAtATime
  <1>. QED
    BY <1>1, <1>3, <1>4, <1>5 DEF PlanningInv

\* Every step keeps the invariant.
LEMMA PlanningKept == PlanningInv /\ [Next]_vars => PlanningInv'
PROOF
  <1>. SUFFICES ASSUME PlanningInv, [Next]_vars PROVE PlanningInv'
    OBVIOUS
  <1>1. CASE UNCHANGED vars
    BY <1>1 DEF vars, PlanningInv, TypeOK, JobMatchesAudience, ActivationInv, BeginInv, OneStepAtATime,
                HoldInv, NobodyMissed, CursorInv, Reading, Progressable, EnrolledUpTo, Accepted
  <1>2. CASE SelectAudience \/ \E a \in Audiences : RequestAbandon(a)
    BY <1>2, SelectionStep
  <1>3. CASE Pause \/ Resume \/ Archive \/ \E a \in Audiences : CommitAudience(a)
    BY <1>3, StatusStep
  <1>4. CASE \E later \in BOOLEAN : Activate(later)
    BY <1>4, ActivateStep
  <1>5. CASE Delivery
    BY <1>5, TakeStep DEF Delivery
  <1>6. ASSUME NEW w \in Workers, Step(w) \/ Error(w) \/ Crash(w)
        PROVE  PlanningInv'
    <2>1. CASE ReadLeads(w)
      BY <2>1, ReadLeadsStep
    <2>2. CASE ReadMembers(w)
      BY <2>2, ReadMembersStep
    <2>3. CASE ReadPlanned(w)
      BY <2>3, ReadPlannedStep
    <2>4. CASE CommitCapture(w)
      BY <2>4, CommitCaptureStep
    <2>5. CASE CommitEnroll(w)
      BY <2>5, CommitEnrollStep
    <2>6. CASE CommitRender(w)
      BY <2>6, CommitRenderStep
    <2>7. CASE Continue(w)
      BY <2>7, ContinueStep
    <2>8. CASE CommitAbandon(w) \/ Fail(w) \/ Error(w) \/ Crash(w)
      BY <2>8, EndingStep
    <2>. QED BY <1>6, <2>1, <2>2, <2>3, <2>4, <2>5, <2>6, <2>7, <2>8 DEF Step, Commit
  <1>7. CASE \E j \in Jobs : Expire(j)
    BY <1>7, ExpireStep
  <1>8. ASSUME NEW l \in Leads, Sequence(l)
        PROVE  PlanningInv'
    <2>1. ASSUME NEW s \in Steps, Send(l, s) \/ Settle(l, s)
          PROVE  PlanningInv'
      <3>0. message[l][s] \in {"SCHEDULED", "SENDING"}
        BY <2>1 DEF Send, Settle
      <3>1. UNCHANGED <<Campaign, audience, member, job, tasks, work, suppressed, enrollment, sweep>>
        BY <2>1 DEF Send, Settle
      <3>2. PICK o \in {"SENDING", "SKIPPED", "SENT", "FAILED"} : message' = [message EXCEPT ![l][s] = o]
        BY <2>1 DEF Send, Settle
      <3>. QED BY <3>0, <3>1, <3>2, EmailMoves
    <2>2. CASE Stop(l)
      BY <2>2, StopStep
    <2>3. CASE ChangeSuppression(l) \/ BeginSweep(l)
      BY <2>3, LookStep
    <2>4. CASE EndSweep(l)
      BY <2>4, EndSweepStep
    <2>. QED BY <1>8, <2>1, <2>2, <2>3, <2>4 DEF Sequence
  <1>. QED
    BY <1>1, <1>2, <1>3, <1>4, <1>5, <1>6, <1>7, <1>8 DEF Next, Request

\* The inductive invariant holds of every state a campaign can reach.
THEOREM PlanningInvariance == Spec => []PlanningInv
PROOF
  <1>1. Init => PlanningInv
    BY Begin
  <1>2. PlanningInv /\ [Next]_vars => PlanningInv'
    BY PlanningKept
  <1>. QED
    BY <1>1, <1>2, PTL DEF Spec

\* A revision and its capture job end together, whichever task, abandonment or stale
\* worker ends them: the lists of a selection are never left locked, nor a job at work
\* for a revision that ended.
THEOREM JobsEndWithRevisions == Spec => []JobMatchesAudience
PROOF
  <1>1. PlanningInv => JobMatchesAudience
    BY DEF PlanningInv
  <1>. QED
    BY <1>1, PlanningInvariance, PTL

\* A follow-up exists only after every earlier email was accepted, however progression,
\* stops, renders and sends interleave.
THEOREM SequenceInOrder == Spec => []OneStepAtATime
PROOF
  <1>1. PlanningInv => OneStepAtATime
    BY DEF PlanningInv
  <1>. QED
    BY <1>1, PlanningInvariance, PTL

\* Planning that is READY missed no accepted member, through repeated, stale and
\* crashed tasks, and enrolled nobody else.
THEOREM PlanningCoversAudience == Spec => []NobodyMissed
PROOF
  <1>1. PlanningInv => NobodyMissed
    BY DEF PlanningInv
  <1>. QED
    BY <1>1, PlanningInvariance, PTL

=============================================================================
