---------------------------- MODULE RateLimit_proofs ----------------------------
(***************************************************************************)
(* Theorems about RateLimit, for any finite set of executions, any caps    *)
(* people may set, any window and spacing, and any bounds.                 *)
(***************************************************************************)
EXTENDS RateLimit, FiniteSetTheorems, WellFoundedInduction, TLAPS

-----------------------------------------------------------------------------
(* Types *)

Rows       == [id : Tasks, at : Nat]
Holding    == {"reserved", "verified", "debited", "sent"}
Rebuilding == {"flush", "expose", "read", "load", "announce"}

RedisType == [run : Nat, generation : Nat, status : {"none", "RECOVERING", "READY"},
              window : SUBSET Rows, spacing : Int]
TaskType  == [pc : {"start", "asked", "aborting", "lost"} \union Holding, began : Nat, limit : Nat,
              gen : Nat, at : Int]
CtlType   == [pc : {"boot", "idle"} \union Rebuilding, target : Nat, todo : SUBSET Keys,
              rows : SUBSET Rows, known : Nat, seen : Nat]

TypeOK ==
    /\ clock \in Nat /\ limit \in Nat
    /\ redis \in RedisType /\ IsFiniteSet(redis.window)
    /\ control \in [gen : Nat, status : {"none", "RECOVERING", "READY"}]
    /\ debits \subseteq Rows
    /\ task \in [Tasks -> TaskType]
    /\ \A t \in Tasks : task[t].pc \in Holding => task[t].at \in Nat
    /\ ctl \in CtlType
    /\ recovered \in [gen : Nat, ids : SUBSET Tasks]

-----------------------------------------------------------------------------
(* The inductive invariant *)

\* While a generation is being rebuilt nobody holds a reservation of it: until it is
\* announced, Redis is in another generation, or not READY.
GenInv ==
    /\ redis.generation <= control.gen /\ recovered.gen <= control.gen
    /\ \A t \in Tasks : task[t].gen <= control.gen
    /\ ctl.pc \in Rebuilding =>
          /\ ctl.target = control.gen /\ control.gen > 0
          /\ \A t \in Tasks : task[t].pc \in Holding => task[t].gen # control.gen
    /\ ctl.pc \in {"flush", "expose"} => redis.generation # control.gen
    /\ ctl.pc \in {"read", "load", "announce"} => redis.generation # control.gen \/ redis.status # "READY"
    /\ ctl.pc \in {"load", "announce"} => recovered.gen = control.gen
    /\ control.status = "READY" => recovered.gen = control.gen

\* A debit is that of a send, at the time its authorization began; a rebuild reads debits.
DebitInv ==
    /\ \A d \in debits : task[d.id].pc = "sent" /\ d.at = task[d.id].began
    /\ ctl.rows \subseteq debits
    /\ \A i \in recovered.ids : task[i].pc = "sent"

\* The reservations of the current generation, and what its rebuild read, are in the
\* window of Redis as long as they matter.
Complete ==
    /\ recovered.gen = control.gen
    /\ \A t \in Tasks : /\ task[t].pc \in Holding /\ task[t].gen = control.gen
                        /\ task[t].at > clock - Window
                        => [id |-> t, at |-> task[t].at] \in redis.window
    /\ \A d \in debits : d.id \in recovered.ids /\ d.at > clock - Window => d \in redis.window

\* What the rebuild read is loaded or still to be loaded.
Loaded == \A d \in debits : d.id \in recovered.ids => d \in ctl.rows \/ d \in redis.window

WindowInv ==
    /\ Current(control.gen) => Complete
    /\ ctl.pc = "announce" /\ redis.generation = control.gen => Complete
    /\ ctl.pc = "load" /\ redis.generation = control.gen => Loaded

\* A reservation of the generation last rebuilt that was sent, or still may be.
Counts(t) ==
    /\ task[t].gen = recovered.gen
    /\ \/ task[t].pc \in {"verified", "debited", "sent"}
       \/ task[t].pc = "reserved" /\ control.gen = recovered.gen

Inside(x, at) == at > x - Window /\ at <= x
Found(x, i) == i \in recovered.ids /\ \E d \in debits : d.id = i /\ Inside(x, d.at)

\* However some of these reservations are chosen in a window: with what the rebuild
\* found there they are no more than the cap of one of them.
CapInv ==
    \A S, R \in SUBSET Tasks, x \in Nat :
       (S # {} /\ (\A t \in S : Counts(t) /\ Inside(x, task[t].at)) /\ \A i \in R : Found(x, i))
          => \E t \in S : Cardinality(S \union R) <= task[t].limit

RateInv ==
    /\ TypeOK
    /\ GenInv
    /\ DebitInv
    /\ WindowInv
    /\ CapInv

-----------------------------------------------------------------------------
(* Finite sets *)

\* A finite set of naturals that is not empty has a largest member: a finite set
\* without one, as small as possible, would leave a smaller one.
LEMMA FiniteMax ==
    ASSUME NEW S \in SUBSET Nat, IsFiniteSet(S), S # {}
    PROVE  \E n \in S : \A m \in S : m <= n
PROOF
  <1>. DEFINE Unbounded == {T \in FiniteSubsetsOf(Nat) : T # {} /\ ~\E n \in T : \A m \in T : m <= n}
  <1>1. SUFFICES Unbounded = {}
    <2>1. S \in FiniteSubsetsOf(Nat)
      BY DEF FiniteSubsetsOf
    <2>. QED BY <1>1, <2>1
  <1>. SUFFICES ASSUME Unbounded # {} PROVE FALSE
    OBVIOUS
  <1>2. IsWellFoundedOn(StrictSubsetOrdering(Nat), FiniteSubsetsOf(Nat))
    BY FS_StrictSubsetOrderingWellFounded
  <1>3. PICK T \in Unbounded : \A U \in Unbounded : <<U, T>> \notin StrictSubsetOrdering(Nat)
    BY <1>2, WFMin
  <1>4. T \in SUBSET Nat /\ IsFiniteSet(T) /\ T # {}
    BY DEF FiniteSubsetsOf
  <1>. PICK k \in T : TRUE
    BY <1>4
  <1>. PICK U : U = T \ {k}
    OBVIOUS
  <1>5. U \in FiniteSubsetsOf(Nat) /\ <<U, T>> \in StrictSubsetOrdering(Nat)
    BY <1>4, FS_RemoveElement DEF FiniteSubsetsOf, StrictSubsetOrdering
  <1>6. U \notin Unbounded
    BY <1>3, <1>5
  <1>7. CASE U = {}
    BY <1>3, <1>4, <1>7
  <1>8. CASE U # {}
    <2>. PICK n \in U : \A m \in U : m <= n
      BY <1>5, <1>6, <1>8
    <2>. PICK j \in T : j = IF n < k THEN k ELSE n
      BY <1>4
    <2>1. \A m \in T : m <= j
      BY <1>4
    <2>. QED BY <1>3, <2>1
  <1>. QED
    BY <1>7, <1>8

\* Fewer executions than entries bear their names.
LEMMA NamesBound ==
    ASSUME NEW W \in SUBSET Rows, IsFiniteSet(W), NEW S \in SUBSET Tasks,
           \A t \in S : \E e \in W : e.id = t
    PROVE  IsFiniteSet(S) /\ Cardinality(S) <= Cardinality(W)
PROOF
  <1>. PICK N : N = {e.id : e \in W}
    OBVIOUS
  <1>1. IsFiniteSet(N) /\ Cardinality(N) <= Cardinality(W) /\ Cardinality(W) \in Nat /\ Cardinality(N) \in Nat
    <2>. DEFINE f == [e \in W |-> e.id]
    <2>1. f \in Surjection(W, N)
      BY DEF Surjection
    <2>2. IsFiniteSet(N) /\ Cardinality(N) <= Cardinality(W)
      BY <2>1, FS_Surjection
    <2>. QED BY <2>2, FS_CardinalityType
  <1>2. S \in SUBSET N
    OBVIOUS
  <1>3. IsFiniteSet(S) /\ Cardinality(S) <= Cardinality(N)
    BY <1>1, <1>2, FS_Subset
  <1>. QED
    BY <1>1, <1>3, FS_CardinalityType

-----------------------------------------------------------------------------
(* Time, and steps that touch no reservation *)

\* The caps hold after a step that lets no reservation count that did not, and finds
\* no debit that was not found.
LEMMA CapKept ==
    ASSUME TypeOK, CapInv,
           \A u \in Tasks : Counts(u)' => Counts(u) /\ task'[u].at = task[u].at /\ task'[u].limit = task[u].limit,
           \A i \in recovered'.ids : /\ i \in recovered.ids
                                     /\ \A d \in debits' : d.id = i => d \in debits
    PROVE  CapInv'
PROOF
  <1>1. SUFFICES ASSUME NEW S \in SUBSET Tasks, NEW R \in SUBSET Tasks, NEW x \in Nat, S # {},
                        \A u \in S : Counts(u)' /\ Inside(x, task'[u].at),
                        \A i \in R : i \in recovered'.ids /\ \E d \in debits' : d.id = i /\ Inside(x, d.at)
                 PROVE  \E u \in S : Cardinality(S \union R) <= task'[u].limit
    BY DEF CapInv, Found, Inside
  <1>2. \A u \in S : Counts(u) /\ Inside(x, task[u].at)
    BY <1>1 DEF Inside
  <1>3. \A i \in R : Found(x, i)
    BY <1>1 DEF Found
  <1>. PICK u \in S : Cardinality(S \union R) <= task[u].limit
    BY <1>1, <1>2, <1>3 DEF CapInv
  <1>. QED
    BY <1>1

\* Time and the cap move on: entries leave the window, none comes in.
LEMMA TimeStep ==
    ASSUME RateLimitAssumption, RateInv, Tick \/ \E n \in Limits : SetLimit(n)
    PROVE  RateInv'
PROOF
  <1>1. /\ UNCHANGED <<redis, control, debits, task, ctl, recovered>>
        /\ clock' \in {clock, clock + 1} /\ limit' \in Nat
    BY DEF RateInv, TypeOK, Tick, SetLimit, RateLimitAssumption
  <1>2. TypeOK'
    BY <1>1 DEF RateInv, TypeOK
  <1>3. GenInv' /\ DebitInv'
    BY <1>1 DEF RateInv, GenInv, DebitInv
  <1>4. Complete => Complete'
    <2>1. \A n \in Int : n > clock' - Window => n > clock - Window
      BY <1>1 DEF RateInv, TypeOK, RateLimitAssumption
    <2>2. \A t \in Tasks : task[t].at \in Int
      BY DEF RateInv, TypeOK, TaskType
    <2>3. \A d \in debits : d.at \in Int
      BY DEF RateInv, TypeOK, Rows
    <2>. QED BY <1>1, <2>1, <2>2, <2>3 DEF Complete
  <1>5. WindowInv'
    BY <1>1, <1>4 DEF RateInv, WindowInv, Current, Loaded
  <1>6. CapInv'
    BY <1>1, CapKept DEF RateInv, Counts
  <1>. QED
    BY <1>2, <1>3, <1>5, <1>6 DEF RateInv

\* An execution moves and is granted nothing: what it holds it held before.
LEMMA TaskMoves ==
    ASSUME RateInv, NEW t \in Tasks, NEW r \in TaskType, task' = [task EXCEPT ![t] = r],
           UNCHANGED <<clock, limit, redis, control, debits, ctl, recovered>>,
           task[t].pc # "sent", r.pc # "sent", r.gen <= control.gen,
           r.pc \in Holding =>
              /\ task[t].pc \in Holding
              /\ r.gen = task[t].gen /\ r.at = task[t].at /\ r.limit = task[t].limit
              /\ Counts(t)' => Counts(t)
    PROVE  RateInv'
PROOF
  <1>1. task'[t] = r /\ (\A u \in Tasks \ {t} : task'[u] = task[u]) /\ task' \in [Tasks -> TaskType]
    BY DEF RateInv, TypeOK
  <1>2. TypeOK'
    BY <1>1 DEF RateInv, TypeOK
  <1>3. \A u \in Tasks : task'[u].pc \in Holding =>
           /\ task[u].pc \in Holding
           /\ task'[u].gen = task[u].gen /\ task'[u].at = task[u].at /\ task'[u].limit = task[u].limit
    BY <1>1
  <1>4. GenInv'
    <2>1. \A u \in Tasks : task'[u].gen <= control.gen
      BY <1>1 DEF RateInv, GenInv
    <2>. QED BY <1>3, <2>1 DEF RateInv, GenInv
  <1>5. DebitInv'
    <2>1. \A u \in Tasks : task[u].pc = "sent" => task'[u] = task[u]
      BY <1>1
    <2>2. (\A d \in debits : d.id \in Tasks) /\ \A i \in recovered.ids : i \in Tasks
      BY DEF RateInv, TypeOK, Rows
    <2>. QED BY <2>1, <2>2 DEF RateInv, DebitInv
  <1>6. Complete => Complete'
    BY <1>3 DEF Complete
  <1>7. WindowInv'
    BY <1>6 DEF RateInv, WindowInv, Current, Loaded
  <1>8. CapInv'
    <2>1. ASSUME NEW u \in Tasks, Counts(u)'
          PROVE  Counts(u) /\ task'[u].at = task[u].at /\ task'[u].limit = task[u].limit
      <3>1. CASE u = t
        BY <1>1, <2>1, <3>1 DEF Counts, Holding
      <3>2. CASE u # t
        BY <1>1, <2>1, <3>2 DEF Counts
      <3>. QED BY <3>1, <3>2
    <2>. QED BY <2>1, CapKept DEF RateInv
  <1>. QED
    BY <1>2, <1>4, <1>5, <1>7, <1>8 DEF RateInv

-----------------------------------------------------------------------------
(* The senders *)

\* The executions that hold nothing.
LEMMA NothingHeld ==
    ASSUME NEW r \in {Fresh, Aborting, Over}
    PROVE  r \in TaskType /\ r.pc \notin Holding /\ r.gen = 0
  BY DEF Fresh, Aborting, Over, TaskType, Holding, NoTime

\* Every step of an execution but a grant, a commit and a release.
LEMMA SenderStep ==
    ASSUME RateInv, NEW t \in Tasks,
           \/ Resolve(t) \/ Verify(t) \/ Reject(t) \/ InsertDebit(t) \/ SenderCrash(t)
           \/ Reserve(t) /\ ~(Current(task[t].gen) /\ Admits(task[t].limit))
    PROVE  RateInv'
PROOF
  <1>0. TypeOK /\ GenInv /\ task[t] \in TaskType /\ control.gen \in Nat /\ redis.generation \in Nat
    BY DEF RateInv, TypeOK, RedisType
  <1>1. UNCHANGED <<clock, limit, redis, control, debits, ctl, recovered>> /\ task[t].pc # "sent"
    BY DEF Resolve, Verify, Reject, InsertDebit, SenderCrash, Reserve
  <1>2. CASE \E r \in {Fresh, Aborting, Over} : task' = [task EXCEPT ![t] = r]
    <2>. PICK r \in {Fresh, Aborting, Over} : task' = [task EXCEPT ![t] = r]
      BY <1>2
    <2>1. r \in TaskType /\ r.pc \notin Holding /\ r.gen <= control.gen /\ r.pc # "sent"
      BY <1>0, NothingHeld DEF Holding
    <2>. QED BY <1>1, <2>1, TaskMoves
  <1>3. CASE Resolve(t)
    <2>. PICK r : r = [pc |-> "asked", began |-> clock, limit |-> limit, gen |-> redis.generation, at |-> NoTime]
      OBVIOUS
    <2>1. r \in TaskType /\ r.pc = "asked" /\ r.gen <= control.gen
      BY <1>0 DEF TypeOK, TaskType, GenInv, NoTime
    <2>2. task' = [task EXCEPT ![t] = r]
      BY <1>3 DEF Resolve
    <2>. QED BY <1>1, <2>1, <2>2, TaskMoves DEF Holding
  <1>4. CASE Verify(t) /\ control.status = "READY" /\ control.gen = task[t].gen
    <2>. PICK r : r = [task[t] EXCEPT !.pc = "verified"]
      OBVIOUS
    <2>1. /\ r \in TaskType /\ r.pc = "verified" /\ task[t].pc = "reserved"
          /\ r.gen = task[t].gen /\ r.at = task[t].at /\ r.limit = task[t].limit /\ r.gen <= control.gen
      BY <1>0, <1>4 DEF TaskType, GenInv, Verify, Holding
    <2>2. task' = [task EXCEPT ![t] = r]
      BY <1>4 DEF Verify
    <2>3. Counts(t)
      BY <1>0, <1>4, <2>1 DEF Counts, GenInv
    <2>. QED BY <1>1, <2>1, <2>2, <2>3, TaskMoves DEF Holding
  <1>5. CASE InsertDebit(t) /\ control.status = "READY"
    <2>. PICK r : r = [task[t] EXCEPT !.pc = "debited"]
      OBVIOUS
    <2>1. /\ r \in TaskType /\ r.pc = "debited" /\ task[t].pc = "verified"
          /\ r.gen = task[t].gen /\ r.at = task[t].at /\ r.limit = task[t].limit /\ r.gen <= control.gen
      BY <1>0, <1>5 DEF TaskType, GenInv, InsertDebit, Holding
    <2>2. task' = [task EXCEPT ![t] = r] /\ task'[t] = r
      BY <1>0, <1>5 DEF InsertDebit, TypeOK
    <2>3. Counts(t)' => Counts(t)
      BY <1>1, <2>1, <2>2 DEF Counts
    <2>. QED BY <1>1, <2>1, <2>2, <2>3, TaskMoves DEF Holding
  <1>. QED
    BY <1>2, <1>3, <1>4, <1>5 DEF Resolve, Verify, Reject, InsertDebit, SenderCrash, Reserve

\* A commit writes the debit of a reservation that was held; the rebuilds so far did
\* not read it.
LEMMA CommitStep ==
    ASSUME RateInv, NEW t \in Tasks, Commit(t)
    PROVE  RateInv'
PROOF
  <1>0. TypeOK /\ GenInv /\ DebitInv /\ WindowInv /\ CapInv /\ task[t] \in TaskType
    BY DEF RateInv, TypeOK
  <1>1. UNCHANGED <<clock, limit, redis, control, ctl, recovered>> /\ task[t].pc = "debited"
    BY DEF Commit
  <1>. PICK r : r = [task[t] EXCEPT !.pc = "sent"]
    OBVIOUS
  <1>. PICK row : row = [id |-> t, at |-> task[t].began]
    OBVIOUS
  <1>2. /\ r \in TaskType /\ r.pc = "sent" /\ r.gen = task[t].gen /\ r.at = task[t].at
        /\ r.limit = task[t].limit /\ r.began = task[t].began
    BY <1>0 DEF TaskType, Holding
  <1>3. task' = [task EXCEPT ![t] = r] /\ debits' = debits \union {row}
    BY DEF Commit
  <1>4. task'[t] = r /\ (\A u \in Tasks \ {t} : task'[u] = task[u]) /\ task' \in [Tasks -> TaskType]
    BY <1>0, <1>2, <1>3 DEF TypeOK
  <1>5. row \in Rows /\ row.id = t /\ row.at = task[t].began
    BY <1>0 DEF Rows, TaskType
  <1>6. \A u \in Tasks : /\ task'[u].gen = task[u].gen /\ task'[u].at = task[u].at
                         /\ task'[u].limit = task[u].limit /\ task'[u].began = task[u].began
                         /\ task[u].pc = "sent" => task'[u].pc = "sent"
                         /\ task'[u].pc \in Holding => task[u].pc \in Holding
    BY <1>1, <1>2, <1>4 DEF Holding
  <1>7. TypeOK'
    BY <1>0, <1>1, <1>3, <1>4, <1>5, <1>6 DEF TypeOK
  <1>8. GenInv'
    BY <1>0, <1>1, <1>6 DEF GenInv
  <1>9. DebitInv'
    <2>1. (\A d \in debits : d.id \in Tasks) /\ \A i \in recovered.ids : i \in Tasks
      BY <1>0 DEF TypeOK, Rows
    <2>2. task'[row.id].pc = "sent" /\ row.at = task'[row.id].began
      BY <1>2, <1>4, <1>5
    <2>. QED BY <1>0, <1>1, <1>3, <1>6, <2>1, <2>2 DEF DebitInv
  <1>10. t \notin recovered.ids
    BY <1>0, <1>1 DEF DebitInv
  <1>11. \A d \in debits' : d.id \in recovered.ids => d \in debits
    BY <1>3, <1>5, <1>10
  <1>12. WindowInv'
    <2>1. Complete => Complete'
      BY <1>1, <1>6, <1>11 DEF Complete
    <2>2. Loaded => Loaded'
      BY <1>1, <1>11 DEF Loaded
    <2>. QED BY <1>0, <1>1, <2>1, <2>2 DEF WindowInv, Current
  <1>13. CapInv'
    <2>1. \A u \in Tasks : Counts(u)' => Counts(u)
      <3>. TAKE u \in Tasks
      <3>1. CASE u = t
        BY <1>1, <1>2, <1>4, <3>1 DEF Counts
      <3>2. CASE u # t
        BY <1>1, <1>4, <3>2 DEF Counts
      <3>. QED BY <3>1, <3>2
    <2>. QED BY <1>0, <1>1, <1>6, <1>11, <2>1, CapKept
  <1>. QED
    BY <1>7, <1>8, <1>9, <1>12, <1>13 DEF RateInv

\* An aborted authorization takes its own entry back, and nobody else's.
LEMMA ReleaseStep ==
    ASSUME RateInv, NEW t \in Tasks, Release(t)
    PROVE  RateInv'
PROOF
  <1>0. TypeOK /\ GenInv /\ DebitInv /\ WindowInv /\ CapInv /\ redis \in RedisType
    BY DEF RateInv, TypeOK
  <1>1. UNCHANGED <<clock, limit, control, debits, ctl, recovered>> /\ task[t].pc = "aborting"
        /\ task' = [task EXCEPT ![t] = Fresh]
    BY DEF Release
  <1>. PICK W \in SUBSET redis.window : W = {e \in redis.window : e.id # t}
    OBVIOUS
  <1>2. redis' = [redis EXCEPT !.window = W]
    BY DEF Release, Released
  <1>3. /\ redis' \in RedisType /\ redis'.window = W /\ IsFiniteSet(W)
        /\ redis'.generation = redis.generation /\ redis'.status = redis.status
    BY <1>0, <1>2, FS_Subset DEF RedisType, TypeOK
  <1>4. Fresh \in TaskType /\ Fresh.pc \notin Holding /\ Fresh.gen = 0 /\ Fresh.pc # "sent"
    BY NothingHeld DEF Holding
  <1>5. task'[t] = Fresh /\ (\A u \in Tasks \ {t} : task'[u] = task[u]) /\ task' \in [Tasks -> TaskType]
    BY <1>0, <1>1, <1>4 DEF TypeOK
  <1>6. \A u \in Tasks : task'[u].pc \in Holding => u # t /\ task'[u] = task[u]
    BY <1>4, <1>5
  <1>7. TypeOK'
    BY <1>0, <1>1, <1>3, <1>5, <1>6 DEF TypeOK
  <1>8. GenInv'
    <2>1. \A u \in Tasks : task'[u].gen <= control.gen
      BY <1>0, <1>4, <1>5 DEF GenInv, TypeOK
    <2>. QED BY <1>0, <1>1, <1>3, <1>6, <2>1 DEF GenInv
  <1>9. DebitInv'
    <2>1. \A u \in Tasks : task[u].pc = "sent" => task'[u] = task[u]
      BY <1>1, <1>5
    <2>2. (\A d \in debits : d.id \in Tasks) /\ \A i \in recovered.ids : i \in Tasks
      BY <1>0 DEF TypeOK, Rows
    <2>. QED BY <1>0, <1>1, <2>1, <2>2 DEF DebitInv
  <1>10. \A d \in debits : d \in redis.window => d \in redis'.window
    BY <1>0, <1>1, <1>3 DEF DebitInv
  <1>11. WindowInv'
    <2>1. Complete => Complete'
      <3>1. \A u \in Tasks : task'[u].pc \in Holding /\ [id |-> u, at |-> task[u].at] \in redis.window
               => [id |-> u, at |-> task'[u].at] \in redis'.window
        BY <1>3, <1>6
      <3>. QED BY <1>1, <1>6, <1>10, <3>1 DEF Complete
    <2>2. Loaded => Loaded'
      BY <1>1, <1>10 DEF Loaded
    <2>. QED BY <1>0, <1>1, <1>3, <2>1, <2>2 DEF WindowInv, Current
  <1>12. CapInv'
    <2>1. ASSUME NEW u \in Tasks, Counts(u)'
          PROVE  Counts(u) /\ task'[u].at = task[u].at /\ task'[u].limit = task[u].limit
      <3>1. task'[u].pc \in Holding
        BY <2>1 DEF Counts, Holding
      <3>. QED BY <1>1, <1>6, <2>1, <3>1 DEF Counts
    <2>. QED BY <1>0, <1>1, <2>1, CapKept
  <1>. QED
    BY <1>7, <1>8, <1>9, <1>11, <1>12 DEF RateInv

\* A grant: in the current generation the window holds every reservation that counts
\* and all the rebuild found, so the script compares what it must with the cap.
LEMMA GrantStep ==
    ASSUME RateLimitAssumption, RateInv, NEW t \in Tasks, Reserve(t),
           Current(task[t].gen), Admits(task[t].limit)
    PROVE  RateInv'
PROOF
  <1>0. /\ TypeOK /\ GenInv /\ DebitInv /\ WindowInv /\ CapInv /\ redis \in RedisType /\ task[t] \in TaskType
        /\ clock \in Nat /\ Window \in Nat /\ control.gen \in Nat
    BY DEF RateInv, TypeOK, RateLimitAssumption
  <1>1. UNCHANGED <<clock, limit, control, debits, ctl, recovered>> /\ task[t].pc = "asked"
    BY DEF Reserve
  <1>. PICK r : r = [task[t] EXCEPT !.pc = "reserved", !.at = clock]
    OBVIOUS
  <1>. PICK row : row = [id |-> t, at |-> clock]
    OBVIOUS
  <1>. PICK W : W = Pruned \union {row}
    OBVIOUS
  <1>2. /\ r \in TaskType /\ r.pc = "reserved" /\ r.gen = task[t].gen /\ r.at = clock /\ r.limit = task[t].limit
        /\ row \in Rows /\ row.id = t
    <2>1. row \in Rows /\ row.id = t /\ clock \in Int
      BY <1>0 DEF Rows
    <2>2. r.pc = "reserved" /\ r.gen = task[t].gen /\ r.at = clock /\ r.limit = task[t].limit
      BY <1>0 DEF TaskType
    <2>3. r \in TaskType
      BY <1>0, <2>1 DEF TaskType, Holding
    <2>. QED BY <2>1, <2>2, <2>3
  <1>3. task' = [task EXCEPT ![t] = r] /\ redis' = [redis EXCEPT !.window = W, !.spacing = clock]
    BY DEF Reserve, Granted
  <1>4. task'[t] = r /\ (\A u \in Tasks \ {t} : task'[u] = task[u]) /\ task' \in [Tasks -> TaskType]
    BY <1>0, <1>2, <1>3 DEF TypeOK
  <1>5. Pruned \in SUBSET redis.window /\ IsFiniteSet(Pruned) /\ W \in SUBSET Rows /\ IsFiniteSet(W)
    <2>1. Pruned \in SUBSET redis.window /\ redis.window \in SUBSET Rows /\ IsFiniteSet(redis.window)
      BY <1>0 DEF Pruned, RedisType, TypeOK
    <2>2. IsFiniteSet(Pruned)
      BY <2>1, FS_Subset
    <2>3. IsFiniteSet(Pruned \union {row})
      BY <2>2, FS_AddElement
    <2>. QED BY <1>2, <2>1, <2>2, <2>3
  <1>6. redis' \in RedisType /\ redis'.window = W /\ redis'.generation = redis.generation
        /\ redis'.status = redis.status
    <2>1. clock \in Int
      BY <1>0
    <2>2. redis' \in RedisType
      BY <1>0, <1>3, <1>5, <2>1 DEF RedisType
    <2>3. redis'.window = W /\ redis'.generation = redis.generation /\ redis'.status = redis.status
      BY <1>0, <1>3 DEF RedisType
    <2>. QED BY <2>2, <2>3
  <1>7. redis.generation = task[t].gen /\ redis.generation # 0 /\ redis.status = "READY"
    BY DEF Current
  <1>8. TypeOK'
    <2>1. \A u \in Tasks : task'[u].pc \in Holding => task'[u].at \in Nat
      BY <1>0, <1>2, <1>4 DEF TypeOK
    <2>. QED BY <1>0, <1>1, <1>4, <1>5, <1>6, <2>1 DEF TypeOK
  <1>9. GenInv'
    <2>1. \A u \in Tasks : task'[u].gen <= control.gen
      BY <1>0, <1>2, <1>4 DEF GenInv
    <2>2. ctl.pc \in Rebuilding => redis.generation # control.gen
      BY <1>0, <1>7 DEF GenInv, Rebuilding
    <2>3. ctl.pc \in Rebuilding => \A u \in Tasks : task'[u].pc \in Holding => task'[u].gen # control.gen
      <3>. SUFFICES ASSUME ctl.pc \in Rebuilding, NEW u \in Tasks, task'[u].pc \in Holding
                    PROVE  task'[u].gen # control.gen
        OBVIOUS
      <3>1. CASE u = t
        BY <1>2, <1>4, <1>7, <2>2, <3>1
      <3>2. CASE u # t
        BY <1>0, <1>4, <3>2 DEF GenInv
      <3>. QED BY <3>1, <3>2
    <2>. QED BY <1>0, <1>1, <1>6, <2>1, <2>3 DEF GenInv
  <1>10. DebitInv'
    <2>1. \A u \in Tasks : task[u].pc = "sent" => task'[u] = task[u]
      BY <1>1, <1>4
    <2>2. (\A d \in debits : d.id \in Tasks) /\ \A i \in recovered.ids : i \in Tasks
      BY <1>0 DEF TypeOK, Rows
    <2>. QED BY <1>0, <1>1, <2>1, <2>2 DEF DebitInv
  <1>11. \A e \in redis.window : e.at > clock - Window => e \in Pruned /\ e \in W
    BY DEF Pruned
  <1>12. Complete => Complete'
    <2>. SUFFICES ASSUME Complete PROVE Complete'
      OBVIOUS
    <2>1. ASSUME NEW u \in Tasks, task'[u].pc \in Holding, task'[u].gen = control.gen, task'[u].at > clock - Window
          PROVE  [id |-> u, at |-> task'[u].at] \in W
      <3>1. CASE u = t
        BY <1>2, <1>4, <3>1
      <3>2. CASE u # t
        <4>1. task'[u] = task[u]
          BY <1>4, <3>2
        <4>2. [id |-> u, at |-> task[u].at] \in redis.window
          BY <2>1, <4>1 DEF Complete
        <4>. PICK e \in redis.window : e = [id |-> u, at |-> task[u].at]
          BY <4>2
        <4>3. e.at = task[u].at
          OBVIOUS
        <4>. QED BY <1>11, <2>1, <4>1, <4>3
      <3>. QED BY <3>1, <3>2
    <2>2. \A d \in debits : d.id \in recovered.ids /\ d.at > clock - Window => d \in W
      BY <1>11 DEF Complete
    <2>. QED BY <1>1, <1>6, <2>1, <2>2 DEF Complete
  <1>13. WindowInv'
    <2>1. ctl.pc = "load" => redis.generation # control.gen
      BY <1>0, <1>7 DEF GenInv
    <2>. QED BY <1>0, <1>1, <1>6, <1>12, <2>1 DEF WindowInv, Current
  <1>14. \A u \in Tasks \ {t} : Counts(u)' => Counts(u)
    BY <1>1, <1>4 DEF Counts
  <1>15. CapInv'
    <2>1. SUFFICES ASSUME NEW S \in SUBSET Tasks, NEW R \in SUBSET Tasks, NEW x \in Nat, S # {},
                          \A u \in S : Counts(u)' /\ Inside(x, task'[u].at),
                          \A i \in R : i \in recovered'.ids /\ \E d \in debits' : d.id = i /\ Inside(x, d.at)
                   PROVE  \E u \in S : Cardinality(S \union R) <= task'[u].limit
      BY DEF CapInv, Found, Inside
    <2>2. CASE t \notin S
      <3>1. \A u \in S : Counts(u) /\ Inside(x, task[u].at) /\ task'[u] = task[u]
        BY <1>4, <1>14, <2>1, <2>2
      <3>2. \A i \in R : Found(x, i)
        BY <1>1, <2>1 DEF Found
      <3>. PICK u \in S : Cardinality(S \union R) <= task[u].limit
        BY <1>0, <2>1, <3>1, <3>2 DEF CapInv
      <3>. QED BY <3>1
    <2>3. CASE t \in S
      <3>1. recovered.gen = task[t].gen /\ control.gen = recovered.gen
        BY <1>1, <1>2, <1>4, <2>1, <2>3 DEF Counts
      <3>2. Complete
        BY <1>0, <1>7, <3>1 DEF WindowInv, Current
      <3>3. \A n \in Int : n > x - Window => n > clock - Window
        <4>1. Inside(x, task'[t].at) /\ task'[t].at = clock
          BY <1>2, <1>4, <2>1, <2>3
        <4>2. clock <= x
          BY <4>1 DEF Inside
        <4>. QED BY <1>0, <4>2
      <3>4. ASSUME NEW u \in S, u # t PROVE \E e \in Pruned : e.id = u
        <4>1. task'[u] = task[u] /\ task[u].at > x - Window /\ Counts(u) /\ task[u].at \in Int
          BY <1>0, <1>4, <1>14, <2>1, <3>4 DEF Inside, TypeOK, TaskType
        <4>2. task[u].pc \in Holding /\ task[u].gen = control.gen /\ task[u].at > clock - Window
          BY <3>1, <3>3, <4>1 DEF Counts, Holding
        <4>. PICK e \in redis.window : e = [id |-> u, at |-> task[u].at]
          BY <3>2, <4>2 DEF Complete
        <4>3. e.id = u /\ e.at = task[u].at
          OBVIOUS
        <4>. QED BY <1>11, <4>2, <4>3
      <3>5. ASSUME NEW i \in R PROVE \E e \in Pruned : e.id = i
        <4>. PICK d \in debits : d.id = i /\ Inside(x, d.at) /\ i \in recovered.ids
          BY <1>1, <2>1
        <4>1. d.at \in Int
          BY <1>0 DEF TypeOK, Rows
        <4>2. d.at > clock - Window
          BY <3>3, <4>1 DEF Inside
        <4>. QED BY <1>11, <3>2, <4>2 DEF Complete
      <3>. PICK N : N = (S \union R) \ {t}
        OBVIOUS
      <3>6. N \in SUBSET Tasks /\ \A u \in N : \E e \in Pruned : e.id = u
        BY <3>4, <3>5
      <3>7. Pruned \in SUBSET Rows
        BY <1>0, <1>5 DEF RedisType
      <3>8. IsFiniteSet(N) /\ Cardinality(N) <= Cardinality(Pruned)
        BY <1>5, <3>6, <3>7, NamesBound
      <3>9. Cardinality(N \union {t}) = Cardinality(N) + 1 /\ N \union {t} = S \union R
        BY <2>3, <3>8, FS_AddElement
      <3>10. Cardinality(N) \in Nat /\ Cardinality(Pruned) \in Nat
        BY <1>5, <3>8, FS_CardinalityType
      <3>11. Cardinality(Pruned) + 1 <= task[t].limit /\ task[t].limit \in Nat
        BY <1>0 DEF Admits, TaskType
      <3>12. Cardinality(S \union R) <= task[t].limit
        BY <3>8, <3>9, <3>10, <3>11, SMTT(30)
      <3>. QED BY <1>2, <1>4, <2>3, <3>12
    <2>. QED BY <2>2, <2>3
  <1>. QED
    BY <1>8, <1>9, <1>10, <1>13, <1>15 DEF RateInv

-----------------------------------------------------------------------------
(* The controller *)

\* A rebuild begins: the database is in a generation nobody has seen.
LEMMA EnterStep ==
    ASSUME RateInv, EnterRecovering
    PROVE  RateInv'
PROOF
  <1>0. /\ TypeOK /\ GenInv /\ DebitInv /\ WindowInv /\ CapInv /\ ctl \in CtlType
        /\ control \in [gen : Nat, status : {"none", "RECOVERING", "READY"}]
        /\ control.gen \in Nat /\ recovered.gen \in Nat /\ redis.generation \in Nat
        /\ \A t \in Tasks : task[t].gen \in Nat
    BY DEF RateInv, TypeOK, RedisType, TaskType
  <1>. PICK g \in Nat : g = control.gen + 1
    BY <1>0
  <1>1. UNCHANGED <<clock, limit, redis, debits, task, recovered>>
    BY DEF EnterRecovering
  <1>2. control' = [gen |-> g, status |-> "RECOVERING"] /\ control'.gen = g /\ control'.status = "RECOVERING"
    BY DEF EnterRecovering
  <1>. PICK c : c = [ctl EXCEPT !.pc = "flush", !.target = g, !.todo = Keys]
    OBVIOUS
  <1>3. c.pc = "flush" /\ c.target = g /\ c.rows = ctl.rows
    BY <1>0 DEF CtlType
  <1>4. c \in CtlType
    BY <1>0 DEF CtlType, Rebuilding
  <1>5. ctl' = c
    BY DEF EnterRecovering
  <1>6. TypeOK'
    BY <1>0, <1>1, <1>2, <1>4, <1>5 DEF TypeOK
  <1>7. \A n \in Nat : n <= control.gen => n <= g /\ n # g
    BY <1>0
  <1>8. g > 0
    BY <1>0
  <1>9. GenInv'
    BY <1>0, <1>1, <1>2, <1>3, <1>5, <1>7, <1>8 DEF GenInv, Rebuilding
  <1>10. DebitInv'
    BY <1>0, <1>1, <1>3, <1>5 DEF DebitInv
  <1>11. WindowInv'
    BY <1>0, <1>1, <1>2, <1>3, <1>5, <1>7 DEF WindowInv, Current, GenInv
  <1>12. CapInv'
    <2>1. recovered.gen # g
      BY <1>0, <1>7 DEF GenInv
    <2>2. \A u \in Tasks : Counts(u)' => Counts(u)
      BY <1>1, <1>2, <2>1 DEF Counts
    <2>. QED BY <1>0, <1>1, <2>2, CapKept
  <1>. QED
    BY <1>6, <1>9, <1>10, <1>11, <1>12 DEF RateInv

\* What the controller does to Redis: no step of a rebuild leaves it in the new generation
\* and READY but the announcement.
LEMMA RedisMoves ==
    ASSUME RateInv, ctl.pc \in Rebuilding, NEW R \in RedisType, NEW c \in CtlType,
           redis' = R, ctl' = c, IsFiniteSet(R.window), c.target = ctl.target, c.rows \subseteq ctl.rows,
           UNCHANGED <<clock, limit, control, debits, task, recovered>>,
           R.generation <= control.gen,
           c.pc \in Rebuilding \union {"idle"},
           c.pc \in {"flush", "expose"} => R.generation # control.gen,
           c.pc \in {"read", "load", "announce"} => R.generation # control.gen \/ R.status # "READY",
           c.pc \in {"load", "announce"} => recovered.gen = control.gen,
           Current(control.gen)' => Complete', c.pc = "announce" /\ R.generation = control.gen => Complete',
           c.pc = "load" /\ R.generation = control.gen => Loaded'
    PROVE  RateInv'
PROOF
  <1>1. TypeOK'
    BY DEF RateInv, TypeOK
  <1>2. GenInv'
    BY DEF RateInv, GenInv, Rebuilding
  <1>3. DebitInv'
    BY DEF RateInv, DebitInv
  <1>4. WindowInv'
    BY DEF RateInv, WindowInv, Current
  <1>5. CapInv'
    BY CapKept DEF RateInv, Counts
  <1>. QED
    BY <1>1, <1>2, <1>3, <1>4, <1>5 DEF RateInv

\* A key is deleted.
LEMMA FlushStep ==
    ASSUME RateInv, NEW k \in Keys, FlushKey(k)
    PROVE  RateInv'
PROOF
  <1>0. /\ TypeOK /\ GenInv /\ ctl \in CtlType /\ redis \in RedisType /\ ctl.pc = "flush" /\ ctl.pc \in Rebuilding
        /\ UNCHANGED <<clock, limit, control, debits, task, recovered>> /\ IsFiniteSet(redis.window)
        /\ control.gen \in Nat /\ control.gen > 0 /\ redis.generation # control.gen
        /\ redis.generation <= control.gen
    BY DEF RateInv, TypeOK, FlushKey, GenInv, Rebuilding
  <1>. PICK todo \in SUBSET Keys : todo = ctl.todo \ {k}
    BY <1>0 DEF CtlType
  <1>. PICK pc \in {"expose", "flush"} : pc = IF ctl.todo = {k} THEN "expose" ELSE "flush"
    OBVIOUS
  <1>. PICK c : c = [ctl EXCEPT !.todo = todo, !.pc = pc]
    OBVIOUS
  <1>1. c \in CtlType /\ ctl' = c
    BY <1>0 DEF CtlType, Rebuilding, FlushKey
  <1>2. c.pc = pc /\ c.target = ctl.target /\ c.rows = ctl.rows
    BY <1>0 DEF CtlType
  <1>3. PICK R \in RedisType : redis' = R /\ R.generation \in {0, redis.generation} /\ IsFiniteSet(R.window)
    <2>1. CASE k = "generation"
      <3>. PICK R : R = [redis EXCEPT !.generation = 0]
        OBVIOUS
      <3>1. R \in RedisType /\ R.generation = 0 /\ R.window = redis.window
        BY <1>0 DEF RedisType
      <3>2. redis' = R
        BY <2>1 DEF FlushKey
      <3>. QED BY <1>0, <3>1, <3>2
    <2>2. CASE k = "status"
      <3>. PICK R : R = [redis EXCEPT !.status = "none"]
        OBVIOUS
      <3>1. R \in RedisType /\ R.generation = redis.generation /\ R.window = redis.window
        BY <1>0 DEF RedisType
      <3>2. redis' = R
        BY <2>2 DEF FlushKey
      <3>. QED BY <1>0, <3>1, <3>2
    <2>3. CASE k = "mailbox"
      <3>. PICK e \in SUBSET Rows : e = {}
        OBVIOUS
      <3>. PICK R : R = [redis EXCEPT !.window = e, !.spacing = NoTime]
        OBVIOUS
      <3>0. NoTime \in Int
        BY DEF NoTime
      <3>1. R \in RedisType
        BY <1>0, <3>0 DEF RedisType
      <3>2. R.generation = redis.generation /\ R.window = {}
        BY <1>0 DEF RedisType
      <3>3. redis' = R
        BY <2>3 DEF FlushKey
      <3>. QED BY <3>1, <3>2, <3>3, FS_EmptySet
    <2>. QED BY <2>1, <2>2, <2>3 DEF Keys
  <1>4. R.generation # control.gen /\ R.generation <= control.gen
    BY <1>0, <1>3
  <1>5. ~Current(control.gen)'
    BY <1>0, <1>3, <1>4 DEF Current
  <1>. QED
    BY <1>0, <1>1, <1>2, <1>3, <1>4, <1>5, RedisMoves DEF Rebuilding

\* Redis learns the generation, and that it is being rebuilt.
LEMMA ExposeStep ==
    ASSUME RateInv, Expose
    PROVE  RateInv'
PROOF
  <1>0. /\ ctl \in CtlType /\ redis \in RedisType /\ ctl.pc = "expose" /\ ctl.pc \in Rebuilding
        /\ UNCHANGED <<clock, limit, control, debits, task, recovered>> /\ IsFiniteSet(redis.window)
        /\ control.gen \in Nat /\ ctl.target = control.gen
    BY DEF RateInv, TypeOK, Expose, GenInv, Rebuilding
  <1>. PICK c : c = [ctl EXCEPT !.pc = "read"]
    OBVIOUS
  <1>. PICK R : R = [redis EXCEPT !.generation = ctl.target, !.status = "RECOVERING"]
    OBVIOUS
  <1>1. c \in CtlType /\ ctl' = c /\ c.pc = "read" /\ c.target = ctl.target /\ c.rows = ctl.rows
    BY <1>0 DEF CtlType, Rebuilding, Expose
  <1>2. R.generation = control.gen /\ R.status = "RECOVERING" /\ R.window = redis.window
    BY <1>0 DEF RedisType
  <1>3. R \in RedisType
    BY <1>0 DEF RedisType
  <1>4. redis' = R
    BY DEF Expose
  <1>5. ~Current(control.gen)'
    BY <1>2, <1>4 DEF Current
  <1>6. /\ R.generation <= control.gen /\ R.status # "READY" /\ IsFiniteSet(R.window)
        /\ c.rows \subseteq ctl.rows /\ c.pc \in Rebuilding
        /\ c.pc \notin {"flush", "expose", "load", "announce"}
    BY <1>0, <1>1, <1>2 DEF Rebuilding
  <1>. QED
    BY <1>0, <1>1, <1>3, <1>4, <1>5, <1>6, RedisMoves

\* The debits are read: nobody holds a reservation of the generation they are read for.
LEMMA ReadStep ==
    ASSUME RateInv, ReadDebits
    PROVE  RateInv'
PROOF
  <1>0. /\ TypeOK /\ GenInv /\ DebitInv /\ WindowInv /\ ctl \in CtlType /\ ctl.pc = "read" /\ debits \in SUBSET Rows
        /\ UNCHANGED <<clock, limit, redis, control, debits, task>>
        /\ control.gen \in Nat /\ ctl.target = control.gen
        /\ \A t \in Tasks : task[t].pc \in Holding => task[t].gen # control.gen
    BY DEF RateInv, TypeOK, ReadDebits, GenInv, Rebuilding
  <1>. PICK c : c = [ctl EXCEPT !.pc = "load", !.rows = debits]
    OBVIOUS
  <1>. PICK ids \in SUBSET Tasks : ids = {d.id : d \in debits}
    BY <1>0 DEF Rows
  <1>1. c.pc = "load" /\ c.rows = debits /\ c.target = ctl.target
    BY <1>0 DEF CtlType
  <1>2. c \in CtlType
    BY <1>0 DEF CtlType, Rebuilding
  <1>3. ctl' = c /\ recovered' = [gen |-> control.gen, ids |-> ids]
    BY <1>0 DEF ReadDebits
  <1>4. recovered'.gen = control.gen /\ recovered'.ids = ids
    BY <1>3
  <1>5. TypeOK'
    BY <1>0, <1>2, <1>3 DEF TypeOK
  <1>6. GenInv'
    BY <1>0, <1>1, <1>3, <1>4 DEF GenInv, Rebuilding
  <1>7. DebitInv'
    BY <1>0, <1>1, <1>3, <1>4 DEF DebitInv
  <1>8. WindowInv'
    <2>1. Loaded'
      BY <1>0, <1>1, <1>3 DEF Loaded
    <2>2. ~Current(control.gen)'
      BY <1>0 DEF Current, GenInv
    <2>. QED BY <1>0, <1>1, <1>3, <2>1, <2>2 DEF WindowInv
  <1>9. CapInv'
    <2>1. \A u \in Tasks : ~Counts(u)'
      BY <1>0, <1>4 DEF Counts, Holding
    <2>. QED BY <2>1 DEF CapInv
  <1>. QED
    BY <1>5, <1>6, <1>7, <1>8, <1>9 DEF RateInv

\* A debit is loaded, in the place of the entry of that reservation.
LEMMA LoadStep ==
    ASSUME RateInv, NEW e \in ctl.rows, LoadDebit(e)
    PROVE  RateInv'
PROOF
  <1>0. /\ TypeOK /\ GenInv /\ DebitInv /\ WindowInv /\ ctl \in CtlType /\ redis \in RedisType
        /\ ctl.pc = "load" /\ ctl.pc \in Rebuilding /\ IsFiniteSet(redis.window)
        /\ UNCHANGED <<clock, limit, control, debits, task, recovered>>
        /\ redis.generation <= control.gen /\ recovered.gen = control.gen
        /\ (redis.generation # control.gen \/ redis.status # "READY")
        /\ e \in debits /\ debits \subseteq Rows
    BY DEF RateInv, TypeOK, LoadDebit, GenInv, DebitInv, Rebuilding
  <1>. PICK kept \in SUBSET redis.window : kept = {f \in redis.window : f.id # e.id}
    OBVIOUS
  <1>. PICK rows \in SUBSET ctl.rows : rows = ctl.rows \ {e}
    OBVIOUS
  <1>. PICK c : c = [ctl EXCEPT !.rows = rows]
    OBVIOUS
  <1>. PICK W \in SUBSET Rows : W = kept \union {e}
    BY <1>0 DEF RedisType
  <1>. PICK R : R = [redis EXCEPT !.window = W]
    OBVIOUS
  <1>1. c \in CtlType /\ ctl' = c /\ c.pc = "load" /\ c.target = ctl.target /\ c.rows = rows
    BY <1>0 DEF CtlType, LoadDebit
  <1>2. R.generation = redis.generation /\ R.status = redis.status /\ R.window = W /\ R \in RedisType
    BY <1>0 DEF RedisType
  <1>3. redis' = R
    BY DEF LoadDebit
  <1>4. IsFiniteSet(W)
    BY <1>0, FS_Subset, FS_AddElement
  <1>5. ~Current(control.gen)'
    BY <1>0, <1>2, <1>3 DEF Current
  <1>6. R.generation = control.gen => Loaded'
    <2>. SUFFICES ASSUME R.generation = control.gen, NEW d \in debits, d.id \in recovered.ids
                  PROVE  d \in rows \/ d \in W
      BY <1>0, <1>1, <1>2, <1>3 DEF Loaded
    <2>1. d \in ctl.rows \/ d \in redis.window
      BY <1>0, <1>2 DEF WindowInv, Loaded
    <2>2. d.id = e.id => d = e
      BY <1>0 DEF DebitInv, Rows
    <2>. QED BY <2>1, <2>2
  <1>. QED
    BY <1>0, <1>1, <1>2, <1>3, <1>4, <1>5, <1>6, RedisMoves DEF Rebuilding

\* Everything is loaded: the generation is READY in the database.
LEMMA ReadyStep ==
    ASSUME RateInv, MarkReady
    PROVE  RateInv'
PROOF
  <1>0. /\ TypeOK /\ GenInv /\ DebitInv /\ WindowInv /\ CapInv /\ ctl \in CtlType /\ redis \in RedisType
        /\ ctl.pc = "load" /\ ctl.pc \in Rebuilding /\ ctl.rows = {}
        /\ UNCHANGED <<clock, limit, redis, debits, task, recovered>>
        /\ redis.generation <= control.gen /\ recovered.gen = control.gen
        /\ (redis.generation # control.gen \/ redis.status # "READY")
        /\ control \in [gen : Nat, status : {"none", "RECOVERING", "READY"}]
    BY DEF RateInv, TypeOK, MarkReady, GenInv, DebitInv, Rebuilding
  <1>1. PICK c \in CtlType : /\ ctl' = c /\ c.pc \in {"announce", "idle"}
                             /\ c.target = ctl.target /\ c.rows = ctl.rows
    <2>1. CASE ctl' = [ctl EXCEPT !.pc = "announce"]
      <3>. PICK c : c = [ctl EXCEPT !.pc = "announce"]
        OBVIOUS
      <3>1. c \in CtlType /\ c.pc = "announce" /\ c.target = ctl.target /\ c.rows = ctl.rows
        BY <1>0 DEF CtlType, Rebuilding
      <3>. QED BY <2>1, <3>1
    <2>2. CASE ctl' = [ctl EXCEPT !.pc = "idle", !.known = ctl.seen]
      <3>. PICK c : c = [ctl EXCEPT !.pc = "idle", !.known = ctl.seen]
        OBVIOUS
      <3>1. c.pc = "idle" /\ c.target = ctl.target /\ c.rows = ctl.rows
        BY <1>0 DEF CtlType
      <3>2. c \in CtlType
        BY <1>0 DEF CtlType
      <3>. QED BY <2>2, <3>1, <3>2
    <2>. QED BY <2>1, <2>2 DEF MarkReady
  <1>2. control' \in [gen : Nat, status : {"none", "RECOVERING", "READY"}] /\ control'.gen = control.gen
    BY <1>0 DEF MarkReady
  <1>3. TypeOK'
    BY <1>0, <1>1, <1>2 DEF TypeOK
  <1>4. GenInv'
    BY <1>0, <1>1, <1>2 DEF GenInv, Rebuilding
  <1>5. DebitInv'
    BY <1>0, <1>1 DEF DebitInv
  <1>6. redis.generation = control.gen => Complete'
    <2>1. redis.generation = control.gen => \A d \in debits : d.id \in recovered.ids => d \in redis.window
      BY <1>0 DEF WindowInv, Loaded
    <2>2. \A t \in Tasks : task[t].pc \in Holding => task[t].gen # control.gen
      BY <1>0 DEF GenInv
    <2>. QED BY <1>0, <1>2, <2>1, <2>2 DEF Complete
  <1>7. WindowInv'
    BY <1>0, <1>1, <1>2, <1>6 DEF WindowInv, Current
  <1>8. CapInv'
    <2>1. \A u \in Tasks : Counts(u)' => Counts(u)
      BY <1>0, <1>2 DEF Counts
    <2>. QED BY <1>0, <2>1, CapKept
  <1>. QED
    BY <1>3, <1>4, <1>5, <1>7, <1>8 DEF RateInv

\* Redis announces the generation.
LEMMA AnnounceStep ==
    ASSUME RateInv, Announce
    PROVE  RateInv'
PROOF
  <1>0. /\ TypeOK /\ GenInv /\ WindowInv /\ ctl \in CtlType /\ redis \in RedisType
        /\ ctl.pc = "announce" /\ ctl.pc \in Rebuilding /\ IsFiniteSet(redis.window)
        /\ UNCHANGED <<clock, limit, control, debits, task, recovered>>
        /\ redis.generation <= control.gen
    BY DEF RateInv, TypeOK, Announce, GenInv, Rebuilding
  <1>. PICK c : c = [ctl EXCEPT !.pc = "idle", !.known = ctl.seen]
    OBVIOUS
  <1>. PICK R : R = [redis EXCEPT !.status = "READY"]
    OBVIOUS
  <1>1. c.pc = "idle" /\ c.target = ctl.target /\ c.rows = ctl.rows
    BY <1>0 DEF CtlType
  <1>2. c \in CtlType
    BY <1>0 DEF CtlType
  <1>3. R \in RedisType /\ R.generation = redis.generation /\ R.window = redis.window
    BY <1>0 DEF RedisType
  <1>4. ctl' = c /\ redis' = R
    BY DEF Announce
  <1>5. Current(control.gen)' => Complete'
    <2>1. Current(control.gen)' => redis.generation = control.gen
      BY <1>0, <1>3, <1>4 DEF Current
    <2>2. Complete => Complete'
      BY <1>0, <1>3, <1>4 DEF Complete
    <2>. QED BY <1>0, <2>1, <2>2 DEF WindowInv
  <1>. QED
    BY <1>0, <1>1, <1>2, <1>3, <1>4, <1>5, RedisMoves

\* The controller is at rest, or dies: it touches nothing but what it knows.
LEMMA CtlRests ==
    ASSUME RateInv, Reconcile \/ BootstrapFails \/ ControllerCrash
    PROVE  RateInv'
PROOF
  <1>0. /\ ctl \in CtlType /\ redis \in RedisType /\ redis.run \in Nat
        /\ UNCHANGED <<clock, limit, redis, control, debits, task, recovered>>
    BY DEF RateInv, TypeOK, Reconcile, BootstrapFails, ControllerCrash, RedisType
  <1>1. PICK c \in CtlType : ctl' = c /\ c.pc \in {"boot", "idle"} /\ c.rows \subseteq ctl.rows
    <2>1. CASE Reconcile
      <3>1. ctl.pc = "idle" /\ ctl' \in {[ctl EXCEPT !.known = redis.run], [ctl EXCEPT !.pc = "boot", !.seen = redis.run]}
        BY <2>1 DEF Reconcile
      <3>2. CASE ctl' = [ctl EXCEPT !.known = redis.run]
        BY <1>0, <3>1, <3>2 DEF CtlType
      <3>3. CASE ctl' = [ctl EXCEPT !.pc = "boot", !.seen = redis.run]
        <4>1. ctl' \in CtlType
          BY <1>0, <3>3 DEF CtlType
        <4>2. ctl'.pc = "boot" /\ ctl'.rows = ctl.rows
          BY <1>0, <3>3 DEF CtlType
        <4>. QED BY <4>1, <4>2
      <3>. QED BY <3>1, <3>2, <3>3
    <2>2. CASE BootstrapFails
      <3>. PICK none \in SUBSET Keys : none = {}
        OBVIOUS
      <3>. PICK empty \in SUBSET Rows : empty = {}
        OBVIOUS
      <3>1. ctl' = [ctl EXCEPT !.pc = "idle", !.todo = none, !.rows = empty]
        BY <2>2 DEF BootstrapFails
      <3>2. ctl' \in CtlType
        BY <1>0, <3>1 DEF CtlType
      <3>3. ctl'.pc = "idle" /\ ctl'.rows = empty
        BY <1>0, <3>1 DEF CtlType
      <3>. QED BY <3>2, <3>3
    <2>3. CASE ControllerCrash
      <3>1. Boot \in CtlType /\ Boot.pc = "boot" /\ Boot.rows = {}
        BY DEF Boot, CtlType, NoRows
      <3>. QED BY <2>3, <3>1 DEF ControllerCrash
    <2>. QED BY <2>1, <2>2, <2>3
  <1>2. TypeOK' /\ GenInv' /\ DebitInv'
    <2>1. TypeOK'
      BY <1>0, <1>1 DEF RateInv, TypeOK
    <2>2. GenInv'
      BY <1>0, <1>1 DEF RateInv, GenInv, Rebuilding
    <2>3. DebitInv'
      BY <1>0, <1>1 DEF RateInv, DebitInv
    <2>. QED BY <2>1, <2>2, <2>3
  <1>3. WindowInv'
    <2>1. Complete => Complete'
      BY <1>0 DEF Complete
    <2>. QED BY <1>0, <1>1, <2>1 DEF RateInv, WindowInv, Current
  <1>4. CapInv'
    BY <1>0, CapKept DEF RateInv, Counts
  <1>. QED
    BY <1>2, <1>3, <1>4 DEF RateInv

\* Redis forgets everything, its generation too.
LEMMA RestartStep ==
    ASSUME RateInv, RedisRestart
    PROVE  RateInv'
PROOF
  <1>0. /\ TypeOK /\ GenInv /\ DebitInv /\ CapInv /\ redis \in RedisType /\ control.gen \in Nat
        /\ UNCHANGED <<clock, limit, control, debits, task, ctl, recovered>>
    BY DEF RateInv, TypeOK, RedisRestart
  <1>. PICK n \in Nat : n = redis.run + 1
    BY <1>0 DEF RedisType
  <1>1. redis' = [run |-> n, generation |-> 0, status |-> "none", window |-> {}, spacing |-> NoTime]
    BY DEF RedisRestart, Empty
  <1>2. redis' \in RedisType /\ redis'.generation = 0 /\ redis'.status = "none" /\ redis'.window = {}
    BY <1>1 DEF RedisType, NoTime
  <1>3. TypeOK'
    BY <1>0, <1>2, FS_EmptySet DEF TypeOK
  <1>4. GenInv' /\ DebitInv'
    <2>1. ctl.pc \in Rebuilding => control.gen # 0
      BY <1>0 DEF GenInv
    <2>2. GenInv'
      BY <1>0, <1>2, <2>1 DEF GenInv, Rebuilding
    <2>. QED BY <1>0, <2>2 DEF DebitInv
  <1>5. WindowInv'
    <2>1. ctl.pc \in Rebuilding => control.gen # 0
      BY <1>0 DEF GenInv
    <2>. QED BY <1>0, <1>2, <2>1 DEF WindowInv, Current, Rebuilding
  <1>6. CapInv'
    BY <1>0, CapKept DEF Counts
  <1>. QED
    BY <1>3, <1>4, <1>5, <1>6 DEF RateInv

-----------------------------------------------------------------------------
(* The theorems *)

\* Nothing was granted yet.
LEMMA RateStarts ==
    ASSUME RateLimitAssumption, Init
    PROVE  RateInv
PROOF
  <1>1. redis \in RedisType /\ redis.window = {} /\ redis.generation = 0 /\ redis.status = "none"
    BY DEF Init, Empty, RedisType, NoTime
  <1>2. ctl \in CtlType /\ ctl.pc = "boot" /\ ctl.rows = {}
    BY DEF Init, Boot, CtlType, NoRows
  <1>3. \A t \in Tasks : task[t] \in TaskType /\ task[t].pc = "start" /\ task[t].gen = 0
    BY DEF Init, Fresh, TaskType, NoTime
  <1>4. TypeOK
    BY <1>1, <1>2, <1>3, FS_EmptySet DEF Init, TypeOK, RateLimitAssumption, Holding
  <1>5. GenInv /\ DebitInv
    BY <1>1, <1>2, <1>3 DEF Init, GenInv, DebitInv, Rebuilding, Holding
  <1>6. WindowInv
    BY <1>1, <1>2 DEF Init, WindowInv, Current
  <1>7. CapInv
    BY <1>3 DEF CapInv, Counts
  <1>. QED
    BY <1>4, <1>5, <1>6, <1>7 DEF RateInv

\* Every step keeps the invariant.
LEMMA RateKept ==
    ASSUME RateLimitAssumption, RateInv, [Next]_vars
    PROVE  RateInv'
PROOF
  <1>1. CASE Tick \/ \E n \in Limits : SetLimit(n)
    BY <1>1, TimeStep
  <1>2. CASE \E t \in Tasks : Sender(t) \/ SenderCrash(t)
    <2>. PICK t \in Tasks : Sender(t) \/ SenderCrash(t)
      BY <1>2
    <2>1. CASE Reserve(t) /\ Current(task[t].gen) /\ Admits(task[t].limit)
      BY <2>1, GrantStep
    <2>2. CASE Commit(t)
      BY <2>2, CommitStep
    <2>3. CASE Release(t)
      BY <2>3, ReleaseStep
    <2>4. CASE \/ Resolve(t) \/ Verify(t) \/ Reject(t) \/ InsertDebit(t) \/ SenderCrash(t)
               \/ Reserve(t) /\ ~(Current(task[t].gen) /\ Admits(task[t].limit))
      BY <2>4, SenderStep
    <2>. QED BY <2>1, <2>2, <2>3, <2>4 DEF Sender
  <1>3. CASE Controller
    BY <1>3, EnterStep, FlushStep, ExposeStep, ReadStep, LoadStep, ReadyStep, AnnounceStep, CtlRests DEF Controller
  <1>4. CASE BootstrapFails \/ ControllerCrash
    BY <1>4, CtlRests
  <1>5. CASE RedisRestart
    BY <1>5, RestartStep
  <1>6. CASE UNCHANGED vars
    <2>1. UNCHANGED <<clock, limit, redis, control, debits, task, ctl, recovered>>
      BY <1>6 DEF vars
    <2>2. TypeOK' /\ GenInv' /\ DebitInv' /\ WindowInv'
      <3>1. TypeOK'
        BY <2>1 DEF RateInv, TypeOK
      <3>2. GenInv' /\ DebitInv'
        BY <2>1 DEF RateInv, GenInv, DebitInv
      <3>3. WindowInv'
        BY <2>1 DEF RateInv, WindowInv, Current, Complete, Loaded
      <3>. QED BY <3>1, <3>2, <3>3
    <2>3. CapInv'
      BY <2>1, CapKept DEF RateInv, Counts
    <2>. QED BY <2>2, <2>3 DEF RateInv
  <1>. QED
    BY <1>1, <1>2, <1>3, <1>4, <1>5, <1>6 DEF Next

\* The invariant is inductive.
THEOREM RateInvariance == Spec => []RateInv
PROOF
  <1>1. Init => RateInv
    BY RateStarts, RateLimitAssumption
  <1>2. RateInv /\ [Next]_vars => RateInv'
    BY RateKept, RateLimitAssumption
  <1>. QED
    BY <1>1, <1>2, PTL DEF Spec

\* While senders are let through, Redis counts every send of the generation and every
\* debit its rebuild read, through restarts, crashes and rebuilds that fail half way.
THEOREM LimiterRemembers == Spec => []UsableLimiterRemembers
PROOF
  <1>1. RateInv => UsableLimiterRemembers
    <2>. SUFFICES ASSUME RateInv, Usable
                  PROVE  /\ \A t \in SentIn(control.gen) :
                              task[t].at > clock - Window => [id |-> t, at |-> task[t].at] \in redis.window
                         /\ \A d \in debits : d.id \in recovered.ids /\ d.at > clock - Window => d \in redis.window
      BY DEF UsableLimiterRemembers
    <2>1. Complete
      BY DEF RateInv, WindowInv, Usable
    <2>. QED BY <2>1 DEF Complete, SentIn, Holding
  <1>. QED
    BY <1>1, RateInvariance, PTL

\* No rolling window holds more sends than the largest cap under which one of them was
\* granted, those found by the rebuild included.
THEOREM NoWindowOverCap == Spec => []CapHeld
PROOF
  <1>1. RateInv => CapHeld
    <2>. SUFFICES ASSUME RateInv, NEW x \in 0 .. clock PROVE
            LET inside(at) == at > x - Window /\ at <= x
                granted == {t \in SentIn(recovered.gen) : inside(task[t].at)}
                before  == {d.id : d \in {e \in debits : e.id \in recovered.ids /\ inside(e.at)}}
            IN granted # {} => Cardinality(granted \union before) <= Largest({task[t].limit : t \in granted})
      BY DEF CapHeld
    <2>. DEFINE granted == {t \in SentIn(recovered.gen) : task[t].at > x - Window /\ task[t].at <= x}
                before  == {d.id : d \in {e \in debits : e.id \in recovered.ids /\ e.at > x - Window /\ e.at <= x}}
                caps    == {task[t].limit : t \in granted}
    <2>0. x \in Nat /\ task \in [Tasks -> TaskType] /\ debits \subseteq Rows /\ IsFiniteSet(Tasks)
      BY RateLimitAssumption DEF RateInv, TypeOK, RateLimitAssumption
    <2>. SUFFICES ASSUME granted # {} PROVE Cardinality(granted \union before) <= Largest(caps)
      OBVIOUS
    <2>1. granted \in SUBSET Tasks /\ \A t \in granted : Counts(t) /\ Inside(x, task[t].at)
      BY DEF SentIn, Counts, Inside
    <2>2. before \in SUBSET Tasks /\ \A i \in before : Found(x, i)
      BY <2>0 DEF Rows, Found, Inside
    <2>3. PICK t \in granted : Cardinality(granted \union before) <= task[t].limit
      <3>. HIDE DEF granted, before
      <3>. QED BY <2>0, <2>1, <2>2 DEF RateInv, CapInv
    <2>4. caps \in SUBSET Nat /\ task[t].limit \in caps
      BY <2>0, <2>1 DEF TaskType
    <2>5. IsFiniteSet(caps)
      <3>1. IsFiniteSet(granted)
        BY <2>0, <2>1, FS_Subset
      <3>. DEFINE f == [u \in granted |-> task[u].limit]
      <3>2. f \in Surjection(granted, caps)
        BY DEF Surjection
      <3>. QED BY <3>1, <3>2, FS_Surjection
    <2>6. Largest(caps) \in Nat /\ task[t].limit <= Largest(caps)
      <3>. HIDE DEF caps
      <3>1. \E n \in caps : \A m \in caps : m <= n
        BY <2>4, <2>5, FiniteMax
      <3>. QED BY <2>4, <3>1 DEF Largest
    <2>7. Cardinality(granted \union before) \in Nat /\ task[t].limit \in Nat
      <3>1. granted \union before \in SUBSET Tasks
        BY <2>1, <2>2
      <3>2. Cardinality(granted \union before) \in Nat
        BY <2>0, <3>1, FS_Subset, FS_CardinalityType
      <3>. QED BY <2>4, <3>2
    <2>. HIDE DEF granted, before, caps
    <2>. QED BY <2>3, <2>6, <2>7
  <1>. QED
    BY <1>1, RateInvariance, PTL

\* A reservation that passes the check of the generation is one Redis still counts.
THEOREM VerifiedAreCounted == Spec => VerifiedIsCounted
PROOF
  <1>1. RateInv /\ [Next]_vars =>
            [\A t \in Tasks :
               /\ task[t].pc = "reserved" /\ task'[t].pc = "verified" /\ Usable
               /\ task[t].at > clock - Window
               => [id |-> t, at |-> task[t].at] \in redis.window]_vars
    <2>. SUFFICES ASSUME RateInv, [Next]_vars, NEW t \in Tasks, task[t].pc = "reserved", task'[t].pc = "verified",
                         Usable, task[t].at > clock - Window
                  PROVE  [id |-> t, at |-> task[t].at] \in redis.window
      OBVIOUS
    <2>1. Complete
      BY DEF RateInv, WindowInv, Usable
    <2>2. task[t].gen = control.gen
      <3>1. task \in [Tasks -> TaskType]
        BY DEF RateInv, TypeOK
      <3>2. PICK u \in Tasks : Sender(u) \/ SenderCrash(u)
        BY DEF Next, vars, Tick, SetLimit, Controller, EnterRecovering, FlushKey, Expose, ReadDebits, LoadDebit,
               MarkReady, Announce, Reconcile, BootstrapFails, ControllerCrash, RedisRestart
      <3>3. u = t
        BY <3>1, <3>2 DEF Sender, Resolve, Reserve, Verify, Reject, InsertDebit, Commit, Release, SenderCrash
      <3>4. CASE Verify(t) /\ control.gen = task[t].gen
        BY <3>4
      <3>5. CASE Verify(t) /\ control.gen # task[t].gen
        BY <3>1, <3>5 DEF Verify, Aborting, Fresh
      <3>6. CASE SenderCrash(t)
        BY <3>1, <3>6 DEF SenderCrash, Over, Fresh
      <3>7. ~(Resolve(t) \/ Reserve(t) \/ Reject(t) \/ InsertDebit(t) \/ Commit(t) \/ Release(t))
        BY DEF Resolve, Reserve, Reject, InsertDebit, Commit, Release
      <3>. QED BY <3>2, <3>3, <3>4, <3>5, <3>6, <3>7 DEF Sender
    <2>. QED BY <2>1, <2>2 DEF Complete, Holding
  <1>. QED
    BY <1>1, RateInvariance, PTL DEF Spec, VerifiedIsCounted

=============================================================================
