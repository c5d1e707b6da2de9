----------------------------- MODULE RateLimit -----------------------------
(***************************************************************************)
(* Sending capacity: the Redis limiter, the rate controller that rebuilds  *)
(* it, and the senders that turn a reservation into a durable debit.       *)
(*                                                                         *)
(* A reservation is one atomic script over all the scopes of a message.    *)
(* The authorization transaction that follows checks the durable           *)
(* generation, writes the debit and commits, each at a time of its own.    *)
(* Redis may restart empty at any time; the controller finds out at its    *)
(* next tick, opens a new generation and loads the rolling window from the *)
(* debits it can read.                                                     *)
(*                                                                         *)
(* One scope stands for the policies: the mailbox's rolling window, with   *)
(* its minimum spacing and a limit people can change.  (Windows of a       *)
(* minute or less are token buckets; no mailbox has one by default.)       *)
(***************************************************************************)
EXTENDS Integers, FiniteSets

CONSTANTS
  Tasks,       \* executions of send_email_task, one reservation id each
  Limits,      \* daily caps a person may give the mailbox
  Window,      \* length of the rolling window, in ticks of the clock
  Spacing,     \* minimum spacing of the mailbox, in ticks
  MaxClock,    \* bound on time
  MaxFaults    \* bound on restarts, crashes, Redis errors and changes of the limit

ASSUME RateLimitAssumption ==
  /\ Limits \subseteq Nat \ {0} /\ IsFiniteSet(Tasks)
  /\ {Window, Spacing, MaxClock, MaxFaults} \subseteq Nat
  /\ Window > 0

VARIABLES
  clock,    \* time, as the workers and the database see it
  limit,    \* limit_value of the mailbox's tenant_rate_policies row; 0 when there is none
  redis,    \* the keys of the limiter, and the run_id of the server
  control,  \* the rate_control row
  debits,   \* committed capacity_debits: reservation and authorized_at
  task,     \* what each execution holds
  ctl,      \* the controller process
  recovered, \* what the last rebuild read, and for which generation (history)
  faults    \* faults so far

vars == <<clock, limit, redis, control, debits, task, ctl, recovered, faults>>

Keys    == {"generation", "status", "mailbox"}   \* the last stands for all of the mailbox's keys
NoTime  == -100                  \* a key that does not exist
NoRows  == {}
Entries == [id: Tasks, at: 0..MaxClock]

\* Redis after a start: no key at all.
Empty(run) == [run |-> run, generation |-> 0, status |-> "none", window |-> {},
               spacing |-> NoTime]

Fresh == [pc |-> "start", began |-> 0, limit |-> 0, gen |-> 0, at |-> NoTime]
Aborting == [Fresh EXCEPT !.pc = "aborting"]
Over  == [Fresh EXCEPT !.pc = "lost"]
Boot  == [pc |-> "boot", target |-> 0, todo |-> {}, rows |-> NoRows, known |-> 0, seen |-> 0]

Fault == faults < MaxFaults /\ faults' = faults + 1

Init ==
  /\ clock = 0 /\ limit \in Limits
  /\ redis = Empty(1)
  /\ control = [gen |-> 0, status |-> "none"]
  /\ debits = {}
  /\ task = [t \in Tasks |-> Fresh]
  /\ ctl = Boot
  /\ recovered = [gen |-> 0, ids |-> {}]
  /\ faults = 0

Tick ==
  /\ clock < MaxClock
  /\ clock' = clock + 1
  /\ UNCHANGED <<limit, redis, control, debits, task, ctl, recovered, faults>>

\* MailboxLimitsService.set: the row is inserted or changed, whatever was granted before.
SetLimit(n) ==
  /\ n # limit
  /\ Fault
  /\ limit' = n
  /\ UNCHANGED <<clock, redis, control, debits, task, ctl, recovered>>

-----------------------------------------------------------------------------
(* The limiter's scripts *)

\* What is left of the rolling window once the script has pruned it.
Pruned == {e \in redis.window : e.at > clock - Window}

\* reserve.lua is not asked, or fails closed, unless Redis is in the expected generation.
Current(g) == g # 0 /\ redis.generation = g /\ redis.status = "READY"

\* Mutant: the cap is compared before the new message is counted.
X_Admits(cap) ==
  /\ clock >= redis.spacing + Spacing
  /\ Cardinality(Pruned) <= cap
\* Every scope is evaluated before any is changed.
Admits(cap) ==
  /\ clock >= redis.spacing + Spacing
  /\ Cardinality(Pruned) + 1 <= cap

\* The keys after a grant to t.
Granted(t) ==
  [redis EXCEPT !.window = Pruned \union {[id |-> t, at |-> clock]},
                !.spacing = clock]

\* release.lua takes the reservation's entry back; the spacing stays.  (It works from a
\* record that a flush, a restart or its TTL may have removed: after the first two there
\* is no entry either, the last leaves the entry like a crash of the sender.)
Released(t) == [redis EXCEPT !.window = {e \in redis.window : e.id # t}]

-----------------------------------------------------------------------------
(* A sender *)

\* The policies are resolved in the transaction that will write the debit, whose
\* timestamp the debit takes; the generation is read from Redis.  A mailbox with no
\* cap, or a Redis with no generation, defers the message.
Resolve(t) ==
  /\ task[t].pc = "start"
  /\ limit # 0 /\ redis.generation # 0
  /\ task' = [task EXCEPT ![t] = [pc |-> "asked", began |-> clock, limit |-> limit,
                                  gen |-> redis.generation, at |-> NoTime]]
  /\ UNCHANGED <<clock, limit, redis, control, debits, ctl, recovered, faults>>

\* A refusal of either kind sends the message back to the scheduler.  (That a refusal
\* may have pruned the window is not seen: whoever counts prunes first.)
Reserve(t) ==
  /\ task[t].pc = "asked"
  /\ IF Current(task[t].gen) /\ Admits(task[t].limit)
     THEN /\ task' = [task EXCEPT ![t].pc = "reserved", ![t].at = clock]
          /\ redis' = Granted(t)
     ELSE /\ task' = [task EXCEPT ![t] = Fresh]
          /\ UNCHANGED redis
  /\ UNCHANGED <<clock, limit, control, debits, ctl, recovered, faults>>

\* Mutant: any generation will do once the controller is READY.
X_Verify(t) ==
  /\ task[t].pc = "reserved"
  /\ task' = [task EXCEPT ![t] = IF control.status = "READY" THEN [task[t] EXCEPT !.pc = "verified"]
                                 ELSE Aborting]
  /\ UNCHANGED <<clock, limit, redis, control, debits, ctl, recovered, faults>>
\* The authorization transaction looks at rate_control, without locking it.
Verify(t) ==
  /\ task[t].pc = "reserved"
  /\ task' = [task EXCEPT ![t] = IF control.status = "READY" /\ control.gen = task[t].gen
                                 THEN [task[t] EXCEPT !.pc = "verified"] ELSE Aborting]
  /\ UNCHANGED <<clock, limit, redis, control, debits, ctl, recovered, faults>>

\* A gate, a lock or a version that changed aborts the authorization.
Reject(t) ==
  /\ task[t].pc \in {"verified", "debited"}
  /\ task' = [task EXCEPT ![t] = Aborting]
  /\ UNCHANGED <<clock, limit, redis, control, debits, ctl, recovered, faults>>

\* The trigger of capacity_debits wants READY and does not look at the generation;
\* its error is not an abort, so the reservation is not released.
InsertDebit(t) ==
  /\ task[t].pc = "verified"
  /\ task' = [task EXCEPT ![t] = IF control.status = "READY" THEN [task[t] EXCEPT !.pc = "debited"]
                                 ELSE Over]
  /\ UNCHANGED <<clock, limit, redis, control, debits, ctl, recovered, faults>>

\* The provider is called after this commit.
Commit(t) ==
  /\ task[t].pc = "debited"
  /\ task' = [task EXCEPT ![t].pc = "sent"]
  /\ debits' = debits \union {[id |-> t, at |-> task[t].began]}
  /\ UNCHANGED <<clock, limit, redis, control, ctl, recovered, faults>>

Release(t) ==
  /\ task[t].pc = "aborting"
  /\ task' = [task EXCEPT ![t] = Fresh]
  /\ redis' = Released(t)
  /\ UNCHANGED <<clock, limit, control, debits, ctl, recovered, faults>>

\* The worker dies, or Redis does not take the release: the entry stays in the window.
SenderCrash(t) ==
  /\ task[t].pc \in {"asked", "reserved", "verified", "debited", "aborting"}
  /\ Fault
  /\ task' = [task EXCEPT ![t] = Over]
  /\ UNCHANGED <<clock, limit, redis, control, debits, ctl, recovered>>

-----------------------------------------------------------------------------
(* The controller *)

\* bootstrap: the next generation is RECOVERING in the database before Redis is touched.
EnterRecovering ==
  /\ ctl.pc = "boot"
  /\ control' = [gen |-> control.gen + 1, status |-> "RECOVERING"]
  /\ ctl' = [ctl EXCEPT !.pc = "flush", !.target = control.gen + 1, !.todo = Keys]
  /\ UNCHANGED <<clock, limit, redis, debits, task, recovered, faults>>

\* _flush_redis_namespace: SCAN and DEL, one key after another, in any order.
FlushKey(k) ==
  /\ ctl.pc = "flush" /\ k \in ctl.todo
  /\ redis' = CASE k = "generation" -> [redis EXCEPT !.generation = 0]
               [] k = "status"     -> [redis EXCEPT !.status = "none"]
               [] k = "mailbox"    -> [redis EXCEPT !.window = {}, !.spacing = NoTime]
  /\ ctl' = [ctl EXCEPT !.todo = ctl.todo \ {k},
                        !.pc = IF ctl.todo = {k} THEN "expose" ELSE "flush"]
  /\ UNCHANGED <<clock, limit, control, debits, task, recovered, faults>>

\* _set_generation_and_status
Expose ==
  /\ ctl.pc = "expose"
  /\ redis' = [redis EXCEPT !.generation = ctl.target, !.status = "RECOVERING"]
  /\ ctl' = [ctl EXCEPT !.pc = "read"]
  /\ UNCHANGED <<clock, limit, control, debits, task, recovered, faults>>

\* Mutant: the window is left to fill up again by itself.
X_ReadDebits ==
  /\ ctl.pc = "read"
  /\ ctl' = [ctl EXCEPT !.pc = "load", !.rows = {}]
  /\ recovered' = [gen |-> ctl.target, ids |-> {d.id : d \in debits}]
  /\ UNCHANGED <<clock, limit, redis, control, debits, task, faults>>
\* _rebuild_rolling_windows reads the debits committed so far, once.
ReadDebits ==
  /\ ctl.pc = "read"
  /\ ctl' = [ctl EXCEPT !.pc = "load", !.rows = debits]
  /\ recovered' = [gen |-> ctl.target, ids |-> {d.id : d \in debits}]
  /\ UNCHANGED <<clock, limit, redis, control, debits, task, faults>>

\* One ZADD per debit.  The bucket and the spacing key are not rebuilt.
LoadDebit(e) ==
  /\ ctl.pc = "load" /\ e \in ctl.rows
  /\ redis' = [redis EXCEPT !.window = {f \in redis.window : f.id # e.id} \union {e}]
  /\ ctl' = [ctl EXCEPT !.rows = ctl.rows \ {e}]
  /\ UNCHANGED <<clock, limit, control, debits, task, recovered, faults>>

\* mark_ready: only while the row is still RECOVERING in this generation.
MarkReady ==
  /\ ctl.pc = "load" /\ ctl.rows = {}
  /\ IF control = [gen |-> ctl.target, status |-> "RECOVERING"]
     THEN /\ control' = [control EXCEPT !.status = "READY"]
          /\ ctl' = [ctl EXCEPT !.pc = "announce"]
     ELSE /\ UNCHANGED control
          /\ ctl' = [ctl EXCEPT !.pc = "idle", !.known = ctl.seen]
  /\ UNCHANGED <<clock, limit, redis, debits, task, recovered, faults>>

Announce ==
  /\ ctl.pc = "announce"
  /\ redis' = [redis EXCEPT !.status = "READY"]
  /\ ctl' = [ctl EXCEPT !.pc = "idle", !.known = ctl.seen]
  /\ UNCHANGED <<clock, limit, control, debits, task, recovered, faults>>

\* Mutant: the tick takes the run_id it sees for the known one and goes on.
X_Reconcile ==
  /\ ctl.pc = "idle" /\ ctl.known # redis.run
  /\ ctl' = [ctl EXCEPT !.known = redis.run]
  /\ UNCHANGED <<clock, limit, redis, control, debits, task, recovered, faults>>
\* reconcile_loop_tick: the first tick only learns the run_id.
Reconcile ==
  /\ ctl.pc = "idle" /\ ctl.known # redis.run
  /\ ctl' = IF ctl.known = 0 THEN [ctl EXCEPT !.known = redis.run]
            ELSE [ctl EXCEPT !.pc = "boot", !.seen = redis.run]
  /\ UNCHANGED <<clock, limit, redis, control, debits, task, recovered, faults>>

\* A Redis error ends the bootstrap: what is known of the run_id stays as it was.
BootstrapFails ==
  /\ ctl.pc \in {"flush", "expose", "load", "announce"}
  /\ Fault
  /\ ctl' = [ctl EXCEPT !.pc = "idle", !.todo = {}, !.rows = {}]
  /\ UNCHANGED <<clock, limit, redis, control, debits, task, recovered>>

ControllerCrash ==
  /\ ctl # Boot
  /\ Fault
  /\ ctl' = Boot
  /\ UNCHANGED <<clock, limit, redis, control, debits, task, recovered>>

RedisRestart ==
  /\ Fault
  /\ redis' = Empty(redis.run + 1)
  /\ UNCHANGED <<clock, limit, control, debits, task, ctl, recovered>>

-----------------------------------------------------------------------------
Sender(t) == \/ Resolve(t) \/ Reserve(t) \/ Verify(t) \/ Reject(t) \/ InsertDebit(t)
             \/ Commit(t) \/ Release(t)

Controller == \/ EnterRecovering \/ \E k \in Keys : FlushKey(k)
              \/ Expose \/ ReadDebits \/ \E e \in ctl.rows : LoadDebit(e)
              \/ MarkReady \/ Announce \/ Reconcile

Next ==
  \/ Tick \/ \E n \in Limits : SetLimit(n)
  \/ \E t \in Tasks : Sender(t) \/ SenderCrash(t)
  \/ Controller \/ BootstrapFails \/ ControllerCrash \/ RedisRestart

Spec == Init /\ [][Next]_vars /\ WF_vars(Controller)

-----------------------------------------------------------------------------
(* Properties *)

\* Senders are let through: Redis and the database agree on a READY generation.
Usable == Current(control.gen) /\ control.status = "READY"

SentIn(g) == {t \in Tasks : task[t].pc = "sent" /\ task[t].gen = g}
Largest(S) == CHOOSE n \in S : \A m \in S : m <= n

\* While senders are let through, Redis counts every send of this generation and every
\* debit the rebuild read, as long as the window does: a limiter that lost, flushed or
\* released such an entry would grant its capacity a second time.
UsableLimiterRemembers ==
  Usable => /\ \A t \in SentIn(control.gen) :
                 task[t].at > clock - Window => [id |-> t, at |-> task[t].at] \in redis.window
            /\ \A d \in debits :
                 /\ d.id \in recovered.ids /\ d.at > clock - Window
                 => d \in redis.window

\* A reservation that passes the check of the generation is one Redis still counts: none
\* that a restart or a rebuild dropped gets as far as a debit while senders are let through.
VerifiedIsCounted ==
  [][\A t \in Tasks :
       /\ task[t].pc = "reserved" /\ task'[t].pc = "verified" /\ Usable
       /\ task[t].at > clock - Window
       => [id |-> t, at |-> task[t].at] \in redis.window]_vars

\* No window holds more sends than the largest cap under which one of them was granted:
\* the sends of the generation, and what the rebuild found, together.
CapHeld ==
  LET g == recovered.gen IN
  \A x \in 0..clock :
    LET inside(at) == at > x - Window /\ at <= x
        granted == {t \in SentIn(g) : inside(task[t].at)}
        before  == {d.id : d \in {e \in debits : e.id \in recovered.ids /\ inside(e.at)}}
    IN granted # {} => Cardinality(granted \union before) <= Largest({task[t].limit : t \in granted})

\* A restart of Redis that a controller can notice is made good: senders are let through
\* again, unless the controller process is itself replaced.
LostRedisIsRebuilt ==
  (ctl.pc = "idle" /\ ctl.known \notin {0, redis.run}) ~> (Usable \/ ctl.known = 0)

=============================================================================
