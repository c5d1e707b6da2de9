------------------------- MODULE SendPipeline_proofs -------------------------
(***************************************************************************)
(* Theorems about SendPipeline, for every number of messages and workers   *)
(* and every bound.                                                        *)
(***************************************************************************)
EXTENDS SendPipeline, FiniteSetTheorems, SequenceTheorems, TLAPS

-----------------------------------------------------------------------------
(* Updates of single rows *)

\* Writing one message row changes that row only.
LEMMA MsgUpdate ==
  ASSUME TypeOK, NEW m \in Msgs, NEW row \in MsgType, msg' = [msg EXCEPT ![m] = row]
  PROVE  /\ msg' \in [Msgs -> MsgType]
         /\ msg'[m] = row
         /\ \A o \in Msgs : o # m => msg'[o] = msg[o]
BY DEF TypeOK

\* A status change leaves the rest of the message alone.
LEMMA StatusUpdate ==
  ASSUME TypeOK, NEW m \in Msgs, NEW status \in Statuses,
         msg' = [msg EXCEPT ![m].status = status]
  PROVE  /\ msg' \in [Msgs -> MsgType]
         /\ msg'[m] = [msg[m] EXCEPT !.status = status]
         /\ \A o \in Msgs : o # m => msg'[o] = msg[o]
<1>0. msg[m] \in MsgType
  BY DEF TypeOK
<1>1. [msg[m] EXCEPT !.status = status] \in MsgType
  BY <1>0 DEF MsgType
<1>2. msg' = [msg EXCEPT ![m] = [msg[m] EXCEPT !.status = status]]
  BY DEF TypeOK
<1> QED BY <1>1, <1>2, MsgUpdate

\* What the fields of a changed message are.
LEMMA StatusFields ==
  ASSUME NEW row \in MsgType, NEW status \in Statuses
  PROVE  LET new == [row EXCEPT !.status = status]
         IN  new.status = status /\ new.gen = row.gen /\ new.origin = row.origin
BY DEF MsgType

\* New evidence for one attempt changes nothing else about any attempt.
LEMMA EvidenceUpdate ==
  ASSUME TypeOK, NEW m \in Msgs, NEW n \in DOMAIN att[m], NEW evidence \in Evidence,
         Record(m, n, evidence)
  PROVE  /\ att' \in [Msgs -> Seq(AttemptType)]
         /\ \A o \in Msgs : DOMAIN att'[o] = DOMAIN att[o]
         /\ \A o \in Msgs : \A i \in DOMAIN att[o] :
              /\ att'[o][i].gen = att[o][i].gen
              /\ att'[o][i].evidence = IF o = m /\ i = n THEN evidence
                                                       ELSE att[o][i].evidence
<1>1. att[m] \in Seq(AttemptType) /\ att[m][n] \in AttemptType
  BY DEF TypeOK
<1> DEFINE new == [att[m][n] EXCEPT !.evidence = evidence]
<1>2. new \in AttemptType /\ new.evidence = evidence /\ new.gen = att[m][n].gen
  BY <1>1 DEF AttemptType
<1> DEFINE seq == [att[m] EXCEPT ![n] = new]
<1>3. /\ seq \in Seq(AttemptType) /\ DOMAIN seq = DOMAIN att[m]
      /\ \A i \in DOMAIN att[m] : seq[i] = IF i = n THEN new ELSE att[m][i]
  BY <1>1, <1>2, ExceptSeq
<1>4. att' = [att EXCEPT ![m] = seq]
  BY DEF Record, TypeOK
<1> HIDE DEF seq, new
<1>5. att' \in [Msgs -> Seq(AttemptType)] /\ att'[m] = seq
      /\ \A o \in Msgs : o # m => att'[o] = att[o]
  BY <1>3, <1>4 DEF TypeOK
<1> QED BY <1>2, <1>3, <1>5

\* Writing one worker's state changes that worker only.
LEMMA WorkerUpdate ==
  ASSUME TypeOK, NEW w \in Workers, NEW state \in WorkerType, wk' = [wk EXCEPT ![w] = state]
  PROVE  /\ wk' \in [Workers -> WorkerType]
         /\ wk'[w] = state
         /\ \A v \in Workers : v # w => wk'[v] = wk[v]
BY DEF TypeOK

\* Taking a task, or finishing one, moves that worker only.
LEMMA TakeWorker ==
  ASSUME TypeOK, NEW w \in Workers, NEW m \in Msgs, NEW g \in Nat,
         NEW pc \in {"loaded", "finished"}, Take(w, m, g, pc)
  PROVE  /\ wk' \in [Workers -> WorkerType]
         /\ wk'[w].pc = pc /\ wk'[w].m = m /\ wk'[w].g = g
         /\ \A v \in Workers : v # w => wk'[v] = wk[v]
<1> DEFINE new == [Idle EXCEPT !.pc = pc, !.m = m, !.g = g]
<1>1. new \in WorkerType /\ new.pc = pc /\ new.m = m /\ new.g = g
  BY DEF Idle, WorkerType
<1>2. wk' = [wk EXCEPT ![w] = new]
  BY DEF Take
<1> HIDE DEF new
<1> QED BY <1>1, <1>2, WorkerUpdate

\* ... and a worker that is done has finished with the message it had.
LEMMA DoneWorker ==
  ASSUME TypeOK, NEW w \in Workers, wk[w].m \in Msgs, Done(w)
  PROVE  /\ wk' \in [Workers -> WorkerType]
         /\ wk'[w].pc = "finished" /\ wk'[w].m = wk[w].m /\ wk'[w].g = wk[w].g
         /\ \A v \in Workers : v # w => wk'[v] = wk[v]
<1>1. wk[w].g \in Nat
  BY DEF TypeOK, WorkerType
<1> QED BY <1>1, TakeWorker DEF Done

\* A worker that goes on with its task keeps the task.
LEMMA GoesOnWorker ==
  ASSUME TypeOK, NEW w \in Workers, NEW pc \in {"denied", "checked"}, NEW cred \in Nat,
         wk' = [wk EXCEPT ![w].pc = pc, ![w].cred = cred]
  PROVE  /\ wk' \in [Workers -> WorkerType]
         /\ wk'[w].pc = pc /\ wk'[w].m = wk[w].m /\ wk'[w].g = wk[w].g
         /\ wk'[w].cred = cred
         /\ \A v \in Workers : v # w => wk'[v] = wk[v]
<1>0. wk[w] \in WorkerType
  BY DEF TypeOK
<1> DEFINE new == [wk[w] EXCEPT !.pc = pc, !.cred = cred]
<1>1. new \in WorkerType /\ new.pc = pc /\ new.m = wk[w].m /\ new.g = wk[w].g
      /\ new.cred = cred
  BY <1>0 DEF WorkerType
<1>2. wk' = [wk EXCEPT ![w] = new]
  BY DEF TypeOK
<1> HIDE DEF new
<1> QED BY <1>1, <1>2, WorkerUpdate

\* An idle worker is a worker.
LEMMA IdleWorker ==
  ASSUME TypeOK, NEW w \in Workers, wk' = [wk EXCEPT ![w] = Idle]
  PROVE  /\ wk' \in [Workers -> WorkerType]
         /\ wk'[w].pc = "idle"
         /\ \A v \in Workers : v # w => wk'[v] = wk[v]
<1>1. Idle \in WorkerType /\ Idle.pc = "idle"
  BY DEF Idle, WorkerType
<1> QED BY <1>1 DEF TypeOK

-----------------------------------------------------------------------------
(* Types *)

\* The number of QUEUED messages is a number.
LEMMA QueuedCount == Cardinality(Queued) \in Nat
<1>1. IsFiniteSet(Queued)
  BY FS_Subset, PipelineAssumption DEF Queued, PipelineAssumption
<1> QED BY <1>1, FS_CardinalityType

\* The initial state is well typed.
LEMMA TypeInit == Init => TypeOK
<1>1. Idle \in WorkerType
  BY DEF Idle, WorkerType
<1>2. \A m \in Msgs : [status |-> "SCHEDULED", origin |-> "none", gen |-> 1,
                      lease |-> "none", retries |-> 0, rfc |-> FALSE] \in MsgType
  BY DEF MsgType, Statuses, Sendable
<1>3. <<>> \in Seq(AttemptType)
  OBVIOUS
<1> QED BY <1>1, <1>2, <1>3 DEF Init, TypeOK

\* The scheduler, the clock and the publisher keep every variable well typed.
LEMMA TypeScheduler ==
  ASSUME TypeOK, ClaimsInv, NEW m \in Msgs, Scheduler(m) \/ Clock(m)
  PROVE  TypeOK'
<1>0. msg[m] \in MsgType /\ att[m] \in Seq(AttemptType)
  BY DEF TypeOK
<1>2. CASE Claim(m)
  <2>0. msg[m].status \in Sendable /\ "QUEUED" \in Statuses
    BY <1>2 DEF Claim, Statuses, Eligible
  <2>g. NextGen(m) \in Nat
    BY <1>0 DEF NextGen, MsgType
  <2>1. [msg[m] EXCEPT !.status = "QUEUED", !.origin = msg[m].status,
                       !.gen = NextGen(m), !.lease = "held"] \in MsgType
    BY <1>0, <2>0, <2>g DEF MsgType
  <2>2. msg' = [msg EXCEPT ![m] = [msg[m] EXCEPT !.status = "QUEUED", !.origin = msg[m].status,
                       !.gen = NextGen(m), !.lease = "held"]]
    BY <1>2 DEF Claim, TypeOK
  <2>3. msg' \in [Msgs -> MsgType]
    BY <2>1, <2>2, MsgUpdate
  <2>4. room' \in Nat /\ pending' \subseteq Msgs \X Nat
    BY <1>0, <1>2, <2>g DEF Claim, TypeOK, MsgType
  <2> QED BY <1>2, <2>3, <2>4 DEF Claim, TypeOK, facts
<1>3. CASE RecoverExpiredClaim(m)
  <2>0. msg[m].origin \in Statuses
    BY <1>3 DEF RecoverExpiredClaim, StuckClaim, ClaimsInv, Statuses
  <2>1. [msg[m] EXCEPT !.status = msg[m].origin, !.origin = "none", !.lease = "none"] \in MsgType
    BY <1>0, <2>0 DEF MsgType
  <2>2. msg' = [msg EXCEPT ![m] =
                   [msg[m] EXCEPT !.status = msg[m].origin, !.origin = "none", !.lease = "none"]]
    BY <1>3 DEF RecoverExpiredClaim, TypeOK
  <2>3. msg' \in [Msgs -> MsgType]
    BY <2>1, <2>2, MsgUpdate
  <2> QED BY <1>3, <2>3 DEF RecoverExpiredClaim, TypeOK, facts
<1>4. CASE FindStaleExecution(m)
  <2>1. stale' \subseteq Msgs \X Nat
    BY <1>0, <1>4 DEF FindStaleExecution, TypeOK, Unresolved
  <2> QED BY <1>4, <2>1 DEF FindStaleExecution, TypeOK, facts, transit
<1>5. CASE RecoverStaleExecution(m)
  <2>1. PICK n \in DOMAIN att[m] :
          /\ stale' = stale \ {<<m, n>>}
          /\ Abandon(m, n) \/ UNCHANGED <<msg, att>>
    BY <1>5 DEF RecoverStaleExecution
  <2>2. msg' \in [Msgs -> MsgType] /\ att' \in [Msgs -> Seq(AttemptType)]
    <3>1. CASE UNCHANGED <<msg, att>>
      BY <3>1 DEF TypeOK
    <3>2. CASE Abandon(m, n)
      <4> DEFINE status == IF msg[m].status = "SENDING" THEN "UNKNOWN_OUTCOME" ELSE msg[m].status
      <4>1. status \in Statuses /\ "UNKNOWN" \in Evidence
        BY <1>0 DEF MsgType, Statuses, Resolved, Evidence
      <4>2. msg' = [msg EXCEPT ![m].status = status]
        BY <3>2 DEF Abandon, TypeOK
      <4> HIDE DEF status
      <4> QED BY <3>2, <4>1, <4>2, StatusUpdate, EvidenceUpdate DEF Abandon
    <3> QED BY <2>1, <3>1, <3>2
  <2> QED BY <1>5, <2>1, <2>2 DEF RecoverStaleExecution, TypeOK, facts, transit
<1>6. CASE Reconcile(m)
  <2>1. msg' \in [Msgs -> MsgType]
    BY <1>6, StatusUpdate DEF Reconcile, Statuses, Resolved, Terminal
  <2> DEFINE seq == [n \in DOMAIN att[m] |->
               [gen      |-> att[m][n].gen,
                evidence |-> IF att[m][n].evidence = "UNKNOWN" THEN "ACCEPTED"
                                                               ELSE att[m][n].evidence,
                expired  |-> att[m][n].expired]]
  <2>2. \A n \in DOMAIN att[m] : seq[n] \in AttemptType
    <3> TAKE n \in DOMAIN att[m]
    <3>1. att[m][n] \in AttemptType
      BY <1>0
    <3> QED BY <3>1 DEF AttemptType, Evidence
  <2>3. seq \in Seq(AttemptType)
    <3>1. DOMAIN att[m] = 1..Len(att[m]) /\ Len(att[m]) \in Nat
      BY <1>0
    <3>2. seq \in [1..Len(att[m]) -> AttemptType]
      BY <2>2, <3>1
    <3> HIDE DEF seq
    <3> QED BY <3>1, <3>2, SeqDef
  <2>4. att' \in [Msgs -> Seq(AttemptType)]
    BY <1>6, <2>3 DEF Reconcile, TypeOK
  <2> QED BY <1>6, <2>1, <2>4 DEF Reconcile, TypeOK, facts, transit
<1>7. CASE ClaimLeaseExpires(m)
  <2>1. [msg[m] EXCEPT !.lease = "expired"] \in MsgType
    BY <1>0 DEF MsgType
  <2>2. msg' \in [Msgs -> MsgType]
    BY <1>7, <2>1, MsgUpdate DEF ClaimLeaseExpires, TypeOK
  <2>3. faults' \in Nat
    BY <1>7 DEF ClaimLeaseExpires, Fault, TypeOK
  <2> QED BY <1>7, <2>2, <2>3 DEF ClaimLeaseExpires, TypeOK, facts, transit
<1>8. CASE DeadlinePasses(m)
  <2>1. PICK n \in Unresolved(m) : att' = [att EXCEPT ![m][n].expired = TRUE]
    BY <1>8 DEF DeadlinePasses
  <2>2. n \in DOMAIN att[m] /\ att[m][n] \in AttemptType
    BY <1>0 DEF Unresolved
  <2>3. [att[m][n] EXCEPT !.expired = TRUE] \in AttemptType
    BY <2>2 DEF AttemptType
  <2>4. [att[m] EXCEPT ![n] = [att[m][n] EXCEPT !.expired = TRUE]] \in Seq(AttemptType)
    BY <1>0, <2>2, <2>3, ExceptSeq
  <2>5. att' = [att EXCEPT ![m] = [att[m] EXCEPT ![n] = [att[m][n] EXCEPT !.expired = TRUE]]]
    BY <2>1 DEF TypeOK
  <2>6. att' \in [Msgs -> Seq(AttemptType)]
    BY <2>4, <2>5 DEF TypeOK
  <2>7. faults' \in Nat
    BY <1>8 DEF DeadlinePasses, Fault, TypeOK
  <2> QED BY <1>8, <2>6, <2>7 DEF DeadlinePasses, TypeOK, facts, transit
<1> QED
  BY <1>2, <1>3, <1>4, <1>5, <1>6, <1>7, <1>8 DEF Scheduler, Clock

\* A hand-back returns a QUEUED message to where its claim found it, or does nothing.
LEMMA HandBackEffect ==
  ASSUME TypeOK, ClaimsInv, NEW m \in Msgs, NEW g \in Nat, HandBack(m, g)
  PROVE  /\ msg' \in [Msgs -> MsgType]
         /\ \A o \in Msgs : o # m => msg'[o] = msg[o]
         /\ \/ msg'[m] = msg[m]
            \/ msg[m].status = "QUEUED" /\ msg'[m].status \in Sendable
         /\ msg'[m].retries = msg[m].retries
<1>0. msg[m] \in MsgType
  BY DEF TypeOK
<1>1. CASE ~(msg[m].status = "QUEUED" /\ msg[m].gen = g /\ ~AttemptedAt(m, g))
  BY <1>1 DEF HandBack, TypeOK
<1>2. CASE msg[m].status = "QUEUED" /\ msg[m].gen = g /\ ~AttemptedAt(m, g)
  <2> DEFINE new == [msg[m] EXCEPT !.status = msg[m].origin, !.origin = "none",
                                   !.lease = "none", !.gen = msg[m].gen + 1]
  <2>1. msg[m].origin \in Sendable /\ msg[m].origin \in Statuses
    BY <1>2 DEF ClaimsInv, Statuses
  <2>2. msg[m].gen + 1 \in Nat
    BY <1>0 DEF MsgType
  <2>3. new \in MsgType /\ new.status = msg[m].origin /\ new.retries = msg[m].retries
    BY <1>0, <2>1, <2>2 DEF MsgType
  <2>4. msg' = [msg EXCEPT ![m] = new]
    BY <1>2 DEF HandBack, TypeOK
  <2> HIDE DEF new
  <2> QED BY <1>2, <2>1, <2>3, <2>4, MsgUpdate
<1> QED BY <1>1, <1>2

\* A recorded result concludes one open attempt and one message, and the worker
\* that records it is done.
LEMMA FinalizeEffect ==
  ASSUME TypeOK, NEW w \in Workers, wk[w].m \in Msgs,
         NEW evidence \in Evidence, NEW status \in Statuses, NEW retries \in Nat,
         NEW rfc \in BOOLEAN, Finalize(w, evidence, status, retries, rfc)
  PROVE  LET m == wk[w].m  n == wk[w].n IN
         /\ RowFree(m) /\ MayFinalize(m, n, status)
         /\ msg' \in [Msgs -> MsgType]
         /\ msg'[m].status = status /\ msg'[m].retries = retries
         /\ \A o \in Msgs : o # m => msg'[o] = msg[o]
         /\ att' \in [Msgs -> Seq(AttemptType)]
         /\ \A o \in Msgs : DOMAIN att'[o] = DOMAIN att[o]
         /\ \A o \in Msgs : \A i \in DOMAIN att[o] :
              /\ att'[o][i].gen = att[o][i].gen
              /\ att'[o][i].evidence = IF o = m /\ i = n THEN evidence
                                                       ELSE att[o][i].evidence
         /\ wk' \in [Workers -> WorkerType]
         /\ wk'[w].pc = "finished" /\ wk'[w].m = m
         /\ \A v \in Workers : v # w => wk'[v] = wk[v]
<1> DEFINE m == wk[w].m  n == wk[w].n
<1>0. m \in Msgs /\ msg[m] \in MsgType
  BY DEF TypeOK
<1>1. /\ RowFree(m) /\ MayFinalize(m, n, status)
      /\ Record(m, n, evidence)
      /\ msg' = [msg EXCEPT ![m].status = status, ![m].retries = retries, ![m].rfc = @ \/ rfc]
      /\ Done(w)
  BY DEF Finalize
<1>2. n \in DOMAIN att[m]
  BY <1>1 DEF MayFinalize, Unresolved
<1> DEFINE new == [msg[m] EXCEPT !.status = status, !.retries = retries, !.rfc = msg[m].rfc \/ rfc]
<1>3. (msg[m].rfc \/ rfc) \in BOOLEAN
  OBVIOUS
<1>4. new \in MsgType /\ new.status = status /\ new.retries = retries
  BY <1>0, <1>3 DEF MsgType
<1>5. msg' = [msg EXCEPT ![m] = new]
  BY <1>1 DEF TypeOK
<1> HIDE DEF new
<1>6. /\ msg' \in [Msgs -> MsgType] /\ msg'[m].status = status /\ msg'[m].retries = retries
      /\ \A o \in Msgs : o # m => msg'[o] = msg[o]
  BY <1>0, <1>4, <1>5, MsgUpdate
<1>7. /\ att' \in [Msgs -> Seq(AttemptType)]
      /\ \A o \in Msgs : DOMAIN att'[o] = DOMAIN att[o]
      /\ \A o \in Msgs : \A i \in DOMAIN att[o] :
           /\ att'[o][i].gen = att[o][i].gen
           /\ att'[o][i].evidence = IF o = m /\ i = n THEN evidence
                                                    ELSE att[o][i].evidence
  <2>1. Record(m, n, evidence)
    BY <1>1
  <2> HIDE DEF m, n
  <2> QED BY <1>0, <1>2, <2>1, EvidenceUpdate
<1>8. /\ wk' \in [Workers -> WorkerType] /\ wk'[w].pc = "finished" /\ wk'[w].m = m
      /\ \A v \in Workers : v # w => wk'[v] = wk[v]
  BY <1>1, DoneWorker
<1> QED BY <1>1, <1>6, <1>7, <1>8

\* The publisher moves deliveries of real messages.
LEMMA TypePublisher ==
  ASSUME TypeOK, NEW m \in Msgs, NEW g \in 1..MaxGen, Publisher(m, g) \/ LoseTask(m, g)
  PROVE  TypeOK'
<1>0. <<m, g>> \in Msgs \X Nat
  BY PipelineAssumption DEF PipelineAssumption
<1>1. CASE LeaseDelivery(m, g)
  BY <1>0, <1>1 DEF LeaseDelivery, TypeOK, facts
<1>2. CASE Publish(m, g)
  BY <1>0, <1>2 DEF Publish, TypeOK, facts
<1>3. CASE PublishFails(m, g)
  <2>1. faults' \in Nat
    BY <1>3 DEF PublishFails, Fault, TypeOK
  <2>2. pending' \subseteq Msgs \X Nat /\ leased' \subseteq Msgs \X Nat /\ tasks' \subseteq Msgs \X Nat
    BY <1>0, <1>3 DEF PublishFails, TypeOK
  <2> QED BY <1>3, <2>1, <2>2 DEF PublishFails, TypeOK, facts
<1>4. CASE LoseTask(m, g)
  <2>1. faults' \in Nat
    BY <1>4 DEF LoseTask, Fault, TypeOK
  <2> QED BY <1>4, <2>1 DEF LoseTask, TypeOK, facts, transit
<1> QED BY <1>1, <1>2, <1>3, <1>4 DEF Publisher

\* Loading a task moves one worker and at most one message.
LEMMA TypeLoad ==
  ASSUME TypeOK, ClaimsInv, NEW w \in Workers, NEW m \in Msgs, NEW g \in 1..MaxGen, Load(w, m, g)
  PROVE  TypeOK'
<1>0. g \in Nat
  BY PipelineAssumption DEF PipelineAssumption
<1>1. CASE LoadStops(w, m, g)
  <2>1. wk' \in [Workers -> WorkerType]
    BY <1>0, <1>1, TakeWorker DEF LoadStops
  <2> QED BY <1>1, <2>1 DEF LoadStops, TypeOK, facts, transit
<1>2. CASE LoadSkips(w, m, g)
  <2>1. wk' \in [Workers -> WorkerType]
    BY <1>0, <1>2, TakeWorker DEF LoadSkips
  <2>2. msg' \in [Msgs -> MsgType]
    BY <1>2, StatusUpdate DEF LoadSkips, Statuses, Resolved, Terminal
  <2> QED BY <1>2, <2>1, <2>2 DEF LoadSkips, TypeOK, facts, transit
<1>3. CASE LoadHandsBack(w, m, g)
  <2>1. wk' \in [Workers -> WorkerType]
    BY <1>0, <1>3, TakeWorker DEF LoadHandsBack
  <2>2. msg' \in [Msgs -> MsgType]
    BY <1>0, <1>3, HandBackEffect DEF LoadHandsBack
  <2>3. faults' \in Nat
    BY <1>3 DEF LoadHandsBack, Fault, TypeOK
  <2> QED BY <1>3, <2>1, <2>2, <2>3 DEF LoadHandsBack, TypeOK, facts, transit
<1>4. CASE LoadPasses(w, m, g)
  <2>1. wk' \in [Workers -> WorkerType]
    BY <1>0, <1>4, TakeWorker DEF LoadPasses
  <2> QED BY <1>4, <2>1 DEF LoadPasses, TypeOK, facts, transit
<1> QED BY <1>1, <1>2, <1>3, <1>4 DEF Load

\* People and the mailbox change facts, and cancel what was not authorized.
LEMMA TypeOutside ==
  ASSUME TypeOK, NEW m \in Msgs, Outside(m)
  PROVE  TypeOK'
<1>1. ASSUME NEW status \in {"CANCELLED", "SKIPPED"}, StopRecipient(m, status)
      PROVE  /\ msg' \in [Msgs -> MsgType]
             /\ enrollment' \in [Msgs -> {"ACTIVE", "STOPPED"}]
  <2> DEFINE new == IF msg[m].status \in Cancellable THEN status ELSE msg[m].status
  <2>0. msg[m] \in MsgType
    BY DEF TypeOK
  <2>1. new \in Statuses
    BY <2>0, <1>1 DEF MsgType, Statuses, Resolved, Terminal
  <2>2. msg' = [msg EXCEPT ![m].status = new]
    BY <1>1 DEF StopRecipient, TypeOK
  <2> HIDE DEF new
  <2>3. msg' \in [Msgs -> MsgType]
    BY <2>1, <2>2, StatusUpdate
  <2> QED BY <1>1, <2>3 DEF StopRecipient, TypeOK
<1>2. CASE Reply(m)
  BY <1>1, <1>2 DEF Reply, TypeOK, transit
<1>3. CASE Unsubscribe(m)
  BY <1>1, <1>3 DEF Unsubscribe, TypeOK, transit
<1>4. CASE Suppress(m)
  BY <1>4 DEF Suppress, TypeOK, transit
<1> QED BY <1>2, <1>3, <1>4 DEF Outside

\* So do pausing the campaign and whatever happens to the mailbox.
LEMMA TypeEnvironment ==
  ASSUME TypeOK, Pause \/ Resume \/ Disconnect \/ Reconnect \/ BlockPasses
  PROVE  TypeOK'
<1>1. CASE Pause
  <2>1. faults' \in Nat
    BY <1>1 DEF Pause, Fault, TypeOK
  <2> QED BY <1>1, <2>1 DEF Pause, TypeOK, transit
<1>2. CASE Resume
  BY <1>2 DEF Resume, TypeOK, transit
<1>3. CASE Disconnect \/ Reconnect \/ BlockPasses
  <2>1. mailbox' \in [connected : BOOLEAN, gen : Nat, blocked : BOOLEAN]
    <3>1. mailbox \in [connected : BOOLEAN, gen : Nat, blocked : BOOLEAN] /\ mailbox.gen + 1 \in Nat
      BY DEF TypeOK
    <3>2. \/ mailbox' = [mailbox EXCEPT !.connected = FALSE, !.gen = mailbox.gen + 1]
          \/ mailbox' = [mailbox EXCEPT !.connected = TRUE, !.gen = mailbox.gen + 1]
          \/ mailbox' = [mailbox EXCEPT !.blocked = FALSE]
      BY <1>3 DEF Disconnect, Reconnect, BlockPasses
    <3> QED BY <3>1, <3>2
  <2> QED BY <1>3, <2>1 DEF Disconnect, Reconnect, BlockPasses, TypeOK, facts, transit
<1> QED BY <1>1, <1>2, <1>3

\* What a worker may conclude from the answer it has: acceptance, an unknown
\* outcome, or that nothing was sent.
Concludes(w, evidence, status) ==
  \/ evidence = "ACCEPTED" /\ status = "SENT"
       /\ wk[w].pc = "answered" /\ wk[w].result = "ACCEPTED"
  \/ evidence = "UNKNOWN" /\ status = "UNKNOWN_OUTCOME"
       /\ wk[w].pc = "answered" /\ wk[w].result = "UNKNOWN"
  \/ evidence \in {"REJECTED", "NOT_INVOKED"} /\ status \in {"FAILED", "RETRY_SCHEDULED"}
       /\ Unclaimed(w)

Concluding(w) ==
  \/ NotInvoked(w) \/ FinalizeAccepted(w) \/ FinalizeUnknown(w)
  \/ FinalizeRejected(w) \/ FinalizeAuthFailure(w) \/ ResultIsLost(w)

\* Every way to end the work on an answer either records what the answer means
\* or records nothing.
LEMMA ConclusionEffect ==
  ASSUME TypeOK, NEW w \in Workers, wk[w].m \in Msgs, Concluding(w)
  PROVE  /\ \/ \E evidence \in Evidence, status \in Statuses, retries \in Nat, rfc \in BOOLEAN :
                 Concludes(w, evidence, status) /\ Finalize(w, evidence, status, retries, rfc)
            \/ Done(w) /\ UNCHANGED <<msg, att>>
         /\ mailbox' \in [connected : BOOLEAN, gen : Nat, blocked : BOOLEAN]
         /\ faults' \in Nat
         /\ UNCHANGED <<facts, transit, tasks, room, stale, copies>>
<1>0. /\ msg[wk[w].m] \in MsgType /\ wk[w] \in WorkerType
      /\ mailbox \in [connected : BOOLEAN, gen : Nat, blocked : BOOLEAN] /\ faults \in Nat
  BY DEF TypeOK
<1>1. /\ msg[wk[w].m].retries \in Nat /\ msg[wk[w].m].retries + 1 \in Nat
      /\ {"ACCEPTED", "UNKNOWN", "REJECTED", "NOT_INVOKED"} \subseteq Evidence
      /\ {"SENT", "UNKNOWN_OUTCOME", "FAILED", "RETRY_SCHEDULED"} \subseteq Statuses
      /\ TRUE \in BOOLEAN /\ FALSE \in BOOLEAN
  BY <1>0 DEF MsgType, Evidence, Statuses, Sendable, Resolved, Terminal
<1>2. CASE NotInvoked(w)
  <2>1. Concludes(w, "NOT_INVOKED", "FAILED") /\ Concludes(w, "NOT_INVOKED", "RETRY_SCHEDULED")
    BY <1>2 DEF NotInvoked, Concludes, Unclaimed
  <2>2. faults' \in Nat
    <3>1. UNCHANGED faults \/ Fault
      BY <1>2 DEF NotInvoked
    <3> QED BY <1>0, <3>1 DEF Fault
  <2> QED BY <1>0, <1>1, <1>2, <2>1, <2>2 DEF NotInvoked
<1>3. CASE FinalizeAccepted(w)
  <2>1. Concludes(w, "ACCEPTED", "SENT")
    BY <1>3 DEF FinalizeAccepted, Concludes
  <2> QED BY <1>0, <1>1, <1>3, <2>1 DEF FinalizeAccepted
<1>4. CASE FinalizeUnknown(w)
  <2>1. Concludes(w, "UNKNOWN", "UNKNOWN_OUTCOME")
    BY <1>4 DEF FinalizeUnknown, Concludes
  <2> QED BY <1>0, <1>1, <1>4, <2>1 DEF FinalizeUnknown
<1>5. CASE FinalizeRejected(w)
  <2>1. Concludes(w, "REJECTED", "FAILED") /\ Concludes(w, "REJECTED", "RETRY_SCHEDULED")
    BY <1>5 DEF FinalizeRejected, Concludes, Unclaimed, Retryable
  <2>2. faults' \in Nat
    <3>1. UNCHANGED faults \/ Fault
      BY <1>5 DEF FinalizeRejected
    <3> QED BY <1>0, <3>1 DEF Fault
  <2>3. mailbox' \in [connected : BOOLEAN, gen : Nat, blocked : BOOLEAN]
    <3>1. (mailbox.blocked \/ wk[w].result = "RATE_LIMIT") \in BOOLEAN
      OBVIOUS
    <3>2. mailbox' = [mailbox EXCEPT !.blocked = (mailbox.blocked \/ wk[w].result = "RATE_LIMIT")]
      BY <1>5 DEF FinalizeRejected
    <3> QED BY <1>0, <3>1, <3>2
  <2>4. \E status \in {"FAILED", "RETRY_SCHEDULED"}, retries \in Nat :
          Finalize(w, "REJECTED", status, retries, FALSE)
    BY <1>1, <1>5 DEF FinalizeRejected
  <2>5. UNCHANGED <<facts, transit, tasks, room, stale, copies>>
    BY <1>5 DEF FinalizeRejected
  <2> QED BY <1>1, <2>1, <2>2, <2>3, <2>4, <2>5
<1>6. CASE FinalizeAuthFailure(w)
  <2>1. Concludes(w, "REJECTED", "RETRY_SCHEDULED")
    BY <1>6 DEF FinalizeAuthFailure, Concludes, Unclaimed
  <2>2. mailbox' \in [connected : BOOLEAN, gen : Nat, blocked : BOOLEAN]
    <3>1. mailbox' = mailbox \/ mailbox' = [mailbox EXCEPT !.connected = FALSE, !.gen = wk[w].cred]
      BY <1>6 DEF FinalizeAuthFailure
    <3>2. wk[w].cred \in Nat
      BY <1>0 DEF WorkerType
    <3> QED BY <1>0, <3>1, <3>2
  <2>3. \/ Finalize(w, "REJECTED", "RETRY_SCHEDULED", msg[wk[w].m].retries, FALSE)
        \/ Done(w) /\ UNCHANGED <<msg, att>>
    BY <1>6 DEF FinalizeAuthFailure
  <2>4. UNCHANGED <<facts, transit, tasks, room, stale, faults, copies>>
    BY <1>6 DEF FinalizeAuthFailure
  <2> QED BY <1>0, <1>1, <2>1, <2>2, <2>3, <2>4
<1>7. CASE ResultIsLost(w)
  <2>1. faults' \in Nat
    <3>1. UNCHANGED faults \/ Fault
      BY <1>7 DEF ResultIsLost
    <3> QED BY <1>0, <3>1 DEF Fault
  <2> QED BY <1>0, <1>7, <2>1 DEF ResultIsLost
<1> QED BY <1>2, <1>3, <1>4, <1>5, <1>6, <1>7 DEF Concluding

\* Authorization appends one PREPARED attempt of the message's generation.
LEMMA AuthorizeEffect ==
  ASSUME TypeOK, NEW w \in Workers, wk[w].m \in Msgs, Authorize(w)
  PROVE  LET m == wk[w].m  k == Len(att[m]) + 1 IN
         /\ msg' \in [Msgs -> MsgType]
         /\ msg'[m].status = "SENDING" /\ msg'[m].gen = msg[m].gen
         /\ msg'[m].retries = msg[m].retries
         /\ \A o \in Msgs : o # m => msg'[o] = msg[o] /\ att'[o] = att[o]
         /\ att' \in [Msgs -> Seq(AttemptType)]
         /\ k \in Nat /\ k \notin DOMAIN att[m] /\ DOMAIN att'[m] = DOMAIN att[m] \union {k}
         /\ \A i \in DOMAIN att[m] : att'[m][i] = att[m][i]
         /\ att'[m][k].evidence = "PREPARED" /\ att'[m][k].gen = msg[m].gen
         /\ wk' \in [Workers -> WorkerType]
         /\ wk'[w].pc = "authorized" /\ wk'[w].m = m /\ wk'[w].n = k
         /\ wk'[w].cred = wk[w].cred
         /\ \A v \in Workers : v # w => wk'[v] = wk[v]
<1> DEFINE m == wk[w].m  k == Len(att[m]) + 1
<1>0. /\ m \in Msgs /\ msg[m] \in MsgType /\ wk[w] \in WorkerType
      /\ att[m] \in Seq(AttemptType)
  BY DEF TypeOK
<1>1. k \in Nat
  BY <1>0
<1>2. /\ msg' \in [Msgs -> MsgType] /\ msg'[m] = [msg[m] EXCEPT !.status = "SENDING"]
      /\ \A o \in Msgs : o # m => msg'[o] = msg[o]
  BY <1>0, StatusUpdate DEF Authorize, Statuses, Eligible
<1>3. /\ msg'[m].status = "SENDING" /\ msg'[m].gen = msg[m].gen
      /\ msg'[m].retries = msg[m].retries
  BY <1>0, <1>2 DEF MsgType
<1> DEFINE new == [gen |-> msg[m].gen, evidence |-> "PREPARED", expired |-> FALSE]
<1>4. new \in AttemptType /\ new.evidence = "PREPARED" /\ new.gen = msg[m].gen
  BY <1>0 DEF AttemptType, Evidence, MsgType
<1>5. att' = [att EXCEPT ![m] = Append(att[m], new)]
  BY DEF Authorize
<1> HIDE DEF new
<1>6. /\ Append(att[m], new) \in Seq(AttemptType)
      /\ k \notin DOMAIN att[m] /\ DOMAIN Append(att[m], new) = DOMAIN att[m] \union {k}
      /\ \A i \in DOMAIN att[m] : Append(att[m], new)[i] = att[m][i]
      /\ Append(att[m], new)[k] = new
  BY <1>0, <1>4, SMTT(30)
<1>7. /\ att' \in [Msgs -> Seq(AttemptType)] /\ att'[m] = Append(att[m], new)
      /\ \A o \in Msgs : o # m => att'[o] = att[o]
  BY <1>0, <1>5, <1>6 DEF TypeOK
<1> DEFINE state == [wk[w] EXCEPT !.pc = "authorized", !.n = k]
<1>8. /\ state \in WorkerType /\ state.pc = "authorized" /\ state.m = m /\ state.n = k
      /\ state.cred = wk[w].cred
  BY <1>0, <1>1 DEF WorkerType
<1>9. wk' = [wk EXCEPT ![w] = state]
  BY DEF Authorize, TypeOK
<1> HIDE DEF state
<1>10. /\ wk' \in [Workers -> WorkerType] /\ wk'[w] = state
       /\ \A v \in Workers : v # w => wk'[v] = wk[v]
  BY <1>8, <1>9, WorkerUpdate
<1> QED BY <1>1, <1>2, <1>3, <1>4, <1>6, <1>7, <1>8, <1>10

\* The provider's answer, and at most one copy that the adapter owns up to or denies.
LEMMA InvokeEffect ==
  ASSUME TypeOK, NEW w \in Workers, wk[w].m \in Msgs, Invoke(w)
  PROVE  \E took, hid \in {0, 1} :
           /\ took = 0 \/ hid = 0
           /\ ~OverHttp => hid = 0
           /\ copies' \in [Msgs -> [taken : Nat, denied : Nat]]
           /\ copies'[wk[w].m].taken = copies[wk[w].m].taken + took
           /\ copies'[wk[w].m].denied = copies[wk[w].m].denied + hid
           /\ \A o \in Msgs : o # wk[w].m => copies'[o] = copies[o]
           /\ wk' \in [Workers -> WorkerType]
           /\ wk'[w].pc = "answered" /\ wk'[w].m = wk[w].m /\ wk'[w].n = wk[w].n
           /\ wk'[w].cred = wk[w].cred
           /\ wk'[w].result = "ACCEPTED" => took = 1
           /\ wk'[w].result \notin {"ACCEPTED", "UNKNOWN"} => took = 0
           /\ \A v \in Workers : v # w => wk'[v] = wk[v]
<1>0. wk[w] \in WorkerType /\ copies[wk[w].m] \in [taken : Nat, denied : Nat]
  BY DEF TypeOK
<1>1. PICK o \in Outcomes :
        /\ wk' = [wk EXCEPT ![w].pc = "answered", ![w].result = o.result]
        /\ copies' = [copies EXCEPT ![wk[w].m] =
                        [taken |-> @.taken + o.taken, denied |-> @.denied + o.denied]]
  BY DEF Invoke
<1>2. /\ o.result \in Results /\ o.taken \in {0, 1} /\ o.denied \in {0, 1}
      /\ o.taken = 0 \/ o.denied = 0
      /\ ~OverHttp => o.denied = 0
      /\ o.result = "ACCEPTED" => o.taken = 1
      /\ o.result \notin {"ACCEPTED", "UNKNOWN"} => o.taken = 0
  BY DEF Outcomes, Outcome, Results, Retryable
<1> DEFINE state == [wk[w] EXCEPT !.pc = "answered", !.result = o.result]
<1>3. /\ state \in WorkerType /\ state.pc = "answered" /\ state.result = o.result
      /\ state.m = wk[w].m /\ state.n = wk[w].n /\ state.cred = wk[w].cred
  BY <1>0, <1>2 DEF WorkerType
<1>4. wk' = [wk EXCEPT ![w] = state]
  BY <1>1 DEF TypeOK
<1> HIDE DEF state
<1>5. /\ wk' \in [Workers -> WorkerType] /\ wk'[w] = state
      /\ \A v \in Workers : v # w => wk'[v] = wk[v]
  BY <1>3, <1>4, WorkerUpdate
<1> DEFINE row == [taken |-> copies[wk[w].m].taken + o.taken,
                   denied |-> copies[wk[w].m].denied + o.denied]
<1>6. /\ row \in [taken : Nat, denied : Nat]
      /\ row.taken = copies[wk[w].m].taken + o.taken
      /\ row.denied = copies[wk[w].m].denied + o.denied
  BY <1>0, <1>2
<1>7. copies' = [copies EXCEPT ![wk[w].m] = row]
  BY <1>1
<1> HIDE DEF row
<1>8. /\ copies' \in [Msgs -> [taken : Nat, denied : Nat]]
      /\ copies'[wk[w].m] = row
      /\ \A o2 \in Msgs : o2 # wk[w].m => copies'[o2] = copies[o2]
  BY <1>6, <1>7 DEF TypeOK
<1> QED BY <1>2, <1>3, <1>5, <1>6, <1>8

\* Working on a task keeps every variable well typed.
LEMMA TypeWorker ==
  ASSUME TypeOK, ClaimsInv, NEW w \in Workers, wk[w].pc # "idle" => wk[w].m \in Msgs,
         Before(w) \/ After(w) \/ Crash(w)
  PROVE  TypeOK'
<1>0. wk[w] \in WorkerType /\ mailbox.gen \in Nat
  BY DEF TypeOK
<1>1. CASE ReserveDenied(w)
  <2>1. wk' = [wk EXCEPT ![w].pc = "denied", ![w].cred = wk[w].cred]
    BY <1>0, <1>1 DEF ReserveDenied, TypeOK, WorkerType
  <2>2. wk' \in [Workers -> WorkerType]
    BY <1>0, <2>1, GoesOnWorker DEF WorkerType
  <2>3. faults' \in Nat
    BY <1>1 DEF ReserveDenied, Fault, TypeOK
  <2> QED BY <1>1, <2>2, <2>3 DEF ReserveDenied, TypeOK, facts, transit
<1>2. CASE DeniedHandsBack(w)
  <2>1. wk[w].m \in Msgs /\ wk[w].g \in Nat
    BY <1>0, <1>2 DEF DeniedHandsBack, WorkerType
  <2>2. wk' \in [Workers -> WorkerType] /\ msg' \in [Msgs -> MsgType]
    BY <1>2, <2>1, DoneWorker, HandBackEffect DEF DeniedHandsBack
  <2> QED BY <1>2, <2>2 DEF DeniedHandsBack, TypeOK, facts, transit
<1>3. CASE GatesPassAgain(w)
  <2>1. wk' \in [Workers -> WorkerType]
    BY <1>0, <1>3, GoesOnWorker DEF GatesPassAgain
  <2> QED BY <1>3, <2>1 DEF GatesPassAgain, TypeOK, facts, transit
<1>4. CASE AuthorizationAborts(w)
  <2>1. wk[w].m \in Msgs
    BY <1>4 DEF AuthorizationAborts
  <2>2. wk' \in [Workers -> WorkerType]
    BY <1>4, <2>1, DoneWorker DEF AuthorizationAborts
  <2>3. UNCHANGED faults \/ Fault
    BY <1>4 DEF AuthorizationAborts
  <2>4. faults' \in Nat
    BY <2>3 DEF Fault, TypeOK
  <2> QED BY <1>4, <2>2, <2>4 DEF AuthorizationAborts, TypeOK, facts, transit
<1>5. CASE Authorize(w)
  <2>1. wk[w].m \in Msgs
    BY <1>5 DEF Authorize
  <2>2. /\ msg' \in [Msgs -> MsgType] /\ att' \in [Msgs -> Seq(AttemptType)]
        /\ wk' \in [Workers -> WorkerType]
    BY <1>5, <2>1, AuthorizeEffect
  <2> QED BY <1>5, <2>2 DEF Authorize, TypeOK, facts, transit
<1>6. CASE Invoke(w)
  <2>1. wk[w].m \in Msgs
    BY <1>6 DEF Invoke
  <2>2. /\ wk' \in [Workers -> WorkerType]
        /\ copies' \in [Msgs -> [taken : Nat, denied : Nat]]
    BY <1>6, <2>1, InvokeEffect
  <2> QED BY <1>6, <2>2 DEF Invoke, TypeOK, facts, transit
<1>7. CASE Concluding(w)
  <2>1. wk[w].m \in Msgs
    BY <1>7 DEF Concluding, NotInvoked, FinalizeAccepted, FinalizeUnknown, FinalizeRejected,
                FinalizeAuthFailure, ResultIsLost
  <2>2. /\ msg' \in [Msgs -> MsgType] /\ att' \in [Msgs -> Seq(AttemptType)]
        /\ wk' \in [Workers -> WorkerType]
    <3>1. CASE Done(w) /\ UNCHANGED <<msg, att>>
      BY <2>1, <3>1, DoneWorker DEF TypeOK
    <3>2. CASE \E evidence \in Evidence, status \in Statuses, retries \in Nat, rfc \in BOOLEAN :
                 Finalize(w, evidence, status, retries, rfc)
      BY <2>1, <3>2, FinalizeEffect
    <3> QED BY <1>7, <2>1, <3>1, <3>2, ConclusionEffect
  <2> QED BY <1>7, <2>1, <2>2, ConclusionEffect DEF TypeOK, facts, transit
<1>8. CASE Acknowledge(w)
  BY <1>8, IdleWorker DEF Acknowledge, TypeOK, facts, transit
<1>9. CASE Crash(w)
  <2>1. faults' \in Nat
    BY <1>9 DEF Crash, Fault, TypeOK
  <2> QED BY <1>9, <2>1, IdleWorker DEF Crash, TypeOK, facts, transit
<1> QED
  BY <1>1, <1>2, <1>3, <1>4, <1>5, <1>6, <1>7, <1>8, <1>9 DEF Before, After, Concluding

\* Every step keeps every variable well typed.
LEMMA TypeStep == PipelineInv /\ [Next]_vars => TypeOK'
<1> SUFFICES ASSUME PipelineInv, [Next]_vars PROVE TypeOK'
  OBVIOUS
<1>0. /\ TypeOK /\ ClaimsInv
      /\ \A w \in Workers : wk[w].pc # "idle" => wk[w].m \in Msgs
  BY DEF PipelineInv, OwnersInv
<1>1. CASE UNCHANGED vars
  BY <1>0, <1>1 DEF vars, TypeOK
<1>2. CASE CountRoom
  <2>1. room' \in Nat
    BY <1>2, QueuedCount, PipelineAssumption DEF CountRoom, FreeRoom, PipelineAssumption
  <2> QED BY <1>0, <1>2, <2>1 DEF CountRoom, TypeOK, facts, transit
<1>3. ASSUME NEW m \in Msgs, Scheduler(m) \/ Clock(m)
      PROVE  TypeOK'
  BY <1>0, <1>3, TypeScheduler
<1>4. ASSUME NEW m \in Msgs, Outside(m)
      PROVE  TypeOK'
  BY <1>0, <1>4, TypeOutside
<1>5. ASSUME NEW m \in Msgs, NEW g \in 1..MaxGen, Publisher(m, g) \/ LoseTask(m, g)
      PROVE  TypeOK'
  BY <1>0, <1>5, TypePublisher
<1>6. ASSUME NEW w \in Workers, NEW m \in Msgs, NEW g \in 1..MaxGen, Load(w, m, g)
      PROVE  TypeOK'
  BY <1>0, <1>6, TypeLoad
<1>7. ASSUME NEW w \in Workers, Before(w) \/ After(w) \/ Crash(w)
      PROVE  TypeOK'
  BY <1>0, <1>7, TypeWorker
<1>8. CASE Pause \/ Resume \/ Disconnect \/ Reconnect \/ BlockPasses
  BY <1>0, <1>8, TypeEnvironment
<1> QED BY <1>1, <1>2, <1>3, <1>4, <1>5, <1>6, <1>7, <1>8 DEF Next

-----------------------------------------------------------------------------
(* Steps that open, close and change no attempt *)

SameAttempts ==
  \A m \in Msgs :
    /\ DOMAIN att'[m] = DOMAIN att[m]
    /\ \A n \in DOMAIN att[m] : att'[m][n].evidence = att[m][n].evidence

\* How such a step may change the status of a message.
UnattemptedMove(m) ==
  \/ msg'[m].status = msg[m].status
  \/ msg[m].status \in Cancellable /\ msg'[m].status \in Cancellable \union {"SKIPPED", "CANCELLED"}
  \/ msg[m].status = "SENDING" /\ msg'[m].status = "SKIPPED"

\* How it may change a worker: not into one that has an attempt.
UnattemptedWork(w) ==
  \/ wk'[w] = wk[w]
  \/ /\ wk'[w].pc \notin {"authorized", "answered"}
     /\ wk'[w].pc # "idle" => wk'[w].m \in Msgs

\* A held gate stays held by the same worker, on a row that stays eligible.
GateKept(w) ==
  wk'[w].pc \in {"loaded", "checked"} =>
    /\ HoldsGates(w) /\ wk'[w].m = wk[w].m /\ wk'[w].g = wk[w].g
    /\ msg'[wk[w].m].status \in Eligible /\ msg'[wk[w].m].gen = msg[wk[w].m].gen

\* Then at most one worker holds the gates, still on an eligible row.
LEMMA GatesStep ==
  ASSUME PipelineInv, \A w \in Workers : GateKept(w)
  PROVE  GatesInv'
BY DEF PipelineInv, GatesInv, GateKept, HoldsGates

\* The owners of attempts keep what they own.
LEMMA OwnersStep ==
  ASSUME PipelineInv, SameAttempts, copies' = copies,
         \A w \in Workers : UnattemptedWork(w)
  PROVE  OwnersInv'
<1> USE DEF PipelineInv
<1>1. \A w \in Workers : wk'[w].pc # "idle" => wk'[w].m \in Msgs
  BY DEF OwnersInv, UnattemptedWork
<1>2. \A w \in Workers : InFlight(w)' => wk'[w] = wk[w] /\ InFlight(w) /\ wk[w].m \in Msgs
  BY DEF OwnersInv, UnattemptedWork, InFlight
<1>4. \A w \in Workers : InFlight(w)' => wk'[w].n \in DOMAIN att'[wk'[w].m]
  BY <1>2 DEF OwnersInv, SameAttempts
<1>5. \A v, w \in Workers :
        InFlight(v)' /\ InFlight(w)' /\ wk'[v].m = wk'[w].m /\ wk'[v].n = wk'[w].n => v = w
  BY <1>2 DEF OwnersInv
<1>6. ASSUME NEW w \in Workers, Unclaimed(w)'
      PROVE  (wk[w].n \in Unresolved(wk[w].m))' /\ copies'[wk'[w].m].taken = 0
  <2>1. wk'[w] = wk[w] /\ wk[w].m \in Msgs
    BY <1>2, <1>6 DEF Unclaimed, InFlight
  <2>2. Unclaimed(w)
    BY <1>6, <2>1 DEF Unclaimed
  <2>3. wk[w].n \in Unresolved(wk[w].m) /\ copies[wk[w].m].taken = 0
    BY <2>2 DEF OwnersInv
  <2> QED BY <2>1, <2>3 DEF SameAttempts, Unresolved
<1>7. \A w \in Workers : wk'[w].pc = "answered" /\ wk'[w].result = "ACCEPTED" =>
        copies'[wk'[w].m].taken = 1
  BY <1>2 DEF OwnersInv, InFlight
<1> QED BY <1>1, <1>4, <1>5, <1>6, <1>7 DEF OwnersInv

\* The attempts still agree with the messages.
LEMMA EvidenceStep ==
  ASSUME PipelineInv, SameAttempts, copies' = copies,
         \A m \in Msgs : UnattemptedMove(m)
  PROVE  AttemptsInv' /\ StatusMatchesEvidence'
<1> USE DEF PipelineInv
<1>1. \A m \in Msgs : Unresolved(m)' = Unresolved(m)
  BY DEF SameAttempts, Unresolved
<1>2. \A m \in Msgs : \A e : HasEvidence(m, e)' <=> HasEvidence(m, e)
  BY DEF SameAttempts, HasEvidence
<1>3. AttemptsInv'
  BY <1>1, <1>2 DEF AttemptsInv
<1>4. StatusMatchesEvidence'
  <2> SUFFICES ASSUME NEW m \in Msgs
               PROVE  /\ msg'[m].status = "SENT" <=> HasEvidence(m, "ACCEPTED")'
                      /\ msg'[m].status = "SENT" => copies'[m].taken = 1
                      /\ msg'[m].status = "SENDING" => HasEvidence(m, "PREPARED")'
                      /\ msg'[m].status = "UNKNOWN_OUTCOME" => HasEvidence(m, "UNKNOWN")'
                      /\ msg'[m].status \in Cancellable \union {"FAILED", "CANCELLED"} =>
                            Unresolved(m)' = {}
    BY DEF StatusMatchesEvidence
  <2>1. UnattemptedMove(m)
    OBVIOUS
  <2> QED BY <1>1, <1>2, <2>1 DEF StatusMatchesEvidence, UnattemptedMove, Cancellable, Sendable
<1> QED BY <1>3, <1>4

\* Together: what is left to show of a step that touches no attempt.
LEMMA UnattemptedStep ==
  ASSUME PipelineInv, TypeOK', ClaimsInv', GatesInv', SameAttempts, copies' = copies,
         \A w \in Workers : UnattemptedWork(w),
         \A m \in Msgs : UnattemptedMove(m)
  PROVE  PipelineInv'
BY OwnersStep, EvidenceStep DEF PipelineInv

\* A step of no worker that changes no status.
LEMMA QuietStep ==
  ASSUME PipelineInv, TypeOK', wk' = wk, copies' = copies, SameAttempts,
         \A m \in Msgs : /\ msg'[m].status = msg[m].status /\ msg'[m].gen = msg[m].gen
                         /\ msg'[m].origin = msg[m].origin
  PROVE  PipelineInv'
<1>1. ClaimsInv'
  BY DEF PipelineInv, ClaimsInv
<1>2. GatesInv'
  <2>1. \A w \in Workers : GateKept(w)
    BY DEF PipelineInv, GatesInv, GateKept, HoldsGates
  <2> QED BY <2>1, GatesStep
<1>3. \A w \in Workers : UnattemptedWork(w)
  BY DEF UnattemptedWork
<1>4. \A m \in Msgs : UnattemptedMove(m)
  BY DEF UnattemptedMove
<1> QED BY <1>1, <1>2, <1>3, <1>4, UnattemptedStep

\* A step of no worker that moves a message nobody has locked.
LEMMA MessageStep ==
  ASSUME PipelineInv, TypeOK', wk' = wk, att' = att, copies' = copies,
         NEW m \in Msgs, RowFree(m), \A o \in Msgs : o # m => msg'[o] = msg[o],
         UnattemptedMove(m),
         msg'[m].status = "QUEUED" => msg'[m].origin \in Sendable
  PROVE  PipelineInv'
<1>1. ClaimsInv'
  BY DEF PipelineInv, ClaimsInv
<1>2. GatesInv'
  <2>1. \A w \in Workers : GateKept(w)
    BY DEF PipelineInv, GatesInv, GateKept, HoldsGates, RowFree
  <2> QED BY <2>1, GatesStep
<1>3. \A w \in Workers : UnattemptedWork(w)
  BY DEF UnattemptedWork
<1>4. \A o \in Msgs : UnattemptedMove(o)
  BY DEF UnattemptedMove
<1>5. SameAttempts
  BY DEF SameAttempts
<1> QED BY <1>1, <1>2, <1>3, <1>4, <1>5, UnattemptedStep

\* A step of a worker that has no attempt afterwards.
LEMMA WorkerStep ==
  ASSUME PipelineInv, TypeOK', GatesInv', att' = att, copies' = copies,
         NEW w \in Workers, \A v \in Workers : v # w => wk'[v] = wk[v],
         wk'[w].pc \notin {"authorized", "answered"},
         wk'[w].pc # "idle" => wk'[w].m \in Msgs,
         \A m \in Msgs :
           /\ UnattemptedMove(m)
           /\ msg'[m].status = "QUEUED" => msg'[m].origin \in Sendable
  PROVE  PipelineInv'
<1>1. ClaimsInv'
  BY DEF ClaimsInv
<1>2. \A v \in Workers : UnattemptedWork(v)
  BY DEF UnattemptedWork
<1>3. SameAttempts
  BY DEF SameAttempts
<1> QED BY <1>1, <1>2, <1>3, UnattemptedStep

\* ... when it leaves the messages alone.
LEMMA IdleStep ==
  ASSUME PipelineInv, TypeOK', msg' = msg, att' = att, copies' = copies,
         NEW w \in Workers, \A v \in Workers : v # w => wk'[v] = wk[v],
         wk'[w].pc \in {"idle", "denied", "finished"},
         wk'[w].pc # "idle" => wk'[w].m \in Msgs
  PROVE  PipelineInv'
<1>1. GatesInv'
  <2>1. \A v \in Workers : GateKept(v)
    BY DEF PipelineInv, GatesInv, GateKept, HoldsGates
  <2> QED BY <2>1, GatesStep
<1>2. \A m \in Msgs : UnattemptedMove(m) /\ (msg'[m].status = "QUEUED" => msg'[m].origin \in Sendable)
  BY DEF UnattemptedMove, PipelineInv, ClaimsInv
<1> QED BY <1>1, <1>2, WorkerStep

-----------------------------------------------------------------------------
(* The actions, one by one *)

\* The scheduler's claims and the two clocks.
LEMMA SchedulerStep ==
  ASSUME PipelineInv, TypeOK', NEW m \in Msgs,
         \/ Claim(m) \/ RecoverExpiredClaim(m) \/ FindStaleExecution(m)
         \/ ClaimLeaseExpires(m) \/ DeadlinePasses(m)
  PROVE  PipelineInv'
<1>0. TypeOK /\ msg[m] \in MsgType
  BY DEF PipelineInv, TypeOK
<1>1. CASE Claim(m)
  <2>1. /\ RowFree(m) /\ msg[m].status \in Sendable
        /\ wk' = wk /\ att' = att /\ copies' = copies
    BY <1>1 DEF Claim
  <2>2. /\ msg'[m].status = "QUEUED" /\ msg'[m].origin = msg[m].status
        /\ \A o \in Msgs : o # m => msg'[o] = msg[o]
    BY <1>0, <1>1 DEF Claim, TypeOK, MsgType
  <2>3. UnattemptedMove(m)
    BY <2>1, <2>2 DEF UnattemptedMove, Cancellable
  <2> QED BY <2>1, <2>2, <2>3, MessageStep
<1>2. CASE RecoverExpiredClaim(m)
  <2>1. /\ RowFree(m) /\ msg[m].status = "QUEUED"
        /\ wk' = wk /\ att' = att /\ copies' = copies
    BY <1>2 DEF RecoverExpiredClaim, StuckClaim
  <2>2. /\ msg'[m].status = msg[m].origin
        /\ \A o \in Msgs : o # m => msg'[o] = msg[o]
    BY <1>0, <1>2 DEF RecoverExpiredClaim, TypeOK, MsgType
  <2>3. msg[m].origin \in Sendable
    BY <2>1 DEF PipelineInv, ClaimsInv
  <2>4. UnattemptedMove(m) /\ msg'[m].status # "QUEUED"
    BY <2>1, <2>2, <2>3 DEF UnattemptedMove, Cancellable, Sendable
  <2> QED BY <2>1, <2>2, <2>4, MessageStep
<1>3. CASE FindStaleExecution(m)
  BY <1>3, QuietStep DEF FindStaleExecution, SameAttempts
<1>4. CASE ClaimLeaseExpires(m)
  <2>1. \A o \in Msgs : /\ msg'[o].status = msg[o].status /\ msg'[o].gen = msg[o].gen
                        /\ msg'[o].origin = msg[o].origin
    BY <1>0, <1>4 DEF ClaimLeaseExpires, TypeOK, MsgType
  <2> QED BY <1>4, <2>1, QuietStep DEF ClaimLeaseExpires, SameAttempts
<1>5. CASE DeadlinePasses(m)
  <2>1. PICK n \in Unresolved(m) : att' = [att EXCEPT ![m][n].expired = TRUE]
    BY <1>5 DEF DeadlinePasses
  <2>2. n \in DOMAIN att[m] /\ att[m][n] \in AttemptType
    BY <1>0 DEF Unresolved, TypeOK
  <2>3. SameAttempts
    BY <1>0, <2>1, <2>2 DEF SameAttempts, TypeOK, AttemptType
  <2> QED BY <1>5, <2>3, QuietStep DEF DeadlinePasses
<1> QED BY <1>1, <1>2, <1>3, <1>4, <1>5

\* The publisher, the campaign and the mailbox touch neither messages nor attempts.
LEMMA TransportStep ==
  ASSUME PipelineInv, TypeOK',
         \/ CountRoom \/ Pause \/ Resume \/ Disconnect \/ Reconnect \/ BlockPasses
         \/ UNCHANGED vars
         \/ \E m \in Msgs, g \in 1..MaxGen : Publisher(m, g) \/ LoseTask(m, g)
         \/ \E m \in Msgs : Suppress(m)
  PROVE  PipelineInv'
<1>1. msg' = msg /\ att' = att /\ wk' = wk /\ copies' = copies
  BY DEF CountRoom, Pause, Resume, Disconnect, Reconnect, BlockPasses, vars, Publisher,
         LeaseDelivery, Publish, PublishFails, LoseTask, Suppress
<1>2. SameAttempts
  BY <1>1 DEF SameAttempts
<1> QED BY <1>1, <1>2, QuietStep

\* A stop event cancels only what was never authorized.
LEMMA StopStep ==
  ASSUME PipelineInv, TypeOK', NEW m \in Msgs, Reply(m) \/ Unsubscribe(m)
  PROVE  PipelineInv'
<1>0. msg \in [Msgs -> MsgType] /\ msg[m] \in MsgType
  BY DEF PipelineInv, TypeOK
<1>1. /\ RowFree(m) /\ wk' = wk /\ att' = att /\ copies' = copies
      /\ \E status \in {"CANCELLED", "SKIPPED"} :
           msg' = [msg EXCEPT ![m].status = IF @ \in Cancellable THEN status ELSE @]
  BY DEF Reply, Unsubscribe, StopRecipient
<1>2. /\ \A o \in Msgs : o # m => msg'[o] = msg[o]
      /\ msg'[m].origin = msg[m].origin
      /\ \/ msg'[m].status = msg[m].status
         \/ msg[m].status \in Cancellable /\ msg'[m].status \in {"CANCELLED", "SKIPPED"}
  BY <1>0, <1>1 DEF MsgType
<1>3. UnattemptedMove(m)
  BY <1>2 DEF UnattemptedMove
<1>4. msg'[m].status = "QUEUED" => msg'[m].origin \in Sendable
  BY <1>2 DEF PipelineInv, ClaimsInv
<1> QED BY <1>1, <1>2, <1>3, <1>4, MessageStep

\* An abandoned attempt becomes UNKNOWN, and so does the message that waited for it.
LEMMA RecoveryStep ==
  ASSUME PipelineInv, TypeOK', NEW m \in Msgs, RecoverStaleExecution(m)
  PROVE  PipelineInv'
<1> USE DEF PipelineInv
<1>0. msg \in [Msgs -> MsgType] /\ msg[m] \in MsgType
  BY DEF TypeOK
<1>1. PICK n \in DOMAIN att[m] :
        /\ RowFree(m) /\ wk' = wk /\ copies' = copies
        /\ \/ UNCHANGED <<msg, att>>
           \/ att[m][n].evidence = "PREPARED" /\ Abandon(m, n)
  BY DEF RecoverStaleExecution, StillPrepared
<1>2. CASE UNCHANGED <<msg, att>>
  <2>1. SameAttempts
    BY <1>2 DEF SameAttempts
  <2> QED BY <1>1, <1>2, <2>1, QuietStep
<1>3. CASE att[m][n].evidence = "PREPARED" /\ Abandon(m, n)
  <2>1. /\ \A o \in Msgs : o # m => msg'[o] = msg[o]
        /\ msg'[m].origin = msg[m].origin /\ msg'[m].gen = msg[m].gen
        /\ msg'[m].status = IF msg[m].status = "SENDING" THEN "UNKNOWN_OUTCOME"
                                                       ELSE msg[m].status
    BY <1>0, <1>3 DEF Abandon, MsgType
  <2>2. /\ \A o \in Msgs : DOMAIN att'[o] = DOMAIN att[o]
        /\ \A o \in Msgs : \A i \in DOMAIN att[o] :
             att'[o][i].evidence = IF o = m /\ i = n THEN "UNKNOWN" ELSE att[o][i].evidence
    <3>1. "UNKNOWN" \in Evidence
      BY DEF Evidence
    <3> QED BY <1>3, <3>1, EvidenceUpdate DEF Abandon
  <2>3. \A o \in Msgs : Unresolved(o)' = Unresolved(o)
    BY <1>3, <2>2 DEF Unresolved
  <2>4. ClaimsInv'
    BY <2>1 DEF ClaimsInv
  <2>5. GatesInv'
    <3>1. \A w \in Workers : GateKept(w)
      BY <1>1, <2>1 DEF GatesInv, GateKept, HoldsGates, RowFree
    <3> QED BY <3>1, GatesStep
  <2>6. OwnersInv'
    BY <1>1, <2>2, <2>3 DEF OwnersInv, InFlight, Unclaimed
  <2>7. AttemptsInv'
    BY <1>1, <1>3, <2>2, <2>3 DEF AttemptsInv, HasEvidence
  <2>8. StatusMatchesEvidence'
    BY <1>1, <1>3, <2>1, <2>2, <2>3 DEF StatusMatchesEvidence, HasEvidence, Cancellable, Sendable
  <2> QED BY <2>4, <2>5, <2>6, <2>7, <2>8
<1> QED BY <1>1, <1>2, <1>3

\* Reconciliation turns the unknown attempt of an accepted message into acceptance.
LEMMA ReconcileStep ==
  ASSUME PipelineInv, TypeOK', NEW m \in Msgs, Reconcile(m)
  PROVE  PipelineInv'
<1> USE DEF PipelineInv
<1>0. msg \in [Msgs -> MsgType] /\ msg[m] \in MsgType /\ att \in [Msgs -> Seq(AttemptType)]
      /\ copies[m].taken \in Nat
  BY DEF TypeOK
<1>1. /\ RowFree(m) /\ wk' = wk /\ copies' = copies
      /\ msg[m].status = "UNKNOWN_OUTCOME" /\ copies[m].taken > 0
      /\ msg' = [msg EXCEPT ![m].status = "SENT"]
  BY DEF Reconcile
<1>2. copies[m].taken = 1
  BY <1>0, <1>1 DEF AttemptsInv
<1>3. PICK n \in DOMAIN att[m] : att[m][n].evidence = "UNKNOWN"
  BY <1>1 DEF StatusMatchesEvidence, HasEvidence
<1>4. \A i \in DOMAIN att[m] : i # n => att[m][i].evidence \notin {"PREPARED", "UNKNOWN"}
  BY <1>3 DEF AttemptsInv, Unresolved
<1>5. /\ \A o \in Msgs : o # m => msg'[o] = msg[o]
      /\ msg'[m].origin = msg[m].origin /\ msg'[m].status = "SENT"
  BY <1>0, <1>1 DEF MsgType
<1>6. /\ \A o \in Msgs : o # m => att'[o] = att[o]
      /\ DOMAIN att'[m] = DOMAIN att[m]
      /\ \A i \in DOMAIN att[m] : att'[m][i].evidence =
           IF att[m][i].evidence = "UNKNOWN" THEN "ACCEPTED" ELSE att[m][i].evidence
  BY <1>0 DEF Reconcile
<1>7. Unresolved(m)' = {} /\ HasEvidence(m, "ACCEPTED")'
  BY <1>3, <1>4, <1>6 DEF Unresolved, HasEvidence
<1>8. ClaimsInv'
  BY <1>5 DEF ClaimsInv
<1>9. GatesInv'
  <2>1. \A w \in Workers : GateKept(w)
    BY <1>1, <1>5 DEF GatesInv, GateKept, HoldsGates, RowFree
  <2> QED BY <2>1, GatesStep
<1>10. OwnersInv'
  <2>1. \A w \in Workers : Unclaimed(w) => wk[w].m # m
    BY <1>2 DEF OwnersInv
  <2>2. \A w \in Workers : InFlight(w) => wk[w].m \in Msgs
    BY DEF OwnersInv, InFlight
  <2>3. \A w \in Workers : Unclaimed(w) => (wk[w].n \in Unresolved(wk[w].m))'
    BY <1>1, <1>6, <2>1, <2>2 DEF OwnersInv, Unresolved, Unclaimed, InFlight
  <2> QED BY <1>1, <1>6, <2>2, <2>3 DEF OwnersInv, InFlight, Unclaimed
<1>11. AttemptsInv'
  <2> SUFFICES ASSUME NEW o \in Msgs
               PROVE  (/\ \A i, j \in Unresolved(o) : i = j
                       /\ copies[o].taken <= 1
                       /\ copies[o].taken = 1 => Unresolved(o) # {} \/ HasEvidence(o, "ACCEPTED"))'
    BY DEF AttemptsInv
  <2>1. CASE o = m
    BY <1>1, <1>2, <1>7, <2>1
  <2>2. CASE o # m
    BY <1>1, <1>6, <2>2 DEF AttemptsInv, Unresolved, HasEvidence
  <2> QED BY <2>1, <2>2
<1>12. StatusMatchesEvidence'
  <2> SUFFICES ASSUME NEW o \in Msgs
               PROVE  (/\ msg[o].status = "SENT" <=> HasEvidence(o, "ACCEPTED")
                       /\ msg[o].status = "SENT" => copies[o].taken = 1
                       /\ msg[o].status = "SENDING" => HasEvidence(o, "PREPARED")
                       /\ msg[o].status = "UNKNOWN_OUTCOME" => HasEvidence(o, "UNKNOWN")
                       /\ msg[o].status \in Cancellable \union {"FAILED", "CANCELLED"} =>
                             Unresolved(o) = {})'
    BY DEF StatusMatchesEvidence
  <2>1. CASE o = m
    BY <1>1, <1>2, <1>5, <1>7, <2>1
  <2>2. CASE o # m
    BY <1>1, <1>5, <1>6, <2>2 DEF StatusMatchesEvidence, Unresolved, HasEvidence
  <2> QED BY <2>1, <2>2
<1> QED BY <1>8, <1>9, <1>10, <1>11, <1>12

\* A worker records what it concluded.  Only its own attempt was open, so nobody
\* else relies on that attempt, and a terminal message keeps its status.
LEMMA FinalizeStep ==
  ASSUME PipelineInv, TypeOK', NEW w \in Workers, wk[w].m \in Msgs, copies' = copies,
         NEW evidence \in Evidence, NEW status \in Statuses, NEW retries \in Nat,
         NEW rfc \in BOOLEAN, Concludes(w, evidence, status),
         Finalize(w, evidence, status, retries, rfc)
  PROVE  PipelineInv'
<1> USE DEF PipelineInv
<1> DEFINE m == wk[w].m  n == wk[w].n
<1>1. /\ RowFree(m) /\ MayFinalize(m, n, status)
      /\ msg'[m].status = status
      /\ \A o \in Msgs : o # m => msg'[o] = msg[o]
      /\ \A o \in Msgs : DOMAIN att'[o] = DOMAIN att[o]
      /\ \A o \in Msgs : \A i \in DOMAIN att[o] :
           att'[o][i].evidence = IF o = m /\ i = n THEN evidence ELSE att[o][i].evidence
      /\ wk'[w].pc = "finished" /\ wk'[w].m = m
      /\ \A v \in Workers : v # w => wk'[v] = wk[v]
  BY FinalizeEffect
<1>2. /\ n \in DOMAIN att[m] /\ n \in Unresolved(m)
      /\ msg[m].status \in Terminal => msg[m].status = status
  BY <1>1 DEF MayFinalize, Unresolved
<1>3. \A i \in DOMAIN att[m] : i # n => att[m][i].evidence \notin {"PREPARED", "UNKNOWN"}
  BY <1>2 DEF AttemptsInv, Unresolved
<1>4. \A v \in Workers : v # w /\ Unclaimed(v) => wk[v].m # m
  BY <1>2, <1>3 DEF OwnersInv, Unresolved, Concludes, Unclaimed, InFlight
<1>5. status \notin Eligible /\ status \in {"SENT", "UNKNOWN_OUTCOME", "FAILED", "RETRY_SCHEDULED"}
  BY DEF Concludes, Eligible
<1>6. ClaimsInv'
  BY <1>1, <1>5 DEF ClaimsInv, Eligible
<1>7. GatesInv'
  <2>1. \A v \in Workers : GateKept(v)
    BY <1>1 DEF GatesInv, GateKept, HoldsGates, RowFree
  <2> QED BY <2>1, GatesStep
<1>8. OwnersInv'
  <2>1. \A v \in Workers : InFlight(v)' => v # w /\ wk'[v] = wk[v] /\ InFlight(v) /\ wk[v].m \in Msgs
    BY <1>1 DEF OwnersInv, InFlight
  <2>2. \A v \in Workers : wk'[v].pc # "idle" => wk'[v].m \in Msgs
    BY <1>1 DEF OwnersInv
  <2>3. ASSUME NEW v \in Workers, Unclaimed(v)'
        PROVE  (wk[v].n \in Unresolved(wk[v].m) /\ copies[wk[v].m].taken = 0)'
    <3>1. v # w /\ wk'[v] = wk[v] /\ Unclaimed(v) /\ wk[v].m \in Msgs
      BY <2>1, <2>3 DEF Unclaimed, InFlight
    <3>2. wk[v].n \in Unresolved(wk[v].m) /\ copies[wk[v].m].taken = 0 /\ wk[v].m # m
      BY <1>4, <3>1 DEF OwnersInv
    <3> QED BY <1>1, <3>1, <3>2 DEF Unresolved
  <2>4. \A v \in Workers : InFlight(v)' => wk'[v].n \in DOMAIN att'[wk'[v].m]
    BY <1>1, <2>1 DEF OwnersInv
  <2>5. \A u, v \in Workers :
          InFlight(u)' /\ InFlight(v)' /\ wk'[u].m = wk'[v].m /\ wk'[u].n = wk'[v].n => u = v
    BY <2>1 DEF OwnersInv
  <2>6. \A v \in Workers : wk'[v].pc = "answered" /\ wk'[v].result = "ACCEPTED" =>
          copies'[wk'[v].m].taken = 1
    BY <2>1 DEF OwnersInv, InFlight
  <2> QED BY <2>2, <2>3, <2>4, <2>5, <2>6 DEF OwnersInv
<1>9. /\ Unresolved(m)' = IF evidence = "UNKNOWN" THEN {n} ELSE {}
      /\ HasEvidence(m, evidence)'
      /\ evidence # "ACCEPTED" => (HasEvidence(m, "ACCEPTED")' <=> HasEvidence(m, "ACCEPTED"))
  BY <1>1, <1>2, <1>3 DEF Unresolved, HasEvidence, Concludes
<1>10. /\ evidence = "ACCEPTED" <=> status = "SENT"
       /\ evidence = "ACCEPTED" => copies[m].taken = 1
       /\ evidence \in {"REJECTED", "NOT_INVOKED"} => copies[m].taken = 0
       /\ evidence = "UNKNOWN" <=> status = "UNKNOWN_OUTCOME"
  BY DEF Concludes, OwnersInv
<1>11. AttemptsInv'
  <2> SUFFICES ASSUME NEW o \in Msgs
               PROVE  (/\ \A i, j \in Unresolved(o) : i = j
                       /\ copies[o].taken <= 1
                       /\ copies[o].taken = 1 => Unresolved(o) # {} \/ HasEvidence(o, "ACCEPTED"))'
    BY DEF AttemptsInv
  <2>1. CASE o = m
    <3>1. /\ copies'[m].taken <= 1
          /\ \A i, j \in Unresolved(m)' : i = j
      BY <1>9 DEF AttemptsInv
    <3>2. CASE evidence = "ACCEPTED"
      BY <1>1, <1>9, <2>1, <3>1, <3>2
    <3>3. CASE evidence = "UNKNOWN"
      BY <1>1, <1>9, <2>1, <3>1, <3>3
    <3>4. CASE evidence \in {"REJECTED", "NOT_INVOKED"}
      BY <1>1, <1>10, <2>1, <3>1, <3>4
    <3> QED BY <3>2, <3>3, <3>4 DEF Concludes
  <2>2. CASE o # m
    BY <1>1, <2>2 DEF AttemptsInv, Unresolved, HasEvidence
  <2> QED BY <2>1, <2>2
<1>12. StatusMatchesEvidence'
  <2> SUFFICES ASSUME NEW o \in Msgs
               PROVE  (/\ msg[o].status = "SENT" <=> HasEvidence(o, "ACCEPTED")
                       /\ msg[o].status = "SENT" => copies[o].taken = 1
                       /\ msg[o].status = "SENDING" => HasEvidence(o, "PREPARED")
                       /\ msg[o].status = "UNKNOWN_OUTCOME" => HasEvidence(o, "UNKNOWN")
                       /\ msg[o].status \in Cancellable \union {"FAILED", "CANCELLED"} =>
                             Unresolved(o) = {})'
    BY DEF StatusMatchesEvidence
  <2>1. CASE o = m
    <3>1. evidence # "ACCEPTED" => ~HasEvidence(m, "ACCEPTED")
      BY <1>2, <1>10 DEF StatusMatchesEvidence, Terminal
    <3> QED BY <1>1, <1>5, <1>9, <1>10, <2>1, <3>1 DEF Cancellable, Sendable
  <2>2. CASE o # m
    BY <1>1, <2>2 DEF StatusMatchesEvidence, Unresolved, HasEvidence
  <2> QED BY <2>1, <2>2
<1> QED BY <1>6, <1>7, <1>8, <1>11, <1>12

\* Every end of the work on an answer.
LEMMA ConclusionStep ==
  ASSUME PipelineInv, TypeOK', NEW w \in Workers, wk[w].m \in Msgs, Concluding(w)
  PROVE  PipelineInv'
<1>0. TypeOK
  BY DEF PipelineInv
<1>1. copies' = copies
  BY <1>0, ConclusionEffect
<1>2. CASE Done(w) /\ UNCHANGED <<msg, att>>
  <2>1. wk'[w].pc = "finished" /\ wk'[w].m \in Msgs /\ \A v \in Workers : v # w => wk'[v] = wk[v]
    BY <1>0, <1>2, DoneWorker
  <2> QED BY <1>1, <1>2, <2>1, IdleStep
<1>3. CASE \E evidence \in Evidence, status \in Statuses, retries \in Nat, rfc \in BOOLEAN :
             Concludes(w, evidence, status) /\ Finalize(w, evidence, status, retries, rfc)
  BY <1>1, <1>3, FinalizeStep
<1> QED BY <1>0, <1>2, <1>3, ConclusionEffect

\* A message whose gates are held and that has no open attempt left no copy with
\* the provider but denied ones.
LEMMA NothingAccepted ==
  ASSUME PipelineInv, NEW m \in Msgs, msg[m].status \in Eligible, Unresolved(m) = {}
  PROVE  msg[m].status = "QUEUED" /\ copies[m].taken = 0 /\ ~HasEvidence(m, "ACCEPTED")
<1> USE DEF PipelineInv
<1>1. msg[m].status = "QUEUED"
  BY DEF StatusMatchesEvidence, HasEvidence, Unresolved, Eligible
<1>2. ~HasEvidence(m, "ACCEPTED")
  BY <1>1 DEF StatusMatchesEvidence
<1>3. copies[m].taken \in Nat /\ copies[m].taken <= 1 /\ copies[m].taken # 1
  BY <1>2 DEF AttemptsInv, TypeOK
<1> QED BY <1>1, <1>2, <1>3

\* Authorization opens the only open attempt of a message all of whose copies were denied.
LEMMA AuthorizeStep ==
  ASSUME PipelineInv, TypeOK', NEW w \in Workers, Authorize(w)
  PROVE  PipelineInv'
<1> USE DEF PipelineInv
<1> DEFINE m == wk[w].m  k == Len(att[m]) + 1
<1>0. wk[w].pc = "checked" /\ Unresolved(m) = {} /\ copies' = copies
  BY DEF Authorize
<1>1. m \in Msgs /\ msg[m].status \in Eligible
  BY <1>0 DEF GatesInv, HoldsGates
<1>2. /\ msg'[m].status = "SENDING" /\ msg'[m].gen = msg[m].gen
      /\ \A o \in Msgs : o # m => msg'[o] = msg[o] /\ att'[o] = att[o]
      /\ k \notin DOMAIN att[m] /\ DOMAIN att'[m] = DOMAIN att[m] \union {k}
      /\ \A i \in DOMAIN att[m] : att'[m][i] = att[m][i]
      /\ att'[m][k].evidence = "PREPARED"
      /\ wk'[w].pc = "authorized" /\ wk'[w].m = m /\ wk'[w].n = k
      /\ \A v \in Workers : v # w => wk'[v] = wk[v]
  BY <1>1, AuthorizeEffect
<1>3. msg[m].status = "QUEUED" /\ copies[m].taken = 0 /\ ~HasEvidence(m, "ACCEPTED")
  BY <1>0, <1>1, NothingAccepted
<1>4. ASSUME NEW i \in DOMAIN att'[m]
      PROVE  att'[m][i].evidence \in {"PREPARED", "UNKNOWN"} <=> i = k
  BY <1>0, <1>2 DEF Unresolved
<1>5. ClaimsInv'
  BY <1>2 DEF ClaimsInv
<1>6. GatesInv'
  <2>1. \A v \in Workers : HoldsGates(v) => v = w
    BY <1>0 DEF GatesInv, HoldsGates
  <2>2. \A v \in Workers : GateKept(v)
    BY <1>2, <2>1 DEF GateKept, HoldsGates
  <2> QED BY <2>2, GatesStep
<1>7. OwnersInv'
  <2>1. \A v \in Workers : InFlight(v)' /\ v # w =>
          wk'[v] = wk[v] /\ InFlight(v) /\ wk[v].m \in Msgs /\ wk[v].n \in DOMAIN att[wk[v].m]
    BY <1>2 DEF OwnersInv, InFlight
  <2>2. \A v \in Workers : wk'[v].pc # "idle" => wk'[v].m \in Msgs
    BY <1>1, <1>2 DEF OwnersInv
  <2>3. \A v \in Workers : InFlight(v)' => wk'[v].n \in DOMAIN att'[wk'[v].m]
    BY <1>1, <1>2, <2>1
  <2>4. \A u, v \in Workers :
          InFlight(u)' /\ InFlight(v)' /\ wk'[u].m = wk'[v].m /\ wk'[u].n = wk'[v].n => u = v
    BY <1>2, <2>1 DEF OwnersInv
  <2>5. \A v \in Workers : v # w /\ Unclaimed(v) /\ wk[v].m \in Msgs => wk[v].m # m
    BY <1>0 DEF OwnersInv
  <2>6. ASSUME NEW v \in Workers, Unclaimed(v)'
        PROVE  (wk[v].n \in Unresolved(wk[v].m) /\ copies[wk[v].m].taken = 0)'
    <3>1. CASE v = w
      BY <1>0, <1>2, <1>3, <3>1 DEF Unresolved
    <3>2. CASE v # w
      <4>1. wk'[v] = wk[v] /\ Unclaimed(v) /\ wk[v].m \in Msgs /\ wk[v].m # m
        BY <2>1, <2>5, <2>6, <3>2 DEF Unclaimed, InFlight
      <4>2. wk[v].n \in Unresolved(wk[v].m) /\ copies[wk[v].m].taken = 0
        BY <4>1 DEF OwnersInv
      <4> QED BY <1>0, <1>2, <4>1, <4>2 DEF Unresolved
    <3> QED BY <3>1, <3>2
  <2>7. \A v \in Workers : wk'[v].pc = "answered" /\ wk'[v].result = "ACCEPTED" =>
          copies'[wk'[v].m].taken = 1
    BY <1>0, <1>2, <2>1 DEF OwnersInv, InFlight
  <2> QED BY <2>2, <2>3, <2>4, <2>6, <2>7 DEF OwnersInv
<1>8. AttemptsInv'
  <2> SUFFICES ASSUME NEW o \in Msgs
               PROVE  (/\ \A i, j \in Unresolved(o) : i = j
                       /\ copies[o].taken <= 1
                       /\ copies[o].taken = 1 => Unresolved(o) # {} \/ HasEvidence(o, "ACCEPTED"))'
    BY DEF AttemptsInv
  <2>1. CASE o = m
    BY <1>0, <1>3, <1>4, <2>1 DEF Unresolved
  <2>2. CASE o # m
    BY <1>0, <1>2, <2>2 DEF AttemptsInv, Unresolved, HasEvidence
  <2> QED BY <2>1, <2>2
<1>9. StatusMatchesEvidence'
  <2> SUFFICES ASSUME NEW o \in Msgs
               PROVE  (/\ msg[o].status = "SENT" <=> HasEvidence(o, "ACCEPTED")
                       /\ msg[o].status = "SENT" => copies[o].taken = 1
                       /\ msg[o].status = "SENDING" => HasEvidence(o, "PREPARED")
                       /\ msg[o].status = "UNKNOWN_OUTCOME" => HasEvidence(o, "UNKNOWN")
                       /\ msg[o].status \in Cancellable \union {"FAILED", "CANCELLED"} =>
                             Unresolved(o) = {})'
    BY DEF StatusMatchesEvidence
  <2>1. CASE o = m
    <3>1. \A i \in DOMAIN att'[m] : att'[m][i].evidence # "ACCEPTED"
      BY <1>2, <1>3 DEF HasEvidence
    <3> QED BY <1>2, <2>1, <3>1 DEF HasEvidence, Cancellable, Sendable
  <2>2. CASE o # m
    BY <1>0, <1>2, <2>2 DEF StatusMatchesEvidence, Unresolved, HasEvidence
  <2> QED BY <2>1, <2>2
<1> QED BY <1>5, <1>6, <1>7, <1>8, <1>9

\* The provider is called only by the one worker that owns the message's open attempt.
LEMMA InvokeStep ==
  ASSUME PipelineInv, TypeOK', NEW w \in Workers, Invoke(w)
  PROVE  PipelineInv'
<1> USE DEF PipelineInv
<1> DEFINE m == wk[w].m
<1>0. wk[w].pc = "authorized" /\ msg' = msg /\ att' = att
  BY DEF Invoke
<1>1. /\ m \in Msgs /\ Unclaimed(w) /\ InFlight(w)
      /\ wk[w].n \in Unresolved(m) /\ copies[m].taken = 0
  BY <1>0 DEF OwnersInv, Unclaimed, InFlight
<1>2. PICK took \in {0, 1} :
        /\ copies'[m].taken = copies[m].taken + took
        /\ \A o \in Msgs : o # m => copies'[o] = copies[o]
        /\ wk'[w].pc = "answered" /\ wk'[w].m = m /\ wk'[w].n = wk[w].n
        /\ wk'[w].result = "ACCEPTED" => took = 1
        /\ wk'[w].result \notin {"ACCEPTED", "UNKNOWN"} => took = 0
        /\ \A v \in Workers : v # w => wk'[v] = wk[v]
  BY <1>1, InvokeEffect
<1>3. copies'[m].taken = took
  BY <1>1, <1>2
<1>4. \A o \in Msgs : Unresolved(o)' = Unresolved(o)
  BY <1>0 DEF Unresolved
<1>5. ClaimsInv'
  BY <1>0 DEF ClaimsInv
<1>6. GatesInv'
  <2>1. \A v \in Workers : GateKept(v)
    BY <1>0, <1>2 DEF GatesInv, GateKept, HoldsGates
  <2> QED BY <2>1, GatesStep
<1>7. OwnersInv'
  <2>1. \A v \in Workers : InFlight(v)' /\ v # w =>
          wk'[v] = wk[v] /\ InFlight(v) /\ wk[v].m \in Msgs
    BY <1>2 DEF OwnersInv, InFlight
  <2>2. \A v \in Workers : wk'[v].pc # "idle" => wk'[v].m \in Msgs
    BY <1>1, <1>2 DEF OwnersInv
  <2>3. \A v \in Workers : InFlight(v)' => wk'[v].n \in DOMAIN att'[wk'[v].m]
    BY <1>0, <1>1, <1>2, <2>1 DEF OwnersInv
  <2>4. \A u, v \in Workers :
          InFlight(u)' /\ InFlight(v)' /\ wk'[u].m = wk'[v].m /\ wk'[u].n = wk'[v].n => u = v
    BY <1>1, <1>2, <2>1 DEF OwnersInv
  <2>5. \A v \in Workers : v # w /\ Unclaimed(v) /\ wk[v].m \in Msgs => wk[v].m # m
    BY <1>1 DEF OwnersInv, AttemptsInv, Unclaimed, InFlight
  <2>6. ASSUME NEW v \in Workers, Unclaimed(v)'
        PROVE  (wk[v].n \in Unresolved(wk[v].m) /\ copies[wk[v].m].taken = 0)'
    <3>1. CASE v = w
      <4>1. took = 0
        BY <1>2, <2>6, <3>1 DEF Unclaimed
      <4> QED BY <1>0, <1>1, <1>2, <1>3, <3>1, <4>1 DEF Unresolved
    <3>2. CASE v # w
      <4>1. wk'[v] = wk[v] /\ Unclaimed(v) /\ wk[v].m \in Msgs /\ wk[v].m # m
        BY <2>1, <2>5, <2>6, <3>2 DEF Unclaimed, InFlight
      <4>2. wk[v].n \in Unresolved(wk[v].m) /\ copies[wk[v].m].taken = 0
        BY <4>1 DEF OwnersInv
      <4> QED BY <1>0, <1>2, <4>1, <4>2 DEF Unresolved
    <3> QED BY <3>1, <3>2
  <2>7. \A v \in Workers : wk'[v].pc = "answered" /\ wk'[v].result = "ACCEPTED" =>
          copies'[wk'[v].m].taken = 1
    <3>1. \A v \in Workers : v # w /\ wk[v].pc = "answered" /\ wk[v].result = "ACCEPTED" =>
            wk[v].m # m /\ wk[v].m \in Msgs /\ copies[wk[v].m].taken = 1
      BY <1>1 DEF OwnersInv
    <3> QED BY <1>2, <1>3, <3>1
  <2> QED BY <2>2, <2>3, <2>4, <2>6, <2>7 DEF OwnersInv
<1>8. AttemptsInv'
  <2> SUFFICES ASSUME NEW o \in Msgs
               PROVE  (/\ \A i, j \in Unresolved(o) : i = j
                       /\ copies[o].taken <= 1
                       /\ copies[o].taken = 1 => Unresolved(o) # {} \/ HasEvidence(o, "ACCEPTED"))'
    BY DEF AttemptsInv
  <2>1. CASE o = m
    <3>1. Unresolved(o) # {} /\ Unresolved(o)' = Unresolved(o)
      BY <1>1, <1>4, <2>1
    <3>2. copies'[o].taken <= 1
      BY <1>3, <2>1
    <3> QED BY <3>1, <3>2 DEF AttemptsInv
  <2>2. CASE o # m
    BY <1>0, <1>2, <2>2 DEF AttemptsInv, Unresolved, HasEvidence
  <2> QED BY <2>1, <2>2
<1>9. StatusMatchesEvidence'
  <2>1. \A o \in Msgs : msg[o].status = "SENT" => copies'[o].taken = copies[o].taken
    BY <1>1, <1>2 DEF StatusMatchesEvidence
  <2> QED BY <1>0, <2>1 DEF StatusMatchesEvidence, HasEvidence, Unresolved
<1> QED BY <1>5, <1>6, <1>7, <1>8, <1>9

\* Loading a task.
LEMMA LoadStep ==
  ASSUME PipelineInv, TypeOK', NEW w \in Workers, NEW m \in Msgs, NEW g \in 1..MaxGen,
         Load(w, m, g)
  PROVE  PipelineInv'
<1>0. TypeOK /\ ClaimsInv /\ msg[m] \in MsgType /\ g \in Nat /\ att' = att /\ copies' = copies
  BY PipelineAssumption
  DEF PipelineInv, TypeOK, Load, LoadStops, LoadSkips, LoadHandsBack, LoadPasses, PipelineAssumption
<1>1. CASE LoadStops(w, m, g)
  <2>1. wk'[w].pc = "finished" /\ wk'[w].m = m /\ \A v \in Workers : v # w => wk'[v] = wk[v]
    BY <1>0, <1>1, TakeWorker DEF LoadStops
  <2> QED BY <1>0, <1>1, <2>1, IdleStep DEF LoadStops
<1>2. CASE LoadSkips(w, m, g)
  <2>1. wk'[w].pc = "finished" /\ wk'[w].m = m /\ \A v \in Workers : v # w => wk'[v] = wk[v]
    BY <1>0, <1>2, TakeWorker DEF LoadSkips
  <2>2. GatesFree /\ msg[m].status \in Sendable \union Eligible
    <3>1. GatesFree /\ Gate(m, g) = "skip"
      BY <1>2 DEF LoadSkips
    <3>2. msg[m].status \in Resolved \union Sendable \union Eligible /\ (msg[m].gen = g \/ msg[m].gen # g)
      BY <1>0 DEF MsgType, Statuses
    <3> QED BY <3>1, <3>2 DEF Gate
  <2>3. msg'[m].status = "SKIPPED" /\ \A o \in Msgs : o # m => msg'[o] = msg[o]
    <3>1. "SKIPPED" \in Statuses
      BY DEF Statuses, Resolved, Terminal
    <3> QED BY <1>0, <1>2, <3>1, StatusUpdate, StatusFields DEF LoadSkips
  <2>4. \A o \in Msgs : /\ UnattemptedMove(o)
                        /\ msg'[o].status = "QUEUED" => msg'[o].origin \in Sendable
    BY <1>0, <2>2, <2>3 DEF UnattemptedMove, Cancellable, Eligible, ClaimsInv
  <2>5. GatesInv'
    <3>1. \A v \in Workers : GateKept(v)
      BY <2>1, <2>2 DEF GatesFree, GateKept, HoldsGates
    <3> QED BY <3>1, GatesStep
  <2> QED BY <1>0, <2>1, <2>4, <2>5, WorkerStep
<1>3. CASE LoadHandsBack(w, m, g)
  <2>1. wk'[w].pc = "finished" /\ wk'[w].m = m /\ \A v \in Workers : v # w => wk'[v] = wk[v]
    BY <1>0, <1>3, TakeWorker DEF LoadHandsBack
  <2>2. GatesFree
    BY <1>3 DEF LoadHandsBack
  <2>3. /\ \A o \in Msgs : o # m => msg'[o] = msg[o]
        /\ \/ msg'[m] = msg[m]
           \/ msg[m].status = "QUEUED" /\ msg'[m].status \in Sendable
    BY <1>0, <1>3, HandBackEffect DEF LoadHandsBack
  <2>4. \A o \in Msgs : /\ UnattemptedMove(o)
                        /\ msg'[o].status = "QUEUED" => msg'[o].origin \in Sendable
    BY <1>0, <2>3 DEF UnattemptedMove, Cancellable, Sendable, ClaimsInv
  <2>5. GatesInv'
    <3>1. \A v \in Workers : GateKept(v)
      BY <2>1, <2>2 DEF GatesFree, GateKept, HoldsGates
    <3> QED BY <3>1, GatesStep
  <2> QED BY <1>0, <2>1, <2>4, <2>5, WorkerStep
<1>4. CASE LoadPasses(w, m, g)
  <2>1. /\ wk'[w].pc = "loaded" /\ wk'[w].m = m /\ wk'[w].g = g
        /\ \A v \in Workers : v # w => wk'[v] = wk[v]
    BY <1>0, <1>4, TakeWorker DEF LoadPasses
  <2>2. GatesFree /\ msg' = msg
    BY <1>4 DEF LoadPasses
  <2>3. msg[m].status \in Eligible /\ msg[m].gen = g
    <3>1. Gate(m, g) = "pass"
      BY <1>4 DEF LoadPasses
    <3>2. msg[m].status \in Resolved \union Sendable \union Eligible
      BY <1>0 DEF MsgType, Statuses
    <3> QED BY <3>1, <3>2 DEF Gate
  <2>4. \A o \in Msgs : /\ UnattemptedMove(o)
                        /\ msg'[o].status = "QUEUED" => msg'[o].origin \in Sendable
    BY <1>0, <2>2 DEF UnattemptedMove, ClaimsInv
  <2>5. GatesInv'
    BY <2>1, <2>2, <2>3 DEF GatesInv, GatesFree, HoldsGates
  <2> QED BY <1>0, <2>1, <2>4, <2>5, WorkerStep
<1> QED BY <1>1, <1>2, <1>3, <1>4 DEF Load

\* Working on a task, up to the authorization and after the conclusion.
LEMMA WorkStep ==
  ASSUME PipelineInv, TypeOK', NEW w \in Workers,
         \/ ReserveDenied(w) \/ DeniedHandsBack(w) \/ GatesPassAgain(w)
         \/ AuthorizationAborts(w) \/ Acknowledge(w) \/ Crash(w)
  PROVE  PipelineInv'
<1>0. /\ TypeOK /\ ClaimsInv /\ wk[w] \in WorkerType /\ mailbox.gen \in Nat
      /\ wk[w].pc # "idle" => wk[w].m \in Msgs
  BY DEF PipelineInv, TypeOK, OwnersInv
<1>1. CASE ReserveDenied(w)
  <2>1. wk' = [wk EXCEPT ![w].pc = "denied", ![w].cred = wk[w].cred]
    BY <1>0, <1>1 DEF ReserveDenied, TypeOK, WorkerType
  <2>2. wk'[w].pc = "denied" /\ wk'[w].m = wk[w].m /\ \A v \in Workers : v # w => wk'[v] = wk[v]
    BY <1>0, <2>1, GoesOnWorker DEF WorkerType
  <2>3. wk[w].m \in Msgs /\ msg' = msg /\ att' = att /\ copies' = copies
    BY <1>0, <1>1 DEF ReserveDenied
  <2> QED BY <2>2, <2>3, IdleStep
<1>2. CASE DeniedHandsBack(w)
  <2>1. /\ wk[w].m \in Msgs /\ wk[w].g \in Nat /\ RowFree(wk[w].m)
        /\ att' = att /\ copies' = copies
    BY <1>0, <1>2 DEF DeniedHandsBack, WorkerType
  <2>2. wk'[w].pc = "finished" /\ wk'[w].m = wk[w].m /\ \A v \in Workers : v # w => wk'[v] = wk[v]
    BY <1>0, <1>2, <2>1, DoneWorker DEF DeniedHandsBack
  <2>3. /\ \A o \in Msgs : o # wk[w].m => msg'[o] = msg[o]
        /\ \/ msg'[wk[w].m] = msg[wk[w].m]
           \/ msg[wk[w].m].status = "QUEUED" /\ msg'[wk[w].m].status \in Sendable
    BY <1>0, <1>2, <2>1, HandBackEffect DEF DeniedHandsBack
  <2>4. \A o \in Msgs : /\ UnattemptedMove(o)
                        /\ msg'[o].status = "QUEUED" => msg'[o].origin \in Sendable
    BY <1>0, <2>3 DEF UnattemptedMove, Cancellable, Sendable, ClaimsInv
  <2>5. GatesInv'
    <3>1. \A v \in Workers : GateKept(v)
      BY <2>1, <2>2, <2>3 DEF PipelineInv, GatesInv, GateKept, HoldsGates, RowFree
    <3> QED BY <3>1, GatesStep
  <2> QED BY <2>1, <2>2, <2>4, <2>5, WorkerStep
<1>3. CASE GatesPassAgain(w)
  <2>1. /\ wk'[w].pc = "checked" /\ wk'[w].m = wk[w].m /\ wk'[w].g = wk[w].g
        /\ \A v \in Workers : v # w => wk'[v] = wk[v]
    BY <1>0, <1>3, GoesOnWorker DEF GatesPassAgain
  <2>2. /\ wk[w].pc = "loaded" /\ wk[w].m \in Msgs
        /\ msg' = msg /\ att' = att /\ copies' = copies
    BY <1>0, <1>3 DEF GatesPassAgain
  <2>3. GatesInv'
    <3>1. \A v \in Workers : GateKept(v)
      BY <2>1, <2>2 DEF PipelineInv, GatesInv, GateKept, HoldsGates
    <3> QED BY <3>1, GatesStep
  <2>4. \A o \in Msgs : /\ UnattemptedMove(o)
                        /\ msg'[o].status = "QUEUED" => msg'[o].origin \in Sendable
    BY <1>0, <2>2 DEF UnattemptedMove, ClaimsInv
  <2> QED BY <2>1, <2>2, <2>3, <2>4, WorkerStep
<1>4. CASE AuthorizationAborts(w)
  <2>1. wk[w].m \in Msgs /\ msg' = msg /\ att' = att /\ copies' = copies
    BY <1>0, <1>4 DEF AuthorizationAborts
  <2>2. wk'[w].pc = "finished" /\ wk'[w].m = wk[w].m /\ \A v \in Workers : v # w => wk'[v] = wk[v]
    BY <1>0, <1>4, <2>1, DoneWorker DEF AuthorizationAborts
  <2> QED BY <2>1, <2>2, IdleStep
<1>5. CASE Acknowledge(w) \/ Crash(w)
  <2>1. /\ wk' = [wk EXCEPT ![w] = Idle]
        /\ msg' = msg /\ att' = att /\ copies' = copies
    BY <1>5 DEF Acknowledge, Crash
  <2>2. wk'[w].pc = "idle" /\ \A v \in Workers : v # w => wk'[v] = wk[v]
    BY <1>0, <2>1, IdleWorker
  <2> QED BY <2>1, <2>2, IdleStep
<1> QED BY <1>1, <1>2, <1>3, <1>4, <1>5

-----------------------------------------------------------------------------
(* The invariant and what follows from it *)

\* Initially nothing is claimed, attempted or taken.
LEMMA PipelineInit == Init => PipelineInv
<1> SUFFICES ASSUME Init PROVE PipelineInv
  OBVIOUS
<1>1. \A m \in Msgs : /\ msg[m].status = "SCHEDULED" /\ att[m] = <<>> /\ copies[m].taken = 0
                      /\ DOMAIN att[m] = {}
  BY DEF Init
<1>2. \A w \in Workers : wk[w].pc = "idle"
  BY DEF Init, Idle
<1>3. ClaimsInv
  BY <1>1 DEF ClaimsInv
<1>4. GatesInv /\ OwnersInv
  BY <1>2 DEF GatesInv, OwnersInv, HoldsGates, InFlight, Unclaimed
<1>5. AttemptsInv
  BY <1>1 DEF AttemptsInv, Unresolved
<1>6. StatusMatchesEvidence
  BY <1>1 DEF StatusMatchesEvidence, HasEvidence, Unresolved
<1> QED BY <1>3, <1>4, <1>5, <1>6, TypeInit DEF PipelineInv

\* Every step of the pipeline preserves the invariant.
LEMMA PipelineNext == PipelineInv /\ [Next]_vars => PipelineInv'
<1> SUFFICES ASSUME PipelineInv, [Next]_vars PROVE PipelineInv'
  OBVIOUS
<1>0. TypeOK' /\ \A w \in Workers : wk[w].pc # "idle" => wk[w].m \in Msgs
  BY TypeStep DEF PipelineInv, OwnersInv
<1>1. ASSUME NEW m \in Msgs, Scheduler(m) \/ Clock(m)
      PROVE  PipelineInv'
  BY <1>0, <1>1, SchedulerStep, RecoveryStep, ReconcileStep DEF Scheduler, Clock
<1>2. ASSUME NEW m \in Msgs, Outside(m)
      PROVE  PipelineInv'
  BY <1>0, <1>2, StopStep, TransportStep DEF Outside
<1>3. ASSUME NEW w \in Workers, NEW m \in Msgs, NEW g \in 1..MaxGen, Load(w, m, g)
      PROVE  PipelineInv'
  BY <1>0, <1>3, LoadStep
<1>4. ASSUME NEW w \in Workers, Before(w) \/ After(w) \/ Crash(w)
      PROVE  PipelineInv'
  <2>1. CASE Concluding(w)
    <3>1. wk[w].m \in Msgs
      BY <1>0, <2>1 DEF Concluding, NotInvoked, FinalizeAccepted, FinalizeUnknown,
                        FinalizeRejected, FinalizeAuthFailure, ResultIsLost
    <3> QED BY <1>0, <2>1, <3>1, ConclusionStep
  <2>2. CASE Authorize(w)
    BY <1>0, <2>2, AuthorizeStep
  <2>3. CASE Invoke(w)
    BY <1>0, <2>3, InvokeStep
  <2> QED BY <1>0, <1>4, <2>1, <2>2, <2>3, WorkStep DEF Before, After, Concluding
<1>5. CASE \/ CountRoom \/ Pause \/ Resume \/ Disconnect \/ Reconnect \/ BlockPasses
           \/ UNCHANGED vars
           \/ \E m \in Msgs, g \in 1..MaxGen : Publisher(m, g) \/ LoseTask(m, g)
  BY <1>0, <1>5, TransportStep
<1> QED BY <1>1, <1>2, <1>3, <1>4, <1>5 DEF Next

\* The invariant holds in every reachable state of every pipeline.
THEOREM Invariance == Spec => []PipelineInv
<1>1. Init => PipelineInv
  BY PipelineInit
<1>2. PipelineInv /\ [Next]_vars => PipelineInv'
  BY PipelineNext
<1> QED BY <1>1, <1>2, PTL DEF Spec

\* Every variable keeps its type.
THEOREM TypeCorrect == Spec => []TypeOK
<1>1. PipelineInv => TypeOK
  BY DEF PipelineInv
<1> QED BY <1>1, Invariance, PTL

\* Rows and attempts agree: a SENT message has an ACCEPTED attempt and a copy the
\* adapter did not deny, and what may be sent again, failed or was cancelled has no
\* attempt open.  What its rejected attempts really were is another matter: see
\* RetriesDuplicateOnlyDenied.
THEOREM RowsMatchAttempts == Spec => []StatusMatchesEvidence
<1>1. PipelineInv => StatusMatchesEvidence
  BY DEF PipelineInv
<1> QED BY <1>1, Invariance, PTL

-----------------------------------------------------------------------------
(* Which workers a step moves *)

\* Who is not idle works on a message.
LEMMA Busy == ASSUME PipelineInv PROVE \A w \in Workers : wk[w].pc # "idle" => wk[w].m \in Msgs
BY DEF PipelineInv, OwnersInv

\* Loading a task leaves the worker with a passed gate, or done.
LEMMA LoadWorker ==
  ASSUME PipelineInv, NEW w \in Workers, NEW m \in Msgs, NEW g \in 1..MaxGen, Load(w, m, g)
  PROVE  wk'[w].pc \in {"loaded", "finished"} /\ \A v \in Workers : v # w => wk'[v] = wk[v]
<1>1. TypeOK /\ g \in Nat
  BY PipelineAssumption DEF PipelineInv, PipelineAssumption
<1>2. \E pc \in {"loaded", "finished"} : Take(w, m, g, pc)
  BY DEF Load, LoadStops, LoadSkips, LoadHandsBack, LoadPasses
<1> QED BY <1>1, <1>2, TakeWorker

\* Concluding leaves it done.
LEMMA ConcludingWorker ==
  ASSUME PipelineInv, NEW w \in Workers, Concluding(w)
  PROVE  /\ wk[w].m \in Msgs
         /\ wk'[w].pc = "finished" /\ \A v \in Workers : v # w => wk'[v] = wk[v]
<1>0. TypeOK
  BY DEF PipelineInv
<1>1. wk[w].m \in Msgs
  BY Busy DEF Concluding, NotInvoked, FinalizeAccepted, FinalizeUnknown,
              FinalizeRejected, FinalizeAuthFailure, ResultIsLost
<1>2. CASE Done(w)
  BY <1>0, <1>1, <1>2, DoneWorker
<1>3. CASE \E evidence \in Evidence, status \in Statuses, retries \in Nat, rfc \in BOOLEAN :
             Finalize(w, evidence, status, retries, rfc)
  BY <1>0, <1>1, <1>3, FinalizeEffect
<1> QED BY <1>0, <1>1, <1>2, <1>3, ConclusionEffect

\* So does every step that gives the work up, for now or for good.
LEMMA GivingUpWorker ==
  ASSUME PipelineInv, NEW w \in Workers,
         \/ ReserveDenied(w) \/ DeniedHandsBack(w) \/ AuthorizationAborts(w)
         \/ Acknowledge(w) \/ Crash(w)
  PROVE  /\ wk'[w].pc \in {"denied", "finished", "idle"}
         /\ \A v \in Workers : v # w => wk'[v] = wk[v]
<1>0. TypeOK /\ wk[w] \in WorkerType
  BY DEF PipelineInv, TypeOK
<1>1. CASE ReserveDenied(w)
  <2>1. wk' = [wk EXCEPT ![w].pc = "denied", ![w].cred = wk[w].cred]
    BY <1>0, <1>1 DEF ReserveDenied, TypeOK, WorkerType
  <2> QED BY <1>0, <2>1, GoesOnWorker DEF WorkerType
<1>2. CASE DeniedHandsBack(w) \/ AuthorizationAborts(w)
  <2>1. wk[w].m \in Msgs /\ Done(w)
    BY <1>2, Busy DEF DeniedHandsBack, AuthorizationAborts
  <2> QED BY <1>0, <2>1, DoneWorker
<1>3. CASE Acknowledge(w) \/ Crash(w)
  BY <1>0, <1>3, IdleWorker DEF Acknowledge, Crash
<1> QED BY <1>1, <1>2, <1>3

\* Nobody else moves a worker.
LEMMA OnlyWorkersWork ==
  ASSUME [Next]_vars
  PROVE  \/ wk' = wk
         \/ \E w \in Workers : Before(w) \/ After(w) \/ Crash(w)
         \/ \E w \in Workers, m \in Msgs, g \in 1..MaxGen : Load(w, m, g)
BY DEF Next, vars, CountRoom, Scheduler, Clock, Outside, Publisher, LoseTask, Pause, Resume,
       Disconnect, Reconnect, BlockPasses, Claim, RecoverExpiredClaim, FindStaleExecution,
       RecoverStaleExecution, Reconcile, ClaimLeaseExpires, DeadlinePasses, Reply,
       Unsubscribe, Suppress, LeaseDelivery, Publish, PublishFails

\* A task is skipped only while its message is still open.
LEMMA GateSkips ==
  ASSUME TypeOK, NEW m \in Msgs, NEW g, Gate(m, g) = "skip"
  PROVE  msg[m].status \in Sendable \union Eligible
<1>1. msg[m].status \in Resolved \union Sendable \union Eligible /\ (msg[m].gen = g \/ msg[m].gen # g)
  BY DEF TypeOK, MsgType, Statuses
<1> QED BY <1>1 DEF Gate

\* The gates pass only for a running campaign, an active recipient and a usable mailbox.
LEMMA GatePasses ==
  ASSUME TypeOK, NEW m \in Msgs, NEW g, Gate(m, g) = "pass"
  PROVE  /\ campaign = "RUNNING" /\ enrollment[m] = "ACTIVE"
         /\ mailbox.connected /\ ~mailbox.blocked
<1>1. msg[m].status \in Resolved \union Sendable \union Eligible /\ (msg[m].gen = g \/ msg[m].gen # g)
  BY DEF TypeOK, MsgType, Statuses
<1> QED BY <1>1 DEF Gate

-----------------------------------------------------------------------------
(* The authorization fence *)

\* What a worker that passed the gates the second time relies on.
Fence(w) ==
  /\ campaign = "RUNNING" /\ enrollment[wk[w].m] = "ACTIVE"
  /\ mailbox.connected /\ ~mailbox.blocked /\ mailbox.gen = wk[w].cred

\* While it holds the rows, all of it stays true.
FenceInv == \A w \in Workers : wk[w].pc = "checked" => Fence(w)

\* Passing the gates again means that all of it holds now.
LEMMA GatesShowFence ==
  ASSUME TypeOK, NEW w \in Workers, wk[w].m \in Msgs, GatesPassAgain(w)
  PROVE  Fence(w)'
<1>0. /\ mailbox.gen \in Nat
      /\ campaign' = campaign /\ enrollment' = enrollment /\ mailbox' = mailbox
  BY DEF TypeOK, GatesPassAgain, facts
<1>1. wk'[w].m = wk[w].m /\ wk'[w].cred = mailbox.gen
  BY <1>0, GoesOnWorker DEF GatesPassAgain
<1>2. /\ campaign = "RUNNING" /\ enrollment[wk[w].m] = "ACTIVE"
      /\ mailbox.connected /\ ~mailbox.blocked
  BY GatePasses DEF GatesPassAgain
<1> QED BY <1>0, <1>1, <1>2 DEF Fence

\* What holds when nothing it reads changes, or only a block is lifted.
FactsKept ==
  /\ campaign' = campaign /\ enrollment' = enrollment
  /\ mailbox'.connected = mailbox.connected /\ mailbox'.gen = mailbox.gen
  /\ ~mailbox.blocked => ~mailbox'.blocked

\* A step that changes no fact and lets no other worker through the gates.
LEMMA FenceQuiet ==
  ASSUME FenceInv, FactsKept, \A v \in Workers : wk'[v] = wk[v] \/ wk'[v].pc # "checked"
  PROVE  FenceInv'
BY DEF FenceInv, Fence, FactsKept

\* A step that waits for the gates finds nobody who passed them.
LEMMA FenceWaits ==
  ASSUME GatesFree, \A v \in Workers : wk'[v] = wk[v] \/ wk'[v].pc # "checked"
  PROVE  FenceInv'
BY DEF FenceInv, GatesFree, HoldsGates

\* The worker steps that leave no gate open behind them.
LEMMA ConcludingFence ==
  ASSUME PipelineInv, FenceInv, NEW w \in Workers, Concluding(w)
  PROVE  FenceInv'
<1>0. TypeOK /\ mailbox \in [connected : BOOLEAN, gen : Nat, blocked : BOOLEAN]
  BY DEF PipelineInv, TypeOK
<1>1. \A v \in Workers : wk'[v] = wk[v] \/ wk'[v].pc # "checked"
  BY ConcludingWorker
<1>2. CASE FinalizeAuthFailure(w)
  BY <1>1, <1>2, FenceWaits DEF FinalizeAuthFailure
<1>3. CASE FinalizeRejected(w) /\ wk[w].result = "RATE_LIMIT"
  BY <1>1, <1>3, FenceWaits DEF FinalizeRejected
<1>4. CASE FinalizeRejected(w) /\ wk[w].result # "RATE_LIMIT"
  <2>1. mailbox' = [mailbox EXCEPT !.blocked = (mailbox.blocked \/ wk[w].result = "RATE_LIMIT")]
    BY <1>4 DEF FinalizeRejected
  <2>2. FactsKept
    BY <1>0, <1>4, <2>1 DEF FinalizeRejected, FactsKept, facts
  <2> QED BY <1>1, <2>2, FenceQuiet
<1>5. CASE NotInvoked(w) \/ FinalizeAccepted(w) \/ FinalizeUnknown(w) \/ ResultIsLost(w)
  <2>1. FactsKept
    BY <1>5 DEF NotInvoked, FinalizeAccepted, FinalizeUnknown, ResultIsLost, FactsKept, facts
  <2> QED BY <1>1, <2>1, FenceQuiet
<1> QED BY <1>2, <1>3, <1>4, <1>5 DEF Concluding

\* The other steps of a worker change no fact.
LEMMA WorkingFence ==
  ASSUME PipelineInv, FenceInv, NEW w \in Workers,
         Before(w) \/ Acknowledge(w) \/ Crash(w) \/ Invoke(w)
  PROVE  FenceInv'
<1>0. /\ TypeOK /\ wk[w] \in WorkerType /\ mailbox.gen \in Nat
      /\ wk[w].pc # "idle" => wk[w].m \in Msgs
  BY DEF PipelineInv, TypeOK, OwnersInv
<1>1. FactsKept
  BY DEF FactsKept, facts, Before, ReserveDenied, DeniedHandsBack, GatesPassAgain,
         AuthorizationAborts, Authorize, Acknowledge, Crash, Invoke
<1>2. CASE GatesPassAgain(w)
  <2>1. wk[w].pc = "loaded" /\ wk[w].m \in Msgs
    BY <1>0, <1>2 DEF GatesPassAgain
  <2>2. \A v \in Workers : v # w => wk'[v] = wk[v]
    BY <1>0, <1>2, <2>1, GoesOnWorker DEF GatesPassAgain
  <2>3. Fence(w)'
    BY <1>0, <1>2, <2>1, GatesShowFence
  <2> QED BY <1>1, <2>2, <2>3 DEF FenceInv, Fence, FactsKept
<1>3. CASE ReserveDenied(w) \/ DeniedHandsBack(w) \/ AuthorizationAborts(w) \/ Acknowledge(w) \/ Crash(w)
  BY <1>1, <1>3, GivingUpWorker, FenceQuiet
<1>5. CASE Authorize(w)
  <2>1. wk[w].m \in Msgs
    BY <1>0, <1>5 DEF Authorize
  <2> QED BY <1>0, <1>1, <1>5, <2>1, AuthorizeEffect, FenceQuiet
<1>7. CASE Invoke(w)
  <2>1. wk[w].m \in Msgs
    BY <1>0, <1>7 DEF Invoke
  <2> QED BY <1>0, <1>1, <1>7, <2>1, InvokeEffect, FenceQuiet
<1> QED BY <1>2, <1>3, <1>5, <1>7 DEF Before

\* Loading a task passes the gates once, which is not enough.
LEMMA LoadingFence ==
  ASSUME PipelineInv, FenceInv, NEW w \in Workers, NEW m \in Msgs, NEW g \in 1..MaxGen,
         Load(w, m, g)
  PROVE  FenceInv'
<1>1. FactsKept
  BY DEF FactsKept, facts, Load, LoadStops, LoadSkips, LoadHandsBack, LoadPasses
<1> QED BY <1>1, LoadWorker, FenceQuiet

\* A stopped recipient's row is not locked, so no worker relies on its enrollment.
LEMMA StopFence ==
  ASSUME PipelineInv, FenceInv, NEW m \in Msgs, Reply(m) \/ Unsubscribe(m)
  PROVE  FenceInv'
<1>1. /\ RowFree(m) /\ wk' = wk /\ campaign' = campaign /\ mailbox' = mailbox
      /\ \A o \in Msgs : o # m => enrollment'[o] = enrollment[o]
  BY DEF Reply, Unsubscribe, StopRecipient, PipelineInv, TypeOK
<1>2. \A w \in Workers : wk[w].pc = "checked" => wk[w].m \in Msgs /\ wk[w].m # m
  BY <1>1 DEF RowFree, HoldsGates, PipelineInv, OwnersInv
<1> QED BY <1>1, <1>2 DEF FenceInv, Fence

\* No step of anybody takes away what a worker behind the gates relies on.
LEMMA FenceNext == PipelineInv /\ FenceInv /\ [Next]_vars => FenceInv'
<1> SUFFICES ASSUME PipelineInv, FenceInv, [Next]_vars PROVE FenceInv'
  OBVIOUS
<1>1. CASE UNCHANGED vars \/ CountRoom
  BY <1>1, FenceQuiet DEF vars, CountRoom, facts, FactsKept
<1>2. ASSUME NEW m \in Msgs, Scheduler(m) \/ Clock(m)
      PROVE  FenceInv'
  <2>1. FactsKept /\ wk' = wk
    BY <1>2 DEF FactsKept, facts, Scheduler, Clock, Claim, RecoverExpiredClaim, FindStaleExecution,
                RecoverStaleExecution, Reconcile, ClaimLeaseExpires, DeadlinePasses
  <2> QED BY <2>1, FenceQuiet
<1>3. ASSUME NEW m \in Msgs, Outside(m)
      PROVE  FenceInv'
  <2>1. CASE Suppress(m)
    BY <2>1, FenceQuiet DEF Suppress, FactsKept
  <2> QED BY <1>3, <2>1, StopFence DEF Outside
<1>4. ASSUME NEW m \in Msgs, NEW g \in 1..MaxGen, Publisher(m, g) \/ LoseTask(m, g)
      PROVE  FenceInv'
  <2>1. FactsKept /\ wk' = wk
    BY <1>4 DEF FactsKept, facts, Publisher, LeaseDelivery, Publish, PublishFails, LoseTask
  <2> QED BY <2>1, FenceQuiet
<1>5. ASSUME NEW w \in Workers, NEW m \in Msgs, NEW g \in 1..MaxGen, Load(w, m, g)
      PROVE  FenceInv'
  BY <1>5, LoadingFence
<1>6. ASSUME NEW w \in Workers, Before(w) \/ After(w) \/ Crash(w)
      PROVE  FenceInv'
  <2>1. CASE Concluding(w)
    BY <2>1, ConcludingFence
  <2> QED BY <1>6, <2>1, WorkingFence DEF After, Concluding
<1>7. CASE Pause \/ Resume \/ Disconnect \/ Reconnect
  <2>1. GatesFree /\ wk' = wk
    BY <1>7 DEF Pause, Resume, Disconnect, Reconnect
  <2> QED BY <2>1, FenceWaits
<1>8. CASE BlockPasses
  <2>1. FactsKept /\ wk' = wk
    BY <1>8 DEF BlockPasses, FactsKept, facts, PipelineInv, TypeOK
  <2> QED BY <2>1, FenceQuiet
<1> QED BY <1>1, <1>2, <1>3, <1>4, <1>5, <1>6, <1>7, <1>8 DEF Next

\* Only an authorization makes a worker authorized, and it starts behind the gates.
LEMMA OnlyAuthorizeAuthorizes ==
  ASSUME PipelineInv, [Next]_vars, NEW w \in Workers,
         wk'[w].pc = "authorized", wk[w].pc # "authorized"
  PROVE  wk[w].pc = "checked"
<1>0. TypeOK /\ wk' # wk
  BY DEF PipelineInv
<1>1. ASSUME NEW v \in Workers, GatesPassAgain(v) \/ Invoke(v)
      PROVE  FALSE
  <2>1. CASE GatesPassAgain(v)
    BY <1>0, <2>1 DEF GatesPassAgain, TypeOK, WorkerType
  <2>2. CASE Invoke(v)
    <3>1. wk[v].m \in Msgs
      BY <2>2, Busy DEF Invoke
    <3> QED BY <1>0, <2>2, <3>1, InvokeEffect
  <2> QED BY <1>1, <2>1, <2>2
<1>2. ASSUME NEW v \in Workers, Authorize(v)
      PROVE  v = w
  <2>1. wk[v].m \in Msgs
    BY <1>2, Busy DEF Authorize
  <2> QED BY <1>0, <1>2, <2>1, AuthorizeEffect
<1>3. \E v \in Workers : Authorize(v)
  BY <1>0, <1>1, OnlyWorkersWork, LoadWorker, ConcludingWorker, GivingUpWorker
  DEF Before, After, Concluding
<1> QED BY <1>2, <1>3 DEF Authorize

\* An attempt is authorized only while the campaign runs, the recipient is active
\* and the mailbox is usable with the credential that will be used: no pause, stop,
\* disconnection or cooldown slips between the gates and the commit.
THEOREM FenceHolds == Spec => AuthorizationFence
<1> DEFINE Fenced ==
      \A w \in Workers :
        (wk'[w].pc = "authorized" /\ wk[w].pc # "authorized") =>
          /\ campaign = "RUNNING" /\ enrollment[wk[w].m] = "ACTIVE"
          /\ mailbox.connected /\ ~mailbox.blocked /\ mailbox.gen = wk[w].cred
<1>1. Init => FenceInv
  BY DEF Init, FenceInv, Idle
<1>2. PipelineInv /\ FenceInv /\ [Next]_vars => FenceInv'
  BY FenceNext
<1>3. PipelineInv /\ FenceInv /\ [Next]_vars => [Fenced]_vars
  BY OnlyAuthorizeAuthorizes DEF FenceInv, Fence
<1>4. AuthorizationFence <=> [][Fenced]_vars
  BY DEF AuthorizationFence
<1> QED BY <1>1, <1>2, <1>3, <1>4, Invariance, PTL DEF Spec

-----------------------------------------------------------------------------
(* The retry budget *)

\* No credential a worker holds is newer than the mailbox's, nor as new once the
\* mailbox left CONNECTED.
Outdated(cred) == cred <= mailbox.gen /\ (mailbox.connected \/ cred < mailbox.gen)

CredInv == \A w \in Workers : wk[w].pc \in {"checked", "authorized", "answered"} => Outdated(wk[w].cred)

\* The trigger on mailboxes therefore refuses what an AUTH_FAILURE would write.
LEMMA AuthFailureRefused ==
  ASSUME TypeOK, CredInv, NEW w \in Workers, FinalizeAuthFailure(w)
  PROVE  Done(w) /\ UNCHANGED <<msg, att, mailbox>>
<1> DEFINE broken == [mailbox EXCEPT !.connected = FALSE, !.gen = wk[w].cred]
<1>1. /\ mailbox \in [connected : BOOLEAN, gen : Nat, blocked : BOOLEAN]
      /\ wk[w].cred \in Nat
  BY DEF TypeOK, WorkerType
<1>2. broken.gen = wk[w].cred /\ ~broken.connected
  BY <1>1
<1>3. Outdated(wk[w].cred)
  BY DEF CredInv, FinalizeAuthFailure
<1>4. ~MailboxGuard(broken)
  BY <1>1, <1>2, <1>3 DEF MailboxGuard, Outdated
<1> QED BY <1>4 DEF FinalizeAuthFailure

\* The mailbox only gets newer, and leaves CONNECTED with a new generation.
MailboxAges == \A cred \in Nat : Outdated(cred) => Outdated(cred)'

\* Which is what every step does to it.
LEMMA MailboxAging ==
  ASSUME PipelineInv, CredInv, [Next]_vars
  PROVE  MailboxAges
<1>0. TypeOK /\ mailbox \in [connected : BOOLEAN, gen : Nat, blocked : BOOLEAN]
  BY DEF PipelineInv, TypeOK
<1>1. CASE mailbox' = mailbox
  BY <1>1 DEF MailboxAges, Outdated
<1>2. CASE \E w \in Workers : FinalizeRejected(w)
  <2>1. mailbox'.connected = mailbox.connected /\ mailbox'.gen = mailbox.gen
    BY <1>0, <1>2 DEF FinalizeRejected
  <2> QED BY <2>1 DEF MailboxAges, Outdated
<1>3. CASE \E w \in Workers : FinalizeAuthFailure(w)
  BY <1>0, <1>1, <1>3, AuthFailureRefused
<1>4. CASE Disconnect \/ Reconnect \/ BlockPasses
  <2>1. \/ mailbox'.gen = mailbox.gen + 1
        \/ mailbox'.gen = mailbox.gen /\ mailbox'.connected = mailbox.connected
    BY <1>0, <1>4 DEF Disconnect, Reconnect, BlockPasses
  <2> QED BY <1>0, <2>1 DEF MailboxAges, Outdated
<1>5. \/ mailbox' = mailbox \/ Disconnect \/ Reconnect \/ BlockPasses
      \/ \E w \in Workers : FinalizeRejected(w) \/ FinalizeAuthFailure(w)
  BY ZenonT(60) DEF Next, vars, CountRoom, Scheduler, Clock, Outside, Publisher, LoseTask, Pause, Resume,
         Claim, RecoverExpiredClaim, FindStaleExecution, RecoverStaleExecution, Reconcile,
         ClaimLeaseExpires, DeadlinePasses, Reply, Unsubscribe, Suppress, LeaseDelivery, Publish,
         PublishFails, Load, LoadStops, LoadSkips, LoadHandsBack, LoadPasses, Before, ReserveDenied,
         DeniedHandsBack, GatesPassAgain, AuthorizationAborts, Authorize, After, NotInvoked, Invoke,
         FinalizeAccepted, FinalizeUnknown, ResultIsLost, Acknowledge, Crash
<1> QED BY <1>1, <1>2, <1>3, <1>4, <1>5

\* A worker keeps the credential it was authorized with.
LEMMA CredKept ==
  ASSUME PipelineInv, [Next]_vars, NEW w \in Workers,
         wk'[w].pc \in {"checked", "authorized", "answered"}
  PROVE  \/ wk[w].pc \in {"checked", "authorized", "answered"} /\ wk'[w].cred = wk[w].cred
         \/ GatesPassAgain(w)
<1>0. TypeOK
  BY DEF PipelineInv
<1>1. ASSUME NEW v \in Workers, GatesPassAgain(v)
      PROVE  v = w \/ wk'[w] = wk[w]
  BY <1>0, <1>1 DEF GatesPassAgain, TypeOK
<1>2. ASSUME NEW v \in Workers, Authorize(v)
      PROVE  wk[w].pc \in {"checked", "authorized", "answered"} /\ wk'[w].cred = wk[w].cred
  <2>1. wk[v].m \in Msgs /\ wk[v].pc = "checked"
    BY <1>2, Busy DEF Authorize
  <2> QED BY <1>0, <1>2, <2>1, AuthorizeEffect
<1>3. ASSUME NEW v \in Workers, Invoke(v)
      PROVE  wk[w].pc \in {"checked", "authorized", "answered"} /\ wk'[w].cred = wk[w].cred
  <2>1. wk[v].m \in Msgs /\ wk[v].pc = "authorized"
    BY <1>3, Busy DEF Invoke
  <2> QED BY <1>0, <1>3, <2>1, InvokeEffect
<1>4. \/ wk'[w] = wk[w]
      \/ \E v \in Workers : GatesPassAgain(v) \/ Authorize(v) \/ Invoke(v)
  BY OnlyWorkersWork, LoadWorker, ConcludingWorker, GivingUpWorker DEF Before, After, Concluding
<1> QED BY <1>1, <1>2, <1>3, <1>4

\* So credentials stay outdated enough.
LEMMA CredNext == PipelineInv /\ CredInv /\ [Next]_vars => CredInv'
<1> SUFFICES ASSUME PipelineInv, CredInv, [Next]_vars, NEW w \in Workers,
                    wk'[w].pc \in {"checked", "authorized", "answered"}
             PROVE  Outdated(wk[w].cred)'
  BY DEF CredInv
<1>0. /\ TypeOK /\ wk[w].cred \in Nat /\ msg \in [Msgs -> MsgType]
      /\ mailbox \in [connected : BOOLEAN, gen : Nat, blocked : BOOLEAN]
      /\ wk[w].pc # "idle" => wk[w].m \in Msgs
  BY DEF PipelineInv, TypeOK, WorkerType, OwnersInv
<1>1. CASE wk[w].pc \in {"checked", "authorized", "answered"} /\ wk'[w].cred = wk[w].cred
  BY <1>0, <1>1, MailboxAging DEF CredInv, MailboxAges, Outdated
<1>2. CASE GatesPassAgain(w)
  <2>1. wk'[w].cred = mailbox.gen /\ wk[w].m \in Msgs /\ mailbox' = mailbox
    BY <1>0, <1>2, GoesOnWorker DEF GatesPassAgain
  <2>2. mailbox.connected
    BY <1>0, <1>2, <2>1, GatePasses DEF GatesPassAgain
  <2> QED BY <1>0, <2>1, <2>2 DEF Outdated
<1> QED BY <1>1, <1>2, CredKept

\* The attempts the provider definitely rejected.
Rejected(m) == {n \in DOMAIN att[m] : att[m][n].evidence = "REJECTED"}

\* Each rejection but the one that made a message FAILED was paid for.
BudgetInv ==
  \A m \in Msgs :
    /\ msg[m].retries <= RetryBudget
    /\ Cardinality(Rejected(m)) <= msg[m].retries + 1
    /\ msg[m].status # "FAILED" => Cardinality(Rejected(m)) <= msg[m].retries

\* The rejected attempts are finitely many.
LEMMA RejectedCount ==
  ASSUME TypeOK, NEW m \in Msgs
  PROVE  IsFiniteSet(Rejected(m)) /\ Cardinality(Rejected(m)) \in Nat
<1>1. DOMAIN att[m] = 1..Len(att[m]) /\ Len(att[m]) \in Nat
  BY DEF TypeOK
<1>2. IsFiniteSet(DOMAIN att[m])
  BY <1>1, FS_Interval
<1> QED BY <1>2, FS_Subset, FS_CardinalityType DEF Rejected

\* A step that rejects nothing, spends nothing and revives nothing.
Unspent ==
  \A m \in Msgs :
    /\ Rejected(m)' = Rejected(m) /\ msg'[m].retries = msg[m].retries
    /\ msg[m].status = "FAILED" => msg'[m].status = "FAILED"

\* A step that makes no message one that may be sent again.
NoneRevived ==
  \A m \in Msgs : msg'[m].status \in Cancellable => msg[m].status \in Cancellable

\* Such a step keeps the balance.
LEMMA UnspentStep == ASSUME BudgetInv, Unspent PROVE BudgetInv'
BY DEF BudgetInv, Unspent

\* Attempts that keep their evidence stay rejected or not.
LEMMA SameRejected ==
  ASSUME SameAttempts
  PROVE  \A m \in Msgs : Rejected(m)' = Rejected(m)
BY DEF SameAttempts, Rejected

\* The scheduler, the clock and stop events.
LEMMA SchedulerUnspent ==
  ASSUME PipelineInv, NEW m \in Msgs, Scheduler(m) \/ Clock(m) \/ Outside(m)
  PROVE  Unspent /\ NoneRevived
<1>0. TypeOK /\ msg \in [Msgs -> MsgType] /\ msg[m] \in MsgType /\ att \in [Msgs -> Seq(AttemptType)]
  BY DEF PipelineInv, TypeOK
<1>1. CASE Claim(m) \/ RecoverExpiredClaim(m) \/ FindStaleExecution(m) \/ ClaimLeaseExpires(m)
  <2>1. att' = att
    BY <1>1 DEF Claim, RecoverExpiredClaim, FindStaleExecution, ClaimLeaseExpires
  <2>2. \A o \in Msgs : o # m => msg'[o] = msg[o]
    BY <1>0, <1>1 DEF Claim, RecoverExpiredClaim, FindStaleExecution, ClaimLeaseExpires
  <2>3. /\ msg'[m].retries = msg[m].retries
        /\ msg[m].status = "FAILED" => msg'[m].status = "FAILED"
        /\ msg'[m].status \in Cancellable => msg[m].status \in Cancellable
    <3>1. CASE Claim(m)
      BY <1>0, <3>1 DEF Claim, MsgType, Cancellable, Sendable
    <3>2. CASE RecoverExpiredClaim(m)
      BY <1>0, <3>2 DEF RecoverExpiredClaim, StuckClaim, MsgType, Cancellable
    <3>3. CASE FindStaleExecution(m)
      BY <3>3 DEF FindStaleExecution
    <3>4. CASE ClaimLeaseExpires(m)
      BY <1>0, <3>4 DEF ClaimLeaseExpires, MsgType
    <3> QED BY <1>1, <3>1, <3>2, <3>3, <3>4
  <2> QED BY <2>1, <2>2, <2>3 DEF Unspent, NoneRevived, Rejected
<1>2. CASE DeadlinePasses(m)
  <2>1. PICK n \in Unresolved(m) : att' = [att EXCEPT ![m][n].expired = TRUE]
    BY <1>2 DEF DeadlinePasses
  <2>2. n \in DOMAIN att[m] /\ att[m][n] \in AttemptType
    BY <1>0 DEF Unresolved
  <2>3. SameAttempts
    BY <1>0, <2>1, <2>2 DEF SameAttempts, AttemptType
  <2> QED BY <1>2, <2>3, SameRejected DEF Unspent, NoneRevived, DeadlinePasses
<1>3. CASE RecoverStaleExecution(m)
  <2>1. PICK n \in DOMAIN att[m] :
          UNCHANGED <<msg, att>> \/ (att[m][n].evidence = "PREPARED" /\ Abandon(m, n))
    BY <1>3 DEF RecoverStaleExecution, StillPrepared
  <2>2. CASE UNCHANGED <<msg, att>>
    BY <2>2 DEF Unspent, NoneRevived, Rejected
  <2>3. CASE att[m][n].evidence = "PREPARED" /\ Abandon(m, n)
    <3>1. /\ \A o \in Msgs : DOMAIN att'[o] = DOMAIN att[o]
          /\ \A o \in Msgs : \A i \in DOMAIN att[o] :
               att'[o][i].evidence = IF o = m /\ i = n THEN "UNKNOWN" ELSE att[o][i].evidence
      <4>1. "UNKNOWN" \in Evidence
        BY DEF Evidence
      <4> QED BY <1>0, <2>3, <4>1, EvidenceUpdate DEF Abandon
    <3>2. \A o \in Msgs : Rejected(o)' = Rejected(o)
      BY <2>3, <3>1 DEF Rejected
    <3>3. \A o \in Msgs : /\ msg'[o].retries = msg[o].retries
                          /\ msg[o].status = "FAILED" => msg'[o].status = "FAILED"
                          /\ msg'[o].status \in Cancellable => msg[o].status \in Cancellable
      BY <1>0, <2>3 DEF Abandon, MsgType, Cancellable, Sendable
    <3> QED BY <3>2, <3>3 DEF Unspent, NoneRevived
  <2> QED BY <2>1, <2>2, <2>3
<1>4. CASE Reconcile(m)
  <2>1. \A o \in Msgs : /\ msg'[o].retries = msg[o].retries
                        /\ msg[o].status = "FAILED" => msg'[o].status = "FAILED"
                        /\ msg'[o].status \in Cancellable => msg[o].status \in Cancellable
    BY <1>0, <1>4 DEF Reconcile, MsgType, Cancellable, Sendable
  <2>2. /\ \A o \in Msgs : DOMAIN att'[o] = DOMAIN att[o]
        /\ \A o \in Msgs : \A i \in DOMAIN att[o] : att'[o][i].evidence =
             IF o = m /\ att[o][i].evidence = "UNKNOWN" THEN "ACCEPTED" ELSE att[o][i].evidence
    BY <1>0, <1>4 DEF Reconcile
  <2>3. \A o \in Msgs : Rejected(o)' = Rejected(o)
    BY <2>2 DEF Rejected
  <2> QED BY <2>1, <2>3 DEF Unspent, NoneRevived
<1>5. CASE Outside(m)
  <2>1. att' = att
    BY <1>5 DEF Outside, Reply, Unsubscribe, Suppress
  <2>2. \A o \in Msgs : /\ msg'[o].retries = msg[o].retries
                        /\ msg[o].status = "FAILED" => msg'[o].status = "FAILED"
                        /\ msg'[o].status \in Cancellable => msg[o].status \in Cancellable
    <3>1. CASE msg' = msg
      BY <3>1
    <3>2. ASSUME NEW status \in {"CANCELLED", "SKIPPED"},
                 msg' = [msg EXCEPT ![m].status = IF @ \in Cancellable THEN status ELSE @]
          PROVE  \A o \in Msgs : /\ msg'[o].retries = msg[o].retries
                                 /\ msg[o].status = "FAILED" => msg'[o].status = "FAILED"
                                 /\ msg'[o].status \in Cancellable => msg[o].status \in Cancellable
      BY <1>0, <3>2 DEF MsgType, Cancellable, Sendable
    <3> QED BY <1>5, <3>1, <3>2 DEF Outside, Reply, Unsubscribe, StopRecipient, Suppress
  <2> QED BY <2>1, <2>2 DEF Unspent, NoneRevived, Rejected
<1> QED BY <1>1, <1>2, <1>3, <1>4, <1>5 DEF Scheduler, Clock

\* The work on a task up to its conclusion.
LEMMA WorkUnspent ==
  ASSUME PipelineInv, NEW w \in Workers,
         \/ Before(w) \/ Acknowledge(w) \/ Crash(w) \/ Invoke(w)
         \/ \E m \in Msgs, g \in 1..MaxGen : Load(w, m, g)
  PROVE  Unspent /\ NoneRevived
<1>0. /\ TypeOK /\ ClaimsInv /\ msg \in [Msgs -> MsgType] /\ wk[w] \in WorkerType
      /\ wk[w].pc # "idle" => wk[w].m \in Msgs
  BY DEF PipelineInv, TypeOK, OwnersInv
<1>1. ASSUME NEW m \in Msgs, NEW g \in Nat, HandBack(m, g), att' = att
      PROVE  Unspent /\ NoneRevived
  <2>1. \A o \in Msgs : /\ msg'[o].retries = msg[o].retries
                        /\ msg[o].status = "FAILED" => msg'[o].status = "FAILED"
                        /\ msg'[o].status \in Cancellable => msg[o].status \in Cancellable
    BY <1>0, <1>1, HandBackEffect DEF Cancellable
  <2> QED BY <1>1, <2>1 DEF Unspent, NoneRevived, Rejected
<1>2. CASE UNCHANGED <<msg, att>>
  BY <1>2 DEF Unspent, NoneRevived, Rejected
<1>3. CASE Authorize(w)
  <2>1. wk[w].m \in Msgs /\ msg[wk[w].m].status \in Eligible
    BY <1>3 DEF Authorize, PipelineInv, GatesInv, HoldsGates
  <2>2. PICK m \in Msgs : m = wk[w].m
    BY <2>1
  <2>3. /\ msg'[m].status = "SENDING" /\ msg'[m].retries = msg[m].retries
        /\ \A o \in Msgs : o # m => msg'[o] = msg[o] /\ att'[o] = att[o]
        /\ DOMAIN att'[m] = DOMAIN att[m] \union {Len(att[m]) + 1}
        /\ \A i \in DOMAIN att[m] : att'[m][i] = att[m][i]
        /\ att'[m][Len(att[m]) + 1].evidence = "PREPARED"
    BY <1>0, <1>3, <2>1, <2>2, AuthorizeEffect
  <2>4. \A o \in Msgs : Rejected(o)' = Rejected(o)
    BY <2>3 DEF Rejected
  <2> QED BY <2>1, <2>2, <2>3, <2>4 DEF Unspent, NoneRevived, Eligible, Cancellable, Sendable
<1>4. CASE DeniedHandsBack(w)
  BY <1>0, <1>1, <1>4 DEF DeniedHandsBack, WorkerType
<1>5. ASSUME NEW m \in Msgs, NEW g \in 1..MaxGen, Load(w, m, g)
      PROVE  Unspent /\ NoneRevived
  <2>0. g \in Nat
    BY PipelineAssumption DEF PipelineAssumption
  <2>1. CASE LoadHandsBack(w, m, g)
    BY <1>1, <2>0, <2>1 DEF LoadHandsBack
  <2>2. CASE LoadSkips(w, m, g)
    <3>1. msg[m].status # "FAILED"
      BY <1>0, <2>2, GateSkips DEF LoadSkips, Sendable, Eligible
    <3>2. \A o \in Msgs : /\ msg'[o].retries = msg[o].retries
                          /\ msg[o].status = "FAILED" => msg'[o].status = "FAILED"
                          /\ msg'[o].status \in Cancellable => msg[o].status \in Cancellable
      BY <1>0, <2>2, <3>1 DEF LoadSkips, MsgType, Cancellable, Sendable
    <3> QED BY <2>2, <3>2 DEF Unspent, NoneRevived, Rejected, LoadSkips
  <2>3. CASE LoadStops(w, m, g) \/ LoadPasses(w, m, g)
    BY <1>2, <2>3 DEF LoadStops, LoadPasses
  <2> QED BY <1>5, <2>1, <2>2, <2>3 DEF Load
<1>6. CASE \/ ReserveDenied(w) \/ GatesPassAgain(w) \/ AuthorizationAborts(w)
           \/ Acknowledge(w) \/ Crash(w) \/ Invoke(w)
  BY <1>2, <1>6 DEF ReserveDenied, GatesPassAgain, AuthorizationAborts, Acknowledge, Crash, Invoke
<1> QED BY <1>3, <1>4, <1>5, <1>6 DEF Before

\* A conclusion that rejects nothing costs nothing.
LEMMA ConclusionUnspent ==
  ASSUME PipelineInv, NEW w \in Workers, wk[w].m \in Msgs,
         NEW evidence \in Evidence \ {"REJECTED"}, NEW status \in Statuses, NEW rfc \in BOOLEAN,
         Finalize(w, evidence, status, msg[wk[w].m].retries, rfc)
  PROVE  Unspent
<1>0. TypeOK
  BY DEF PipelineInv
<1>1. PICK m \in Msgs : m = wk[w].m
  OBVIOUS
<1>2. msg[m].retries \in Nat
  BY <1>0 DEF TypeOK, MsgType
<1>3. /\ MayFinalize(m, wk[w].n, status)
      /\ msg'[m].status = status /\ msg'[m].retries = msg[m].retries
      /\ \A o \in Msgs : o # m => msg'[o] = msg[o]
      /\ \A o \in Msgs : DOMAIN att'[o] = DOMAIN att[o]
      /\ \A o \in Msgs : \A i \in DOMAIN att[o] :
           att'[o][i].evidence = IF o = m /\ i = wk[w].n THEN evidence ELSE att[o][i].evidence
  BY <1>0, <1>1, <1>2, FinalizeEffect
<1>4. \A o \in Msgs : Rejected(o)' = Rejected(o)
  BY <1>3 DEF Rejected, MayFinalize, Unresolved
<1>5. msg[m].status = "FAILED" => msg'[m].status = "FAILED"
  BY <1>3 DEF MayFinalize, Terminal
<1> QED BY <1>3, <1>4, <1>5 DEF Unspent

\* A rejection is paid for, or it is the last.
LEMMA RejectionSpends ==
  ASSUME PipelineInv, BudgetInv, NEW w \in Workers, wk[w].m \in Msgs, FinalizeRejected(w)
  PROVE  BudgetInv'
<1>0. TypeOK /\ msg \in [Msgs -> MsgType]
  BY DEF PipelineInv, TypeOK
<1>1. PICK m \in Msgs : m = wk[w].m
  OBVIOUS
<1>2. msg[m].retries \in Nat /\ RetryBudget \in Nat
  BY <1>0, PipelineAssumption DEF MsgType, PipelineAssumption
<1>3. PICK evidence \in Evidence, status \in Statuses, retries \in Nat, rfc \in BOOLEAN :
        /\ Finalize(w, evidence, status, retries, rfc)
        /\ evidence = "REJECTED"
        /\ \/ retries = msg[m].retries + 1 /\ msg[m].retries < RetryBudget
           \/ retries = msg[m].retries /\ status = "FAILED"
  <2>1. \/ /\ Finalize(w, "REJECTED", "RETRY_SCHEDULED", msg[m].retries + 1, FALSE)
           /\ msg[m].retries < RetryBudget
        \/ Finalize(w, "REJECTED", "FAILED", msg[m].retries, FALSE)
    BY <1>1 DEF FinalizeRejected, MayRetry
  <2>2. /\ msg[m].retries + 1 \in Nat /\ "REJECTED" \in Evidence /\ FALSE \in BOOLEAN
        /\ {"RETRY_SCHEDULED", "FAILED"} \subseteq Statuses
    BY <1>2 DEF Evidence, Statuses, Sendable, Resolved, Terminal
  <2> QED BY <1>2, <2>1, <2>2
<1>4. /\ MayFinalize(m, wk[w].n, status)
      /\ msg'[m].status = status /\ msg'[m].retries = retries
      /\ \A o \in Msgs : o # m => msg'[o] = msg[o]
      /\ \A o \in Msgs : DOMAIN att'[o] = DOMAIN att[o]
      /\ \A o \in Msgs : \A i \in DOMAIN att[o] :
           att'[o][i].evidence = IF o = m /\ i = wk[w].n THEN evidence ELSE att[o][i].evidence
  BY <1>0, <1>1, <1>3, FinalizeEffect
<1>5. /\ wk[w].n \in Unresolved(m) /\ wk[w].n \in DOMAIN att[m]
      /\ wk[w].n \notin Rejected(m)
  BY <1>4 DEF MayFinalize, Unresolved, Rejected
<1>6. /\ Rejected(m)' = Rejected(m) \union {wk[w].n}
      /\ \A o \in Msgs : o # m => Rejected(o)' = Rejected(o)
  BY <1>3, <1>4, <1>5 DEF Rejected
<1>7. Cardinality(Rejected(m)') = Cardinality(Rejected(m)) + 1 /\ Cardinality(Rejected(m)) \in Nat
  BY <1>0, <1>5, <1>6, RejectedCount, FS_AddElement
<1>8. msg[m].status # "FAILED"
  BY <1>5 DEF PipelineInv, StatusMatchesEvidence
<1>9. ASSUME NEW o \in Msgs
       PROVE  (/\ msg[o].retries <= RetryBudget
               /\ Cardinality(Rejected(o)) <= msg[o].retries + 1
               /\ msg[o].status # "FAILED" => Cardinality(Rejected(o)) <= msg[o].retries)'
  <2>1. CASE o = m
    <3>1. Cardinality(Rejected(m)) <= msg[m].retries /\ msg[m].retries <= RetryBudget
      BY <1>8 DEF BudgetInv
    <3> QED BY <1>2, <1>3, <1>4, <1>7, <2>1, <3>1
  <2>2. CASE o # m
    BY <1>4, <1>6, <2>2 DEF BudgetInv
  <2> QED BY <2>1, <2>2
<1> QED BY <1>9 DEF BudgetInv

\* Only a rejection moves the balance of rejections and retries, and it pays.
LEMMA BudgetNext == PipelineInv /\ CredInv /\ BudgetInv /\ [Next]_vars => BudgetInv'
<1> SUFFICES ASSUME PipelineInv, CredInv, BudgetInv, [Next]_vars PROVE BudgetInv'
  OBVIOUS
<1>0. TypeOK
  BY DEF PipelineInv
<1>1. ASSUME NEW m \in Msgs, Scheduler(m) \/ Clock(m) \/ Outside(m)
      PROVE  BudgetInv'
  BY <1>1, SchedulerUnspent, UnspentStep
<1>2. CASE UNCHANGED <<msg, att>>
  <2>1. Unspent
    BY <1>2 DEF Unspent, Rejected
  <2> QED BY <2>1, UnspentStep
<1>3. ASSUME NEW w \in Workers,
             \/ Before(w) \/ Acknowledge(w) \/ Crash(w) \/ Invoke(w)
             \/ \E m \in Msgs, g \in 1..MaxGen : Load(w, m, g)
      PROVE  BudgetInv'
  BY <1>3, WorkUnspent, UnspentStep
<1>4. ASSUME NEW w \in Workers, Concluding(w)
      PROVE  BudgetInv'
  <2>0. /\ wk[w].m \in Msgs
        /\ {"NOT_INVOKED", "ACCEPTED", "UNKNOWN"} \subseteq Evidence \ {"REJECTED"}
        /\ {"SENT", "UNKNOWN_OUTCOME", "FAILED", "RETRY_SCHEDULED"} \subseteq Statuses
    BY <1>4, ConcludingWorker DEF Evidence, Statuses, Sendable, Resolved, Terminal
  <2>1. CASE NotInvoked(w) \/ FinalizeAccepted(w) \/ FinalizeUnknown(w)
    <3>1. \E evidence \in Evidence \ {"REJECTED"}, status \in Statuses, rfc \in BOOLEAN :
            Finalize(w, evidence, status, msg[wk[w].m].retries, rfc)
      BY <2>0, <2>1 DEF NotInvoked, FinalizeAccepted, FinalizeUnknown
    <3> QED BY <2>0, <3>1, ConclusionUnspent, UnspentStep
  <2>2. CASE FinalizeRejected(w)
    BY <2>0, <2>2, RejectionSpends
  <2>3. CASE FinalizeAuthFailure(w) \/ ResultIsLost(w)
    BY <1>0, <1>2, <2>3, AuthFailureRefused DEF ResultIsLost
  <2> QED BY <1>4, <2>1, <2>2, <2>3 DEF Concluding
<1>5. CASE \/ CountRoom \/ Pause \/ Resume \/ Disconnect \/ Reconnect \/ BlockPasses
           \/ UNCHANGED vars
           \/ \E m \in Msgs, g \in 1..MaxGen : Publisher(m, g) \/ LoseTask(m, g)
  BY <1>2, <1>5 DEF CountRoom, Pause, Resume, Disconnect, Reconnect, BlockPasses, vars, Publisher,
                    LeaseDelivery, Publish, PublishFails, LoseTask
<1> QED BY <1>1, <1>3, <1>4, <1>5 DEF Next, After, Concluding

\* Initially no credential is out and nothing was rejected.
LEMMA BalancesInit == Init => CredInv /\ BudgetInv
<1> SUFFICES ASSUME Init PROVE CredInv /\ BudgetInv
  OBVIOUS
<1>1. CredInv
  BY DEF Init, CredInv, Idle
<1>2. \A m \in Msgs : Rejected(m) = {} /\ msg[m].retries = 0
  BY DEF Init, Rejected
<1> QED BY <1>1, <1>2, FS_EmptySet, PipelineAssumption DEF BudgetInv, PipelineAssumption

\* However rejections, lost results, crashes and expired claims are mixed, a message
\* is definitively rejected at most once more than its retry budget.  An
\* authorization failure, whose retry costs nothing, adds none: what it writes is
\* refused by the mailbox's own trigger.
THEOREM BudgetIsRespected == Spec => []RejectionsWithinBudget
<1>1. Init => CredInv /\ BudgetInv
  BY BalancesInit
<1>2. PipelineInv /\ CredInv /\ BudgetInv /\ [Next]_vars => CredInv' /\ BudgetInv'
  BY CredNext, BudgetNext
<1>3. PipelineInv /\ BudgetInv => RejectionsWithinBudget
  <2> SUFFICES ASSUME PipelineInv, BudgetInv, NEW m \in Msgs
               PROVE  Cardinality(Rejected(m)) <= RetryBudget + 1
    BY DEF RejectionsWithinBudget, Rejected
  <2>1. TypeOK /\ msg[m].retries \in Nat /\ RetryBudget \in Nat
    BY PipelineAssumption DEF PipelineInv, TypeOK, MsgType, PipelineAssumption
  <2> QED BY <2>1, RejectedCount DEF BudgetInv
<1> QED BY <1>1, <1>2, <1>3, Invariance, PTL DEF Spec

-----------------------------------------------------------------------------
(* The copies the provider took *)

\* Each copy but the last was paid for with a retry, and a message that may still
\* be sent, or whose attempt has not been made, has no last one.
CopiesInv ==
  /\ \A m \in Msgs :
       /\ Copies(m) <= msg[m].retries + 1
       /\ msg[m].status \in Cancellable => Copies(m) <= msg[m].retries
       /\ ~OverHttp => copies[m].denied = 0
  /\ \A w \in Workers : wk[w].pc = "authorized" => Copies(wk[w].m) <= msg[wk[w].m].retries

\* The numbers are numbers.
LEMMA CopiesCount ==
  ASSUME TypeOK, NEW m \in Msgs
  PROVE  /\ copies[m].taken \in Nat /\ copies[m].denied \in Nat
         /\ Copies(m) \in Nat /\ msg[m].retries \in Nat
BY DEF TypeOK, MsgType, Copies

\* A step that takes no copy, makes no message one that may be sent again, spends
\* no retry and authorizes nobody.
CopiesKept ==
  /\ copies' = copies /\ NoneRevived
  /\ \A m \in Msgs : msg'[m].retries = msg[m].retries
  /\ \A w \in Workers : wk'[w].pc = "authorized" => wk'[w] = wk[w]

\* Such a step keeps the balance of copies and retries.
LEMMA CopiesQuiet == ASSUME PipelineInv, CopiesInv, CopiesKept PROVE CopiesInv'
<1>1. \A m \in Msgs : Copies(m)' = Copies(m)
  BY DEF CopiesKept, Copies
<1>2. \A w \in Workers : wk'[w].pc = "authorized" => wk[w].m \in Msgs
  BY DEF CopiesKept, PipelineInv, OwnersInv
<1>3. \A w \in Workers : wk'[w].pc = "authorized" => Copies(wk[w].m)' = Copies(wk[w].m)
  BY <1>2 DEF CopiesKept, Copies
<1>4. \A m \in Msgs : /\ Copies(m)' <= msg'[m].retries + 1
                      /\ msg'[m].status \in Cancellable => Copies(m)' <= msg'[m].retries
                      /\ ~OverHttp => copies'[m].denied = 0
  BY <1>1 DEF CopiesInv, CopiesKept, NoneRevived
<1>5. \A w \in Workers : wk'[w].pc = "authorized" =>
        (Copies(wk[w].m) <= msg[wk[w].m].retries)'
  BY <1>2, <1>3 DEF CopiesInv, CopiesKept, Copies
<1> QED BY <1>4, <1>5 DEF CopiesInv

\* A conclusion keeps it too, if the message may be sent again only at the price of
\* a retry or when the attempt left no copy.
LEMMA ConclusionCopies ==
  ASSUME PipelineInv, CopiesInv, NEW w \in Workers, wk[w].m \in Msgs,
         NEW evidence \in Evidence, NEW status \in Statuses, NEW retries \in Nat,
         NEW rfc \in BOOLEAN, Finalize(w, evidence, status, retries, rfc),
         copies' = copies, msg[wk[w].m].retries <= retries,
         status \in Cancellable => Copies(wk[w].m) <= retries
  PROVE  CopiesInv'
<1>0. TypeOK
  BY DEF PipelineInv
<1>1. PICK m \in Msgs : m = wk[w].m
  OBVIOUS
<1>2. /\ msg'[m].status = status /\ msg'[m].retries = retries
      /\ \A o \in Msgs : o # m => msg'[o] = msg[o]
      /\ wk'[w].pc = "finished" /\ \A v \in Workers : v # w => wk'[v] = wk[v]
  BY <1>0, <1>1, FinalizeEffect
<1>3. \A o \in Msgs : Copies(o)' = Copies(o)
  BY DEF Copies
<1>4. Copies(m) \in Nat /\ msg[m].retries \in Nat /\ Copies(m) <= msg[m].retries + 1
  BY <1>0, CopiesCount DEF CopiesInv
<1>5. ASSUME NEW o \in Msgs
      PROVE  (/\ Copies(o) <= msg[o].retries + 1
              /\ msg[o].status \in Cancellable => Copies(o) <= msg[o].retries
              /\ ~OverHttp => copies[o].denied = 0)'
  <2>1. CASE o = m
    BY <1>1, <1>2, <1>3, <1>4, <2>1 DEF CopiesInv
  <2>2. CASE o # m
    BY <1>2, <1>3, <2>2 DEF CopiesInv
  <2> QED BY <2>1, <2>2
<1>6. ASSUME NEW v \in Workers, wk'[v].pc = "authorized"
      PROVE  (Copies(wk[v].m) <= msg[wk[v].m].retries)'
  <2>1. wk'[v] = wk[v] /\ wk[v].pc = "authorized" /\ wk[v].m \in Msgs
    BY <1>2, <1>6 DEF PipelineInv, OwnersInv
  <2>2. PICK o \in Msgs : o = wk[v].m
    BY <2>1
  <2>3. Copies(o) \in Nat /\ msg[o].retries \in Nat /\ Copies(o) <= msg[o].retries
    BY <1>0, <2>1, <2>2, CopiesCount DEF CopiesInv
  <2>4. Copies(o)' <= msg'[o].retries
    BY <1>1, <1>2, <1>3, <1>4, <2>3
  <2> QED BY <2>1, <2>2, <2>4
<1> QED BY <1>5, <1>6 DEF CopiesInv

\* What a worker concludes.
LEMMA ConcludingCopies ==
  ASSUME PipelineInv, CredInv, CopiesInv, NEW w \in Workers, Concluding(w)
  PROVE  CopiesInv'
<1>0. TypeOK /\ wk[w].m \in Msgs
  BY ConcludingWorker DEF PipelineInv
<1>c. copies' = copies
  BY <1>0, ConclusionEffect
<1>1. PICK m \in Msgs : m = wk[w].m
  BY <1>0
<1>2. /\ msg[m].retries \in Nat /\ Copies(m) \in Nat /\ Copies(m) <= msg[m].retries + 1
      /\ {"NOT_INVOKED", "ACCEPTED", "UNKNOWN", "REJECTED"} \subseteq Evidence
      /\ {"SENT", "UNKNOWN_OUTCOME", "FAILED", "RETRY_SCHEDULED"} \subseteq Statuses
      /\ "SENT" \notin Cancellable /\ "UNKNOWN_OUTCOME" \notin Cancellable
      /\ "FAILED" \notin Cancellable
  BY <1>0, CopiesCount
  DEF CopiesInv, Evidence, Statuses, Cancellable, Sendable, Resolved, Terminal
<1>3. CASE NotInvoked(w)
  <2>1. Copies(m) <= msg[m].retries
    BY <1>1, <1>3 DEF NotInvoked, CopiesInv
  <2>2. \E status \in {"FAILED", "RETRY_SCHEDULED"} :
          Finalize(w, "NOT_INVOKED", status, msg[m].retries, FALSE)
    BY <1>1, <1>3 DEF NotInvoked
  <2>3. PICK status \in {"FAILED", "RETRY_SCHEDULED"} :
          Finalize(w, "NOT_INVOKED", status, msg[m].retries, FALSE)
    BY <2>2
  <2>4. /\ status \in Statuses /\ "NOT_INVOKED" \in Evidence
        /\ msg[wk[w].m].retries <= msg[m].retries /\ Copies(wk[w].m) <= msg[m].retries
    BY <1>1, <1>2, <2>1
  <2> QED BY <1>0, <1>c, <1>2, <2>3, <2>4, ConclusionCopies
<1>4. CASE FinalizeAccepted(w) \/ FinalizeUnknown(w)
  <2>1. \/ Finalize(w, "ACCEPTED", "SENT", msg[m].retries, TRUE)
        \/ Finalize(w, "UNKNOWN", "UNKNOWN_OUTCOME", msg[m].retries, TRUE)
    BY <1>1, <1>4 DEF FinalizeAccepted, FinalizeUnknown
  <2>2. msg[wk[w].m].retries <= msg[m].retries
    BY <1>1, <1>2
  <2>3. CASE Finalize(w, "ACCEPTED", "SENT", msg[m].retries, TRUE)
    BY <1>0, <1>c, <1>2, <2>2, <2>3, ConclusionCopies
  <2>4. CASE Finalize(w, "UNKNOWN", "UNKNOWN_OUTCOME", msg[m].retries, TRUE)
    BY <1>0, <1>c, <1>2, <2>2, <2>4, ConclusionCopies
  <2> QED BY <2>1, <2>3, <2>4
<1>5. CASE FinalizeRejected(w)
  <2>1. \/ Finalize(w, "REJECTED", "RETRY_SCHEDULED", msg[m].retries + 1, FALSE)
        \/ Finalize(w, "REJECTED", "FAILED", msg[m].retries, FALSE)
    BY <1>1, <1>5 DEF FinalizeRejected
  <2>2. /\ msg[m].retries + 1 \in Nat /\ msg[wk[w].m].retries <= msg[m].retries + 1
        /\ msg[wk[w].m].retries <= msg[m].retries /\ Copies(wk[w].m) <= msg[m].retries + 1
    BY <1>1, <1>2
  <2>3. CASE Finalize(w, "REJECTED", "RETRY_SCHEDULED", msg[m].retries + 1, FALSE)
    BY <1>0, <1>c, <1>2, <2>2, <2>3, ConclusionCopies
  <2>4. CASE Finalize(w, "REJECTED", "FAILED", msg[m].retries, FALSE)
    BY <1>0, <1>c, <1>2, <2>2, <2>4, ConclusionCopies
  <2> QED BY <2>1, <2>3, <2>4
<1>6. CASE FinalizeAuthFailure(w) \/ ResultIsLost(w)
  <2>1. UNCHANGED msg
    BY <1>0, <1>6, AuthFailureRefused DEF ResultIsLost
  <2>2. CopiesKept
    BY <1>6, <1>c, <2>1, ConcludingWorker DEF CopiesKept, NoneRevived
  <2> QED BY <2>2, CopiesQuiet
<1> QED BY <1>3, <1>4, <1>5, <1>6 DEF Concluding

\* An authorization is for a message that may still be sent.
LEMMA AuthorizeCopies ==
  ASSUME PipelineInv, CopiesInv, NEW w \in Workers, Authorize(w)
  PROVE  CopiesInv'
<1>0. /\ TypeOK /\ copies' = copies
      /\ wk[w].m \in Msgs /\ msg[wk[w].m].status \in Eligible /\ Unresolved(wk[w].m) = {}
  BY DEF Authorize, PipelineInv, GatesInv, HoldsGates
<1>1. PICK m \in Msgs : m = wk[w].m
  BY <1>0
<1>2. /\ msg'[m].status = "SENDING" /\ msg'[m].retries = msg[m].retries
      /\ \A o \in Msgs : o # m => msg'[o] = msg[o]
      /\ wk'[w].m = m /\ \A v \in Workers : v # w => wk'[v] = wk[v]
  BY <1>0, <1>1, AuthorizeEffect
<1>3. Copies(m) <= msg[m].retries
  BY <1>0, <1>1, NothingAccepted DEF CopiesInv, Cancellable
<1>4. \A o \in Msgs : Copies(o)' = Copies(o)
  BY <1>0 DEF Copies
<1>5. ASSUME NEW o \in Msgs
      PROVE  (/\ Copies(o) <= msg[o].retries + 1
              /\ msg[o].status \in Cancellable => Copies(o) <= msg[o].retries
              /\ ~OverHttp => copies[o].denied = 0)'
  <2>1. CASE o = m
    BY <1>0, <1>2, <1>3, <1>4, <2>1 DEF CopiesInv, Cancellable, Sendable
  <2>2. CASE o # m
    BY <1>0, <1>2, <1>4, <2>2 DEF CopiesInv
  <2> QED BY <2>1, <2>2
<1>6. ASSUME NEW v \in Workers, wk'[v].pc = "authorized"
      PROVE  (Copies(wk[v].m) <= msg[wk[v].m].retries)'
  <2>1. CASE v = w
    BY <1>2, <1>3, <1>4, <2>1
  <2>2. CASE v # w
    <3>1. wk'[v] = wk[v] /\ wk[v].pc = "authorized" /\ wk[v].m \in Msgs
      BY <1>2, <1>6, <2>2 DEF PipelineInv, OwnersInv
    <3>2. PICK o \in Msgs : o = wk[v].m
      BY <3>1
    <3>3. Copies(o) <= msg[o].retries /\ msg'[o].retries = msg[o].retries
      BY <1>2, <3>1, <3>2 DEF CopiesInv
    <3> QED BY <1>4, <3>1, <3>2, <3>3
  <2> QED BY <2>1, <2>2
<1> QED BY <1>5, <1>6 DEF CopiesInv

\* The call itself leaves one copy at most, of a message that is on no path to
\* another attempt while this one is open.
LEMMA InvokeCopies ==
  ASSUME PipelineInv, CopiesInv, NEW w \in Workers, Invoke(w)
  PROVE  CopiesInv'
<1>0. /\ TypeOK /\ msg' = msg /\ wk[w].pc = "authorized" /\ wk[w].m \in Msgs
      /\ Unclaimed(w) /\ InFlight(w) /\ wk[w].n \in Unresolved(wk[w].m)
  BY DEF Invoke, PipelineInv, OwnersInv, Unclaimed, InFlight
<1>1. PICK m \in Msgs : m = wk[w].m
  BY <1>0
<1>2. PICK took, hid \in {0, 1} :
        /\ took = 0 \/ hid = 0
        /\ ~OverHttp => hid = 0
        /\ copies'[m].taken = copies[m].taken + took
        /\ copies'[m].denied = copies[m].denied + hid
        /\ \A o \in Msgs : o # m => copies'[o] = copies[o]
        /\ wk'[w].pc = "answered" /\ \A v \in Workers : v # w => wk'[v] = wk[v]
  BY <1>0, <1>1, InvokeEffect
<1>3. /\ copies[m].taken \in Nat /\ copies[m].denied \in Nat /\ msg[m].retries \in Nat
      /\ Copies(m) <= msg[m].retries
  BY <1>0, <1>1, CopiesCount DEF CopiesInv
<1>4. Copies(m)' <= msg[m].retries + 1
  BY <1>2, <1>3 DEF Copies
<1>5. \A o \in Msgs : o # m => Copies(o)' = Copies(o)
  BY <1>2 DEF Copies
<1>6. msg[m].status \notin Cancellable
  BY <1>0, <1>1 DEF PipelineInv, StatusMatchesEvidence
<1>7. ASSUME NEW o \in Msgs
      PROVE  (/\ Copies(o) <= msg[o].retries + 1
              /\ msg[o].status \in Cancellable => Copies(o) <= msg[o].retries
              /\ ~OverHttp => copies[o].denied = 0)'
  <2>1. CASE o = m
    <3>1. ~OverHttp => copies'[m].denied = 0
      BY <1>2 DEF CopiesInv
    <3> QED BY <1>0, <1>4, <1>6, <2>1, <3>1
  <2>2. CASE o # m
    BY <1>0, <1>2, <1>5, <2>2 DEF CopiesInv
  <2> QED BY <2>1, <2>2
<1>8. ASSUME NEW v \in Workers, wk'[v].pc = "authorized"
      PROVE  (Copies(wk[v].m) <= msg[wk[v].m].retries)'
  <2>1. v # w /\ wk'[v] = wk[v] /\ wk[v].pc = "authorized" /\ wk[v].m \in Msgs
    BY <1>2, <1>8 DEF PipelineInv, OwnersInv
  <2>2. PICK o \in Msgs : o = wk[v].m
    BY <2>1
  <2>3. o # m
    BY <1>0, <1>1, <2>1, <2>2 DEF PipelineInv, OwnersInv, AttemptsInv, Unclaimed, InFlight
  <2>4. Copies(o) <= msg[o].retries
    BY <2>1, <2>2 DEF CopiesInv
  <2> QED BY <1>0, <1>5, <2>1, <2>2, <2>3, <2>4
<1> QED BY <1>7, <1>8 DEF CopiesInv

\* Every step keeps the balance.
LEMMA CopiesNext == PipelineInv /\ CredInv /\ CopiesInv /\ [Next]_vars => CopiesInv'
<1> SUFFICES ASSUME PipelineInv, CredInv, CopiesInv, [Next]_vars PROVE CopiesInv'
  OBVIOUS
<1>1. ASSUME NEW m \in Msgs, Scheduler(m) \/ Clock(m) \/ Outside(m)
      PROVE  CopiesInv'
  <2>1. copies' = copies /\ wk' = wk
    BY <1>1 DEF Scheduler, Clock, Outside, Claim, RecoverExpiredClaim, FindStaleExecution,
                RecoverStaleExecution, Reconcile, ClaimLeaseExpires, DeadlinePasses, Reply,
                Unsubscribe, Suppress
  <2> QED BY <1>1, <2>1, SchedulerUnspent, CopiesQuiet DEF Unspent, CopiesKept
<1>2. ASSUME NEW w \in Workers, NEW m \in Msgs, NEW g \in 1..MaxGen, Load(w, m, g)
      PROVE  CopiesInv'
  <2>1. copies' = copies
    BY <1>2 DEF Load, LoadStops, LoadSkips, LoadHandsBack, LoadPasses
  <2>2. \A v \in Workers : wk'[v].pc = "authorized" => wk'[v] = wk[v]
    BY <1>2, LoadWorker
  <2> QED BY <1>2, <2>1, <2>2, WorkUnspent, CopiesQuiet DEF Unspent, CopiesKept
<1>3. ASSUME NEW w \in Workers, Before(w) \/ After(w) \/ Crash(w)
      PROVE  CopiesInv'
  <2>1. CASE \/ ReserveDenied(w) \/ DeniedHandsBack(w) \/ AuthorizationAborts(w)
             \/ Acknowledge(w) \/ Crash(w)
    <3>1. copies' = copies
      BY <2>1 DEF ReserveDenied, DeniedHandsBack, AuthorizationAborts, Acknowledge, Crash
    <3>2. \A v \in Workers : wk'[v].pc = "authorized" => wk'[v] = wk[v]
      BY <2>1, GivingUpWorker
    <3> QED BY <2>1, <3>1, <3>2, WorkUnspent, CopiesQuiet DEF Before, Unspent, CopiesKept
  <2>2. CASE GatesPassAgain(w)
    <3>1. copies' = copies /\ msg' = msg
      BY <2>2 DEF GatesPassAgain
    <3>2. \A v \in Workers : wk'[v].pc = "authorized" => wk'[v] = wk[v]
      BY <2>2 DEF GatesPassAgain, PipelineInv, TypeOK, WorkerType
    <3> QED BY <3>1, <3>2, CopiesQuiet DEF CopiesKept, NoneRevived
  <2>3. CASE Concluding(w)
    BY <2>3, ConcludingCopies
  <2> QED BY <1>3, <2>1, <2>2, <2>3, AuthorizeCopies, InvokeCopies DEF Before, After, Concluding
<1>4. CASE \/ CountRoom \/ Pause \/ Resume \/ Disconnect \/ Reconnect \/ BlockPasses
           \/ UNCHANGED vars
           \/ \E m \in Msgs, g \in 1..MaxGen : Publisher(m, g) \/ LoseTask(m, g)
  <2>1. CopiesKept
    BY <1>4 DEF CountRoom, Pause, Resume, Disconnect, Reconnect, BlockPasses, vars, Publisher,
                LeaseDelivery, Publish, PublishFails, LoseTask, CopiesKept, NoneRevived
  <2> QED BY <2>1, CopiesQuiet
<1> QED BY <1>1, <1>2, <1>3, <1>4 DEF Next

\* The balances of credentials, rejections and copies hold in every reachable state.
LEMMA BalancesHold == Spec => [](PipelineInv /\ CredInv /\ BudgetInv /\ CopiesInv)
<1>1. Init => CopiesInv
  <2> SUFFICES ASSUME Init PROVE CopiesInv
    OBVIOUS
  <2>1. \A w \in Workers : wk[w].pc = "idle"
    BY DEF Init, Idle
  <2>2. \A m \in Msgs : Copies(m) = 0 /\ copies[m].denied = 0 /\ msg[m].retries = 0
    BY DEF Init, Copies
  <2> QED BY <2>1, <2>2 DEF CopiesInv
<1>2. PipelineInv /\ CredInv /\ BudgetInv /\ CopiesInv /\ [Next]_vars =>
        CredInv' /\ BudgetInv' /\ CopiesInv'
  BY CredNext, BudgetNext, CopiesNext
<1> QED BY <1>1, <1>2, BalancesInit, Invariance, PTL DEF Spec

\* The provider takes at most one copy of a message more than its retries, and with
\* a mailbox on SMTP one at most: no schedule of duplicated tasks, crashes, lost
\* results and recoveries adds another.  Over HTTP a retry after a broken connection
\* may add one each, as many as the budget allows (PromiseRefinement).
THEOREM CopiesArePaidFor == Spec => []OneCopyPerRetry
<1>1. PipelineInv /\ CopiesInv => OneCopyPerRetry
  <2> SUFFICES ASSUME PipelineInv, CopiesInv, NEW m \in Msgs
               PROVE  Copies(m) <= 1 + IF OverHttp THEN msg[m].retries ELSE 0
    BY DEF OneCopyPerRetry
  <2>1. TypeOK /\ copies[m].taken <= 1
    BY DEF PipelineInv, AttemptsInv
  <2>2. CASE OverHttp
    BY <2>1, <2>2, CopiesCount DEF CopiesInv
  <2>3. CASE ~OverHttp
    BY <2>1, <2>3, CopiesCount DEF CopiesInv, Copies
  <2> QED BY <2>2, <2>3
<1> QED BY <1>1, BalancesHold, PTL

\* A message that may be sent again, or was called failed or cancelled, has no copy
\* but those the adapter denied; with SMTP it has none.
THEOREM RetriesDuplicateOnlyDenied == Spec => []OnlyDeniedIsResent
<1>1. PipelineInv /\ CopiesInv => OnlyDeniedIsResent
  <2> SUFFICES ASSUME PipelineInv, CopiesInv, NEW m \in Msgs,
                      msg[m].status \in Cancellable \union {"FAILED", "CANCELLED"}
               PROVE  /\ Copies(m) = copies[m].denied
                      /\ ~OverHttp => Copies(m) = 0
    BY DEF OnlyDeniedIsResent
  <2>1. Unresolved(m) = {} /\ ~HasEvidence(m, "ACCEPTED")
    BY DEF PipelineInv, StatusMatchesEvidence, Cancellable, Sendable
  <2>2. copies[m].taken = 0
    BY <2>1, CopiesCount DEF PipelineInv, AttemptsInv
  <2> QED BY <2>2, CopiesCount DEF PipelineInv, CopiesInv, Copies
<1> QED BY <1>1, BalancesHold, PTL

-----------------------------------------------------------------------------
(* The promise *)

\* The promise's view of the pipeline, and of one step.
Deliveries == [m \in Msgs |-> Copies(m)]
Denied == [m \in Msgs |-> copies[m].denied]
Verdicts == [m \in Msgs |-> Verdict(m)]

PromiseStep == [Promise!PromiseNext]_(Promise!promiseVars)

\* A step that moves at most one message, to a verdict it may be given.
Judged(m) ==
  \/ Verdict(m)' = Verdict(m)
  \/ Verdict(m) = "open" /\ Verdict(m)' = "dropped"
  \/ Verdict(m) = "open" /\ Verdict(m)' = "sent" /\ copies[m].taken = 1
  \/ Verdict(m) = "open" /\ Verdict(m)' = "unsent" /\ copies[m].taken = 0

\* Which is a step of the promise, or no step.
LEMMA JudgedStep ==
  ASSUME TypeOK, copies' = copies, NEW m \in Msgs, Judged(m),
         \A o \in Msgs : o # m => msg'[o].status = msg[o].status
  PROVE  PromiseStep
<1>0. /\ Deliveries' = Deliveries /\ Denied' = Denied
      /\ Deliveries[m] = Copies(m) /\ Denied[m] = copies[m].denied
      /\ copies[m].taken \in Nat /\ copies[m].denied \in Nat
  BY CopiesCount DEF Deliveries, Denied, Copies
<1>1. \A o \in Msgs : o # m => Verdict(o)' = Verdict(o)
  BY DEF Verdict
<1>2. ASSUME NEW v, Verdict(m)' = v
      PROVE  Verdicts' = [Verdicts EXCEPT ![m] = v]
  BY <1>1, <1>2 DEF Verdicts
<1>3. Verdicts[m] = Verdict(m)
  BY DEF Verdicts
<1>4. CASE Verdict(m)' = Verdict(m)
  <2>1. Verdicts' = Verdicts
    BY <1>1, <1>4 DEF Verdicts
  <2> QED BY <1>0, <2>1 DEF PromiseStep, Promise!promiseVars, Deliveries, Denied, Verdicts
<1>5. CASE Verdict(m) = "open" /\ Verdict(m)' = "dropped"
  <2>1. Promise!Drop(m)
    BY <1>0, <1>2, <1>3, <1>5 DEF Promise!Drop, Promise!Conclude, Deliveries, Denied, Verdicts, Copies
  <2> QED BY <2>1 DEF PromiseStep, Promise!PromiseNext
<1>6. CASE Verdict(m) = "open" /\ Verdict(m)' = "sent" /\ copies[m].taken = 1
  <2>1. Promise!DeclareSent(m)
    BY <1>0, <1>2, <1>3, <1>6 DEF Promise!DeclareSent, Promise!Conclude, Deliveries, Denied, Verdicts, Copies
  <2> QED BY <2>1 DEF PromiseStep, Promise!PromiseNext
<1>7. CASE Verdict(m) = "open" /\ Verdict(m)' = "unsent" /\ copies[m].taken = 0
  <2>1. Promise!DeclareUnsent(m)
    BY <1>0, <1>2, <1>3, <1>7 DEF Promise!DeclareUnsent, Promise!Conclude, Deliveries, Denied, Verdicts, Copies
  <2> QED BY <2>1 DEF PromiseStep, Promise!PromiseNext
<1> QED BY <1>4, <1>5, <1>6, <1>7 DEF Judged

\* A step that changes no status and takes no copy is a stutter of the promise.
LEMMA SilentStep ==
  ASSUME copies' = copies, \A o \in Msgs : msg'[o].status = msg[o].status
  PROVE  PromiseStep
<1>1. Verdicts' = Verdicts /\ Deliveries' = Deliveries /\ Denied' = Denied
  BY DEF Verdicts, Verdict, Deliveries, Denied, Copies
<1> QED BY <1>1 DEF PromiseStep, Promise!promiseVars, Deliveries, Denied, Verdicts

\* A message that may still be cancelled has no copy but denied ones.
LEMMA CancellableUnaccepted ==
  ASSUME PipelineInv, NEW m \in Msgs, msg[m].status \in Cancellable
  PROVE  copies[m].taken = 0 /\ Verdict(m) = "open"
<1>1. Unresolved(m) = {} /\ ~HasEvidence(m, "ACCEPTED")
  BY DEF PipelineInv, StatusMatchesEvidence, Cancellable, Sendable
<1>2. copies[m].taken \in Nat /\ copies[m].taken <= 1 /\ copies[m].taken # 1
  BY <1>1 DEF PipelineInv, AttemptsInv, TypeOK
<1> QED BY <1>2 DEF Verdict, Cancellable, Sendable

\* Hence whatever a step without attempts does to a message may be said of it.
LEMMA UnattemptedJudged ==
  ASSUME PipelineInv, NEW m \in Msgs, UnattemptedMove(m)
  PROVE  Judged(m)
<1>1. CASE msg'[m].status = msg[m].status
  BY <1>1 DEF Judged, Verdict
<1>2. CASE msg[m].status \in Cancellable /\ msg'[m].status \in Cancellable \union {"SKIPPED", "CANCELLED"}
  BY <1>2, CancellableUnaccepted DEF Judged, Verdict, Cancellable, Sendable
<1>3. CASE msg[m].status = "SENDING" /\ msg'[m].status = "SKIPPED"
  BY <1>3 DEF Judged, Verdict
<1> QED BY <1>1, <1>2, <1>3 DEF UnattemptedMove

\* The scheduler and the clock: claims, hand-backs and recoveries keep a message
\* open; only reconciliation declares one sent, and only one that was.
LEMMA SchedulerPromise ==
  ASSUME PipelineInv, NEW m \in Msgs, Scheduler(m) \/ Clock(m)
  PROVE  PromiseStep
<1>0. /\ TypeOK /\ msg \in [Msgs -> MsgType] /\ msg[m] \in MsgType /\ copies' = copies
      /\ copies[m].taken \in Nat /\ copies[m].taken <= 1
  BY DEF PipelineInv, AttemptsInv, TypeOK, Scheduler, Clock, Claim, RecoverExpiredClaim,
         FindStaleExecution, RecoverStaleExecution, Reconcile, ClaimLeaseExpires, DeadlinePasses
<1>1. CASE FindStaleExecution(m) \/ ClaimLeaseExpires(m) \/ DeadlinePasses(m)
  <2>1. \A o \in Msgs : msg'[o].status = msg[o].status
    BY <1>0, <1>1 DEF FindStaleExecution, ClaimLeaseExpires, DeadlinePasses, MsgType
  <2> QED BY <1>0, <2>1, SilentStep
<1>2. CASE Claim(m)
  <2>1. /\ msg[m].status \in Sendable /\ msg'[m].status = "QUEUED"
        /\ \A o \in Msgs : o # m => msg'[o] = msg[o]
    BY <1>0, <1>2 DEF Claim, MsgType
  <2> QED BY <1>0, <2>1, JudgedStep DEF Judged, Verdict, Sendable
<1>3. CASE RecoverExpiredClaim(m)
  <2>1. /\ msg[m].status = "QUEUED" /\ msg'[m].status \in Sendable
        /\ \A o \in Msgs : o # m => msg'[o] = msg[o]
    BY <1>0, <1>3 DEF RecoverExpiredClaim, StuckClaim, MsgType, PipelineInv, ClaimsInv
  <2> QED BY <1>0, <2>1, JudgedStep DEF Judged, Verdict, Sendable
<1>4. CASE RecoverStaleExecution(m)
  <2>1. /\ \/ msg'[m].status = msg[m].status
           \/ msg[m].status = "SENDING" /\ msg'[m].status = "UNKNOWN_OUTCOME"
        /\ \A o \in Msgs : o # m => msg'[o] = msg[o]
    BY <1>0, <1>4 DEF RecoverStaleExecution, Abandon, MsgType
  <2> QED BY <1>0, <2>1, JudgedStep DEF Judged, Verdict
<1>5. CASE Reconcile(m)
  <2>1. /\ msg[m].status = "UNKNOWN_OUTCOME" /\ msg'[m].status = "SENT" /\ copies[m].taken = 1
        /\ \A o \in Msgs : o # m => msg'[o] = msg[o]
    BY <1>0, <1>5 DEF Reconcile, MsgType
  <2> QED BY <1>0, <2>1, JudgedStep DEF Judged, Verdict
<1> QED BY <1>1, <1>2, <1>3, <1>4, <1>5 DEF Scheduler, Clock

\* A stop event declares unsent or drops what was never authorized.
LEMMA OutsidePromise ==
  ASSUME PipelineInv, NEW m \in Msgs, Outside(m)
  PROVE  PromiseStep
<1>0. TypeOK /\ msg \in [Msgs -> MsgType] /\ msg[m] \in MsgType /\ copies' = copies
  BY DEF PipelineInv, TypeOK, Outside, Reply, Unsubscribe, Suppress
<1>1. CASE Suppress(m)
  BY <1>0, <1>1, SilentStep DEF Suppress
<1>2. CASE Reply(m) \/ Unsubscribe(m)
  <2>1. \E status \in {"CANCELLED", "SKIPPED"} :
          msg' = [msg EXCEPT ![m].status = IF @ \in Cancellable THEN status ELSE @]
    BY <1>2 DEF Reply, Unsubscribe, StopRecipient
  <2>2. /\ \A o \in Msgs : o # m => msg'[o] = msg[o]
        /\ \/ msg'[m].status = msg[m].status
           \/ msg[m].status \in Cancellable /\ msg'[m].status \in {"CANCELLED", "SKIPPED"}
    BY <1>0, <2>1 DEF MsgType
  <2>3. Judged(m)
    BY <2>2, UnattemptedJudged DEF UnattemptedMove
  <2> QED BY <1>0, <2>2, <2>3, JudgedStep
<1> QED BY <1>1, <1>2 DEF Outside

\* Loading a task and working on it up to the authorization.
LEMMA LoadPromise ==
  ASSUME PipelineInv, NEW w \in Workers, NEW m \in Msgs, NEW g \in 1..MaxGen, Load(w, m, g)
  PROVE  PromiseStep
<1>0. TypeOK /\ ClaimsInv /\ msg[m] \in MsgType /\ g \in Nat /\ copies' = copies
  BY PipelineAssumption
  DEF PipelineInv, TypeOK, Load, LoadStops, LoadSkips, LoadHandsBack, LoadPasses, PipelineAssumption
<1>1. CASE LoadStops(w, m, g) \/ LoadPasses(w, m, g)
  BY <1>0, <1>1, SilentStep DEF LoadStops, LoadPasses
<1>2. CASE LoadSkips(w, m, g)
  <2>1. msg[m].status \in Sendable \union Eligible
    BY <1>0, <1>2, GateSkips DEF LoadSkips
  <2>2. msg'[m].status = "SKIPPED" /\ \A o \in Msgs : o # m => msg'[o] = msg[o]
    BY <1>0, <1>2 DEF LoadSkips, TypeOK, MsgType
  <2>3. Judged(m)
    BY <2>1, <2>2 DEF Judged, Verdict, Sendable, Eligible
  <2> QED BY <1>0, <2>2, <2>3, JudgedStep
<1>3. CASE LoadHandsBack(w, m, g)
  <2>1. /\ \A o \in Msgs : o # m => msg'[o] = msg[o]
        /\ \/ msg'[m] = msg[m]
           \/ msg[m].status = "QUEUED" /\ msg'[m].status \in Sendable
    BY <1>0, <1>3, HandBackEffect DEF LoadHandsBack
  <2>2. Judged(m)
    BY <2>1 DEF Judged, Verdict, Sendable
  <2> QED BY <1>0, <2>1, <2>2, JudgedStep
<1> QED BY <1>1, <1>2, <1>3 DEF Load

\* The work before the provider call keeps a message open.
LEMMA BeforePromise ==
  ASSUME PipelineInv, NEW w \in Workers, Before(w) \/ Acknowledge(w) \/ Crash(w)
  PROVE  PromiseStep
<1>0. /\ TypeOK /\ ClaimsInv /\ wk[w] \in WorkerType /\ copies' = copies
      /\ wk[w].pc # "idle" => wk[w].m \in Msgs
  BY DEF PipelineInv, TypeOK, OwnersInv, Before, ReserveDenied, DeniedHandsBack, GatesPassAgain,
         AuthorizationAborts, Authorize, Acknowledge, Crash
<1>1. CASE DeniedHandsBack(w)
  <2>0. wk[w].g \in Nat /\ wk[w].m \in Msgs
    BY <1>0, <1>1 DEF DeniedHandsBack, WorkerType
  <2>1. PICK m \in Msgs : m = wk[w].m
    BY <2>0
  <2>2. /\ \A o \in Msgs : o # m => msg'[o] = msg[o]
        /\ \/ msg'[m] = msg[m]
           \/ msg[m].status = "QUEUED" /\ msg'[m].status \in Sendable
    BY <1>0, <1>1, <2>0, <2>1, HandBackEffect DEF DeniedHandsBack
  <2>3. Judged(m)
    BY <2>2 DEF Judged, Verdict, Sendable
  <2> QED BY <1>0, <2>2, <2>3, JudgedStep
<1>2. CASE Authorize(w)
  <2>1. PICK m \in Msgs : m = wk[w].m /\ msg[m].status \in Eligible
    BY <1>2 DEF Authorize, PipelineInv, GatesInv, HoldsGates
  <2>2. msg'[m].status = "SENDING" /\ \A o \in Msgs : o # m => msg'[o] = msg[o]
    BY <1>0, <1>2, <2>1, AuthorizeEffect
  <2>3. Judged(m)
    BY <2>1, <2>2 DEF Judged, Verdict, Eligible
  <2> QED BY <1>0, <2>2, <2>3, JudgedStep
<1>3. CASE \/ ReserveDenied(w) \/ GatesPassAgain(w) \/ AuthorizationAborts(w)
           \/ Acknowledge(w) \/ Crash(w)
  <2>1. msg' = msg
    BY <1>3 DEF ReserveDenied, GatesPassAgain, AuthorizationAborts, Acknowledge, Crash
  <2> QED BY <1>0, <2>1, SilentStep
<1> QED BY <1>1, <1>2, <1>3 DEF Before

\* The provider call delivers another copy only of a message all of whose copies
\* were denied, within the budget, and never one that was declared sent or unsent.
LEMMA InvokePromise ==
  ASSUME PipelineInv, BudgetInv, CopiesInv, NEW w \in Workers, Invoke(w)
  PROVE  PromiseStep
<1>1. /\ TypeOK /\ wk[w].pc = "authorized" /\ msg' = msg /\ wk[w].m \in Msgs
      /\ RetryBudget \in Nat
  BY PipelineAssumption DEF Invoke, PipelineInv, OwnersInv, PipelineAssumption
<1>m. PICK m \in Msgs : m = wk[w].m
  BY <1>1
<1>2. /\ wk[w].n \in Unresolved(m) /\ copies[m].taken = 0 /\ copies[m].denied \in Nat
      /\ msg[m].retries \in Nat /\ Copies(m) <= msg[m].retries /\ msg[m].retries <= RetryBudget
  BY <1>1, <1>m, CopiesCount DEF PipelineInv, OwnersInv, Unclaimed, BudgetInv, CopiesInv
<1>3. PICK took, hid \in {0, 1} :
        /\ took = 0 \/ hid = 0
        /\ ~OverHttp => hid = 0
        /\ copies'[m].taken = copies[m].taken + took
        /\ copies'[m].denied = copies[m].denied + hid
        /\ \A o \in Msgs : o # m => copies'[o] = copies[o]
  BY <1>1, <1>m, InvokeEffect
<1>4. msg[m].status \in Statuses
  BY <1>1 DEF TypeOK, MsgType
<1>5. Verdict(m) \in {"open", "dropped"}
  BY <1>2, <1>4 DEF PipelineInv, StatusMatchesEvidence, Verdict
<1>6. Verdicts' = Verdicts /\ Verdicts[m] \in {"open", "dropped"}
  BY <1>1, <1>5 DEF Verdicts, Verdict
<1>7. Deliveries[m] = Denied[m] /\ Deliveries[m] < RetryBudget + 1
  <2>1. Copies(m) = copies[m].denied /\ Copies(m) < RetryBudget + 1
    BY <1>1, <1>2 DEF Copies
  <2>2. Deliveries[m] = Copies(m) /\ Denied[m] = copies[m].denied
    BY DEF Deliveries, Denied
  <2> QED BY <2>1, <2>2
<1>8. /\ Copies(m)' = Copies(m) + took + hid
      /\ \A o \in Msgs : o # m => Copies(o)' = Copies(o) /\ copies'[o].denied = copies[o].denied
  BY <1>2, <1>3 DEF Copies
<1>9. CASE took = 0 /\ hid = 0
  <2>1. /\ \A o \in Msgs : Copies(o)' = Copies(o) /\ copies'[o].denied = copies[o].denied
    BY <1>1, <1>2, <1>3, <1>8, <1>9, CopiesCount
  <2>2. Deliveries' = Deliveries /\ Denied' = Denied
    BY <2>1 DEF Deliveries, Denied
  <2> QED BY <1>6, <2>2 DEF PromiseStep, Promise!promiseVars, Deliveries, Denied, Verdicts
<1>10. CASE took + hid = 1
  <2>0. Copies(m)' = Copies(m) + 1
    BY <1>1, <1>8, <1>10, CopiesCount
  <2>1. Deliveries' = [Deliveries EXCEPT ![m] = @ + 1]
    BY <1>8, <2>0 DEF Deliveries
  <2>2. \/ Denied' = Denied
        \/ OverHttp /\ Denied' = [Denied EXCEPT ![m] = @ + 1]
    <3>1. CASE hid = 0
      <4>1. \A o \in Msgs : copies'[o].denied = copies[o].denied
        BY <1>2, <1>3, <1>8, <3>1
      <4> QED BY <4>1 DEF Denied
    <3>2. CASE hid = 1
      <4>1. /\ OverHttp /\ copies'[m].denied = copies[m].denied + 1
            /\ \A o \in Msgs : o # m => copies'[o].denied = copies[o].denied
        BY <1>3, <1>8, <3>2
      <4> QED BY <4>1 DEF Denied
    <3> QED BY <3>1, <3>2
  <2>3. Promise!Deliver(m)
    BY <1>6, <1>7, <2>1, <2>2 DEF Promise!Deliver, Deliveries, Denied, Verdicts
  <2> QED BY <2>3 DEF PromiseStep, Promise!PromiseNext
<1> QED BY <1>3, <1>9, <1>10

\* What a worker records it may say: sent what has a copy, unsent what has only denied ones.
LEMMA ConclusionPromise ==
  ASSUME PipelineInv, NEW w \in Workers, Concluding(w)
  PROVE  PromiseStep
<1>m. PICK m \in Msgs : m = wk[w].m
  BY ConcludingWorker
<1>0. TypeOK /\ copies' = copies
  BY <1>m, ConclusionEffect DEF PipelineInv
<1>1. CASE Done(w) /\ UNCHANGED <<msg, att>>
  BY <1>0, <1>1, SilentStep
<1>2. ASSUME NEW evidence \in Evidence, NEW status \in Statuses, NEW retries \in Nat,
             NEW rfc \in BOOLEAN, Concludes(w, evidence, status),
             Finalize(w, evidence, status, retries, rfc)
      PROVE  PromiseStep
  <2>1. /\ MayFinalize(m, wk[w].n, status) /\ msg'[m].status = status
        /\ \A o \in Msgs : o # m => msg'[o] = msg[o]
    BY <1>0, <1>m, <1>2, FinalizeEffect
  <2>2. msg[m].status \in Terminal => msg'[m].status = msg[m].status
    BY <2>1 DEF MayFinalize
  <2>3. \/ status = "SENT" /\ copies[m].taken = 1
        \/ status = "FAILED" /\ copies[m].taken = 0
        \/ status \in {"UNKNOWN_OUTCOME", "RETRY_SCHEDULED"}
    BY <1>m, <1>2 DEF Concludes, PipelineInv, OwnersInv
  <2>4. Judged(m)
    <3>1. CASE msg[m].status \in Terminal
      BY <2>2, <3>1 DEF Judged, Verdict
    <3>2. CASE msg[m].status \notin Terminal
      <4>1. Verdict(m) = "open"
        BY <3>2 DEF Verdict, Terminal
      <4> QED BY <2>1, <2>3, <4>1 DEF Judged, Verdict
    <3> QED BY <3>1, <3>2
  <2> QED BY <1>0, <2>1, <2>4, JudgedStep
<1> QED BY <1>0, <1>m, <1>1, <1>2, ConclusionEffect

\* Every step of the pipeline is a step of the promise or a stutter.
LEMMA NextPromise == PipelineInv /\ BudgetInv /\ CopiesInv /\ [Next]_vars => PromiseStep
<1> SUFFICES ASSUME PipelineInv, BudgetInv, CopiesInv, [Next]_vars PROVE PromiseStep
  OBVIOUS
<1>1. ASSUME NEW m \in Msgs, Scheduler(m) \/ Clock(m) \/ Outside(m)
      PROVE  PromiseStep
  BY <1>1, SchedulerPromise, OutsidePromise
<1>2. ASSUME NEW w \in Workers, NEW m \in Msgs, NEW g \in 1..MaxGen, Load(w, m, g)
      PROVE  PromiseStep
  BY <1>2, LoadPromise
<1>3. ASSUME NEW w \in Workers, Before(w) \/ After(w) \/ Crash(w)
      PROVE  PromiseStep
  <2>1. CASE Concluding(w)
    BY <2>1, ConclusionPromise
  <2> QED BY <1>3, <2>1, BeforePromise, InvokePromise DEF After, Concluding
<1>4. CASE \/ CountRoom \/ Pause \/ Resume \/ Disconnect \/ Reconnect \/ BlockPasses
           \/ UNCHANGED vars
           \/ \E m \in Msgs, g \in 1..MaxGen : Publisher(m, g) \/ LoseTask(m, g)
  <2>1. msg' = msg /\ copies' = copies
    BY <1>4 DEF CountRoom, Pause, Resume, Disconnect, Reconnect, BlockPasses, vars, Publisher,
                LeaseDelivery, Publish, PublishFails, LoseTask
  <2> QED BY <2>1, SilentStep
<1> QED BY <1>1, <1>2, <1>3, <1>4 DEF Next

\* The pipeline implements SendPromise: another copy only after the adapter denied
\* the one before, no more than the retry budget and one, none twice where copies are
\* never denied; and at most one verdict per message, never taken back.
THEOREM PromiseRefinement == Spec => PromiseKept
<1>1. Init => Promise!PromiseInit
  BY DEF Init, Promise!PromiseInit, Verdict, Copies
<1>2. PipelineInv /\ BudgetInv /\ CopiesInv /\ [Next]_vars =>
        [Promise!PromiseNext]_(Promise!promiseVars)
  BY NextPromise DEF PromiseStep
<1> QED BY <1>1, <1>2, BalancesHold, PTL DEF Spec, PromiseKept, Promise!PromiseSpec
=============================================================================
