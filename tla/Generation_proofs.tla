--------------------------- MODULE Generation_proofs ---------------------------
(***************************************************************************)
(* Theorems about Generation, for any generations, workers and bounds; and *)
(* about Drafting, where the same emails are written, reviewed and         *)
(* activated, for any users, steps, batches and preview workers.           *)
(***************************************************************************)
EXTENDS Generation, Drafting, Sequences, FiniteSetTheorems, TLAPS

-----------------------------------------------------------------------------
(* Types *)

States == {"PENDING", "SUCCEEDED", "FAILED", "SUPERSEDED"}
Leases == {"free", "held", "expired"}

RowType == [state : States, count : Int, errors : Int, lease : Leases, due : BOOLEAN,
            open : Int, made : Int]

ItemType ==
    {NoItem}
    \union [at : {"claimed"}, lease : Leases]
    \union [at : {"call"}, no : Int, count : Int, errors : Int, eligible : BOOLEAN, running : BOOLEAN]

TypeOK ==
    /\ gen \in [Gens -> RowType]
    /\ message \in [Gens -> {"PLANNED", "SCHEDULED", "FAILED", "SKIPPED"}]
    /\ rendered \in [Gens -> Nat]
    /\ item \in [Workers -> [Gens -> ItemType]]
    /\ billed \in [Gens -> Nat] /\ returned \in [Gens -> Nat]

-----------------------------------------------------------------------------
(* The inductive invariant *)

\* Workers that may still get an answer of the model for g, and those among them that
\* give their attempt back when the answer is lost.
Holders(g) == {w \in Workers : item[w][g] # NoItem}
Readers(g) == {w \in Workers : item[w][g].at = "call" /\ item[w][g].errors < MaxErrors}

\* Every worker that may still get an answer has an attempt of its own.  Every answer
\* used one up, or gave it back as a transient error or to a paused campaign.  There
\* are no more transient errors than max_transient_errors allows, plus the workers
\* that read the count together with the last one that was allowed.
Account(g) ==
    /\ IsFiniteSet(Holders(g))
    /\ billed[g] + Cardinality(Holders(g)) <= gen[g].count + gen[g].errors + returned[g]
    /\ Cardinality(Holders(g)) <= gen[g].count /\ gen[g].count <= MaxAttempts
    /\ gen[g].errors + Cardinality(Readers(g)) <= MaxErrors + (MaxAttempts - 1)

GenerationInv == TypeOK /\ GenerationMatchesMessage /\ \A g \in Gens : Account(g)

\* What GenerationMatchesMessage says of one generation.
Story(g) ==
    /\ rendered[g] = IF gen[g].state = "SUCCEEDED" THEN 1 ELSE 0
    /\ message[g] = "SCHEDULED" => gen[g].state = "SUCCEEDED"
    /\ gen[g].state = "FAILED" => message[g] \in {"FAILED", "SKIPPED"}


-----------------------------------------------------------------------------
(* The statements on a row *)

\* The three ways to give a row back: with its attempt; with it, counting an error;
\* and without it.
Refunded(r) == ReleaseClaim(r, TRUE, FALSE)
Excused(r)  == ReleaseClaim(r, TRUE, TRUE)
Spent(r)    == ReleaseClaim(r, FALSE, FALSE)

\* A row of the same state, attempts and errors.
Like(r, s) == s \in RowType /\ s.state = r.state /\ s.count = r.count /\ s.errors = r.errors

\* The ledger's statements leave the state and the attempts of the row alone.
LEMMA LedgerRows ==
    ASSUME NEW r \in RowType, NEW no \in Int
    PROVE  Like(r, AbandonOpenAttempts(r)) /\ Like(r, InsertAttempt(r)) /\ Like(r, FinishAttempt(r, no))
PROOF
  <1>1. ASSUME NEW n \in Int, NEW m \in Int
        PROVE  Like(r, [r EXCEPT !.made = m, !.open = n])
    BY DEF Like, RowType
  <1>2. InsertAttempt(r) = [r EXCEPT !.made = r.made + 1, !.open = r.made + 1] /\ r.made + 1 \in Int
    BY DEF InsertAttempt, RowType
  <1>3. Like(r, InsertAttempt(r))
    BY <1>1, <1>2
  <1>4. Like(r, AbandonOpenAttempts(r)) /\ Like(r, FinishAttempt(r, no))
    BY DEF Like, AbandonOpenAttempts, FinishAttempt, RowType
  <1>. QED
    BY <1>3, <1>4

\* A row is decided once, and keeps its attempts and errors.
LEMMA DecidedRows ==
    ASSUME NEW r \in RowType
    PROVE  /\ \A s \in {FailGeneration(r), SupersedeGeneration(r), CompleteGeneration(r)} :
                 s \in RowType /\ s.count = r.count /\ s.errors = r.errors
           /\ FailGeneration(r).state = (IF r.state = "PENDING" THEN "FAILED" ELSE r.state)
           /\ SupersedeGeneration(r).state = (IF r.state = "PENDING" THEN "SUPERSEDED" ELSE r.state)
           /\ CompleteGeneration(r).state = (IF r.state = "PENDING" THEN "SUCCEEDED" ELSE r.state)
  BY DEF RowType, States, Leases, FailGeneration, SupersedeGeneration, CompleteGeneration, Decide

\* A row that is given back stays in its state, with one attempt less at most, and
\* with all of them unless the attempt is refunded.  An error makes up for the attempt.
LEMMA ReleasedRows ==
    ASSUME NEW r \in RowType
    PROVE  /\ /\ Refunded(r) \in RowType /\ Refunded(r).state = r.state
              /\ Refunded(r).count \in {r.count, r.count - 1} /\ Refunded(r).errors = r.errors
           /\ /\ Excused(r) \in RowType /\ Excused(r).state = r.state
              /\ \/ Excused(r).count = r.count /\ Excused(r).errors \in {r.errors, r.errors + 1}
                 \/ Excused(r).count = r.count - 1 /\ Excused(r).errors = r.errors + 1
           /\ Like(r, Spent(r))
PROOF
  <1>0. r.count \in Int /\ r.errors \in Int
    BY DEF RowType
  <1>1. CASE r.state # "PENDING"
    BY <1>0, <1>1 DEF Like, Refunded, Excused, Spent, ReleaseClaim
  <1>2. CASE r.state = "PENDING"
    <2>1. PICK n \in Int : n = (IF r.count > 0 THEN r.count - 1 ELSE r.count)
      BY <1>0
    <2>2. PICK m \in Int : m = r.errors + 1
      BY <1>0
    <2>0. PICK k \in Int : k = r.errors + 0
      BY <1>0
    <2>3. Refunded(r) = [r EXCEPT !.lease = "free", !.due = FALSE, !.count = n, !.errors = k]
      BY <1>2, <2>0, <2>1 DEF Refunded, ReleaseClaim, RowType
    <2>4. Excused(r) = [r EXCEPT !.lease = "free", !.due = FALSE, !.count = n, !.errors = m]
      BY <1>2, <2>1, <2>2 DEF Excused, ReleaseClaim, RowType
    <2>5. Spent(r) = [r EXCEPT !.lease = "free", !.due = FALSE, !.count = r.count, !.errors = k]
      BY <1>2, <2>0 DEF Spent, ReleaseClaim, RowType
    <2>6. Refunded(r) \in RowType /\ Refunded(r).state = r.state /\ Refunded(r).count = n /\ Refunded(r).errors = k
      BY <2>3 DEF RowType, Leases
    <2>7. Excused(r) \in RowType /\ Excused(r).state = r.state /\ Excused(r).count = n /\ Excused(r).errors = m
      BY <2>4 DEF RowType, Leases
    <2>. PICK c \in Int : c = r.count
      BY <1>0
    <2>8. /\ Spent(r) \in RowType /\ Spent(r).state = r.state /\ Spent(r).count = r.count
          /\ Spent(r).errors = k
      BY <2>5 DEF RowType, Leases
    <2>9. Like(r, Spent(r))
      BY <1>0, <2>0, <2>8 DEF Like
    <2>. QED BY <1>0, <2>0, <2>1, <2>2, <2>6, <2>7, <2>9
  <1>. QED
    BY <1>1, <1>2

\* An attempt that is closed leaves a row of the same state and attempts.
LEMMA FinishedRow ==
    ASSUME TypeOK, NEW w \in Workers, NEW g \in Gens, item[w][g].at = "call"
    PROVE  /\ Finished(w, g) \in RowType /\ gen[g] \in RowType
           /\ Finished(w, g).state = gen[g].state /\ Finished(w, g).count = gen[g].count
           /\ Finished(w, g).errors = gen[g].errors
           /\ item[w][g] # NoItem
PROOF
  <1>1. item[w][g].no \in Int /\ gen[g] \in RowType /\ item[w][g] # NoItem
    BY DEF TypeOK, ItemType, NoItem
  <1>. QED
    BY <1>1, LedgerRows DEF Finished, Like

-----------------------------------------------------------------------------
(* The account *)

\* Both kinds of workers can be counted.
LEMMA Countable ==
    ASSUME NEW g \in Gens, IsFiniteSet(Holders(g))
    PROVE  /\ Readers(g) \subseteq Holders(g) /\ IsFiniteSet(Readers(g))
           /\ Cardinality(Holders(g)) \in Nat /\ Cardinality(Readers(g)) \in Nat
           /\ Cardinality(Readers(g)) <= Cardinality(Holders(g))
PROOF
  <1>1. Readers(g) \subseteq Holders(g)
    BY DEF Readers, Holders, NoItem
  <1>. QED
    BY <1>1, FS_Subset, FS_CardinalityType

\* A worker that is done with a generation pays for the answer it got with the
\* attempt it held, or with the error it counts.
LEMMA EndEffect ==
    ASSUME GenerationInv, NEW w \in Workers, NEW g \in Gens, item[w][g] # NoItem,
           NEW r \in RowType, End(w, g, r),
           TypeOK', \A h \in Gens \ {g} : /\ message'[h] = message[h] /\ rendered'[h] = rendered[h]
                                          /\ billed'[h] = billed[h] /\ returned'[h] = returned[h],
           r.count \in {gen[g].count, gen[g].count - 1},
           r.errors = gen[g].errors \/ (r.errors = gen[g].errors + 1 /\ w \in Readers(g)),
           billed'[g] - returned'[g] <= billed[g] - returned[g] + 1 + (r.count - gen[g].count)
                                          + (r.errors - gen[g].errors),
           Story(g)'
    PROVE  GenerationInv'
PROOF
  <1>1. /\ gen'[g] = r /\ \A h \in Gens \ {g} : gen'[h] = gen[h]
        /\ item'[w][g] = NoItem
        /\ \A v \in Workers, h \in Gens : v # w \/ h # g => item'[v][h] = item[v][h]
    BY DEF End, GenerationInv, TypeOK
  <1>2. /\ Holders(g)' = Holders(g) \ {w} /\ w \in Holders(g)
        /\ Readers(g)' = Readers(g) \ {w}
        /\ \A h \in Gens \ {g} : Holders(h)' = Holders(h) /\ Readers(h)' = Readers(h)
    BY <1>1 DEF Holders, Readers, NoItem
  <1>3. /\ IsFiniteSet(Holders(g)) /\ Cardinality(Holders(g)) \in Nat
        /\ IsFiniteSet(Readers(g)) /\ Cardinality(Readers(g)) \in Nat
    BY Countable DEF GenerationInv, Account
  <1>4. /\ IsFiniteSet(Holders(g) \ {w})
        /\ Cardinality(Holders(g) \ {w}) = Cardinality(Holders(g)) - 1
        /\ Cardinality(Readers(g) \ {w}) =
              Cardinality(Readers(g)) - (IF w \in Readers(g) THEN 1 ELSE 0)
    <2>1. /\ IsFiniteSet(Holders(g) \ {w})
          /\ Cardinality(Holders(g) \ {w}) = Cardinality(Holders(g)) - 1
      BY <1>2, <1>3, FS_RemoveElement
    <2>2. CASE w \in Readers(g)
      <3>1. Cardinality(Readers(g) \ {w}) = Cardinality(Readers(g)) - 1
        BY <1>3, <2>2, FS_RemoveElement
      <3>. QED BY <2>1, <2>2, <3>1
    <2>3. CASE w \notin Readers(g)
      <3>1. Readers(g) \ {w} = Readers(g)
        BY <2>3
      <3>2. Cardinality(Readers(g) \ {w}) = Cardinality(Readers(g))
        BY <3>1
      <3>3. Cardinality(Readers(g) \ {w}) = Cardinality(Readers(g)) - 0
        BY <1>3, <3>2
      <3>. QED BY <2>1, <2>3, <3>3
    <2>. QED BY <2>2, <2>3
  <1>5. Account(g)'
    <2>0. /\ billed[g] \in Nat /\ returned[g] \in Nat /\ billed'[g] \in Nat /\ returned'[g] \in Nat
          /\ gen[g].count \in Int /\ gen[g].errors \in Int /\ r.count \in Int /\ r.errors \in Int
          /\ MaxAttempts \in Int /\ MaxErrors \in Int
      BY GenerationAssumption DEF GenerationInv, TypeOK, RowType
    <2>1. /\ billed[g] + Cardinality(Holders(g)) <= gen[g].count + gen[g].errors + returned[g]
          /\ Cardinality(Holders(g)) <= gen[g].count /\ gen[g].count <= MaxAttempts
          /\ gen[g].errors + Cardinality(Readers(g)) <= MaxErrors + (MaxAttempts - 1)
      BY DEF GenerationInv, Account
    <2>2. billed'[g] + (Cardinality(Holders(g)) - 1) <= r.count + r.errors + returned'[g]
      BY <1>3, <2>0, <2>1
    <2>3. Cardinality(Holders(g)) - 1 <= r.count /\ r.count <= MaxAttempts
      BY <1>3, <2>0, <2>1
    <2>4. r.errors + Cardinality(Readers(g) \ {w}) <= MaxErrors + (MaxAttempts - 1)
      <3>1. CASE w \in Readers(g)
        BY <1>3, <1>4, <2>0, <2>1, <3>1
      <3>2. CASE w \notin Readers(g)
        BY <1>3, <1>4, <2>0, <2>1, <3>2
      <3>. QED BY <3>1, <3>2
    <2>. QED BY <1>1, <1>2, <1>4, <2>2, <2>3, <2>4 DEF Account
  <1>6. ASSUME NEW h \in Gens \ {g} PROVE Account(h)' /\ Story(h)'
    BY <1>1, <1>2 DEF GenerationInv, GenerationMatchesMessage, Account, Story
  <1>. QED
    BY <1>5, <1>6 DEF GenerationInv, GenerationMatchesMessage, Story

\* Only the rows' leases, dates and ledgers change, and no worker takes anything.
LEMMA QuietEffect ==
    ASSUME GenerationInv, TypeOK', UNCHANGED <<item, billed, returned>>,
           \A g \in Gens : /\ gen'[g].state = gen[g].state /\ gen'[g].count = gen[g].count
                           /\ gen'[g].errors = gen[g].errors,
           \A g \in Gens : Story(g)'
    PROVE  GenerationInv'
PROOF
  <1>1. \A g \in Gens : Holders(g)' = Holders(g) /\ Readers(g)' = Readers(g)
    BY DEF Holders, Readers
  <1>2. \A g \in Gens : Account(g)'
    BY <1>1 DEF GenerationInv, Account
  <1>. QED
    BY <1>2 DEF GenerationInv, GenerationMatchesMessage, Story

-----------------------------------------------------------------------------
(* The steps *)

\* A chunk is claimed: one attempt of each row, for the worker that has it.
LEMMA ClaimStep ==
    ASSUME GenerationInv, NEW w \in Workers, Claim(w)
    PROVE  GenerationInv'
PROOF
  <1>0. UNCHANGED <<rendered, billed, returned>> /\ MaxAttempts \in Int
    BY GenerationAssumption DEF Claim, historyVars
  <1>1. ASSUME NEW g \in Gens
        PROVE  /\ gen'[g] = IF Exhausted(g) THEN FailGeneration(AbandonOpenAttempts(gen[g]))
                            ELSE IF Claimable(g) THEN ClaimDue(gen[g]) ELSE gen[g]
               /\ message'[g] = IF Exhausted(g) THEN FailMessage(message[g]) ELSE message[g]
               /\ item'[w][g] = IF Claimable(g) THEN [at |-> "claimed", lease |-> gen[g].lease] ELSE NoItem
               /\ item[w][g] = NoItem
               /\ \A v \in Workers \ {w} : item'[v][g] = item[v][g]
    BY DEF Claim, GenerationInv, TypeOK
  <1>2. ASSUME NEW g \in Gens
        PROVE  /\ gen'[g] \in RowType /\ message'[g] \in {"PLANNED", "SCHEDULED", "FAILED", "SKIPPED"}
               /\ item'[w][g] \in ItemType /\ Story(g)'
               /\ gen'[g].count = gen[g].count + (IF Claimable(g) THEN 1 ELSE 0)
               /\ gen'[g].errors = gen[g].errors
               /\ Claimable(g) => gen[g].count < MaxAttempts
    <2>0. gen[g] \in RowType /\ message[g] \in {"PLANNED", "SCHEDULED", "FAILED", "SKIPPED"} /\ Story(g)
          /\ gen[g].count \in Int /\ gen[g].lease \in Leases
      BY DEF GenerationInv, TypeOK, GenerationMatchesMessage, Story, RowType
    <2>1. CASE Exhausted(g)
      <3>1. gen[g].state = "PENDING" /\ ~Claimable(g)
        BY <1>0, <2>0, <2>1 DEF Exhausted, Claimable
      <3>2. /\ AbandonOpenAttempts(gen[g]) \in RowType
            /\ AbandonOpenAttempts(gen[g]).state = "PENDING" /\ AbandonOpenAttempts(gen[g]).count = gen[g].count
            /\ AbandonOpenAttempts(gen[g]).errors = gen[g].errors
        BY <2>0, <3>1 DEF AbandonOpenAttempts, RowType
      <3>. PICK r \in RowType : r = AbandonOpenAttempts(gen[g])
        BY <3>2
      <3>3. gen'[g] \in RowType /\ gen'[g].state = "FAILED" /\ gen'[g].count = gen[g].count
            /\ gen'[g].errors = gen[g].errors
        <4>1. gen'[g] = FailGeneration(r)
          BY <1>1, <2>1
        <4>. QED BY <3>2, <4>1, DecidedRows
      <3>4. message'[g] \in {"FAILED", "SKIPPED"}
        BY <1>1, <2>0, <2>1, <3>1 DEF Story, FailMessage
      <3>5. item'[w][g] = NoItem
        BY <1>1, <3>1
      <3>. QED BY <1>0, <2>0, <3>1, <3>3, <3>4, <3>5 DEF Story, ItemType
    <2>2. CASE ~Exhausted(g) /\ Claimable(g)
      <3>1. gen'[g] = [gen[g] EXCEPT !.lease = "held", !.count = @ + 1] /\ message'[g] = message[g]
        BY <1>1, <2>2 DEF ClaimDue
      <3>. PICK n \in Int : n = gen[g].count + 1
        BY <2>0
      <3>2. gen'[g] = [gen[g] EXCEPT !.lease = "held", !.count = n]
        BY <2>0, <3>1 DEF RowType
      <3>3. gen'[g] \in RowType /\ gen'[g].state = gen[g].state /\ gen'[g].count = n
            /\ gen'[g].errors = gen[g].errors
        BY <2>0, <3>2 DEF RowType, Leases
      <3>4. item'[w][g] = [at |-> "claimed", lease |-> gen[g].lease]
        BY <1>1, <2>2
      <3>. QED BY <1>0, <2>0, <2>2, <3>1, <3>3, <3>4 DEF Story, ItemType, Claimable
    <2>3. CASE ~Exhausted(g) /\ ~Claimable(g)
      <3>1. gen'[g] = gen[g] /\ message'[g] = message[g] /\ item'[w][g] = NoItem
        BY <1>1, <2>3
      <3>. QED BY <1>0, <2>0, <2>3, <3>1 DEF Story, ItemType
    <2>. QED BY <2>1, <2>2, <2>3
  <1>3. TypeOK'
    BY <1>0, <1>2 DEF Claim, GenerationInv, TypeOK
  <1>4. ASSUME NEW g \in Gens PROVE Account(g)'
    <2>0. /\ IsFiniteSet(Holders(g)) /\ Cardinality(Holders(g)) \in Nat /\ w \notin Holders(g)
          /\ Cardinality(Readers(g)) \in Nat
          /\ billed[g] + Cardinality(Holders(g)) <= gen[g].count + gen[g].errors + returned[g]
          /\ Cardinality(Holders(g)) <= gen[g].count /\ gen[g].count <= MaxAttempts
          /\ gen[g].errors + Cardinality(Readers(g)) <= MaxErrors + (MaxAttempts - 1)
          /\ billed[g] \in Nat /\ returned[g] \in Nat /\ gen[g].count \in Int /\ gen[g].errors \in Int
      <3>1. IsFiniteSet(Holders(g)) /\ w \notin Holders(g)
        BY <1>1 DEF GenerationInv, Account, Holders
      <3>2. Cardinality(Holders(g)) \in Nat /\ Cardinality(Readers(g)) \in Nat
        BY <3>1, Countable
      <3>3. /\ billed[g] + Cardinality(Holders(g)) <= gen[g].count + gen[g].errors + returned[g]
            /\ Cardinality(Holders(g)) <= gen[g].count /\ gen[g].count <= MaxAttempts
            /\ gen[g].errors + Cardinality(Readers(g)) <= MaxErrors + (MaxAttempts - 1)
        BY DEF GenerationInv, Account
      <3>4. billed[g] \in Nat /\ returned[g] \in Nat /\ gen[g].count \in Int /\ gen[g].errors \in Int
        BY DEF GenerationInv, TypeOK, RowType
      <3>. QED BY <3>1, <3>2, <3>3, <3>4
    <2>1. Readers(g)' = Readers(g)
      <3>0. item'[w][g] = [at |-> "claimed", lease |-> gen[g].lease] \/ item'[w][g] = NoItem
        BY <1>1
      <3>1. item[w][g].at # "call" /\ item'[w][g].at # "call"
        BY <1>1, <3>0 DEF NoItem
      <3>2. \A v \in Workers \ {w} : item'[v][g] = item[v][g]
        BY <1>1
      <3>. QED BY <3>1, <3>2 DEF Readers
    <2>2. CASE Claimable(g)
      <3>1. item'[w][g] = [at |-> "claimed", lease |-> gen[g].lease]
        BY <1>1, <2>2
      <3>2. item'[w][g] # NoItem
        BY <3>1 DEF NoItem
      <3>3. \A v \in Workers \ {w} : item'[v][g] = item[v][g]
        BY <1>1
      <3>4. Holders(g)' = Holders(g) \union {w}
        BY <3>2, <3>3 DEF Holders
      <3>5. IsFiniteSet(Holders(g) \union {w}) /\ Cardinality(Holders(g) \union {w}) = Cardinality(Holders(g)) + 1
        BY <2>0, FS_AddElement
      <3>. QED BY <1>0, <1>2, <2>0, <2>1, <2>2, <3>4, <3>5 DEF Account
    <2>3. CASE ~Claimable(g)
      <3>1. Holders(g)' = Holders(g)
        BY <1>1, <2>3 DEF Holders
      <3>. QED BY <1>0, <1>2, <2>0, <2>1, <2>3, <3>1 DEF Account
    <2>. QED BY <2>2, <2>3
  <1>. QED
    BY <1>2, <1>3, <1>4 DEF GenerationInv, GenerationMatchesMessage, Story

\* A row of the chunk is loaded, or given back.
LEMMA LoadStep ==
    ASSUME GenerationInv, NEW w \in Workers, NEW g \in Gens, Load(w, g)
    PROVE  GenerationInv'
PROOF
  <1>. DEFINE r == AbandonOpenAttempts(gen[g])
  <1>0. /\ item[w][g].at = "claimed" /\ item[w][g] # NoItem
        /\ UNCHANGED <<message, rendered, billed, returned>>
    BY DEF Load, historyVars, NoItem
  <1>1. /\ r \in RowType /\ r.state = gen[g].state /\ r.count = gen[g].count /\ r.errors = gen[g].errors
        /\ gen[g] \in RowType /\ gen[g].count \in Int /\ gen[g].errors \in Int
    BY DEF AbandonOpenAttempts, GenerationInv, TypeOK, RowType
  <1>. HIDE DEF r
  <1>2. CASE End(w, g, Refunded(r))
    <2>. PICK s \in RowType : s = Refunded(r) /\ s.state = gen[g].state /\ s.errors = gen[g].errors
                              /\ s.count \in {gen[g].count, gen[g].count - 1}
      BY <1>1, ReleasedRows
    <2>1. TypeOK'
      BY <1>0, <1>2 DEF GenerationInv, TypeOK, End, ItemType
    <2>2. Story(g)'
      BY <1>0, <1>2 DEF GenerationInv, GenerationMatchesMessage, Story, End, TypeOK
    <2>3. billed'[g] - returned'[g] <= billed[g] - returned[g] + 1 + (s.count - gen[g].count)
                                         + (s.errors - gen[g].errors)
      BY <1>0, <1>1 DEF GenerationInv, TypeOK
    <2>. QED BY <1>0, <1>1, <1>2, <2>1, <2>2, <2>3, EndEffect
  <1>3. CASE gen' = [gen EXCEPT ![g] = InsertAttempt(r)] /\ item' = [item EXCEPT ![w][g] = WorkItem(g)]
    <2>1. Like(gen[g], InsertAttempt(r))
      BY <1>1, LedgerRows DEF Like
    <2>2. WorkItem(g) \in ItemType /\ WorkItem(g) # NoItem /\ WorkItem(g).errors = gen[g].errors
      BY <1>1 DEF WorkItem, ItemType, NoItem, RowType
    <2>3. TypeOK'
      BY <1>0, <1>3, <2>1, <2>2 DEF GenerationInv, TypeOK, Like
    <2>4. \A h \in Gens : /\ gen'[h].state = gen[h].state /\ gen'[h].count = gen[h].count
                          /\ gen'[h].errors = gen[h].errors
      BY <1>3, <2>1 DEF GenerationInv, TypeOK, Like
    <2>5. \A v \in Workers, h \in Gens : item'[v][h] # NoItem <=> item[v][h] # NoItem
      BY <1>0, <1>3, <2>2 DEF GenerationInv, TypeOK
    <2>6. \A h \in Gens : Holders(h)' = Holders(h)
      BY <2>5 DEF Holders
    <2>7. ASSUME NEW h \in Gens
          PROVE  gen'[h].errors + Cardinality(Readers(h)') <= MaxErrors + (MaxAttempts - 1)
      <3>0. /\ IsFiniteSet(Holders(h)) /\ Cardinality(Holders(h)) <= gen[h].count /\ gen[h].count <= MaxAttempts
            /\ gen[h].errors + Cardinality(Readers(h)) <= MaxErrors + (MaxAttempts - 1)
            /\ gen[h].errors \in Int /\ gen[h].count \in Int /\ MaxErrors \in Int /\ MaxAttempts \in Int
        BY GenerationAssumption DEF GenerationInv, Account, TypeOK, RowType
      <3>1. CASE h = g /\ gen[g].errors < MaxErrors
        <4>1. Readers(h)' \subseteq Holders(h)
          BY <2>5 DEF Readers, Holders, NoItem
        <4>2. /\ Cardinality(Readers(h)') \in Nat /\ Cardinality(Holders(h)) \in Nat
              /\ Cardinality(Readers(h)') <= Cardinality(Holders(h))
          BY <3>0, <4>1, FS_Subset, FS_CardinalityType
        <4>. QED BY <2>4, <3>0, <3>1, <4>2
      <3>2. CASE h # g \/ ~(gen[g].errors < MaxErrors)
        <4>1. \A v \in Workers : v # w \/ h # g => item'[v][h] = item[v][h]
          BY <1>3 DEF GenerationInv, TypeOK
        <4>2. h = g => item[w][g].at # "call" /\ ~(item'[w][g].errors < MaxErrors)
          BY <1>0, <1>3, <2>2, <3>2 DEF GenerationInv, TypeOK
        <4>3. Readers(h)' = Readers(h)
          BY <4>1, <4>2 DEF Readers
        <4>. QED BY <2>4, <3>0, <4>3
      <3>. QED BY <3>1, <3>2
    <2>8. ASSUME NEW h \in Gens PROVE Account(h)'
      BY <1>0, <2>4, <2>6, <2>7 DEF GenerationInv, Account
    <2>. QED
      BY <1>0, <2>3, <2>4, <2>8 DEF GenerationInv, GenerationMatchesMessage
  <1>. QED
    BY <1>2, <1>3 DEF Load, Refunded, r

\* A worker that ends without an answer, or without knowing of one: the message is what
\* it was, or fails with its generation.
LEMMA UnansweredStep ==
    ASSUME GenerationInv, NEW w \in Workers, NEW g \in Gens,
           AbortIneligible(w, g) \/ DeferPaused(w, g) \/ PermanentError(w, g) \/ TransientError(w, g)
    PROVE  GenerationInv'
PROOF
  <1>0. /\ item[w][g].at = "call" /\ UNCHANGED <<rendered, returned>>
        /\ \/ billed' = billed
           \/ billed' = [billed EXCEPT ![g] = @ + 1] /\ TransientError(w, g)
    BY DEF AbortIneligible, DeferPaused, PermanentError, TransientError, Calls, Ready, Billed, historyVars
  <1>1. /\ Finished(w, g) \in RowType /\ gen[g] \in RowType /\ gen[g].count \in Int /\ gen[g].errors \in Int
        /\ Finished(w, g).state = gen[g].state /\ Finished(w, g).count = gen[g].count
        /\ Finished(w, g).errors = gen[g].errors
        /\ item[w][g] # NoItem
    BY <1>0, FinishedRow DEF GenerationInv, RowType
  <1>2. PICK s \in RowType :
          /\ End(w, g, s)
          /\ \/ /\ s.count \in {gen[g].count, gen[g].count - 1} /\ s.errors = gen[g].errors
                /\ billed' = billed
             \/ s.count = gen[g].count /\ s.errors = gen[g].errors
             \/ /\ s.count = gen[g].count /\ s.errors = gen[g].errors + 1
                /\ w \in Readers(g)
             \/ /\ s.count = gen[g].count - 1 /\ s.errors = gen[g].errors + 1
                /\ w \in Readers(g)
          /\ \/ s.state = gen[g].state /\ message' = message
             \/ s.state = (IF gen[g].state = "PENDING" THEN "SUPERSEDED" ELSE gen[g].state) /\ message' = message
             \/ /\ s.state = (IF gen[g].state = "PENDING" THEN "FAILED" ELSE gen[g].state)
                /\ message' = [message EXCEPT ![g] = FailMessage(@)]
    <2>1. CASE AbortIneligible(w, g)
      BY <1>1, <2>1, DecidedRows DEF AbortIneligible
    <2>2. CASE DeferPaused(w, g) \/ PermanentError(w, g)
      <3>1. End(w, g, Refunded(Finished(w, g))) /\ message' = message /\ billed' = billed
        BY <2>2 DEF DeferPaused, PermanentError, Refunded, historyVars
      <3>. QED BY <1>1, <3>1, ReleasedRows
    <2>3. CASE TransientError(w, g)
      <3>1. CASE Fail(w, g)
        BY <1>1, <3>1, DecidedRows DEF Fail
      <3>2. CASE /\ End(w, g, Excused(Finished(w, g))) /\ UNCHANGED message
                 /\ ~(item[w][g].errors + 1 > MaxErrors)
        <4>1. w \in Readers(g)
          <5>1. item[w][g].errors \in Int /\ MaxErrors \in Int
            BY <1>0, GenerationAssumption DEF GenerationInv, TypeOK, ItemType, NoItem
          <5>. QED BY <1>0, <3>2, <5>1 DEF Readers
        <4>. QED BY <1>1, <3>2, <4>1, ReleasedRows
      <3>. QED BY <2>3, <3>1, <3>2 DEF TransientError, Excused
    <2>. QED BY <2>1, <2>2, <2>3
  <1>3. TypeOK'
    <2>1. billed' \in [Gens -> Nat]
      BY <1>0 DEF GenerationInv, TypeOK
    <2>. QED BY <1>0, <1>2, <2>1 DEF GenerationInv, TypeOK, End, ItemType, FailMessage
  <1>4. Story(g)'
    BY <1>0, <1>2 DEF GenerationInv, GenerationMatchesMessage, Story, End, FailMessage, TypeOK
  <1>5. \A h \in Gens \ {g} : message'[h] = message[h] /\ billed'[h] = billed[h]
    BY <1>0, <1>2 DEF GenerationInv, TypeOK
  <1>6. /\ s.count \in {gen[g].count, gen[g].count - 1}
        /\ s.errors = gen[g].errors \/ (s.errors = gen[g].errors + 1 /\ w \in Readers(g))
    BY <1>2
  <1>7. billed'[g] - returned'[g] <= billed[g] - returned[g] + 1 + (s.count - gen[g].count)
                                       + (s.errors - gen[g].errors)
    <2>1. /\ billed[g] \in Nat /\ returned[g] \in Nat /\ returned'[g] = returned[g]
          /\ billed'[g] \in {billed[g], billed[g] + 1} /\ (billed' = billed => billed'[g] = billed[g])
      BY <1>0 DEF GenerationInv, TypeOK
    <2>. QED BY <1>1, <1>2, <2>1
  <1>. QED
    BY <1>0, <1>1, <1>2, <1>3, <1>4, <1>5, <1>6, <1>7, EndEffect

\* A worker that ends with an answer: refused, it has cost an attempt; written, the
\* generation has its message; found paused, the attempt is given back once.
LEMMA AnsweredStep ==
    ASSUME GenerationInv, NEW w \in Workers, NEW g \in Gens, Reject(w, g) \/ Finalize(w, g)
    PROVE  GenerationInv'
PROOF
  <1>0. /\ item[w][g].at = "call" /\ billed' = [billed EXCEPT ![g] = @ + 1]
        /\ gen[g] \in RowType /\ gen[g].state \in States /\ gen[g].count \in Int /\ gen[g].errors \in Int
    BY DEF Reject, Finalize, Calls, Ready, Billed, GenerationInv, TypeOK, RowType
  <1>1. /\ Finished(w, g) \in RowType
        /\ Finished(w, g).state = gen[g].state /\ Finished(w, g).count = gen[g].count
        /\ Finished(w, g).errors = gen[g].errors
        /\ item[w][g] # NoItem
    BY <1>0, FinishedRow DEF GenerationInv
  <1>2. PICK s \in RowType :
          /\ End(w, g, s) /\ s.errors = gen[g].errors
          /\ \/ /\ s.count = gen[g].count /\ returned' = returned
             \/ /\ s.count \in {gen[g].count, gen[g].count - 1} /\ returned' = [returned EXCEPT ![g] = @ + 1]
          /\ \/ /\ s.state \in {gen[g].state, IF gen[g].state = "PENDING" THEN "SUPERSEDED" ELSE gen[g].state}
                /\ message' = message /\ rendered' = rendered
             \/ /\ s.state = (IF gen[g].state = "PENDING" THEN "FAILED" ELSE gen[g].state)
                /\ message' = [message EXCEPT ![g] = FailMessage(@)] /\ rendered' = rendered
             \/ /\ gen[g].state = "PENDING" /\ s.state = "SUCCEEDED"
                /\ message' = [message EXCEPT ![g] = "SCHEDULED"]
                /\ rendered' = [rendered EXCEPT ![g] = @ + 1]
    <2>1. CASE Reject(w, g)
      <3>1. CASE Fail(w, g)
        BY <1>1, <2>1, <3>1, DecidedRows DEF Reject, Fail
      <3>2. CASE End(w, g, Spent(Finished(w, g))) /\ UNCHANGED message
        BY <1>1, <2>1, <3>2, ReleasedRows DEF Reject, Like
      <3>. QED BY <2>1, <3>1, <3>2 DEF Reject, Spent
    <2>2. CASE Finalize(w, g)
      <3>1. CASE End(w, g, SupersedeGeneration(Finished(w, g))) /\ UNCHANGED <<message, rendered, returned>>
        BY <1>1, <3>1, DecidedRows
      <3>2. CASE /\ End(w, g, Refunded(Finished(w, g)))
                 /\ returned' = [returned EXCEPT ![g] = @ + 1] /\ UNCHANGED <<message, rendered>>
        BY <1>1, <3>2, ReleasedRows
      <3>3. CASE /\ Eligible(g) /\ FinalizeMessage(g) /\ End(w, g, CompleteGeneration(Finished(w, g)))
                 /\ UNCHANGED returned
        BY <1>1, <3>3, DecidedRows DEF Eligible, FinalizeMessage
      <3>. QED BY <2>2, <3>1, <3>2, <3>3 DEF Finalize, Refunded
    <2>. QED BY <2>1, <2>2
  <1>3. TypeOK'
    <2>1. billed' \in [Gens -> Nat] /\ rendered' \in [Gens -> Nat] /\ returned' \in [Gens -> Nat]
      BY <1>0, <1>2 DEF GenerationInv, TypeOK
    <2>2. message' \in [Gens -> {"PLANNED", "SCHEDULED", "FAILED", "SKIPPED"}]
      BY <1>2 DEF GenerationInv, TypeOK, FailMessage
    <2>3. gen' \in [Gens -> RowType] /\ item' \in [Workers -> [Gens -> ItemType]]
      BY <1>2 DEF GenerationInv, TypeOK, End, ItemType
    <2>. QED BY <2>1, <2>2, <2>3 DEF TypeOK
  <1>4. Story(g) /\ rendered[g] \in Nat /\ message[g] \in {"PLANNED", "SCHEDULED", "FAILED", "SKIPPED"}
    BY DEF GenerationInv, GenerationMatchesMessage, Story, TypeOK
  <1>5. gen'[g] = s
    BY <1>2 DEF End, GenerationInv, TypeOK
  <1>6. Story(g)'
    BY <1>0, <1>2, <1>4, <1>5 DEF GenerationInv, Story, FailMessage, TypeOK
  <1>7. \A h \in Gens \ {g} : /\ message'[h] = message[h] /\ rendered'[h] = rendered[h]
                              /\ billed'[h] = billed[h] /\ returned'[h] = returned[h]
    BY <1>0, <1>2 DEF GenerationInv, TypeOK
  <1>8. /\ s.count \in {gen[g].count, gen[g].count - 1}
        /\ billed'[g] - returned'[g] <= billed[g] - returned[g] + 1 + (s.count - gen[g].count)
                                          + (s.errors - gen[g].errors)
    <2>1. billed'[g] = billed[g] + 1 /\ billed[g] \in Nat /\ returned[g] \in Nat
      BY <1>0 DEF GenerationInv, TypeOK
    <2>2. CASE s.count = gen[g].count /\ returned' = returned
      BY <1>0, <1>2, <2>1, <2>2
    <2>3. CASE s.count \in {gen[g].count, gen[g].count - 1} /\ returned' = [returned EXCEPT ![g] = @ + 1]
      <3>1. returned'[g] = returned[g] + 1
        BY <2>3 DEF GenerationInv, TypeOK
      <3>. QED BY <1>0, <1>2, <2>1, <2>3, <3>1
    <2>. QED BY <1>2, <2>2, <2>3
  <1>. QED
    BY <1>1, <1>2, <1>3, <1>6, <1>7, <1>8, EndEffect

\* A worker that dies gives nothing back, or undoes the chunk it had not committed.
\* The call it waited for may have been answered: its attempt stays used up.
LEMMA CrashStep ==
    ASSUME GenerationInv, NEW w \in Workers, Crash(w)
    PROVE  GenerationInv'
PROOF
  <1>0. /\ item' = [item EXCEPT ![w] = [g \in Gens |-> NoItem]]
        /\ UNCHANGED <<message, rendered, returned>>
    BY DEF Crash
  <1>a. /\ billed' \in [Gens -> Nat]
        /\ \A g \in Gens : \/ billed'[g] = billed[g]
                           \/ /\ billed'[g] = billed[g] + 1 /\ gen' = gen
                              /\ item[w][g] # NoItem
    <2>1. CASE billed' = billed
      BY <2>1 DEF GenerationInv, TypeOK
    <2>2. ASSUME NEW g \in Gens, Calls(w, g), Billed(g)
          PROVE  /\ item[w][g] # NoItem /\ gen' = gen /\ billed' \in [Gens -> Nat]
                 /\ \A h \in Gens : billed'[h] = billed[h] \/ (h = g /\ billed'[h] = billed[h] + 1)
      BY <2>2 DEF Calls, Ready, Billed, Crash, NoItem, GenerationInv, TypeOK
    <2>3. billed' = billed \/ \E g \in Gens : Calls(w, g) /\ Billed(g)
      BY DEF Crash
    <2>. QED BY <2>1, <2>2, <2>3
  <1>1. ASSUME NEW g \in Gens
        PROVE  /\ gen'[g] \in RowType /\ gen'[g].state = gen[g].state /\ gen'[g].errors = gen[g].errors
               /\ gen'[g].count = gen[g].count \/ (gen'[g].count = gen[g].count - 1 /\ item[w][g] # NoItem)
    <2>0. gen[g] \in RowType /\ gen[g].count \in Int
      BY DEF GenerationInv, TypeOK, RowType
    <2>1. CASE item[w][g].at = "claimed" /\ ~Loaded(w)
      <3>. PICK n \in Int : n = gen[g].count - 1
        BY <2>0
      <3>1. gen'[g] = [gen[g] EXCEPT !.count = n, !.lease = item[w][g].lease]
        BY <2>0, <2>1 DEF Crash, RowType
      <3>2. item[w][g].lease \in Leases /\ item[w][g] # NoItem
        BY <2>1 DEF GenerationInv, TypeOK, ItemType, NoItem
      <3>3. gen'[g] \in RowType /\ gen'[g].state = gen[g].state /\ gen'[g].count = n
            /\ gen'[g].errors = gen[g].errors
        BY <2>0, <3>1, <3>2 DEF RowType
      <3>. QED BY <2>0, <3>2, <3>3
    <2>2. CASE item[w][g].at # "claimed" \/ Loaded(w)
      <3>1. gen'[g] = gen[g]
        BY <2>2 DEF Crash
      <3>. QED BY <2>0, <3>1
    <2>. QED BY <2>1, <2>2
  <1>2. gen' = [g \in Gens |-> gen'[g]]
    BY DEF Crash, GenerationInv, TypeOK
  <1>3. TypeOK'
    <2>1. gen' \in [Gens -> RowType]
      BY <1>1, <1>2
    <2>2. item' \in [Workers -> [Gens -> ItemType]]
      BY <1>0 DEF GenerationInv, TypeOK, ItemType
    <2>. QED BY <1>0, <1>a, <2>1, <2>2 DEF GenerationInv, TypeOK
  <1>4. ASSUME NEW g \in Gens PROVE Account(g)'
    <2>0. /\ IsFiniteSet(Holders(g)) /\ Cardinality(Holders(g)) \in Nat
          /\ IsFiniteSet(Readers(g)) /\ Cardinality(Readers(g)) \in Nat
          /\ billed[g] + Cardinality(Holders(g)) <= gen[g].count + gen[g].errors + returned[g]
          /\ Cardinality(Holders(g)) <= gen[g].count /\ gen[g].count <= MaxAttempts
          /\ gen[g].errors + Cardinality(Readers(g)) <= MaxErrors + (MaxAttempts - 1)
          /\ billed[g] \in Nat /\ returned[g] \in Nat /\ gen[g].count \in Int /\ gen[g].errors \in Int
          /\ MaxAttempts \in Int /\ MaxErrors \in Int
      BY Countable, GenerationAssumption DEF GenerationInv, Account, TypeOK, RowType
    <2>1. item'[w][g] = NoItem /\ \A v \in Workers \ {w} : item'[v][g] = item[v][g]
      BY <1>0 DEF GenerationInv, TypeOK
    <2>2. Holders(g)' = Holders(g) \ {w}
      BY <2>1 DEF Holders
    <2>3. Readers(g)' \subseteq Readers(g)
      BY <2>1 DEF Readers, NoItem
    <2>4. Cardinality(Readers(g)') \in Nat /\ Cardinality(Readers(g)') <= Cardinality(Readers(g))
      BY <2>0, <2>3, FS_Subset, FS_CardinalityType
    <2>5. gen'[g].errors + Cardinality(Readers(g)') <= MaxErrors + (MaxAttempts - 1)
      BY <1>1, <2>0, <2>4
    <2>6. CASE item[w][g] # NoItem
      <3>1. w \in Holders(g)
        BY <2>6 DEF Holders
      <3>2. IsFiniteSet(Holders(g) \ {w}) /\ Cardinality(Holders(g) \ {w}) = Cardinality(Holders(g)) - 1
        BY <2>0, <3>1, FS_RemoveElement
      <3>3. gen' = gen => gen'[g].count = gen[g].count
        OBVIOUS
      <3>. QED BY <1>0, <1>a, <1>1, <2>0, <2>2, <2>5, <3>2, <3>3 DEF Account
    <2>7. CASE item[w][g] = NoItem
      <3>1. Holders(g)' = Holders(g)
        BY <2>2, <2>7 DEF Holders
      <3>. QED BY <1>0, <1>a, <1>1, <2>0, <2>5, <2>7, <3>1 DEF Account
    <2>. QED BY <2>6, <2>7
  <1>5. ASSUME NEW g \in Gens PROVE Story(g)'
    BY <1>0, <1>1 DEF GenerationInv, GenerationMatchesMessage, Story
  <1>. QED
    BY <1>3, <1>4, <1>5 DEF GenerationInv, GenerationMatchesMessage, Story

\* Leases run out and rows become due.
LEMMA ClockStep ==
    ASSUME GenerationInv, NEW g \in Gens, Expire(g) \/ Due(g)
    PROVE  GenerationInv'
PROOF
  <1>0. UNCHANGED <<message, rendered, item, billed, returned>>
        /\ (gen' = [gen EXCEPT ![g].lease = "expired"] \/ gen' = [gen EXCEPT ![g].due = TRUE])
    BY DEF Expire, Due, historyVars
  <1>1. gen[g] \in RowType
    BY DEF GenerationInv, TypeOK
  <1>2. /\ [gen[g] EXCEPT !.lease = "expired"] \in RowType /\ [gen[g] EXCEPT !.due = TRUE] \in RowType
    BY <1>1 DEF RowType, Leases
  <1>3. TypeOK'
    BY <1>0, <1>2 DEF GenerationInv, TypeOK
  <1>4. ASSUME NEW h \in Gens
        PROVE  /\ gen'[h].state = gen[h].state /\ gen'[h].count = gen[h].count
               /\ gen'[h].errors = gen[h].errors
    <2>1. gen'[h] = gen[h] \/ gen'[h] = [gen[h] EXCEPT !.lease = "expired"] \/ gen'[h] = [gen[h] EXCEPT !.due = TRUE]
      BY <1>0 DEF GenerationInv, TypeOK
    <2>2. gen[h] \in RowType
      BY DEF GenerationInv, TypeOK
    <2>. QED BY <2>1, <2>2 DEF RowType
  <1>5. \A h \in Gens : Story(h)'
    BY <1>0, <1>4 DEF GenerationInv, GenerationMatchesMessage, Story
  <1>. QED
    BY <1>0, <1>3, <1>4, <1>5, QuietEffect

\* What touches no generation: the scheduler, the day, the campaign, a suppression,
\* and a stop, which takes the message out of a sender's reach.
LEMMA WorldStep ==
    ASSUME GenerationInv,
           \/ Sweep \/ NewDay \/ Pause \/ Resume \/ UNCHANGED vars
           \/ \E g \in Gens : Stop(g) \/ Suppress(g)
    PROVE  GenerationInv'
PROOF
  <1>0. UNCHANGED <<gen, rendered, item, billed, returned>>
    BY DEF Sweep, NewDay, Pause, Resume, Stop, Suppress, Others, historyVars, vars
  <1>1. /\ message' \in [Gens -> {"PLANNED", "SCHEDULED", "FAILED", "SKIPPED"}]
        /\ \A g \in Gens : message'[g] = message[g] \/ message'[g] = "SKIPPED"
    BY DEF Sweep, NewDay, Pause, Resume, Stop, Suppress, vars, GenerationInv, TypeOK
  <1>2. TypeOK'
    BY <1>0, <1>1 DEF GenerationInv, TypeOK
  <1>3. \A g \in Gens : Story(g)'
    BY <1>0, <1>1 DEF GenerationInv, GenerationMatchesMessage, Story
  <1>. QED
    BY <1>0, <1>2, <1>3, QuietEffect

-----------------------------------------------------------------------------
(* The theorems *)

\* The initial states satisfy the invariant.
LEMMA AtTheStart == Init => GenerationInv
PROOF
  <1>. SUFFICES ASSUME Init PROVE GenerationInv
    OBVIOUS
  <1>1. TypeOK
    BY DEF Init, TypeOK, RowType, States, Leases, ItemType
  <1>2. GenerationMatchesMessage
    BY DEF Init, GenerationMatchesMessage
  <1>3. ASSUME NEW g \in Gens PROVE Account(g)
    <2>1. Holders(g) = {} /\ Readers(g) = {}
      BY DEF Init, Holders, Readers, NoItem
    <2>2. IsFiniteSet(Holders(g)) /\ Cardinality(Holders(g)) = 0 /\ Cardinality(Readers(g)) = 0
      BY <2>1, FS_EmptySet
    <2>. QED BY <2>2, GenerationAssumption DEF Init, Account
  <1>. QED
    BY <1>1, <1>2, <1>3 DEF GenerationInv

\* The invariant holds in every reachable state.
THEOREM GenerationInvariance == Spec => []GenerationInv
PROOF
  <1>1. ASSUME GenerationInv, [Next]_vars PROVE GenerationInv'
    <2>1. CASE Sweep \/ NewDay \/ Pause \/ Resume \/ UNCHANGED vars
      BY <1>1, <2>1, WorldStep
    <2>2. ASSUME NEW w \in Workers, Claim(w) \/ Crash(w) PROVE GenerationInv'
      BY <1>1, <2>2, ClaimStep, CrashStep
    <2>3. ASSUME NEW w \in Workers, NEW g \in Gens, Load(w, g) \/ Process(w, g) \/ PermanentError(w, g)
          PROVE  GenerationInv'
      BY <1>1, <2>3, LoadStep, UnansweredStep, AnsweredStep DEF Process
    <2>4. ASSUME NEW g \in Gens, Due(g) \/ Expire(g) PROVE GenerationInv'
      BY <1>1, <2>4, ClockStep
    <2>5. ASSUME NEW g \in Gens, Stop(g) \/ Suppress(g) PROVE GenerationInv'
      BY <1>1, <2>5, WorldStep
    <2>. QED
      BY <1>1, <2>1, <2>2, <2>3, <2>4, <2>5 DEF Next, Work, Time
  <1>. QED
    BY AtTheStart, <1>1, PTL DEF Spec

\* GenerationMatchesMessage: however leases run out and workers overtake each other,
\* a generation is written at most once and a message is never sent without it.
THEOREM GenerationHasItsMessage == Spec => []GenerationMatchesMessage
PROOF
  <1>1. GenerationInv => GenerationMatchesMessage
    BY DEF GenerationInv
  <1>. QED
    BY GenerationInvariance, <1>1, PTL

\* BilledBounded, for any number of workers: every claim is paid for when it is made,
\* so the model answers no more often than max_attempts, but for the attempts given
\* back after an answer; and the transient errors, which give attempts back, exceed
\* max_transient_errors by less than max_attempts.
THEOREM CallsAreBounded == Spec => []BilledBounded
PROOF
  <1>1. ASSUME GenerationInv, NEW g \in Gens
        PROVE  /\ billed[g] <= MaxAttempts + gen[g].errors + returned[g]
               /\ gen[g].errors <= MaxErrors + (MaxAttempts - 1)
    <2>1. Cardinality(Holders(g)) \in Nat /\ Cardinality(Readers(g)) \in Nat
      BY <1>1, Countable DEF GenerationInv, Account
    <2>. QED BY <1>1, <2>1, GenerationAssumption DEF GenerationInv, Account, TypeOK, RowType
  <1>2. GenerationInv => BilledBounded
    BY <1>1 DEF BilledBounded
  <1>. QED
    BY GenerationInvariance, <1>2, PTL

-----------------------------------------------------------------------------
(* Drafting: what somebody approved *)

\* The digests approved, and what was in front of who approved them.
ReviewInv ==
    /\ batch = [b \in Batches |-> [digest |-> batch[b].digest, state |-> batch[b].state]]
    /\ \A b \in Batches : batch[b].state \in [Emails -> {"none", "PENDING", "OK", "FAILED"}]
    /\ \A d \in approvals : \E b \in Batches :
          batch[b] # NoBatch /\ batch[b].digest = d /\ AllOk(b)
    /\ status = "RUNNING" => frozen.digest \in approvals

-----------------------------------------------------------------------------
(* The versions of the steps *)

Alive(r) == r.pos > 0

\* A table of steps: the version of a step counts its writes from one, so a row
\* id without a version has no row.
Table(r) ==
    /\ r = [s \in Steps |-> [pos |-> r[s].pos, ver |-> r[s].ver, text |-> r[s].text]]
    /\ \A s \in Steps : r[s].ver \in Nat /\ (Alive(r[s]) => r[s].ver > 0)

\* A version is raised by what writes a text, and an id is not used again.
Onward(old, new) ==
    \A s \in Steps :
        /\ old[s].ver <= new[s].ver
        /\ Alive(new[s]) => Alive(old[s]) \/ old[s].ver = 0
        /\ Alive(new[s]) /\ new[s].ver = old[s].ver => new[s].text = old[s].text

\* No step there before and after has another text.
Kept(old, new) ==
    \A s \in Steps : Alive(old[s]) /\ Alive(new[s]) => new[s].text = old[s].text

\* A step is as it was read, unless its version says that it is not.
Behind(old, new) ==
    /\ old.ver \in Nat /\ old.ver <= new.ver
    /\ Alive(new) /\ new.ver = old.ver => new.text = old.text

\* What a request that replaces texts has in front of it is the row, or an older
\* version of it.
RequestInv(u) ==
    /\ op[u].kind = "edit" =>
          op[u].step \in Emails /\ Behind(op[u].seen, row[op[u].step])
    /\ op[u].kind = "draft" =>
          /\ op[u] = [kind |-> "draft", stage |-> op[u].stage, seen |-> op[u].seen,
                      config |-> op[u].config, targets |-> op[u].targets]
          /\ op[u].targets \subseteq Emails
          /\ \A s \in Steps : Behind(op[u].seen[s], row[s])

VersionInv ==
    /\ Table(row)
    /\ op = [u \in Users |-> op[u]]
    /\ \A u \in Users : RequestInv(u)

-----------------------------------------------------------------------------
(* What the writes do to the table *)

Moves(old, new) == Table(new) /\ Onward(old, new) /\ Kept(old, new)

\* Writes follow each other.
LEMMA MovesFollow ==
    ASSUME NEW r, Table(r), NEW mid, Moves(r, mid), NEW new, Moves(mid, new)
    PROVE  Moves(r, new)
PROOF
  <1>1. Table(mid) /\ Table(new)
    BY DEF Moves
  <1>. SUFFICES ASSUME NEW s \in Steps
                PROVE  /\ r[s].ver <= new[s].ver
                       /\ Alive(new[s]) => Alive(r[s]) \/ r[s].ver = 0
                       /\ Alive(new[s]) /\ new[s].ver = r[s].ver => new[s].text = r[s].text
                       /\ Alive(r[s]) /\ Alive(new[s]) => new[s].text = r[s].text
    BY <1>1 DEF Moves, Onward, Kept
  <1>2. r[s].ver \in Nat /\ mid[s].ver \in Nat /\ new[s].ver \in Nat /\ r[s].ver <= mid[s].ver /\ mid[s].ver <= new[s].ver
    BY <1>1 DEF Moves, Onward, Table
  <1>3. Alive(new[s]) => Alive(mid[s]) \/ mid[s].ver = 0
    BY DEF Moves, Onward
  <1>4. Alive(mid[s]) => Alive(r[s]) \/ r[s].ver = 0
    BY DEF Moves, Onward
  <1>5. /\ Alive(r[s]) => r[s].ver > 0
        /\ Alive(mid[s]) => mid[s].ver > 0
        /\ Alive(new[s]) => new[s].ver > 0
    BY <1>1 DEF Table
  <1>6. /\ Alive(new[s]) /\ new[s].ver = mid[s].ver => new[s].text = mid[s].text
        /\ Alive(mid[s]) /\ mid[s].ver = r[s].ver => mid[s].text = r[s].text
        /\ Alive(mid[s]) /\ Alive(new[s]) => new[s].text = mid[s].text
        /\ Alive(r[s]) /\ Alive(mid[s]) => mid[s].text = r[s].text
    BY DEF Moves, Onward, Kept
  <1>. QED BY <1>2, <1>3, <1>4, <1>5, <1>6

\* Applying a list moves rows and changes nothing else of them.
LEMMA RepositionMoves ==
    ASSUME NEW r, Table(r), NEW ordering
    PROVE  /\ Moves(r, Reposition(r, ordering))
           /\ \A s \in Steps : r[s].ver = 0 => Reposition(r, ordering)[s].ver = 0
PROOF
  <1>. PICK new : new = Reposition(r, ordering)
    OBVIOUS
  <1>1. new = [s \in Steps |-> IF s \in Live(r) \cap DOMAIN ordering
                               THEN [r[s] EXCEPT !.pos = ordering[s], !.ver = @ + 1]
                               ELSE r[s]]
    BY DEF Reposition
  <1>2. ASSUME NEW s \in Steps
        PROVE  /\ new[s] = [pos |-> new[s].pos, ver |-> new[s].ver, text |-> new[s].text]
               /\ new[s].text = r[s].text
               /\ \/ new[s].ver = r[s].ver + 1 /\ Alive(r[s])
                  \/ new[s].ver = r[s].ver /\ (Alive(new[s]) => Alive(r[s]))
    <2>1. r[s] = [pos |-> r[s].pos, ver |-> r[s].ver, text |-> r[s].text]
      BY DEF Table
    <2>2. CASE s \in Live(r) \cap DOMAIN ordering
      <3>1. new[s] = [r[s] EXCEPT !.pos = ordering[s], !.ver = r[s].ver + 1]
        BY <1>1, <2>2
      <3>2. new[s] = [pos |-> ordering[s], ver |-> r[s].ver + 1, text |-> r[s].text]
        BY <2>1, <3>1
      <3>. QED BY <2>2, <3>2 DEF Live, Alive
    <2>3. CASE s \notin Live(r) \cap DOMAIN ordering
      <3>1. new[s] = r[s]
        BY <1>1, <2>3
      <3>. QED BY <2>1, <3>1
    <2>. QED BY <2>2, <2>3
  <1>3. \A s \in Steps : r[s].ver \in Nat /\ (Alive(r[s]) => r[s].ver > 0)
    BY DEF Table
  <1>4. \A s \in Steps : new[s].ver \in Nat /\ r[s].ver <= new[s].ver /\ (Alive(new[s]) => new[s].ver > 0)
    <2>. SUFFICES ASSUME NEW s \in Steps
                  PROVE  new[s].ver \in Nat /\ r[s].ver <= new[s].ver /\ (Alive(new[s]) => new[s].ver > 0)
      OBVIOUS
    <2>1. r[s].ver \in Nat /\ (Alive(r[s]) => r[s].ver > 0)
      BY <1>3
    <2>2. CASE new[s].ver = r[s].ver + 1
      BY <2>1, <2>2
    <2>3. CASE new[s].ver = r[s].ver /\ (Alive(new[s]) => Alive(r[s]))
      BY <2>1, <2>3
    <2>. QED BY <1>2, <2>2, <2>3
  <1>5. Table(new)
    BY <1>1, <1>2, <1>4 DEF Table
  <1>6. Onward(r, new) /\ Kept(r, new)
    BY <1>2, <1>4 DEF Onward, Kept
  <1>7. ASSUME NEW s \in Steps, r[s].ver = 0 PROVE new[s].ver = 0
    <2>1. ~Alive(r[s])
      BY <1>3, <1>7
    <2>. QED BY <1>2, <1>7, <2>1
  <1>. QED BY <1>5, <1>6, <1>7 DEF Moves

\* An inserted step is one the table never had.
LEMMA InsertMoves ==
    ASSUME NEW r, Table(r), NEW seen, NEW position, NEW s \in Steps, r[s].ver = 0, NEW text
    PROVE  /\ Moves(r, InsertStep(r, seen, position, s, text))
           /\ \A x \in Steps : x # s /\ r[x].ver = 0 => InsertStep(r, seen, position, s, text)[x].ver = 0
PROOF
  <1>. DEFINE n == Cardinality(Live(seen))
              target == IF position > n + 1 THEN n + 1 ELSE position
              after == {x \in Live(seen) : seen[x].pos >= target}
              ordering == [x \in after |-> seen[x].pos + 1]
  <1>. PICK mid : mid = Reposition(r, ordering)
    OBVIOUS
  <1>. PICK new : new = [mid EXCEPT ![s] = [pos |-> target, ver |-> 1, text |-> text]]
    OBVIOUS
  <1>1. new = InsertStep(r, seen, position, s, text)
    BY DEF InsertStep
  <1>2. Moves(r, mid) /\ Table(mid) /\ \A x \in Steps : r[x].ver = 0 => mid[x].ver = 0
    BY RepositionMoves DEF Moves
  <1>. HIDE DEF target, ordering
  <1>3. /\ new = [x \in Steps |-> new[x]]
        /\ new[s] = [pos |-> target, ver |-> 1, text |-> text]
        /\ \A x \in Steps : x # s => new[x] = mid[x]
    BY <1>2 DEF Table
  <1>4. Table(new)
    <2>1. \A x \in Steps : /\ mid[x] = [pos |-> mid[x].pos, ver |-> mid[x].ver, text |-> mid[x].text]
                          /\ mid[x].ver \in Nat /\ (Alive(mid[x]) => mid[x].ver > 0)
      BY <1>2 DEF Table
    <2>2. \A x \in Steps : new[x] = [pos |-> new[x].pos, ver |-> new[x].ver, text |-> new[x].text]
      BY <1>3, <2>1
    <2>3. \A x \in Steps : new[x].ver \in Nat /\ (Alive(new[x]) => new[x].ver > 0)
      BY <1>3, <2>1
    <2>. QED BY <1>3, <2>2, <2>3 DEF Table
  <1>5. ~Alive(r[s])
    BY DEF Table
  <1>6. Onward(r, new) /\ Kept(r, new)
    <2>1. Onward(r, mid) /\ Kept(r, mid)
      BY <1>2 DEF Moves
    <2>2. /\ new[s].ver = 1 /\ r[s].ver <= new[s].ver /\ new[s].ver # r[s].ver
      BY <1>3
    <2>3. Onward(r, new)
      BY <1>3, <2>1, <2>2 DEF Onward
    <2>. QED BY <1>3, <1>5, <2>1, <2>3 DEF Kept
  <1>7. \A x \in Steps : x # s /\ r[x].ver = 0 => new[x].ver = 0
    BY <1>2, <1>3
  <1>. QED BY <1>1, <1>4, <1>6, <1>7 DEF Moves

\* A deleted step is gone, and the ones that stay keep their texts.
LEMMA DeleteMoves ==
    ASSUME NEW r, Table(r), NEW seen, NEW s
    PROVE  Moves(r, DeleteStep(r, seen, s))
PROOF
  <1>. DEFINE left == Live(seen) \ {s}
              ordering == [x \in left |-> At(seen, x) - IF At(seen, x) > At(seen, s) THEN 1 ELSE 0]
  <1>. PICK mid : mid = [r EXCEPT ![s].pos = 0, ![s].text = None]
    OBVIOUS
  <1>1. DeleteStep(r, seen, s) = Reposition(mid, ordering)
    BY DEF DeleteStep
  <1>. HIDE DEF ordering
  <1>2. /\ r = [x \in Steps |-> r[x]]
        /\ \A x \in Steps : /\ r[x] = [pos |-> r[x].pos, ver |-> r[x].ver, text |-> r[x].text]
                            /\ r[x].ver \in Nat /\ (Alive(r[x]) => r[x].ver > 0)
    BY DEF Table
  <1>3. /\ mid = [x \in Steps |-> mid[x]]
        /\ \A x \in Steps : x # s => mid[x] = r[x]
        /\ s \in Steps => mid[s] = [r[s] EXCEPT !.pos = 0, !.text = None]
    BY <1>2
  <1>4. ASSUME NEW x \in Steps
        PROVE  /\ mid[x] = [pos |-> mid[x].pos, ver |-> mid[x].ver, text |-> mid[x].text]
               /\ mid[x].ver = r[x].ver
               /\ Alive(mid[x]) => mid[x] = r[x]
    <2>1. CASE x = s
      <3>1. mid[x] = [r[x] EXCEPT !.pos = 0, !.text = None]
        BY <1>3, <2>1
      <3>2. r[x] = [pos |-> r[x].pos, ver |-> r[x].ver, text |-> r[x].text]
        BY <1>2
      <3>3. mid[x] = [pos |-> 0, ver |-> r[x].ver, text |-> None]
        BY <3>1, <3>2
      <3>4. ~Alive(mid[x])
        BY <3>3 DEF Alive
      <3>5. mid[x].pos = 0 /\ mid[x].ver = r[x].ver /\ mid[x].text = None
        BY <3>3
      <3>6. mid[x] = [pos |-> mid[x].pos, ver |-> mid[x].ver, text |-> mid[x].text]
        BY <3>3, <3>5, Zenon
      <3>. QED BY <3>4, <3>5, <3>6
    <2>2. CASE x # s
      <3>1. mid[x] = r[x]
        BY <1>3, <2>2
      <3>. QED BY <1>2, <3>1
    <2>. QED BY <2>1, <2>2
  <1>5. Table(mid)
    BY <1>2, <1>3, <1>4 DEF Table
  <1>6. Onward(r, mid) /\ Kept(r, mid)
    <2>1. ASSUME NEW x \in Steps PROVE r[x].ver <= mid[x].ver
      <3>1. mid[x].ver = r[x].ver /\ r[x].ver \in Nat
        BY <1>2, <1>4
      <3>. QED BY <3>1
    <2>2. \A x \in Steps : Alive(mid[x]) => Alive(r[x]) /\ mid[x].text = r[x].text
      BY <1>4
    <2>. QED BY <2>1, <2>2 DEF Onward, Kept
  <1>. QED BY <1>1, <1>5, <1>6, RepositionMoves, MovesFollow DEF Moves

\* An email inserted with or without the wait before it.
LEMMA InsertedMoves ==
    ASSUME DraftingAssumption, NEW r, Table(r), NEW seen, NEW position, NEW wait,
           NEW e \in Emails, r[e].ver = 0, NEW w \in Waits, r[w].ver = 0, NEW text
    PROVE  Moves(r, Inserted(r, seen, position, wait, e, w, text))
PROOF
  <1>. e \in Steps /\ w \in Steps /\ e # w
    BY DEF Steps, DraftingAssumption
  <1>1. CASE ~wait
    BY <1>1, InsertMoves DEF Inserted
  <1>2. CASE wait
    <2>. PICK mid : mid = InsertStep(r, seen, position, w, None)
      OBVIOUS
    <2>1. Moves(r, mid) /\ mid[e].ver = 0
      BY InsertMoves
    <2>2. Moves(mid, InsertStep(mid, mid, mid[w].pos + 1, e, text))
      BY <2>1, InsertMoves DEF Moves
    <2>3. Moves(r, InsertStep(mid, mid, mid[w].pos + 1, e, text))
      BY <2>1, <2>2, MovesFollow
    <2>. QED BY <1>2, <2>3 DEF Inserted
  <1>. QED BY <1>1, <1>2

\* Steps whose text is written, as a save and a draft write them.
Retexted(r, targets, t) ==
    [s \in Steps |-> IF s \in targets THEN [r[s] EXCEPT !.text = t, !.ver = @ + 1] ELSE r[s]]

\* A text that is written raises the version of its step.
LEMMA RetextedFollows ==
    ASSUME NEW r, Table(r), NEW targets, NEW t
    PROVE  /\ Table(Retexted(r, targets, t)) /\ Onward(r, Retexted(r, targets, t))
           /\ \A s \in Steps : Retexted(r, targets, t)[s].text = r[s].text \/ s \in targets
PROOF
  <1>. PICK new : new = Retexted(r, targets, t)
    OBVIOUS
  <1>1. \A s \in Steps : /\ r[s] = [pos |-> r[s].pos, ver |-> r[s].ver, text |-> r[s].text]
                         /\ r[s].ver \in Nat /\ (Alive(r[s]) => r[s].ver > 0)
    BY DEF Table
  <1>2. ASSUME NEW s \in Steps
        PROVE  /\ new[s] = [pos |-> new[s].pos, ver |-> new[s].ver, text |-> new[s].text]
               /\ Alive(new[s]) => Alive(r[s])
               /\ \/ s \in targets /\ new[s].ver = r[s].ver + 1
                  \/ new[s].text = r[s].text /\ new[s].ver = r[s].ver
    <2>1. CASE s \in targets
      <3>1. new[s] = [r[s] EXCEPT !.text = t, !.ver = r[s].ver + 1]
        BY <2>1 DEF Retexted
      <3>2. new[s] = [pos |-> r[s].pos, ver |-> r[s].ver + 1, text |-> t]
        BY <1>1, <3>1
      <3>3. new[s].pos = r[s].pos /\ new[s].ver = r[s].ver + 1 /\ new[s].text = t
        BY <3>2
      <3>4. new[s] = [pos |-> new[s].pos, ver |-> new[s].ver, text |-> new[s].text]
        BY <3>2, <3>3, Zenon
      <3>. QED BY <2>1, <3>3, <3>4 DEF Alive
    <2>2. CASE s \notin targets
      <3>1. new[s] = r[s]
        BY <2>2 DEF Retexted
      <3>. QED BY <1>1, <3>1
    <2>. QED BY <2>1, <2>2
  <1>3. ASSUME NEW s \in Steps
        PROVE  new[s].ver \in Nat /\ r[s].ver <= new[s].ver /\ (Alive(new[s]) => new[s].ver > 0)
    <2>1. r[s].ver \in Nat /\ (Alive(r[s]) => r[s].ver > 0)
      BY <1>1
    <2>2. CASE new[s].ver = r[s].ver + 1
      BY <2>1, <2>2
    <2>3. CASE new[s].ver = r[s].ver
      <3>1. Alive(new[s]) => Alive(r[s])
        BY <1>2
      <3>. QED BY <2>1, <2>3, <3>1
    <2>4. new[s].ver = r[s].ver + 1 \/ new[s].ver = r[s].ver
      BY <1>2
    <2>. QED BY <2>2, <2>3, <2>4
  <1>4. Table(new)
    <2>1. new = [s \in Steps |-> new[s]]
      BY DEF Retexted
    <2>. QED BY <1>2, <1>3, <2>1 DEF Table
  <1>5. Onward(r, new)
    <2>1. ASSUME NEW s \in Steps, new[s].ver = r[s].ver PROVE new[s].text = r[s].text
      <3>0. r[s].ver \in Nat
        BY <1>1
      <3>1. new[s].ver # r[s].ver + 1
        BY <2>1, <3>0
      <3>. QED BY <1>2, <3>1
    <2>. QED BY <1>2, <1>3, <2>1 DEF Onward
  <1>. QED BY <1>2, <1>4, <1>5

-----------------------------------------------------------------------------
(* Drafting: the requests *)

\* The author of a text that is replaced had it in front of them.
Honest ==
    \A e \in EmailsOf(row) : row'[e].pos > 0 /\ row'[e].text # row[e].text =>
        \E u \in Users :
            /\ op'[u] = NoOp
            /\ \/ op[u].kind = "edit" /\ op[u].step = e /\ op[u].seen.text = row[e].text
               \/ op[u].kind = "draft" /\ op[u].seen[e].text = row[e].text

\* Writes that keep texts replace none.
LEMMA KeptIsHonest ==
    ASSUME row' = row \/ Kept(row, row')
    PROVE  Honest
  BY DEF Honest, Kept, EmailsOf, Live, Alive, Steps

\* What another request had read stays behind the table.
LEMMA RequestsFollow ==
    ASSUME VersionInv, Table(row'), Onward(row, row'), NEW u \in Users, op'[u] = op[u]
    PROVE  RequestInv(u)'
PROOF
  <1>1. RequestInv(u) /\ Table(row)
    BY DEF VersionInv
  <1>2. ASSUME NEW old, NEW s \in Steps, Behind(old, row[s])
        PROVE  /\ old.ver \in Nat /\ old.ver <= row'[s].ver
               /\ Alive(row'[s]) /\ row'[s].ver = old.ver => row'[s].text = old.text
    <2>1. old.ver \in Nat /\ row[s].ver \in Nat /\ row'[s].ver \in Nat
      BY <1>1, <1>2 DEF Behind, Table
    <2>2. old.ver <= row[s].ver /\ row[s].ver <= row'[s].ver
      BY <1>2 DEF Behind, Onward
    <2>3. ASSUME Alive(row'[s]), row'[s].ver = old.ver PROVE row'[s].text = old.text
      <3>1. row[s].ver = old.ver /\ row[s].ver = row'[s].ver
        BY <2>1, <2>2, <2>3
      <3>2. row[s].ver > 0
        BY <2>3, <3>1 DEF Table
      <3>3. Alive(row[s]) /\ row'[s].text = row[s].text
        BY <2>1, <2>3, <3>1, <3>2 DEF Onward
      <3>. QED BY <1>2, <3>1, <3>3 DEF Behind
    <2>. QED BY <2>1, <2>2, <2>3
  <1>. QED BY <1>1, <1>2 DEF RequestInv, Behind, Steps

\* A step of one request.
LEMMA OneRequest ==
    ASSUME VersionInv, Table(row'), Onward(row, row'), NEW u \in Users,
           op' = [v \in Users |-> op'[v]], \A v \in Users : v # u => op'[v] = op[v],
           RequestInv(u)'
    PROVE  VersionInv'
  BY RequestsFollow DEF VersionInv

\* A table is onward of itself.
LEMMA SameTable ==
    ASSUME NEW r, Table(r)
    PROVE  Onward(r, r)
  BY DEF Table, Onward

\* A request that ends, whatever it wrote.
LEMMA DoneStep ==
    ASSUME VersionInv, Table(row'), Onward(row, row'), NEW u \in Users, Done(u)
    PROVE  VersionInv' /\ op'[u] = NoOp
PROOF
  <1>1. /\ op' = [v \in Users |-> op'[v]] /\ op'[u] = NoOp
        /\ \A v \in Users : v # u => op'[v] = op[v]
    BY DEF VersionInv, Done
  <1>2. RequestInv(u)'
    BY <1>1 DEF RequestInv, NoOp
  <1>. QED BY <1>1, <1>2, OneRequest

\* A request that writes a table.
LEMMA WriteStep ==
    ASSUME VersionInv, NEW u \in Users, NEW r, Table(r), Onward(row, r), Write(u, r)
    PROVE  VersionInv' /\ op'[u] = NoOp /\ (row' = row \/ row' = r)
PROOF
  <1>1. Table(row) /\ Onward(row, row)
    BY SameTable DEF VersionInv
  <1>2. Done(u) /\ (row' = row \/ row' = r)
    BY DEF Write
  <1>3. Table(row') /\ Onward(row, row')
    BY <1>1, <1>2
  <1>. QED BY <1>2, <1>3, DoneStep

\* A request that is refused.
LEMMA RefuseStep ==
    ASSUME VersionInv, NEW u \in Users, Refuse(u)
    PROVE  VersionInv' /\ row' = row
PROOF
  <1>1. Done(u) /\ row' = row
    BY DEF Refuse, campaignVars
  <1>2. Table(row') /\ Onward(row, row')
    BY <1>1, SameTable DEF VersionInv
  <1>. QED BY <1>1, <1>2, DoneStep

\* A request that reads.
LEMMA BeginStep ==
    ASSUME VersionInv, NEW u \in Users, row' = row, NEW request, op' = [op EXCEPT ![u] = request],
           \/ request.kind \notin {"edit", "draft"}
           \/ \E e \in EmailsOf(row), t \in Texts :
                 request = [kind |-> "edit", step |-> e, text |-> t, seen |-> row[e]]
           \/ \E targets \in SUBSET Emails : \E stage, config :
                 request = [kind |-> "draft", stage |-> stage, seen |-> row,
                            config |-> config, targets |-> targets]
    PROVE  VersionInv'
PROOF
  <1>1. Table(row') /\ Onward(row, row')
    BY SameTable DEF VersionInv
  <1>2. /\ op' = [v \in Users |-> op'[v]] /\ op'[u] = request
        /\ \A v \in Users : v # u => op'[v] = op[v]
    BY DEF VersionInv
  <1>3. \A s \in Steps : Behind(row[s], row[s])
    BY DEF VersionInv, Table, Behind
  <1>4. RequestInv(u)'
    <2>. SUFFICES /\ request.kind = "edit" =>
                        request.step \in Emails /\ Behind(request.seen, row[request.step])
                  /\ request.kind = "draft" =>
                        /\ request = [kind |-> "draft", stage |-> request.stage, seen |-> request.seen,
                                      config |-> request.config, targets |-> request.targets]
                        /\ request.targets \subseteq Emails
                        /\ \A s \in Steps : Behind(request.seen[s], row[s])
      BY <1>2 DEF RequestInv, Behind
    <2>1. CASE request.kind \notin {"edit", "draft"}
      BY <2>1
    <2>2. ASSUME NEW e \in EmailsOf(row), NEW t \in Texts,
                 request = [kind |-> "edit", step |-> e, text |-> t, seen |-> row[e]]
          PROVE  request.kind = "edit" /\ request.step \in Emails /\ Behind(request.seen, row[request.step])
      BY <1>3, <2>2 DEF EmailsOf, Steps
    <2>3. ASSUME NEW targets \in SUBSET Emails, NEW stage, NEW config,
                 request = [kind |-> "draft", stage |-> stage, seen |-> row,
                            config |-> config, targets |-> targets]
          PROVE  /\ request.kind = "draft"
                 /\ request = [kind |-> "draft", stage |-> request.stage, seen |-> request.seen,
                               config |-> request.config, targets |-> request.targets]
                 /\ request.targets \subseteq Emails
                 /\ \A s \in Steps : Behind(request.seen[s], row[s])
      BY <1>3, <2>3
    <2>. QED BY <2>1, <2>2, <2>3
  <1>. QED BY <1>1, <1>2, <1>4, OneRequest

-----------------------------------------------------------------------------
(* Drafting: the steps *)

\* A request that moves, adds or takes steps replaces no text.
LEMMA MovingStep ==
    ASSUME VersionInv, NEW u \in Users, NEW r, Moves(row, r), Write(u, r)
    PROVE  VersionInv' /\ Honest
PROOF
  <1>1. Table(r) /\ Onward(row, r) /\ Kept(row, r)
    BY DEF Moves
  <1>. QED BY <1>1, WriteStep, KeptIsHonest

\* A page that is saved replaces the text it was loaded with.
LEMMA SaveIsHonest ==
    ASSUME VersionInv, NEW u \in Users, SaveStep(u)
    PROVE  VersionInv' /\ Honest
PROOF
  <1>. PICK e \in Emails : e = op[u].step /\ op[u].kind = "edit" /\ Behind(op[u].seen, row[e])
    BY DEF SaveStep, VersionInv, RequestInv
  <1>1. CASE Same(e, op[u].seen)
    <2>. PICK r : r = Retext(row, e, op[u].text)
      OBVIOUS
    <2>1. Table(row) /\ e \in Steps
      BY DEF VersionInv, Steps
    <2>2. r = Retexted(row, {e}, op[u].text)
      <3>1. row = [s \in Steps |-> row[s]]
        BY <2>1 DEF Table
      <3>2. row[e] = [pos |-> row[e].pos, ver |-> row[e].ver, text |-> row[e].text]
        BY <2>1 DEF Table
      <3>3. [[row[e] EXCEPT !.text = op[u].text] EXCEPT !.ver = @ + 1]
              = [row[e] EXCEPT !.text = op[u].text, !.ver = @ + 1]
        OBVIOUS
      <3>4. r = [s \in Steps |-> IF s = e THEN [row[e] EXCEPT !.text = op[u].text, !.ver = @ + 1]
                                 ELSE row[s]]
        BY <2>1, <3>1, <3>2 DEF Retext
      <3>. QED BY <3>4 DEF Retexted
    <2>3. Write(u, r)
      BY <1>1 DEF SaveStep
    <2>4. /\ Table(r) /\ Onward(row, r)
          /\ \A s \in Steps : r[s].text = row[s].text \/ s = e
      BY <2>1, <2>2, RetextedFollows
    <2>5. VersionInv' /\ op'[u] = NoOp /\ (row' = row \/ row' = r)
      BY <2>3, <2>4, WriteStep
    <2>6. op[u].seen.text = row[e].text
      BY <1>1 DEF Same, Behind, Alive
    <2>. QED BY <2>4, <2>5, <2>6 DEF Honest, EmailsOf, Live
  <1>2. CASE ~Same(e, op[u].seen)
    BY <1>2, RefuseStep, KeptIsHonest DEF SaveStep
  <1>. QED BY <1>1, <1>2

\* Drafts replace the texts they were planned from.
LEMMA DraftsAreHonest ==
    ASSUME VersionInv, NEW u \in Users, NEW t, WriteDrafts(u, t)
    PROVE  VersionInv' /\ Honest
PROOF
  <1>. PICK targets : targets = op[u].targets
    OBVIOUS
  <1>1. /\ op[u].kind = "draft" /\ targets \subseteq Emails
        /\ \A s \in Steps : Behind(op[u].seen[s], row[s])
    BY DEF WriteDrafts, VersionInv, RequestInv
  <1>2. CASE \A e \in targets : Same(e, op[u].seen[e])
    <2>. PICK r : r = Retexted(row, targets, t)
      OBVIOUS
    <2>1. Write(u, r)
      BY <1>2 DEF WriteDrafts, Retexted
    <2>2. /\ Table(r) /\ Onward(row, r)
          /\ \A s \in Steps : r[s].text = row[s].text \/ s \in targets
      BY RetextedFollows DEF VersionInv
    <2>3. VersionInv' /\ op'[u] = NoOp /\ (row' = row \/ row' = r)
      BY <2>1, <2>2, WriteStep
    <2>4. \A e \in targets : op[u].seen[e].text = row[e].text
      BY <1>1, <1>2 DEF Same, Behind, Alive, Steps
    <2>. QED BY <1>1, <2>2, <2>3, <2>4 DEF Honest, EmailsOf, Live
  <1>3. CASE ~\A e \in targets : Same(e, op[u].seen[e])
    BY <1>3, RefuseStep, KeptIsHonest DEF WriteDrafts
  <1>. QED BY <1>2, <1>3

\* A step deleted, with its wait or without.
LEMMA DeleteStays ==
    ASSUME VersionInv, NEW u \in Users, Delete(u)
    PROVE  VersionInv' /\ Honest
PROOF
  <1>. DEFINE s == op[u].step
              seen == op[u].seen
              with == IF op[u].pair THEN Neighbour(seen, s) ELSE {}
              r == DeleteStep(row, seen, CHOOSE w \in with : TRUE)
  <1>0. Table(row)
    BY DEF VersionInv
  <1>1. Moves(row, DeleteStep(row, seen, s)) /\ Moves(row, r)
    BY <1>0, DeleteMoves
  <1>2. Moves(r, DeleteStep(r, r, s))
    BY <1>1, DeleteMoves DEF Moves
  <1>3. Moves(row, DeleteStep(r, r, s))
    BY <1>0, <1>1, <1>2, MovesFollow
  <1>4. \/ Write(u, DeleteStep(row, seen, s)) \/ Refuse(u) \/ Write(u, DeleteStep(r, r, s))
    BY DEF Delete
  <1>. HIDE DEF r, s, seen
  <1>5. Refuse(u) => VersionInv' /\ Honest
    BY RefuseStep, KeptIsHonest
  <1>. QED BY <1>1, <1>3, <1>4, <1>5, MovingStep

\* Ids no step has had.
LEMMA FreshIds ==
    ASSUME NEW kind, NEW r, Fresh(kind, r) # {}
    PROVE  (CHOOSE s \in Fresh(kind, r) : TRUE) \in kind /\ r[CHOOSE s \in Fresh(kind, r) : TRUE].ver = 0
  BY DEF Fresh

\* An email added.
LEMMA AddStays ==
    ASSUME DraftingAssumption, VersionInv, NEW u \in Users, Add(u)
    PROVE  VersionInv' /\ Honest
PROOF
  <1>. PICK e \in Emails : e = (CHOOSE s \in Fresh(Emails, row) : TRUE) /\ row[e].ver = 0
    BY FreshIds DEF Add
  <1>. PICK w \in Waits : w = (CHOOSE s \in Fresh(Waits, row) : TRUE) /\ row[w].ver = 0
    BY FreshIds DEF Add
  <1>. PICK r : r = Inserted(row, op[u].seen, op[u].pos, op[u].wait, e, w, op[u].text)
    OBVIOUS
  <1>1. Write(u, r)
    BY DEF Add
  <1>2. Moves(row, r)
    BY InsertedMoves DEF VersionInv
  <1>. QED BY <1>1, <1>2, MovingStep

\* Taking one of two ids leaves another.
LEMMA FreshLeft ==
    ASSUME DraftingAssumption, NEW r, Cardinality(Fresh(Emails, r)) >= 2, Fresh(Waits, r) # {},
           NEW e \in Emails, NEW new, \A x \in Steps : x # e /\ r[x].ver = 0 => new[x].ver = 0
    PROVE  Fresh(Emails, new) # {} /\ Fresh(Waits, new) # {}
PROOF
  <1>1. e \in Steps /\ Emails \subseteq Steps /\ Waits \subseteq Steps /\ e \notin Waits
    BY DEF Steps, DraftingAssumption
  <1>2. Fresh(Emails, r) \ {e} # {}
    <2>. SUFFICES ASSUME Fresh(Emails, r) \subseteq {e} PROVE FALSE
      OBVIOUS
    <2>1. IsFiniteSet({e}) /\ Cardinality({e}) = 1
      BY FS_Singleton
    <2>2. Cardinality(Fresh(Emails, r)) <= 1 /\ Cardinality(Fresh(Emails, r)) \in Nat
      BY <2>1, FS_Subset, FS_CardinalityType
    <2>. QED BY <2>2
  <1>3. Fresh(Emails, r) \ {e} \subseteq Fresh(Emails, new)
    BY <1>1 DEF Fresh
  <1>4. Fresh(Waits, r) \subseteq Fresh(Waits, new)
    BY <1>1 DEF Fresh
  <1>. QED BY <1>2, <1>3, <1>4

\* The two emails of a first draft.
CreatedRows(r, seen, t) ==
    LET e == CHOOSE x \in Fresh(Emails, r) : TRUE
        first == InsertStep(r, seen, 1, e, t)
        f == CHOOSE x \in Fresh(Emails, first) : TRUE
        w == CHOOSE x \in Fresh(Waits, first) : TRUE
    IN Inserted(first, first, 2, TRUE, f, w, t)

LEMMA CreatedMoves ==
    ASSUME DraftingAssumption, NEW r, Table(r), NEW seen, NEW t,
           Cardinality(Fresh(Emails, r)) >= 2, Fresh(Waits, r) # {}
    PROVE  Moves(r, CreatedRows(r, seen, t))
PROOF
  <1>1. PICK e \in Emails : e = (CHOOSE x \in Fresh(Emails, r) : TRUE) /\ r[e].ver = 0
    <2>1. Fresh(Emails, r) # {}
      <3>1. Cardinality(Fresh(Emails, r)) # Cardinality({})
        BY FS_EmptySet
      <3>. QED BY <3>1
    <2>. QED BY <2>1, FreshIds
  <1>2. PICK mid : mid = InsertStep(r, seen, 1, e, t)
    OBVIOUS
  <1>3. Moves(r, mid) /\ \A x \in Steps : x # e /\ r[x].ver = 0 => mid[x].ver = 0
    <2>1. e \in Steps /\ r[e].ver = 0
      BY <1>1 DEF Steps
    <2>2. \A p : /\ Moves(r, InsertStep(r, seen, p, e, t))
                 /\ \A x \in Steps : x # e /\ r[x].ver = 0 => InsertStep(r, seen, p, e, t)[x].ver = 0
      BY <2>1, InsertMoves
    <2>. QED BY <1>2, <2>2
  <1>4. Fresh(Emails, mid) # {} /\ Fresh(Waits, mid) # {}
    BY <1>3, FreshLeft
  <1>5. PICK f \in Emails : f = (CHOOSE x \in Fresh(Emails, mid) : TRUE) /\ mid[f].ver = 0
    BY <1>4, FreshIds
  <1>6. PICK w \in Waits : w = (CHOOSE x \in Fresh(Waits, mid) : TRUE) /\ mid[w].ver = 0
    BY <1>4, FreshIds
  <1>7. \A p, wait : Moves(mid, Inserted(mid, mid, p, wait, f, w, t))
    BY <1>3, <1>5, <1>6, InsertedMoves DEF Moves
  <1>8. \A p, wait : Moves(r, Inserted(mid, mid, p, wait, f, w, t))
    BY <1>3, <1>7, MovesFollow
  <1>9. CreatedRows(r, seen, t) = Inserted(mid, mid, 2, TRUE, f, w, t)
    BY <1>1, <1>2, <1>5, <1>6 DEF CreatedRows
  <1>. QED BY <1>8, <1>9

LEMMA CreateStays ==
    ASSUME DraftingAssumption, VersionInv, NEW u \in Users, NEW t, CreateDrafts(u, t)
    PROVE  VersionInv' /\ Honest
PROOF
  <1>1. Table(row) /\ Cardinality(Fresh(Emails, row)) >= 2 /\ Fresh(Waits, row) # {}
    BY DEF VersionInv, CreateDrafts
  <1>2. PICK seen : Write(u, CreatedRows(row, seen, t))
    BY DEF CreateDrafts, CreatedRows
  <1>3. Moves(row, CreatedRows(row, seen, t))
    BY <1>1, CreatedMoves
  <1>. QED BY <1>2, <1>3, MovingStep

\* The second look of a draft, before its first lock.
LEMMA RecheckStays ==
    ASSUME VersionInv, NEW u \in Users, Recheck(u)
    PROVE  VersionInv' /\ Honest
PROOF
  <1>1. CASE Refuse(u)
    BY <1>1, RefuseStep, KeptIsHonest
  <1>2. CASE op' = [op EXCEPT ![u].stage = "checked"] /\ UNCHANGED campaignVars
    <2>1. row' = row /\ Table(row') /\ Onward(row, row')
      BY <1>2, SameTable DEF VersionInv, campaignVars
    <2>2. op[u].kind = "draft" /\ RequestInv(u)
      BY DEF VersionInv, Recheck
    <2>3. op[u] = [kind |-> "draft", stage |-> op[u].stage, seen |-> op[u].seen,
                   config |-> op[u].config, targets |-> op[u].targets]
      BY <2>2 DEF RequestInv
    <2>4. /\ op' = [v \in Users |-> op'[v]]
          /\ \A v \in Users : v # u => op'[v] = op[v]
          /\ op'[u] = [op[u] EXCEPT !.stage = "checked"]
      BY <1>2 DEF VersionInv
    <2>5. op'[u] = [kind |-> "draft", stage |-> "checked", seen |-> op[u].seen,
                    config |-> op[u].config, targets |-> op[u].targets]
      BY <2>3, <2>4
    <2>6. RequestInv(u)'
      <3>1. /\ op'[u].kind = "draft" /\ op'[u].stage = "checked" /\ op'[u].seen = op[u].seen
            /\ op'[u].config = op[u].config /\ op'[u].targets = op[u].targets
        BY <2>5
      <3>. QED BY <2>1, <2>2, <2>5, <3>1 DEF RequestInv, Behind, Alive
    <2>. QED BY <2>1, <2>4, <2>6, OneRequest, KeptIsHonest
  <1>. QED BY <1>1, <1>2 DEF Recheck

\* The answer of a request.
LEMMA AnswerStays ==
    ASSUME DraftingAssumption, VersionInv, NEW u \in Users, Answer(u)
    PROVE  VersionInv' /\ Honest
PROOF
  <1>0. Table(row) /\ Onward(row, row)
    BY SameTable DEF VersionInv
  <1>1. CASE Reorder(u)
    <2>1. Moves(row, Reposition(row, op[u].ordering)) /\ Write(u, Reposition(row, op[u].ordering))
      BY <1>0, <1>1, RepositionMoves DEF Reorder
    <2>. QED BY <2>1, MovingStep
  <1>2. CASE PutConfig(u) \/ CreatePreviews(u)
    <2>1. row' = row /\ Done(u)
      BY <1>2 DEF PutConfig, CreatePreviews, campaignVars
    <2>2. Table(row') /\ Onward(row, row')
      BY <1>0, <2>1
    <2>. QED BY <2>1, <2>2, DoneStep, KeptIsHonest
  <1>3. CASE GiveUp(u)
    BY <1>3, RefuseStep, KeptIsHonest DEF GiveUp
  <1>. QED
    BY <1>1, <1>2, <1>3, SaveIsHonest, DraftsAreHonest, DeleteStays, AddStays, CreateStays, RecheckStays
       DEF Answer

\* The reads of a request.
LEMMA AskStays ==
    ASSUME VersionInv, NEW u \in Users, Ask(u)
    PROVE  VersionInv' /\ Honest
PROOF
  <1>1. ASSUME NEW e \in Emails, OpenStep(u, e) PROVE VersionInv' /\ Honest
    <2>. PICK t \in Texts : Begin(u, [kind |-> "edit", step |-> e, text |-> t, seen |-> row[e]])
      BY <1>1 DEF OpenStep
    <2>1. PICK request : request = [kind |-> "edit", step |-> e, text |-> t, seen |-> row[e]]
      OBVIOUS
    <2>2. e \in EmailsOf(row) /\ row' = row /\ op' = [op EXCEPT ![u] = request]
      BY <1>1, <2>1 DEF OpenStep, Begin, campaignVars
    <2>. QED BY <2>1, <2>2, BeginStep, KeptIsHonest
  <1>2. ASSUME NEW request, request.kind \notin {"edit", "draft"}, row' = row, op' = [op EXCEPT ![u] = request]
        PROVE  VersionInv' /\ Honest
    BY <1>2, BeginStep, KeptIsHonest
  <1>3. ASSUME NEW s \in Steps, AskDelete(u, s) PROVE VersionInv' /\ Honest
    <2>1. PICK pair : Begin(u, [kind |-> "delete", step |-> s, pair |-> pair, seen |-> row])
      BY <1>3 DEF AskDelete
    <2>. QED BY <1>2, <2>1 DEF Begin, campaignVars
  <1>4. ASSUME AskAdd(u) PROVE VersionInv' /\ Honest
    <2>1. PICK p, wait : Begin(u, [kind |-> "add", pos |-> p, wait |-> wait,
                                   text |-> CHOOSE t \in Texts : TRUE, seen |-> row])
      BY <1>4 DEF AskAdd
    <2>. QED BY <1>2, <2>1 DEF Begin, campaignVars
  <1>5. ASSUME NEW e \in Emails, AskDuplicate(u, e) PROVE VersionInv' /\ Honest
    BY <1>2, <1>5 DEF AskDuplicate, Begin, campaignVars
  <1>6. ASSUME AskReorder(u) PROVE VersionInv' /\ Honest
    <2>1. PICK ordering : Begin(u, [kind |-> "reorder", ordering |-> ordering])
      BY <1>6 DEF AskReorder
    <2>. QED BY <1>2, <2>1 DEF Begin, campaignVars
  <1>7. ASSUME AskConfig(u) PROVE VersionInv' /\ Honest
    <2>1. PICK c, v : Begin(u, [kind |-> "config", config |-> c, ver |-> v])
      BY <1>7 DEF AskConfig
    <2>. QED BY <1>2, <2>1 DEF Begin, campaignVars
  <1>8. ASSUME Plan(u) PROVE VersionInv' /\ Honest
    <2>. PICK targets \in SUBSET Emails :
             Begin(u, [kind |-> "draft", stage |-> "plan", seen |-> row, config |-> sequence.config,
                       targets |-> targets])
      BY <1>8 DEF Plan, EmailsOf
    <2>1. PICK stage, config, request :
             /\ stage = "plan" /\ config = sequence.config
             /\ request = [kind |-> "draft", stage |-> stage, seen |-> row, config |-> config,
                           targets |-> targets]
      OBVIOUS
    <2>2. row' = row /\ op' = [op EXCEPT ![u] = request]
      BY <2>1 DEF Begin, campaignVars
    <2>. QED BY <2>1, <2>2, BeginStep, KeptIsHonest
  <1>9. ASSUME NEW b \in Batches, AskPreviews(u, b) PROVE VersionInv' /\ Honest
    BY <1>2, <1>9 DEF AskPreviews, campaignVars
  <1>10. ASSUME NEW b \in Batches, Approve(u, b) PROVE VersionInv' /\ Honest
    <2>1. row' = row /\ op' = op
      BY <1>10 DEF Approve
    <2>. QED BY <2>1, KeptIsHonest DEF VersionInv, RequestInv, Behind
  <1>. QED
    BY <1>1, <1>3, <1>4, <1>5, <1>6, <1>7, <1>8, <1>9, <1>10 DEF Ask

\* A campaign that begins has no request and no removed step.
LEMMA VersionsBegin ==
    ASSUME DraftingInit
    PROVE  VersionInv
PROOF
  <1>. PICK s \in Starts : row = StartRow(s)
    BY DEF DraftingInit
  <1>1. ASSUME NEW x \in Steps
        PROVE  /\ row[x] = [pos |-> row[x].pos, ver |-> row[x].ver, text |-> row[x].text]
               /\ row[x].ver \in Nat /\ (Alive(row[x]) => row[x].ver > 0)
    <2>1. CASE x \in Range(s)
      <3>1. PICK place, text : row[x] = [pos |-> place, ver |-> 1, text |-> text]
        BY <2>1 DEF StartRow
      <3>. QED BY <3>1
    <2>2. CASE x \notin Range(s)
      <3>1. row[x] = [pos |-> 0, ver |-> 0, text |-> None]
        BY <2>2 DEF StartRow, NoRow
      <3>2. row[x].pos = 0 /\ row[x].ver = 0 /\ row[x].text = None
        BY <3>1
      <3>3. row[x] = [pos |-> row[x].pos, ver |-> row[x].ver, text |-> row[x].text]
        BY <3>1, <3>2, Zenon
      <3>. QED BY <3>2, <3>3 DEF Alive
    <2>. QED BY <2>1, <2>2
  <1>2. Table(row)
    BY <1>1 DEF Table, StartRow
  <1>3. op = [u \in Users |-> NoOp]
    BY DEF DraftingInit
  <1>. QED BY <1>2, <1>3 DEF VersionInv, RequestInv, NoOp

\* Every step keeps versions, and replaces only texts an author had seen.
LEMMA VersionsNext ==
    ASSUME DraftingAssumption, VersionInv, [DraftingNext]_draftingVars
    PROVE  VersionInv' /\ Honest
PROOF
  <1>1. ASSUME UNCHANGED <<row, op>> PROVE VersionInv' /\ Honest
    BY <1>1, KeptIsHonest DEF VersionInv, RequestInv, Behind
  <1>2. CASE \E w \in Samplers : DraftingWork(w) \/ RunError(w) \/ RunCrash(w)
    BY <1>1, <1>2 DEF DraftingWork, TakeBatch, FinishRow, RunError, RunCrash, Failing, campaignVars
  <1>3. CASE Activate \/ UNCHANGED draftingVars
    BY <1>1, <1>3 DEF Activate, draftingVars
  <1>. QED BY <1>2, <1>3, AskStays, AnswerStays DEF DraftingNext

\* What a request has read of a step is the step as it stands, or a version of it that
\* the row's own version tells apart: what CampaignRepository.update_step relies on.
THEOREM VersionsHold == DraftingSpec => []VersionInv
PROOF
  <1>1. DraftingInit => VersionInv
    BY VersionsBegin
  <1>2. VersionInv /\ [DraftingNext]_draftingVars => VersionInv'
    BY VersionsNext, DraftingAssumption
  <1>. QED
    BY <1>1, <1>2, PTL DEF DraftingSpec

\* No save of a page and no draft of the model replaces a text its author did not have
\* in front of them.
THEOREM NothingIsOverwritten == DraftingSpec => NothingOverwritten
PROOF
  <1>1. VersionInv /\ [DraftingNext]_draftingVars => Honest
    BY VersionsNext, DraftingAssumption
  <1>2. VersionInv /\ [DraftingNext]_draftingVars =>
          [\A e \in EmailsOf(row) : row'[e].pos > 0 /\ row'[e].text # row[e].text =>
              \E u \in Users :
                  /\ op'[u] = NoOp
                  /\ \/ op[u].kind = "edit" /\ op[u].step = e /\ op[u].seen.text = row[e].text
                     \/ op[u].kind = "draft" /\ op[u].seen[e].text = row[e].text]_draftingVars
    BY <1>1 DEF Honest
  <1>. QED
    BY <1>2, VersionsHold, PTL DEF DraftingSpec, NothingOverwritten

-----------------------------------------------------------------------------
(* Drafting: what was activated *)

\* A batch that is finished and generated does not change any more.
LEMMA BatchStays ==
    ASSUME ReviewInv, DraftingNext
    PROVE  /\ batch' = [b \in Batches |-> [digest |-> batch'[b].digest, state |-> batch'[b].state]]
           /\ \A b \in Batches : batch'[b].state \in [Emails -> {"none", "PENDING", "OK", "FAILED"}]
           /\ \A b \in Batches : batch[b] # NoBatch /\ AllOk(b) => batch'[b] = batch[b]
PROOF
  <1>0. /\ batch = [b \in Batches |-> [digest |-> batch[b].digest, state |-> batch[b].state]]
        /\ \A b \in Batches : batch[b].state \in [Emails -> {"none", "PENDING", "OK", "FAILED"}]
    BY DEF ReviewInv
  <1>1. ASSUME UNCHANGED batch
        PROVE  /\ batch' = [b \in Batches |-> [digest |-> batch'[b].digest, state |-> batch'[b].state]]
               /\ \A b \in Batches : batch'[b].state \in [Emails -> {"none", "PENDING", "OK", "FAILED"}]
               /\ \A b \in Batches : batch[b] # NoBatch /\ AllOk(b) => batch'[b] = batch[b]
    BY <1>0, <1>1
  <1>2. ASSUME NEW b, NEW states, batch' = [batch EXCEPT ![b].state = states],
               b \in Batches => /\ states \in [Emails -> {"none", "PENDING", "OK", "FAILED"}]
                                /\ AllOk(b) => states = batch[b].state
        PROVE  /\ batch' = [c \in Batches |-> [digest |-> batch'[c].digest, state |-> batch'[c].state]]
               /\ \A c \in Batches : batch'[c].state \in [Emails -> {"none", "PENDING", "OK", "FAILED"}]
               /\ \A c \in Batches : batch[c] # NoBatch /\ AllOk(c) => batch'[c] = batch[c]
    <2>1. /\ batch' = [c \in Batches |-> batch'[c]]
          /\ \A c \in Batches : c # b => batch'[c] = batch[c]
          /\ b \in Batches => batch'[b] = [batch[b] EXCEPT !.state = states]
      BY <1>0, <1>2
    <2>2. b \in Batches => batch[b] = [digest |-> batch[b].digest, state |-> batch[b].state]
      BY <1>0
    <2>3. b \in Batches => batch'[b] = [digest |-> batch[b].digest, state |-> states]
      BY <2>1, <2>2
    <2>. QED BY <1>0, <1>2, <2>1, <2>2, <2>3
  <1>3. ASSUME NEW u \in Users, CreatePreviews(u)
        PROVE  /\ batch' = [b \in Batches |-> [digest |-> batch'[b].digest, state |-> batch'[b].state]]
               /\ \A b \in Batches : batch'[b].state \in [Emails -> {"none", "PENDING", "OK", "FAILED"}]
               /\ \A b \in Batches : batch[b] # NoBatch /\ AllOk(b) => batch'[b] = batch[b]
    <2>. PICK c, rows : c = op[u].batch /\ rows = PreviewRows(op[u].digest, op[u].emails)
      OBVIOUS
    <2>1. /\ rows = [digest |-> rows.digest, state |-> rows.state]
          /\ rows.state \in [Emails -> {"none", "PENDING", "OK", "FAILED"}]
      BY DEF PreviewRows
    <2>2. UNCHANGED batch \/ (batch[c] = NoBatch /\ batch' = [batch EXCEPT ![c] = rows])
      BY <1>3 DEF CreatePreviews
    <2>3. CASE batch[c] = NoBatch /\ batch' = [batch EXCEPT ![c] = rows]
      <3>1. /\ batch' = [b \in Batches |-> batch'[b]]
            /\ \A b \in Batches : b # c => batch'[b] = batch[b]
            /\ c \in Batches => batch'[c] = rows
        BY <1>0, <2>3
      <3>. QED BY <1>0, <2>1, <2>3, <3>1
    <2>. QED BY <1>1, <2>2, <2>3
  <1>4. ASSUME NEW w \in Samplers, FinishRow(w)
        PROVE  /\ batch' = [b \in Batches |-> [digest |-> batch'[b].digest, state |-> batch'[b].state]]
               /\ \A b \in Batches : batch'[b].state \in [Emails -> {"none", "PENDING", "OK", "FAILED"}]
               /\ \A b \in Batches : batch[b] # NoBatch /\ AllOk(b) => batch'[b] = batch[b]
    <2>. PICK b, e, state : b = run[w].batch /\ e = Head(run[w].rows) /\ state \in {"OK", "FAILED"}
                            /\ FinishPreview(b, e, state)
      BY <1>4 DEF FinishRow
    <2>. PICK states : states = [batch[b].state EXCEPT ![e] = IF @ = "PENDING" THEN state ELSE @]
      OBVIOUS
    <2>1. batch' = [batch EXCEPT ![b].state = states]
      BY DEF FinishPreview
    <2>2. b \in Batches => /\ states \in [Emails -> {"none", "PENDING", "OK", "FAILED"}]
                           /\ AllOk(b) => states = batch[b].state
      BY <1>0 DEF AllOk
    <2>. QED BY <1>2, <2>1, <2>2
  <1>5. ASSUME NEW w \in Samplers, RunError(w)
        PROVE  /\ batch' = [b \in Batches |-> [digest |-> batch'[b].digest, state |-> batch'[b].state]]
               /\ \A b \in Batches : batch'[b].state \in [Emails -> {"none", "PENDING", "OK", "FAILED"}]
               /\ \A b \in Batches : batch[b] # NoBatch /\ AllOk(b) => batch'[b] = batch[b]
    <2>. PICK b : b = run[w].batch
      OBVIOUS
    <2>. PICK states : states = [e \in Emails |-> IF batch[b].state[e] = "PENDING" THEN "FAILED"
                                                  ELSE batch[b].state[e]]
      OBVIOUS
    <2>1. UNCHANGED batch \/ batch' = [batch EXCEPT ![b].state = states]
      BY <1>5 DEF RunError, FailUnfinished
    <2>2. b \in Batches => /\ states \in [Emails -> {"none", "PENDING", "OK", "FAILED"}]
                           /\ AllOk(b) => states = batch[b].state
      BY <1>0 DEF AllOk
    <2>. QED BY <1>1, <1>2, <2>1, <2>2
  <1>6. CASE \/ Activate
             \/ \E u \in Users : Ask(u)
             \/ \E w \in Samplers : TakeBatch(w) \/ RunCrash(w)
    BY <1>1, <1>6 DEF Activate, Ask, OpenStep, AskDuplicate, AskDelete, AskAdd, AskReorder,
       AskConfig, Plan, AskPreviews, Approve, Begin, TakeBatch, RunCrash, batchVars
  <1>7. CASE \E u \in Users : Answer(u) /\ ~CreatePreviews(u)
    BY <1>1, <1>7, ZenonT(60) DEF Answer, SaveStep, Delete, Add, Reorder, PutConfig, GiveUp, Recheck,
       WriteDrafts, CreateDrafts, Write, Refuse, batchVars
  <1>. QED
    BY <1>3, <1>4, <1>5, <1>6, <1>7 DEF DraftingNext, DraftingWork

\* What a step does to the approvals and to what runs.
LEMMA ApprovalsGrow ==
    ASSUME DraftingNext
    PROVE  /\ approvals \subseteq approvals'
           /\ \A d \in approvals' \ approvals :
                 \E b \in Batches : batch[b] # NoBatch /\ batch[b].digest = d /\ AllOk(b)
           /\ \/ UNCHANGED <<status, frozen>>
              \/ frozen'.digest \in approvals
PROOF
  <1>1. CASE \E u \in Users, b \in Batches : Approve(u, b)
    BY <1>1 DEF Approve, InsertApproval
  <1>2. CASE Activate
    BY <1>2 DEF Activate, Reviewed, Approved
  <1>3. CASE UNCHANGED <<approvals, status, frozen>>
    BY <1>3
  <1>4. ASSUME NEW u \in Users, Ask(u), ~\E b \in Batches : Approve(u, b)
        PROVE  UNCHANGED <<approvals, status, frozen>>
    BY <1>4 DEF Ask, OpenStep, AskDuplicate, AskDelete, AskAdd, AskReorder, AskConfig, Plan,
       AskPreviews, Begin, campaignVars
  <1>5. ASSUME NEW u \in Users, Answer(u) PROVE UNCHANGED <<approvals, status, frozen>>
    BY <1>5 DEF Answer, SaveStep, Delete, Add, Reorder, PutConfig, GiveUp, Recheck, WriteDrafts,
       CreateDrafts, CreatePreviews, Write, Refuse, campaignVars
  <1>6. ASSUME NEW w \in Samplers, DraftingWork(w) \/ RunError(w) \/ RunCrash(w)
        PROVE  UNCHANGED <<approvals, status, frozen>>
    BY <1>6 DEF DraftingWork, TakeBatch, FinishRow, RunError, RunCrash, Failing, campaignVars
  <1>. QED BY <1>1, <1>2, <1>3, <1>4, <1>5, <1>6 DEF DraftingNext

\* Every step keeps the approvals reviewed.
LEMMA ReviewNext ==
    ASSUME ReviewInv, [DraftingNext]_draftingVars
    PROVE  ReviewInv'
PROOF
  <1>1. CASE UNCHANGED draftingVars
    BY <1>1 DEF draftingVars, ReviewInv, AllOk
  <1>2. CASE DraftingNext
    <2>1. \A d \in approvals' : \E b \in Batches : batch[b] # NoBatch /\ batch[b].digest = d /\ AllOk(b)
      BY <1>2, ApprovalsGrow DEF ReviewInv
    <2>2. \A b \in Batches : batch[b] # NoBatch /\ AllOk(b) => batch'[b] = batch[b]
      BY <1>2, BatchStays
    <2>3. \A d \in approvals' : \E b \in Batches : batch'[b] # NoBatch /\ batch'[b].digest = d /\ AllOk(b)'
      BY <2>1, <2>2 DEF AllOk
    <2>4. (status = "RUNNING" => frozen.digest \in approvals)'
      BY <1>2, ApprovalsGrow DEF ReviewInv
    <2>. QED BY <1>2, <2>3, <2>4, BatchStays DEF ReviewInv
  <1>. QED BY <1>1, <1>2

\* Every approval is of the digest of a batch all of whose samples were generated, and
\* what runs was approved, however edits, late workers and approvals interleave.
THEOREM ReviewHolds == DraftingSpec => []ReviewInv
PROOF
  <1>1. DraftingInit => ReviewInv
    BY DEF DraftingInit, ReviewInv, NoBatch
  <1>2. ReviewInv /\ [DraftingNext]_draftingVars => ReviewInv'
    BY ReviewNext
  <1>. QED
    BY <1>1, <1>2, PTL DEF DraftingSpec

\* A campaign runs on a digest somebody approved, with a batch of that very digest all
\* of whose samples were generated.
THEOREM ActivatedIsReviewed == DraftingSpec => []ActivatedWasReviewed
PROOF
  <1>1. ReviewInv => ActivatedWasReviewed
    BY DEF ReviewInv, ActivatedWasReviewed, AllOk
  <1>. QED
    BY ReviewHolds, <1>1, PTL

=============================================================================
