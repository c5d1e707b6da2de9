-------------------------- MODULE Connections_proofs --------------------------
(***************************************************************************)
(* Theorems about Connections, for any workspaces, members, requests,      *)
(* flows, accounts, keys and bounds.                                       *)
(***************************************************************************)
EXTENDS Connections, TLAPS

-----------------------------------------------------------------------------
(* Types *)

Statuses == {"ACCEPTED", "DEFINITIVELY_REJECTED", "UNKNOWN"}
Results  == {"SENT", "UNKNOWN_OUTCOME", "FAILED"}

BoxType  == [state : {"none", "CONNECTED", "DISCONNECTED"}, gen : Nat]
FlowType == [status : {"none", "EXPIRED", "COMPLETED"}] \union [status : {"PENDING"}, w : Workspaces]

\* A test email before it has its credential, with it, and after the call.
TestType ==
    [kind : {"test"}, w : Workspaces, receipt : Receipts, at : {"read", "authorized"}, gen : Gen]
    \union [kind : {"test"}, w : Workspaces, receipt : Receipts, at : {"ready"}, gen : Gen, locked : Gen,
            refreshed : BOOLEAN]
    \union [kind : {"test"}, w : Workspaces, receipt : Receipts, at : {"called"}, gen : Gen, locked : Gen,
            refreshed : BOOLEAN, taken : BOOLEAN, status : Statuses]

RequestType ==
    {Idle}
    \union [kind : {"connect"}, w : Workspaces, f : Flows, at : {"claimed"}]
    \union [kind : {"connect"}, w : Workspaces, f : Flows, at : {"known"}, gen : Nat]
    \union [kind : {"update", "disconnect", "refresh"}, w : Workspaces, gen : Nat]
    \union TestType

TypeOK ==
    /\ provider \in Providers
    /\ accountId \in [Workspaces -> Accounts] /\ account \in [Workspaces -> Accounts]
    /\ box \in [Workspaces -> BoxType]
    /\ cred \in [Workspaces -> [Gen -> {"none", "live", "destroyed"}]]
    /\ flow \in [Flows -> FlowType]
    /\ req \in [Requests -> RequestType]
    /\ sent \in [Receipts -> Int]
    /\ recorded \in [Receipts -> {"none"} \union Results]
    /\ faults \in Nat

-----------------------------------------------------------------------------
(* The inductive invariant *)

\* A test email that has its credential, and one that refreshed it.
Equipped(q)  == req[q].kind = "test" /\ req[q].at \in {"ready", "called"}
Refreshed(q) == Equipped(q) /\ req[q].refreshed

\* Requests that keep the others from the row of the mailbox.
Holds(q) == req[q].kind \in {"update", "disconnect"} \/ Refreshed(q)

BoxesInv ==
    \A w \in Workspaces :
        /\ box[w].state = "none" => box[w].gen = 0
        /\ box[w].state = "CONNECTED" => box[w].gen \in Gen
        /\ box[w].state = "DISCONNECTED" =>
              \A g \in Gen : g = box[w].gen - 1 => cred[w][g] # "live"

\* Two workspaces are not connected with one provider_account_id.
OneConnected ==
    \A v, w \in Workspaces :
        v # w /\ box[v].state = "CONNECTED" /\ box[w].state = "CONNECTED" => accountId[v] # accountId[w]

\* Only SMTP settings move a mailbox to another account.
MovedInv == provider # "SMTP" => account = accountId

HoldersInv == \A p, q \in Requests : Holds(p) /\ Holds(q) /\ req[p].w = req[q].w => p = q

\* Nobody but r holds the row of w.
Alone(r, w) == \A q \in Requests \ {r} : Holds(q) => req[q].w # w

\* Who relies on the row knows what is in it; whoever uses an old credential uses
\* one that was stored.
Rightly(q) ==
    /\ req[q].kind = "update" => provider = "SMTP"
    /\ req[q].kind = "disconnect" =>
          box[req[q].w].state = "CONNECTED" /\ box[req[q].w].gen = req[q].gen
    /\ Refreshed(q) =>
          /\ box[req[q].w].state = "CONNECTED" /\ box[req[q].w].gen = req[q].gen - 1
          /\ cred[req[q].w][req[q].gen] = "none"
    /\ Equipped(q) /\ ~Refreshed(q) => cred[req[q].w][req[q].gen] # "none"

RequestsInv == \A q \in Requests : Rightly(q)

\* One request at most is authorized for a receipt, and only while nothing was recorded;
\* an email that was sent, and not lost, is recorded or in the hands of that request.
Taken(k) == \E q \in Requests :
    req[q].kind = "test" /\ req[q].at = "called" /\ req[q].receipt = k /\ req[q].taken

ReceiptsInv ==
    /\ \A p, q \in Requests : Authorized(p) /\ Authorized(q) /\ req[p].receipt = req[q].receipt => p = q
    /\ \A q \in Requests : Authorized(q) => recorded[req[q].receipt] = "none"
    /\ \A k \in Receipts : sent[k] <= (IF recorded[k] # "none" \/ Taken(k) THEN 1 ELSE 0)

ConnectionsInv ==
    /\ TypeOK /\ BoxesInv /\ OneConnected /\ PointerIsLive
    /\ MovedInv /\ HoldersInv /\ RequestsInv /\ ReceiptsInv

BoxInvs == BoxesInv /\ OneConnected /\ PointerIsLive

-----------------------------------------------------------------------------
(* Locks *)

\* Whoever may update the mailbox is alone with its row.
LEMMA UpdaterAlone ==
    ASSUME NEW r \in Requests, NEW w \in Workspaces, MayUpdate(r, w)
    PROVE  Alone(r, w)
  BY DEF MayUpdate, RowLocked, Updated, Others, Alone, Holds, Refreshed, Equipped, Idle

\* Whoever may lock the mailbox may also update it.
LEMMA LockerUpdates ==
    ASSUME NEW r \in Requests, NEW w \in Workspaces, MayLock(r, w)
    PROVE  MayUpdate(r, w)
  BY DEF MayLock, MayUpdate

\* A request that holds the row is alone with it until its end.
LEMMA HolderAlone ==
    ASSUME HoldersInv, NEW r \in Requests, Holds(r)
    PROVE  Alone(r, req[r].w)
  BY DEF HoldersInv, Alone

-----------------------------------------------------------------------------
(* The rows of the mailbox *)

\* A connection that passes the constraints leaves no two workspaces connected with
\* one account id, and its pointer at the newest credential.
LEMMA ConnectEffect ==
    ASSUME TypeOK, BoxInvs, NEW w \in Workspaces, NEW gen, MayConnect(w, gen),
           InsertConnection(w, gen), UpdateConnectionState(w, "CONNECTED", gen), accountId' = accountId
    PROVE  /\ BoxInvs'
           /\ box' \in [Workspaces -> BoxType]
           /\ cred' \in [Workspaces -> [Gen -> {"none", "live", "destroyed"}]]
           /\ \A v \in Workspaces \ {w} : box'[v] = box[v] /\ cred'[v] = cred[v]
           /\ \A v \in Workspaces, g \in Gen : cred[v][g] # "none" => cred'[v][g] # "none"
PROOF
  <1>0. gen \in Gen /\ cred[w][gen] = "none" /\ gen >= box[w].gen /\ gen \in Nat
        /\ \A v \in Workspaces \ {w} :
              accountId[v] = accountId[w] => box[v].state \in {"none", "DISCONNECTED"}
    BY DEF MayConnect, NewGeneration, Guard, GlobalKey, Gen
  <1>1. /\ box' \in [Workspaces -> BoxType]
        /\ box'[w] = [state |-> "CONNECTED", gen |-> gen]
        /\ \A v \in Workspaces \ {w} : box'[v] = box[v]
    BY <1>0 DEF UpdateConnectionState, TypeOK, BoxType
  <1>2. /\ cred' \in [Workspaces -> [Gen -> {"none", "live", "destroyed"}]]
        /\ cred'[w] = [cred[w] EXCEPT ![gen] = "live"]
        /\ \A v \in Workspaces \ {w} : cred'[v] = cred[v]
    BY <1>0 DEF InsertConnection, TypeOK
  <1>3. cred'[w][gen] = "live" /\ \A g \in Gen \ {gen} : cred'[w][g] = cred[w][g]
    BY <1>0, <1>2 DEF TypeOK
  <1>4. BoxesInv'
    BY <1>0, <1>1, <1>2, <1>3 DEF BoxInvs, BoxesInv, BoxType, TypeOK
  <1>5. OneConnected'
    BY <1>0, <1>1 DEF BoxInvs, OneConnected, BoxType, TypeOK
  <1>6. PointerIsLive'
    <2>1. ASSUME NEW g \in Gen, cred'[w][g] # "none" PROVE g <= gen
      <3>1. CASE g = gen
        BY <1>0, <3>1
      <3>2. CASE g # gen
        <4>1. cred[w][g] # "none"
          BY <1>3, <2>1, <3>2
        <4>2. g <= box[w].gen \/ g < box[w].gen
          BY <4>1 DEF BoxInvs, PointerIsLive
        <4>3. g \in Nat /\ box[w].gen \in Nat
          BY DEF Gen, TypeOK, BoxType
        <4>. QED BY <1>0, <4>2, <4>3
      <3>. QED BY <3>1, <3>2
    <2>2. ASSUME NEW v \in Workspaces \ {w}
          PROVE  /\ box'[v].state = "CONNECTED" => cred'[v][box'[v].gen] = "live"
                 /\ \A g \in Gen : cred'[v][g] # "none" =>
                       IF box'[v].state = "CONNECTED" THEN g <= box'[v].gen ELSE g < box'[v].gen
      BY <1>1, <1>2 DEF BoxInvs, PointerIsLive
    <2>3. /\ box'[w].state = "CONNECTED" /\ box'[w].gen = gen /\ cred'[w][gen] = "live"
          /\ \A g \in Gen : cred'[w][g] # "none" => g <= gen
      BY <1>1, <1>3, <2>1
    <2>. QED
      BY <2>2, <2>3 DEF PointerIsLive
  <1>. QED
    BY <1>1, <1>2, <1>3, <1>4, <1>5, <1>6 DEF BoxInvs

\* A request ends, and whatever it did to the row of w it was alone with it: the
\* others still know what they knew.
LEMMA RequestsKept ==
    ASSUME TypeOK, HoldersInv, RequestsInv, NEW r \in Requests, NEW w \in Workspaces, Alone(r, w),
           req' = [req EXCEPT ![r] = Idle], provider' = provider,
           \A v \in Workspaces \ {w} : box'[v] = box[v] /\ cred'[v] = cred[v],
           \A v \in Workspaces, g \in Gen : cred[v][g] # "none" => cred'[v][g] # "none"
    PROVE  HoldersInv' /\ RequestsInv'
PROOF
  <1>1. req'[r] = Idle /\ \A q \in Requests \ {r} : req'[q] = req[q]
    BY DEF TypeOK
  <1>2. HoldersInv'
    BY <1>1 DEF HoldersInv, Holds, Refreshed, Equipped, Idle
  <1>3. Rightly(r)'
    BY <1>1 DEF Rightly, Refreshed, Equipped, Idle
  <1>4. ASSUME NEW q \in Requests \ {r} PROVE Rightly(q)'
    <2>1. Rightly(q) /\ req'[q] = req[q] /\ (Holds(q) => req[q].w # w)
      BY <1>1 DEF RequestsInv, Alone
    <2>2. Equipped(q) => req[q].w \in Workspaces /\ req[q].gen \in Gen
      <3>1. req[q] \in RequestType
        BY DEF TypeOK
      <3>2. Equipped(q) => req[q] \in TestType
        BY <3>1 DEF Equipped, RequestType, Idle
      <3>. QED BY <3>2 DEF TestType
    <2>3. req[q].kind = "disconnect" => req[q].w \in Workspaces
      BY DEF TypeOK, RequestType, TestType, Idle
    <2>. QED
      BY <2>1, <2>2, <2>3 DEF Rightly, Refreshed, Equipped, Holds
  <1>. QED
    BY <1>2, <1>3, <1>4 DEF RequestsInv

-----------------------------------------------------------------------------
(* The test emails *)

\* A request that had not called the provider goes on, or ends, with the
\* authorization it had or without one: no key gets another email.
LEMMA ReceiptsKept ==
    ASSUME TypeOK, ReceiptsInv, NEW r \in Requests, NEW new, req' = [req EXCEPT ![r] = new],
           UNCHANGED testVars, ~(req[r].kind = "test" /\ req[r].at = "called"),
           ~(new.kind = "test" /\ new.at = "called"),
           (new.kind = "test" /\ new.at # "read") => Authorized(r) /\ new.receipt = req[r].receipt
    PROVE  ReceiptsInv'
PROOF
  <1>1. req'[r] = new /\ \A q \in Requests \ {r} : req'[q] = req[q]
    BY DEF TypeOK
  <1>2. \A q \in Requests : Authorized(q)' => Authorized(q) /\ req'[q].receipt = req[q].receipt
    BY <1>1 DEF Authorized
  <1>3. \A k \in Receipts : Taken(k)' <=> Taken(k)
    BY <1>1 DEF Taken
  <1>. QED
    BY <1>2, <1>3 DEF ReceiptsInv, testVars, TypeOK

\* A request that is rolled back after the call: the email does not count, if the
\* provider has it.
LEMMA LoseEffect ==
    ASSUME TypeOK, ReceiptsInv, NEW r \in Requests, req[r].kind = "test", req[r].at = "called",
           Lose(r), req' = [req EXCEPT ![r] = Idle], recorded' = recorded
    PROVE  ReceiptsInv' /\ sent' \in [Receipts -> Int]
PROOF
  <1>0. req[r].receipt \in Receipts /\ req[r].taken \in BOOLEAN
    BY DEF TypeOK, RequestType, TestType, Idle
  <1>1. req'[r] = Idle /\ \A q \in Requests \ {r} : req'[q] = req[q]
    BY DEF TypeOK
  <1>2. \A q \in Requests : Authorized(q)' => Authorized(q) /\ req'[q] = req[q]
    BY <1>1 DEF Authorized, Idle
  <1>3. /\ sent' \in [Receipts -> Int] /\ \A k \in Receipts \ {req[r].receipt} : sent'[k] = sent[k]
        /\ sent'[req[r].receipt] = sent[req[r].receipt] - IF req[r].taken THEN 1 ELSE 0
    BY <1>0 DEF Lose, TypeOK
  <1>4. ASSUME NEW k \in Receipts \ {req[r].receipt}
        PROVE  sent'[k] <= (IF recorded[k] # "none" \/ Taken(k)' THEN 1 ELSE 0)
    <2>1. Taken(k) => Taken(k)'
      BY <1>1, <1>4 DEF Taken
    <2>. QED BY <1>3, <2>1 DEF ReceiptsInv, TypeOK
  <1>5. ASSUME NEW k \in Receipts, k = req[r].receipt
        PROVE  sent'[k] <= (IF recorded[k] # "none" \/ Taken(k)' THEN 1 ELSE 0)
    <2>1. CASE req[r].taken
      <3>1. sent[k] <= 1 /\ sent[k] \in Int
        BY DEF ReceiptsInv, TypeOK
      <3>2. sent'[k] = sent[k] - 1
        BY <1>3, <1>5, <2>1
      <3>. QED BY <3>1, <3>2
    <2>2. CASE ~req[r].taken
      <3>1. Taken(k) => \E q \in Requests \ {r} : req[q].kind = "test" /\ req[q].at = "called" /\ req[q].receipt = k
        BY <2>2 DEF Taken
      <3>2. ~Taken(k)
        BY <1>5, <3>1 DEF ReceiptsInv, Authorized
      <3>3. sent[k] <= (IF recorded[k] # "none" THEN 1 ELSE 0)
        BY <3>2 DEF ReceiptsInv
      <3>4. sent'[k] = sent[k] /\ sent[k] \in Int
        BY <1>3, <1>5, <2>2 DEF TypeOK
      <3>. QED BY <3>3, <3>4
    <2>. QED BY <1>0, <2>1, <2>2
  <1>6. \A k \in Receipts : (sent[k] <= (IF recorded[k] # "none" \/ Taken(k) THEN 1 ELSE 0))'
    BY <1>4, <1>5
  <1>. QED
    BY <1>2, <1>3, <1>6 DEF ReceiptsInv

-----------------------------------------------------------------------------
(* The steps *)

\* A step that changes one request and neither mailbox nor credential keeps the
\* invariant, when the request may hold the row, knows what it has to know, and
\* has not called the provider.
LEMMA RequestEffect ==
    ASSUME ConnectionsInv, NEW r \in Requests, NEW new \in RequestType,
           req' = [req EXCEPT ![r] = new], UNCHANGED <<provider, accountId, account, box, cred>>, UNCHANGED testVars,
           flow' \in [Flows -> FlowType], faults' \in Nat,
           Holds(r)' => Alone(r, new.w), Rightly(r)',
           ~(req[r].kind = "test" /\ req[r].at = "called"),
           ~(new.kind = "test" /\ new.at = "called"),
           (new.kind = "test" /\ new.at # "read") => Authorized(r) /\ new.receipt = req[r].receipt
    PROVE  ConnectionsInv'
PROOF
  <1>1. TypeOK'
    BY DEF ConnectionsInv, TypeOK, testVars
  <1>2. req'[r] = new /\ \A q \in Requests \ {r} : req'[q] = req[q]
    BY DEF ConnectionsInv, TypeOK
  <1>3. (BoxesInv /\ OneConnected /\ PointerIsLive /\ MovedInv)'
    BY DEF ConnectionsInv, BoxesInv, OneConnected, PointerIsLive, MovedInv
  <1>4. \A q \in Requests \ {r} : (Holds(q)' <=> Holds(q)) /\ Rightly(q)'
    BY <1>2 DEF ConnectionsInv, RequestsInv, Rightly, Holds, Refreshed, Equipped
  <1>5. HoldersInv'
    BY <1>2, <1>4 DEF ConnectionsInv, HoldersInv, Alone
  <1>6. ReceiptsInv'
    BY ReceiptsKept DEF ConnectionsInv
  <1>. QED
    BY <1>1, <1>3, <1>4, <1>5, <1>6 DEF ConnectionsInv, RequestsInv

\* A request that only ends.
LEMMA EndEffect ==
    ASSUME ConnectionsInv, NEW r \in Requests, req' = [req EXCEPT ![r] = Idle],
           UNCHANGED <<provider, accountId, account, box, cred>>, UNCHANGED testVars,
           flow' = flow, faults' \in Nat, ~(req[r].kind = "test" /\ req[r].at = "called")
    PROVE  ConnectionsInv'
PROOF
  <1>1. req'[r] = Idle /\ Idle \in RequestType /\ flow' \in [Flows -> FlowType]
    BY DEF ConnectionsInv, TypeOK, RequestType
  <1>2. ~Holds(r)' /\ Rightly(r)'
    BY <1>1 DEF Holds, Rightly, Refreshed, Equipped, Idle
  <1>. QED
    BY <1>1, <1>2, RequestEffect DEF Idle

\* Whoever ends with a connection written, or is refused, held the row alone.
LEMMA ConnectingEffect ==
    ASSUME ConnectionsInv, NEW r \in Requests, NEW w \in Workspaces, NEW gen, Alone(r, w),
           ConnectOrRollBack(r, w, gen), UNCHANGED <<provider, accountId, faults>>, UNCHANGED testVars,
           account' \in [Workspaces -> Accounts], MovedInv',
           flow' \in [Flows -> FlowType], req[r].kind # "test"
    PROVE  ConnectionsInv'
PROOF
  <1>0. req' = [req EXCEPT ![r] = Idle] /\ TypeOK
    BY DEF ConnectOrRollBack, ConnectionsInv
  <1>1. ReceiptsInv'
    BY <1>0, ReceiptsKept DEF ConnectionsInv, Idle
  <1>2. /\ BoxInvs'
        /\ box' \in [Workspaces -> BoxType]
        /\ cred' \in [Workspaces -> [Gen -> {"none", "live", "destroyed"}]]
        /\ \A v \in Workspaces \ {w} : box'[v] = box[v] /\ cred'[v] = cred[v]
        /\ \A v \in Workspaces, g \in Gen : cred[v][g] # "none" => cred'[v][g] # "none"
    <2>1. CASE MayConnect(w, gen)
      <3>1. InsertConnection(w, gen) /\ UpdateConnectionState(w, "CONNECTED", gen)
        BY <2>1 DEF ConnectOrRollBack
      <3>. QED BY <2>1, <3>1, ConnectEffect DEF ConnectionsInv, BoxInvs
    <2>2. CASE ~MayConnect(w, gen)
      BY <2>2 DEF ConnectOrRollBack, ConnectionsInv, BoxInvs, BoxesInv, OneConnected, PointerIsLive, MovedInv, TypeOK
    <2>. QED BY <2>1, <2>2
  <1>3. HoldersInv' /\ RequestsInv'
    BY <1>0, <1>2, RequestsKept DEF ConnectionsInv
  <1>4. TypeOK'
    BY <1>0, <1>2 DEF TypeOK, testVars, RequestType
  <1>. QED
    BY <1>1, <1>2, <1>3, <1>4 DEF ConnectionsInv, BoxInvs

\* An OAuth flow that starts or expires.
LEMMA FlowStep ==
    ASSUME ConnectionsInv, NEW f \in Flows, NEW w \in Workspaces, StartOAuth(f, w) \/ ExpireFlow(f)
    PROVE  ConnectionsInv'
PROOF
  <1>1. flow' \in [Flows -> FlowType] /\ faults' \in Nat /\ UNCHANGED <<provider, accountId, account, box, cred, req, sent, recorded>>
    <2>1. CASE StartOAuth(f, w)
      BY <2>1 DEF StartOAuth, StartGmailOAuth, StartMicrosoftOAuth, InsertOAuthFlow, identityVars, testVars,
                  ConnectionsInv,
                  TypeOK, FlowType
    <2>2. CASE ExpireFlow(f)
      BY <2>2, ConnectionsAssumption DEF ExpireFlow, Fault, identityVars, testVars, ConnectionsInv, TypeOK, FlowType
    <2>. QED BY <2>1, <2>2
  <1>. QED
    BY <1>1 DEF ConnectionsInv, TypeOK, BoxesInv, OneConnected, PointerIsLive, MovedInv, HoldersInv, Holds,
                Refreshed, Equipped, RequestsInv, Rightly, ReceiptsInv, Authorized, Taken

\* A request that is refused, or whose login fails, before it wrote anything.
LEMMA RefusedStep ==
    ASSUME ConnectionsInv, NEW r \in Requests, Refused(r), req[r].kind # "test"
    PROVE  ConnectionsInv'
PROOF
  <1>1. /\ req' = [req EXCEPT ![r] = Idle] /\ UNCHANGED <<provider, accountId, account, box, cred>> /\ UNCHANGED testVars
        /\ flow' = flow /\ faults' \in Nat
    BY DEF Refused, RollBack, Fault, identityVars, ConnectionsInv, TypeOK
  <1>. QED
    BY <1>1, EndEffect

\* An SMTP mailbox is new: nobody knows anything of it yet.
LEMMA ConnectSmtpStep ==
    ASSUME ConnectionsInv, NEW w \in Workspaces, ConnectSmtp(w)
    PROVE  ConnectionsInv'
PROOF
  <1>1. /\ MayConnect(w, 1) /\ InsertConnection(w, 1) /\ UpdateConnectionState(w, "CONNECTED", 1)
        /\ box[w].state = "none" /\ UNCHANGED <<provider, accountId, account, flow, req, faults, sent, recorded>>
    BY DEF ConnectSmtp, identityVars, testVars
  <1>2. /\ BoxInvs'
        /\ box' \in [Workspaces -> BoxType]
        /\ cred' \in [Workspaces -> [Gen -> {"none", "live", "destroyed"}]]
        /\ \A v \in Workspaces \ {w} : box'[v] = box[v] /\ cred'[v] = cred[v]
        /\ \A v \in Workspaces, g \in Gen : cred[v][g] # "none" => cred'[v][g] # "none"
    BY <1>1, ConnectEffect DEF ConnectionsInv, BoxInvs
  <1>3. ASSUME NEW q \in Requests PROVE Rightly(q)'
    <2>1. Rightly(q) /\ req'[q] = req[q]
      BY <1>1 DEF ConnectionsInv, RequestsInv
    <2>2. Equipped(q) => req[q].w \in Workspaces /\ req[q].gen \in Gen
      BY DEF Equipped, ConnectionsInv, TypeOK, RequestType, TestType, Idle
    <2>3. req[q].kind = "disconnect" => req[q].w \in Workspaces
      BY DEF ConnectionsInv, TypeOK, RequestType, TestType, Idle
    <2>. QED
      BY <1>1, <1>2, <2>1, <2>2, <2>3 DEF Rightly, Refreshed, Equipped
  <1>4. HoldersInv' /\ ReceiptsInv'
    BY <1>1 DEF ConnectionsInv, HoldersInv, Holds, Refreshed, Equipped, ReceiptsInv, Authorized, Taken
  <1>5. TypeOK'
    BY <1>1, <1>2 DEF ConnectionsInv, TypeOK
  <1>. QED
    BY <1>1, <1>2, <1>3, <1>4, <1>5 DEF ConnectionsInv, BoxInvs, MovedInv, RequestsInv

\* A request that only learns something and holds no row: it claims a flow, reads
\* the account, loads a credential to refresh, or begins a test email.
Reads(r) ==
    \/ \E f \in Flows : ClaimFlow(r, f)
    \/ ReadAccount(r)
    \/ \E w \in Workspaces : LoadCredential(r, w)
    \/ \E k \in Receipts : BeginTest(r, k)

\* Such a request keeps the invariant.
LEMMA ReadingStep ==
    ASSUME ConnectionsInv, NEW r \in Requests, Reads(r)
    PROVE  ConnectionsInv'
PROOF
  <1>. DEFINE new == req'[r]
  <1>1. /\ new \in RequestType /\ new.kind \in {"connect", "refresh", "test"}
        /\ new.kind = "test" => new.at = "read"
        /\ req' = [req EXCEPT ![r] = new] /\ ~(req[r].kind = "test" /\ req[r].at = "called")
        /\ UNCHANGED <<provider, accountId, account, box, cred, flow, faults>> /\ UNCHANGED testVars
    <2>1. ASSUME NEW f \in Flows, ClaimFlow(r, f) PROVE <1>1!:
      BY <2>1 DEF ClaimFlow, Claimable, Begins, Idle, identityVars, ConnectionsInv, TypeOK, FlowType, RequestType
    <2>2. CASE ReadAccount(r)
      <3>1. req[r].w \in Workspaces /\ req[r].f \in Flows /\ box[req[r].w].gen \in Nat
        <4>1. req[r] \in RequestType /\ req[r].kind = "connect"
          BY <2>2 DEF ReadAccount, ConnectionsInv, TypeOK
        <4>2. req[r].w \in Workspaces /\ req[r].f \in Flows
          BY <4>1 DEF RequestType, TestType, Idle
        <4>. QED BY <4>2 DEF ConnectionsInv, TypeOK, BoxType
      <3>2. /\ req[r].kind = "connect" /\ UNCHANGED <<provider, accountId, account, box, cred, flow, faults>>
            /\ UNCHANGED testVars
        BY <2>2 DEF ReadAccount, identityVars
      <3>3. req' = [req EXCEPT ![r] = [kind |-> "connect", w |-> req[r].w, f |-> req[r].f,
                                       at |-> "known", gen |-> box[req[r].w].gen]]
        BY <2>2 DEF ReadAccount
      <3>4. new = [kind |-> "connect", w |-> req[r].w, f |-> req[r].f, at |-> "known", gen |-> box[req[r].w].gen]
        BY <3>3 DEF ConnectionsInv, TypeOK
      <3>5. req' = [req EXCEPT ![r] = new]
        BY <3>3, <3>4
      <3>6. new \in RequestType /\ new.kind = "connect"
        BY <3>1, <3>4 DEF RequestType
      <3>. HIDE DEF new
      <3>. QED BY <3>2, <3>5, <3>6
    <2>3. ASSUME NEW w \in Workspaces, LoadCredential(r, w) PROVE <1>1!:
      BY <2>3 DEF LoadCredential, Begins, Idle, identityVars, ConnectionsInv, TypeOK, BoxType, RequestType
    <2>4. ASSUME NEW k \in Receipts, BeginTest(r, k) PROVE <1>1!:
      <3>1. k.w \in Workspaces /\ box[k.w].gen \in Gen
        BY <2>4 DEF BeginTest, Receipts, ConnectionsInv, BoxesInv
      <3>. QED BY <2>4, <3>1 DEF BeginTest, Idle, identityVars, ConnectionsInv, TypeOK, RequestType, TestType
    <2>. QED BY <2>1, <2>2, <2>3, <2>4 DEF Reads
  <1>2. ~Holds(r)' /\ Rightly(r)'
    BY <1>1 DEF Holds, Rightly, Refreshed, Equipped
  <1>. QED
    BY <1>1, <1>2, RequestEffect DEF ConnectionsInv, TypeOK

\* Whoever locks the mailbox to update or disconnect it is alone with the row, and
\* knows its generation.
LEMMA LockingStep ==
    ASSUME ConnectionsInv, NEW r \in Requests, NEW w \in Workspaces,
           LockForUpdate(r, w) \/ LockForDisconnect(r, w)
    PROVE  ConnectionsInv'
PROOF
  <1>. DEFINE new == req'[r]
  <1>1. /\ new \in RequestType /\ new.kind \in {"update", "disconnect"} /\ new.w = w
        /\ req' = [req EXCEPT ![r] = new] /\ req[r] = Idle /\ MayLock(r, w)
        /\ new.kind = "disconnect" => box[w].state = "CONNECTED" /\ box[w].gen = new.gen
        /\ new.kind = "update" => provider = "SMTP"
    <2>1. CASE LockForUpdate(r, w)
      BY <2>1 DEF LockForUpdate, Begins, ConnectionsInv, TypeOK, BoxType, RequestType
    <2>2. CASE LockForDisconnect(r, w)
      BY <2>2 DEF LockForDisconnect, Begins, ConnectionsInv, TypeOK, BoxType, RequestType
    <2>. QED BY <2>1, <2>2
  <1>2. UNCHANGED <<provider, accountId, account, box, cred, flow, faults>> /\ UNCHANGED testVars
    BY DEF LockForUpdate, LockForDisconnect, identityVars
  <1>3. Alone(r, w)
    BY <1>1, LockerUpdates, UpdaterAlone
  <1>4. Rightly(r)'
    BY <1>1, <1>2 DEF Rightly, Refreshed, Equipped
  <1>. QED
    BY <1>1, <1>2, <1>3, <1>4, RequestEffect DEF ConnectionsInv, TypeOK, Idle

\* The authorization of a test email: no request of its key is authorized and
\* nothing is recorded of it, or it ends.
LEMMA AuthorizeStep ==
    ASSUME ConnectionsInv, NEW r \in Requests, AuthorizeTest(r)
    PROVE  ConnectionsInv'
PROOF
  <1>1. /\ req[r].kind = "test" /\ req[r].at = "read" /\ ReceiptFree(r, req[r].receipt)
        /\ UNCHANGED <<provider, accountId, account, box, cred, flow, faults>> /\ UNCHANGED testVars
        /\ req[r].w \in Workspaces /\ req[r].receipt \in Receipts
    BY DEF AuthorizeTest, identityVars, ConnectionsInv, TypeOK, RequestType, TestType, Idle
  <1>2. CASE Unauthorized(req[r].receipt)
    <2>. DEFINE new == [req[r] EXCEPT !.at = "authorized"]
    <2>1. req' = [req EXCEPT ![r] = new]
      BY <1>2 DEF AuthorizeTest
    <2>2. new \in RequestType /\ new.at = "authorized" /\ new.kind = "test" /\ new.receipt = req[r].receipt
      <3>1. req[r] \in [kind : {"test"}, w : Workspaces, receipt : Receipts, at : {"read", "authorized"}, gen : Gen]
        BY <1>1 DEF ConnectionsInv, TypeOK, RequestType, TestType, Idle
      <3>2. new \in [kind : {"test"}, w : Workspaces, receipt : Receipts, at : {"read", "authorized"}, gen : Gen]
            /\ new.at = "authorized" /\ new.kind = "test" /\ new.receipt = req[r].receipt
        BY <3>1
      <3>. HIDE DEF new
      <3>. QED BY <3>2 DEF RequestType, TestType
    <2>. HIDE DEF new
    <2>3. req'[r] = new /\ \A q \in Requests \ {r} : req'[q] = req[q]
      BY <2>1 DEF ConnectionsInv, TypeOK
    <2>4. \A q \in Requests : (Holds(q)' <=> Holds(q)) /\ Rightly(q)'
      BY <1>1, <2>2, <2>3 DEF ConnectionsInv, RequestsInv, Holds, Rightly, Refreshed, Equipped
    <2>5. HoldersInv'
      BY <1>1, <2>2, <2>3, <2>4 DEF ConnectionsInv, HoldersInv, Holds, Refreshed, Equipped
    <2>6. \A q \in Requests \ {r} : Authorized(q) => req[q].receipt # req[r].receipt
      BY <1>1 DEF ReceiptFree
    <2>7. \A p, q \in Requests : Authorized(p)' /\ Authorized(q)' /\ req'[p].receipt = req'[q].receipt => p = q
      BY <2>2, <2>3, <2>6 DEF ConnectionsInv, ReceiptsInv, Authorized
    <2>8. \A q \in Requests : Authorized(q)' => recorded'[req'[q].receipt] = "none"
      BY <1>1, <1>2, <2>2, <2>3 DEF ConnectionsInv, ReceiptsInv, Authorized, Unauthorized, testVars
    <2>9. \A k \in Receipts : Taken(k)' <=> Taken(k)
      BY <1>1, <2>2, <2>3 DEF Taken
    <2>10. ReceiptsInv'
      BY <1>1, <2>7, <2>8, <2>9 DEF ConnectionsInv, ReceiptsInv, testVars
    <2>11. TypeOK'
      BY <1>1, <2>1, <2>2 DEF ConnectionsInv, TypeOK, testVars
    <2>. QED
      BY <1>1, <2>4, <2>5, <2>10, <2>11 DEF ConnectionsInv, BoxesInv, OneConnected, PointerIsLive, MovedInv, RequestsInv
  <1>3. CASE ~Unauthorized(req[r].receipt)
    BY <1>1, <1>3, EndEffect DEF AuthorizeTest, ConnectionsInv, TypeOK
  <1>. QED
    BY <1>2, <1>3

\* The credential of a test email: it ends without one, goes on with the one that
\* was stored, or refreshes it alone with the row of a mailbox still connected.
LEMMA TakeStep ==
    ASSUME ConnectionsInv, NEW r \in Requests, TakeCredential(r)
    PROVE  ConnectionsInv'
PROOF
  <1>1. /\ req[r].kind = "test" /\ req[r].at = "authorized" /\ Authorized(r)
        /\ UNCHANGED <<provider, accountId, account, box, cred, flow, faults>> /\ UNCHANGED testVars
        /\ req[r].w \in Workspaces /\ req[r].receipt \in Receipts /\ req[r].gen \in Gen
    BY DEF TakeCredential, Authorized, identityVars, ConnectionsInv, TypeOK, RequestType, TestType, Idle
  <1>2. CASE RollBack(r)
    BY <1>1, <1>2, EndEffect DEF RollBack, ConnectionsInv, TypeOK
  <1>3. ASSUME NEW gen \in Gen, NEW refreshed \in BOOLEAN, WithCredential(r, gen, refreshed),
               refreshed => Alone(r, req[r].w) /\ box[req[r].w].state = "CONNECTED"
                            /\ box[req[r].w].gen = gen - 1 /\ cred[req[r].w][gen] = "none",
               ~refreshed => cred[req[r].w][gen] # "none"
        PROVE  ConnectionsInv'
    <2>. DEFINE new == [kind |-> "test", w |-> req[r].w, receipt |-> req[r].receipt, at |-> "ready",
                        gen |-> gen, locked |-> req[r].gen, refreshed |-> refreshed]
    <2>1. req' = [req EXCEPT ![r] = new] /\ new \in RequestType
      BY <1>1, <1>3 DEF WithCredential, ConnectionsInv, TypeOK, RequestType, TestType
    <2>2. req'[r] = new
      BY <2>1 DEF ConnectionsInv, TypeOK
    <2>3. (Holds(r)' => refreshed) /\ Rightly(r)'
      BY <1>1, <1>3, <2>2 DEF Holds, Rightly, Refreshed, Equipped
    <2>4. Holds(r)' => Alone(r, new.w)
      BY <1>3, <2>3
    <2>. QED
      BY <1>1, <2>1, <2>3, <2>4, RequestEffect DEF ConnectionsInv, TypeOK
  <1>4. CASE HasCredential(req[r].w, req[r].gen) /\ WithCredential(r, req[r].gen, FALSE)
    <2>1. PICK refreshed \in BOOLEAN : ~refreshed /\ WithCredential(r, req[r].gen, refreshed)
      BY <1>4
    <2>. QED
      BY <1>1, <1>3, <1>4, <2>1 DEF HasCredential
  <1>5. CASE /\ HasCredential(req[r].w, req[r].gen) /\ req[r].gen < MaxGen /\ MayUpdate(r, req[r].w)
             /\ MayConnect(req[r].w, req[r].gen + 1) /\ WithCredential(r, req[r].gen + 1, TRUE)
    <2>1. PICK refreshed \in BOOLEAN : refreshed /\ WithCredential(r, req[r].gen + 1, refreshed)
      BY <1>5
    <2>2. Alone(r, req[r].w)
      BY <1>1, <1>5, UpdaterAlone
    <2>3. cred[req[r].w][req[r].gen + 1] = "none" /\ req[r].gen + 1 \in Gen
          /\ box[req[r].w].gen \in Nat /\ req[r].gen \in Nat /\ box[req[r].w].gen <= req[r].gen + 1
          /\ cred[req[r].w][req[r].gen] = "live"
          /\ box[req[r].w].state \in {"none", "CONNECTED", "DISCONNECTED"}
      BY <1>1, <1>5 DEF MayConnect, NewGeneration, Guard, HasCredential, Gen, ConnectionsInv, TypeOK, BoxType
    <2>4. IF box[req[r].w].state = "CONNECTED" THEN req[r].gen <= box[req[r].w].gen
          ELSE req[r].gen < box[req[r].w].gen
      BY <1>1, <2>3 DEF ConnectionsInv, PointerIsLive
    <2>5. box[req[r].w].state = "CONNECTED"
      <3>1. box[req[r].w].state = "none" => box[req[r].w].gen = 0
        BY <1>1 DEF ConnectionsInv, BoxesInv
      <3>2. box[req[r].w].state = "DISCONNECTED" => req[r].gen # box[req[r].w].gen - 1
        BY <1>1, <2>3 DEF ConnectionsInv, BoxesInv
      <3>. QED BY <2>3, <2>4, <3>1, <3>2
    <2>6. box[req[r].w].gen = req[r].gen
      <3>1. cred[req[r].w][box[req[r].w].gen] = "live"
        BY <1>1, <2>5 DEF ConnectionsInv, PointerIsLive
      <3>. QED BY <2>3, <2>4, <2>5, <3>1
    <2>7. box[req[r].w].gen = (req[r].gen + 1) - 1
      BY <2>3, <2>6
    <2>. QED
      BY <1>1, <1>3, <2>1, <2>2, <2>3, <2>5, <2>7
  <1>. QED
    BY <1>2, <1>4, <1>5 DEF TakeCredential

\* An OAuth flow is completed, SMTP settings are updated, a worker stores what it
\* refreshed: each is alone with the row when it commits.
LEMMA ConnectingStep ==
    ASSUME ConnectionsInv, NEW r \in Requests, CompleteOAuth(r) \/ UpdateSmtp(r) \/ RotateConnection(r)
    PROVE  ConnectionsInv'
PROOF
  <1>1. CASE CompleteOAuth(r)
    <2>1. req[r].kind = "connect" /\ req[r].w \in Workspaces /\ req[r].f \in Flows /\ MayUpdate(r, req[r].w)
      BY <1>1 DEF CompleteOAuth, ConnectionsInv, TypeOK, RequestType, TestType, Idle
    <2>2. Alone(r, req[r].w)
      BY <2>1, UpdaterAlone
    <2>3. /\ ConnectOrRollBack(r, req[r].w, req[r].gen + 1)
          /\ UNCHANGED <<provider, accountId, account, faults>> /\ UNCHANGED testVars
      BY <1>1 DEF CompleteOAuth, identityVars
    <2>5. account' \in [Workspaces -> Accounts] /\ MovedInv'
      BY <2>3 DEF ConnectionsInv, TypeOK, MovedInv
    <2>4. flow' \in [Flows -> FlowType]
      BY <1>1, <2>1 DEF CompleteOAuth, CompleteFlow, ConnectionsInv, TypeOK, FlowType
    <2>. QED BY <2>1, <2>2, <2>3, <2>4, <2>5, ConnectingEffect
  <1>2. CASE UpdateSmtp(r)
    <2>1. req[r].kind = "update" /\ req[r].w \in Workspaces
      BY <1>2 DEF UpdateSmtp, ConnectionsInv, TypeOK, RequestType, TestType, Idle
    <2>2. Alone(r, req[r].w)
      BY <2>1, HolderAlone DEF Holds, ConnectionsInv
    <2>3. /\ ConnectOrRollBack(r, req[r].w, req[r].gen + 1)
          /\ UNCHANGED <<provider, accountId, flow, faults>> /\ UNCHANGED testVars
      BY <1>2 DEF UpdateSmtp
    <2>4. provider = "SMTP" /\ flow' \in [Flows -> FlowType]
      BY <2>1, <2>3 DEF ConnectionsInv, RequestsInv, Rightly, TypeOK
    <2>5. account' \in [Workspaces -> Accounts] /\ MovedInv'
      BY <1>2, <2>3, <2>4 DEF UpdateSmtp, ConnectionsInv, TypeOK, MovedInv
    <2>. QED BY <2>1, <2>2, <2>3, <2>4, <2>5, ConnectingEffect
  <1>3. CASE RotateConnection(r)
    <2>1. req[r].kind = "refresh" /\ req[r].w \in Workspaces /\ MayUpdate(r, req[r].w)
      BY <1>3 DEF RotateConnection, ConnectionsInv, TypeOK, RequestType, TestType, Idle
    <2>2. Alone(r, req[r].w)
      BY <2>1, UpdaterAlone
    <2>3. /\ ConnectOrRollBack(r, req[r].w, req[r].gen + 1)
          /\ UNCHANGED <<provider, accountId, account, flow, faults>> /\ UNCHANGED testVars
      BY <1>3 DEF RotateConnection, identityVars
    <2>4. /\ flow' \in [Flows -> FlowType]
          /\ account' \in [Workspaces -> Accounts] /\ MovedInv'
      BY <2>3 DEF ConnectionsInv, TypeOK, MovedInv
    <2>. QED BY <2>1, <2>2, <2>3, <2>4, ConnectingEffect
  <1>. QED
    BY <1>1, <1>2, <1>3

\* Disconnecting destroys the credential the mailbox points to: the request held the
\* row since it read which one that was.
LEMMA DisconnectStep ==
    ASSUME ConnectionsInv, NEW r \in Requests, Disconnect(r)
    PROVE  ConnectionsInv'
PROOF
  <1>0. /\ req[r].kind = "disconnect" /\ req[r].w \in Workspaces /\ req[r].gen \in Nat
        /\ req' = [req EXCEPT ![r] = Idle] /\ UNCHANGED <<provider, accountId, account, flow, faults>> /\ UNCHANGED testVars
    BY DEF Disconnect, identityVars, ConnectionsInv, TypeOK, RequestType, TestType, Idle
  <1>. PICK w \in Workspaces : w = req[r].w
    BY <1>0
  <1>. PICK gen \in Nat : gen = req[r].gen
    BY <1>0
  <1>1. box[w].state = "CONNECTED" /\ box[w].gen = gen /\ gen \in Gen
    BY <1>0 DEF ConnectionsInv, RequestsInv, Rightly, BoxesInv
  <1>2. Alone(r, w)
    BY <1>0, HolderAlone DEF Holds, ConnectionsInv
  <1>3. DestroyConnection(w, gen) /\ UpdateConnectionState(w, "DISCONNECTED", gen + 1)
    BY <1>1 DEF Disconnect, Guard
  <1>4. /\ box' \in [Workspaces -> BoxType] /\ box'[w] = [state |-> "DISCONNECTED", gen |-> gen + 1]
        /\ \A v \in Workspaces \ {w} : box'[v] = box[v]
    BY <1>3 DEF UpdateConnectionState, ConnectionsInv, TypeOK, BoxType
  <1>5. /\ cred' \in [Workspaces -> [Gen -> {"none", "live", "destroyed"}]]
        /\ \A v \in Workspaces \ {w} : cred'[v] = cred[v]
        /\ cred'[w][gen] # "live" /\ \A g \in Gen : cred'[w][g] # "none" <=> cred[w][g] # "none"
    BY <1>1, <1>3 DEF DestroyConnection, ConnectionsInv, TypeOK
  <1>6. BoxInvs'
    <2>1. BoxesInv'
      BY <1>1, <1>4, <1>5 DEF ConnectionsInv, BoxesInv, TypeOK, BoxType
    <2>2. OneConnected'
      BY <1>0, <1>4 DEF ConnectionsInv, OneConnected
    <2>3. ASSUME NEW g \in Gen, cred'[w][g] # "none" PROVE g < gen + 1
      <3>1. g <= gen
        BY <1>1, <1>5, <2>3 DEF ConnectionsInv, PointerIsLive
      <3>. QED BY <3>1 DEF Gen
    <2>4. PointerIsLive'
      BY <1>4, <1>5, <2>3 DEF ConnectionsInv, PointerIsLive
    <2>. QED BY <2>1, <2>2, <2>4 DEF BoxInvs
  <1>7. HoldersInv' /\ RequestsInv'
    BY <1>0, <1>2, <1>4, <1>5, RequestsKept, ZenonT(60) DEF ConnectionsInv
  <1>8. ReceiptsInv'
    BY <1>0, ReceiptsKept DEF ConnectionsInv, Idle
  <1>9. TypeOK'
    BY <1>0, <1>4, <1>5 DEF ConnectionsInv, TypeOK, testVars, RequestType
  <1>. QED
    BY <1>0, <1>6, <1>7, <1>8, <1>9 DEF ConnectionsInv, BoxInvs, MovedInv

\* Whatever happens to a call, the adapter makes one of three answers of it.
LEMMA StatusTyped ==
    ASSUME provider \in Providers, NEW taken \in BOOLEAN, NEW began \in BOOLEAN,
           NEW heard \in {"answer", "timeout", "broken"}
    PROVE  Status(taken, heard, began) \in Statuses
  BY DEF Providers, Status, GmailStatus, GraphStatus, SmtpStatus, AnswerStatus, Statuses

\* The call of a test email: nothing is recorded of its key, and nobody else has
\* one of it in hand.
LEMMA SendTestStep ==
    ASSUME ConnectionsInv, NEW r \in Requests, SendTest(r)
    PROVE  ConnectionsInv'
PROOF
  <1>0. /\ req[r].kind = "test" /\ req[r].at = "ready" /\ req[r].receipt \in Receipts
        /\ req[r] \in [kind : {"test"}, w : Workspaces, receipt : Receipts, at : {"ready"}, gen : Gen, locked : Gen,
                       refreshed : BOOLEAN]
        /\ UNCHANGED <<provider, accountId, account, box, cred, flow, recorded, faults>>
    BY DEF SendTest, identityVars, ConnectionsInv, TypeOK, RequestType, TestType, Idle
  <1>1. PICK taken \in BOOLEAN, status \in Statuses :
          /\ req' = [req EXCEPT ![r] = [kind |-> "test", w |-> @.w, receipt |-> @.receipt, at |-> "called",
                        gen |-> @.gen, locked |-> @.locked, refreshed |-> @.refreshed,
                        taken |-> taken, status |-> status]]
          /\ sent' = [sent EXCEPT ![req[r].receipt] = @ + IF taken THEN 1 ELSE 0]
    <2>1. PICK taken \in BOOLEAN, began \in BOOLEAN, heard \in {"answer", "timeout", "broken"} :
          /\ req' = [req EXCEPT ![r] = [kind |-> "test", w |-> @.w, receipt |-> @.receipt, at |-> "called",
                        gen |-> @.gen, locked |-> @.locked, refreshed |-> @.refreshed,
                        taken |-> taken, status |-> Status(taken, heard, began)]]
          /\ sent' = [sent EXCEPT ![req[r].receipt] = @ + IF taken THEN 1 ELSE 0]
      BY DEF SendTest
    <2>2. Status(taken, heard, began) \in Statuses
      BY StatusTyped DEF ConnectionsInv, TypeOK
    <2>. QED BY <2>1, <2>2
  <1>. DEFINE new == [kind |-> "test", w |-> req[r].w, receipt |-> req[r].receipt, at |-> "called",
                      gen |-> req[r].gen, locked |-> req[r].locked, refreshed |-> req[r].refreshed,
                      taken |-> taken, status |-> status]
  <1>2. req' = [req EXCEPT ![r] = new] /\ new \in RequestType
    BY <1>0, <1>1 DEF ConnectionsInv, TypeOK, RequestType, TestType
  <1>3. req'[r] = new /\ \A q \in Requests \ {r} : req'[q] = req[q]
    BY <1>2 DEF ConnectionsInv, TypeOK
  <1>4. \A q \in Requests : /\ (Holds(q)' <=> Holds(q)) /\ req'[q].w = req[q].w /\ Rightly(q)'
                            /\ (Authorized(q)' <=> Authorized(q)) /\ req'[q].receipt = req[q].receipt
    <2>1. \A q \in Requests \ {r} :
                            /\ (Holds(q)' <=> Holds(q)) /\ req'[q].w = req[q].w /\ Rightly(q)'
                            /\ (Authorized(q)' <=> Authorized(q)) /\ req'[q].receipt = req[q].receipt
      BY <1>0, <1>3 DEF ConnectionsInv, RequestsInv, Holds, Rightly, Refreshed, Equipped, Authorized
    <2>2. /\ (Holds(r)' <=> Holds(r)) /\ req'[r].w = req[r].w /\ Rightly(r)'
          /\ (Authorized(r)' <=> Authorized(r)) /\ req'[r].receipt = req[r].receipt
      BY <1>0, <1>3 DEF ConnectionsInv, RequestsInv, Holds, Rightly, Refreshed, Equipped, Authorized
    <2>. QED BY <2>1, <2>2
  <1>5. HoldersInv' /\ RequestsInv'
    BY <1>4 DEF ConnectionsInv, HoldersInv, RequestsInv
  <1>6. /\ sent' \in [Receipts -> Int] /\ \A k \in Receipts \ {req[r].receipt} : sent'[k] = sent[k]
        /\ sent'[req[r].receipt] = sent[req[r].receipt] + IF taken THEN 1 ELSE 0
    BY <1>0, <1>1 DEF ConnectionsInv, TypeOK
  <1>7. ASSUME NEW k \in Receipts
        PROVE  sent'[k] <= (IF recorded[k] # "none" \/ Taken(k)' THEN 1 ELSE 0)
    <2>1. Taken(k) => Taken(k)'
      BY <1>0, <1>3 DEF Taken
    <2>2. CASE k # req[r].receipt \/ ~taken
      <3>1. sent'[k] = sent[k]
        BY <1>0, <1>6, <2>2 DEF ConnectionsInv, TypeOK
      <3>. QED BY <2>1, <3>1 DEF ConnectionsInv, ReceiptsInv, TypeOK
    <2>3. CASE k = req[r].receipt /\ taken
      <3>1. Taken(k)'
        BY <1>3, <2>3 DEF Taken
      <3>2. Authorized(r) /\ recorded[k] = "none"
        BY <1>0, <2>3 DEF Authorized, ConnectionsInv, ReceiptsInv
      <3>3. ~Taken(k)
        BY <1>0, <2>3, <3>2 DEF Taken, Authorized, ConnectionsInv, ReceiptsInv
      <3>4. sent[k] <= 0
        BY <3>2, <3>3 DEF ConnectionsInv, ReceiptsInv, TypeOK
      <3>. QED BY <1>6, <2>3, <3>1, <3>4 DEF ConnectionsInv, TypeOK
    <2>. QED BY <2>2, <2>3
  <1>8. ReceiptsInv'
    BY <1>0, <1>4, <1>7 DEF ConnectionsInv, ReceiptsInv
  <1>9. TypeOK'
    BY <1>0, <1>2, <1>6 DEF ConnectionsInv, TypeOK
  <1>. QED
    BY <1>0, <1>5, <1>8, <1>9 DEF ConnectionsInv, BoxesInv, OneConnected, PointerIsLive, MovedInv

\* The end of a test email: an answer is recorded for a key of which nothing was,
\* or the email is lost with the transaction.  A refreshed credential is stored by
\* a request that held the row; an old one is the current one, or refused.
LEMMA RecordTestStep ==
    ASSUME ConnectionsInv, NEW r \in Requests, RecordTest(r)
    PROVE  ConnectionsInv'
PROOF
  <1>0. /\ req[r].kind = "test" /\ req[r].at = "called" /\ req[r].receipt \in Receipts /\ req[r].w \in Workspaces
        /\ req[r].gen \in Gen /\ req[r].refreshed \in BOOLEAN /\ req[r].status \in Statuses
        /\ req' = [req EXCEPT ![r] = Idle] /\ UNCHANGED <<provider, accountId, account, flow, faults>>
    BY DEF RecordTest, RollBack, identityVars, ConnectionsInv, TypeOK, RequestType, TestType, Idle
  <1>1. CASE Lose(r) /\ RollBack(r) /\ UNCHANGED recorded
    <2>1. ReceiptsInv' /\ sent' \in [Receipts -> Int]
      BY <1>0, <1>1, LoseEffect DEF ConnectionsInv
    <2>2. UNCHANGED <<box, cred>>
      BY <1>1 DEF RollBack
    <2>3. \A q \in Requests : req'[q] = req[q] \/ req'[q] = Idle
      BY <1>0 DEF ConnectionsInv, TypeOK
    <2>4. HoldersInv' /\ RequestsInv'
      BY <1>0, <2>2, <2>3 DEF ConnectionsInv, HoldersInv, Holds, RequestsInv, Rightly, Refreshed, Equipped, Idle
    <2>5. TypeOK'
      BY <1>0, <1>1, <2>1, <2>2 DEF ConnectionsInv, TypeOK, RequestType
    <2>. QED
      BY <1>0, <2>1, <2>2, <2>4, <2>5 DEF ConnectionsInv, BoxesInv, OneConnected, PointerIsLive, MovedInv
  <1>2. CASE ~(req[r].status = "ACCEPTED" /\ ~Guard(req[r].w, "CONNECTED", req[r].gen))
    <2>. PICK w \in Workspaces : w = req[r].w
      BY <1>0
    <2>. PICK gen \in Gen : gen = req[r].gen
      BY <1>0
    <2>1. /\ recorded' = [recorded EXCEPT ![req[r].receipt] = TestResult(req[r].status)]
          /\ IF req[r].refreshed THEN InsertConnection(w, gen) ELSE UNCHANGED cred
          /\ IF req[r].refreshed \/ req[r].status = "ACCEPTED" THEN UpdateConnectionState(w, "CONNECTED", gen)
             ELSE UNCHANGED box
          /\ UNCHANGED sent
          /\ req[r].status = "ACCEPTED" => MayUpdate(r, w) /\ Guard(w, "CONNECTED", gen)
      BY <1>2 DEF RecordTest
    <2>2. /\ BoxInvs' /\ HoldersInv' /\ RequestsInv'
          /\ box' \in [Workspaces -> BoxType]
          /\ cred' \in [Workspaces -> [Gen -> {"none", "live", "destroyed"}]]
      <3>1. CASE req[r].refreshed
        <4>1. /\ box[w].state = "CONNECTED" /\ box[w].gen = gen - 1 /\ cred[w][gen] = "none"
          BY <1>0, <3>1 DEF ConnectionsInv, RequestsInv, Rightly, Refreshed, Equipped
        <4>2. Alone(r, w)
          BY <1>0, <3>1, HolderAlone DEF Holds, Refreshed, Equipped, ConnectionsInv
        <4>3. GlobalKey(w)
          BY <4>1 DEF GlobalKey, ConnectionsInv, OneConnected, TypeOK, BoxType
        <4>4. MayConnect(w, gen)
          BY <4>1, <4>3 DEF MayConnect, NewGeneration, Guard, Gen
        <4>5. InsertConnection(w, gen) /\ UpdateConnectionState(w, "CONNECTED", gen)
          BY <2>1, <3>1
        <4>6. /\ BoxInvs'
              /\ box' \in [Workspaces -> BoxType]
              /\ cred' \in [Workspaces -> [Gen -> {"none", "live", "destroyed"}]]
              /\ \A v \in Workspaces \ {w} : box'[v] = box[v] /\ cred'[v] = cred[v]
              /\ \A v \in Workspaces, g \in Gen : cred[v][g] # "none" => cred'[v][g] # "none"
          BY <1>0, <4>4, <4>5, ConnectEffect DEF ConnectionsInv, BoxInvs
        <4>. QED BY <1>0, <4>2, <4>6, RequestsKept DEF ConnectionsInv
      <3>2. CASE ~req[r].refreshed
        <4>1. cred[w][gen] # "none" /\ cred' = cred
          BY <1>0, <2>1, <3>2 DEF ConnectionsInv, RequestsInv, Rightly, Refreshed, Equipped
        <4>2. box' = box
          <5>1. CASE req[r].status = "ACCEPTED"
            <6>1. UpdateConnectionState(w, "CONNECTED", gen) /\ Guard(w, "CONNECTED", gen)
              BY <2>1, <5>1
            <6>2. gen >= box[w].gen /\ gen \in Nat /\ box[w].gen \in Nat
                  /\ box[w].state \in {"none", "CONNECTED", "DISCONNECTED"}
              BY <6>1 DEF Guard, Gen, ConnectionsInv, TypeOK, BoxType
            <6>3. IF box[w].state = "CONNECTED" THEN gen <= box[w].gen ELSE gen < box[w].gen
              BY <4>1 DEF ConnectionsInv, PointerIsLive
            <6>4. box[w].state = "CONNECTED" /\ box[w].gen = gen
              BY <6>2, <6>3
            <6>5. box[w] = [state |-> "CONNECTED", gen |-> gen]
              BY <6>4 DEF ConnectionsInv, TypeOK, BoxType
            <6>6. box' = [box EXCEPT ![w] = box[w]]
              BY <6>1, <6>5 DEF UpdateConnectionState
            <6>. QED BY <6>6 DEF ConnectionsInv, TypeOK
          <5>2. CASE req[r].status # "ACCEPTED"
            BY <2>1, <3>2, <5>2
          <5>. QED BY <5>1, <5>2
        <4>3. \A q \in Requests : req'[q] = req[q] \/ req'[q] = Idle
          BY <1>0 DEF ConnectionsInv, TypeOK
        <4>4. HoldersInv' /\ RequestsInv'
          BY <1>0, <4>1, <4>2, <4>3 DEF ConnectionsInv, HoldersInv, Holds, RequestsInv, Rightly, Refreshed, Equipped, Idle
        <4>. QED
          BY <1>0, <4>1, <4>2, <4>4 DEF ConnectionsInv, TypeOK, BoxInvs, BoxesInv, OneConnected, PointerIsLive, MovedInv
      <3>. QED BY <1>0, <3>1, <3>2
    <2>3. TestResult(req[r].status) \in Results
      BY <1>0 DEF TestResult, Statuses, Results
    <2>4. /\ recorded' \in [Receipts -> {"none"} \union Results] /\ recorded'[req[r].receipt] # "none"
          /\ \A k \in Receipts \ {req[r].receipt} : recorded'[k] = recorded[k]
      BY <1>0, <2>1, <2>3 DEF ConnectionsInv, TypeOK, Results
    <2>5. req'[r] = Idle /\ \A q \in Requests \ {r} : req'[q] = req[q]
      BY <1>0 DEF ConnectionsInv, TypeOK
    <2>6. \A q \in Requests : Authorized(q)' => q # r /\ Authorized(q) /\ req'[q] = req[q]
      BY <2>5 DEF Authorized, Idle
    <2>7. \A q \in Requests : Authorized(q)' => req[q].receipt # req[r].receipt
      BY <1>0, <2>6 DEF ConnectionsInv, ReceiptsInv, Authorized
    <2>8. ASSUME NEW k \in Receipts
          PROVE  sent[k] <= (IF recorded'[k] # "none" \/ Taken(k)' THEN 1 ELSE 0)
      <3>1. CASE k = req[r].receipt
        BY <2>4, <3>1 DEF ConnectionsInv, ReceiptsInv, TypeOK
      <3>2. CASE k # req[r].receipt
        <4>1. Taken(k) => Taken(k)'
          BY <2>5, <3>2 DEF Taken
        <4>. QED BY <2>4, <3>2, <4>1 DEF ConnectionsInv, ReceiptsInv, TypeOK
      <3>. QED BY <3>1, <3>2
    <2>9. \A q \in Requests : Authorized(q)' => recorded'[req'[q].receipt] = "none"
      <3>1. \A q \in Requests : Authorized(q) => req[q].receipt \in Receipts /\ recorded[req[q].receipt] = "none"
        BY DEF Authorized, ConnectionsInv, ReceiptsInv, TypeOK, RequestType, TestType, Idle
      <3>. QED BY <2>4, <2>6, <2>7, <3>1
    <2>10. ReceiptsInv'
      BY <1>0, <2>1, <2>6, <2>8, <2>9 DEF ConnectionsInv, ReceiptsInv
    <2>11. TypeOK'
      BY <1>0, <2>1, <2>2, <2>4 DEF ConnectionsInv, TypeOK, RequestType
    <2>. QED
      BY <1>0, <2>2, <2>10, <2>11 DEF ConnectionsInv, BoxInvs, MovedInv
  <1>. QED
    BY <1>0, <1>1, <1>2 DEF RecordTest

\* A crash undoes the request, and may lose the email it had sent.
LEMMA CrashStep ==
    ASSUME ConnectionsInv, NEW r \in Requests, Crash(r)
    PROVE  ConnectionsInv'
PROOF
  <1>0. /\ req' = [req EXCEPT ![r] = Idle] /\ UNCHANGED <<provider, accountId, account, box, cred, flow, recorded>>
        /\ faults' \in Nat
    BY DEF Crash, RollBack, Fault, identityVars, ConnectionsInv, TypeOK
  <1>1. CASE req[r].kind = "test" /\ req[r].at = "called"
    <2>1. ReceiptsInv' /\ sent' \in [Receipts -> Int]
      BY <1>0, <1>1, LoseEffect DEF Crash, ConnectionsInv
    <2>2. \A q \in Requests : req'[q] = req[q] \/ req'[q] = Idle
      BY <1>0 DEF ConnectionsInv, TypeOK
    <2>3. HoldersInv' /\ RequestsInv'
      BY <1>0, <2>2 DEF ConnectionsInv, HoldersInv, Holds, RequestsInv, Rightly, Refreshed, Equipped, Idle
    <2>4. TypeOK'
      BY <1>0, <2>1 DEF ConnectionsInv, TypeOK, RequestType
    <2>. QED
      BY <1>0, <2>1, <2>3, <2>4 DEF ConnectionsInv, BoxesInv, OneConnected, PointerIsLive, MovedInv
  <1>2. CASE ~(req[r].kind = "test" /\ req[r].at = "called")
    <2>1. UNCHANGED testVars
      BY <1>0, <1>2 DEF Crash, testVars
    <2>. QED BY <1>0, <1>2, <2>1, EndEffect
  <1>. QED
    BY <1>1, <1>2

-----------------------------------------------------------------------------
(* The theorems *)

\* No step of a request, a worker, a flow or a crash breaks the invariant.
LEMMA Steps == ConnectionsInv /\ Next => ConnectionsInv'
PROOF
  <1>. SUFFICES ASSUME ConnectionsInv, Next PROVE ConnectionsInv'
    OBVIOUS
  <1>1. CASE \E f \in Flows, w \in Workspaces : StartOAuth(f, w)
    BY <1>1, FlowStep
  <1>2. CASE \E f \in Flows : ExpireFlow(f)
    <2>1. PICK f \in Flows : ExpireFlow(f)
      BY <1>2
    <2>2. PICK w : w \in Workspaces
      BY <2>1 DEF ExpireFlow, ConnectionsInv, TypeOK, FlowType
    <2>. QED BY <2>1, <2>2, FlowStep
  <1>3. CASE \E w \in Workspaces : ConnectSmtp(w)
    BY <1>3, ConnectSmtpStep
  <1>4. ASSUME NEW r \in Requests, Step(r) PROVE ConnectionsInv'
    <2>1. CASE ReadAccount(r)
      BY <2>1, ReadingStep DEF Reads
    <2>2. CASE CompleteOAuth(r) \/ UpdateSmtp(r) \/ RotateConnection(r)
      BY <2>2, ConnectingStep
    <2>3. CASE Disconnect(r)
      BY <2>3, DisconnectStep
    <2>4. CASE AuthorizeTest(r)
      BY <2>4, AuthorizeStep
    <2>5. CASE TakeCredential(r)
      BY <2>5, TakeStep
    <2>6. CASE SendTest(r)
      BY <2>6, SendTestStep
    <2>7. CASE RecordTest(r)
      BY <2>7, RecordTestStep
    <2>. QED
      BY <1>4, <2>1, <2>2, <2>3, <2>4, <2>5, <2>6, <2>7
      DEF Step, ReadGmailAccount, ReadMicrosoftAccount, CompleteGmailOAuth, CompleteMicrosoftOAuth
  <1>5. ASSUME NEW r \in Requests,
               \/ LoginFails(r) \/ GmailExchangeFails(r) \/ MicrosoftExchangeFails(r)
               \/ GmailRefreshFails(r) \/ MicrosoftRefreshFails(r)
        PROVE  ConnectionsInv'
    <2>1. Refused(r) /\ req[r].kind # "test"
      BY <1>5 DEF LoginFails, GmailExchangeFails, MicrosoftExchangeFails, ExchangeFails, GmailRefreshFails,
                  MicrosoftRefreshFails
    <2>. QED BY <2>1, RefusedStep
  <1>6. ASSUME NEW r \in Requests, NEW f \in Flows, ClaimFlow(r, f) PROVE ConnectionsInv'
    BY <1>6, ReadingStep DEF Reads
  <1>7. ASSUME NEW r \in Requests, NEW w \in Workspaces,
               \/ LockForUpdate(r, w) \/ LockForDisconnect(r, w)
        PROVE  ConnectionsInv'
    BY <1>7, LockingStep
  <1>8. ASSUME NEW r \in Requests, NEW w \in Workspaces, LoadCredential(r, w) PROVE ConnectionsInv'
    BY <1>8, ReadingStep DEF Reads
  <1>9. ASSUME NEW r \in Requests, NEW k \in Asked(provider), BeginTest(r, k) PROVE ConnectionsInv'
    <2>1. k \in Receipts
      BY ConnectionsAssumption DEF ConnectionsInv, TypeOK
    <2>. QED BY <1>9, <2>1, ReadingStep DEF Reads
  <1>. QED
    BY <1>1, <1>2, <1>3, <1>4, <1>5, <1>6, <1>7, <1>8, <1>9, CrashStep DEF Next

\* The initial states satisfy the invariant.
LEMMA Begin == Init => ConnectionsInv
PROOF
  <1>. SUFFICES ASSUME Init PROVE ConnectionsInv
    OBVIOUS
  <1>1. TypeOK
    BY ConnectionsAssumption DEF Init, TypeOK, BoxType, FlowType, RequestType
  <1>2. BoxesInv /\ OneConnected /\ PointerIsLive /\ MovedInv
    BY DEF Init, BoxesInv, OneConnected, PointerIsLive, MovedInv
  <1>3. HoldersInv /\ RequestsInv
    BY DEF Init, HoldersInv, Holds, RequestsInv, Rightly, Refreshed, Equipped, Idle
  <1>4. ReceiptsInv
    BY DEF Init, ReceiptsInv, Authorized, Taken, Idle
  <1>. QED
    BY <1>1, <1>2, <1>3, <1>4 DEF ConnectionsInv

\* The invariant holds in every reachable state.
THEOREM ConnectionsInvariance == Spec => []ConnectionsInv
PROOF
  <1>1. ConnectionsInv /\ UNCHANGED vars => ConnectionsInv'
    BY DEF vars, ConnectionsInv, TypeOK, BoxesInv, OneConnected, PointerIsLive, MovedInv, HoldersInv, Holds,
           Refreshed, Equipped, RequestsInv, Rightly, ReceiptsInv, Authorized, Taken
  <1>. QED
    BY Begin, Steps, <1>1, PTL DEF Spec

\* OneWorkspacePerAccount: the partial unique index and the order of the locks keep
\* a provider_account_id with one connected workspace, however many requests connect
\* it at once.  The account itself may have two, where an update of SMTP settings moved
\* one of them to an account other than that of its id, which no constraint sees.
THEOREM AccountHasOneWorkspace == Spec => []OneWorkspacePerAccount
PROOF
  <1>1. ConnectionsInv => OneWorkspacePerAccount
    <2>. SUFFICES ASSUME ConnectionsInv, NEW v \in Workspaces, NEW w \in Workspaces, v # w,
                         box[v].state = "CONNECTED", box[w].state = "CONNECTED"
                  PROVE  /\ accountId[v] # accountId[w]
                         /\ account[v] = account[w] =>
                               provider = "SMTP" /\ \E u \in {v, w} : account[u] # accountId[u]
      BY DEF OneWorkspacePerAccount
    <2>1. accountId[v] # accountId[w]
      BY DEF ConnectionsInv, OneConnected
    <2>2. account[v] = account[w] => account # accountId
      BY <2>1
    <2>. QED BY <2>1, <2>2 DEF ConnectionsInv, MovedInv
  <1>. QED
    BY ConnectionsInvariance, <1>1, PTL

\* PointerIsLive: connects, updates, disconnects and refreshes that overlap never
\* leave a connected mailbox at a credential that is gone or not the newest.
THEOREM PointerStaysLive == Spec => []PointerIsLive
PROOF
  <1>1. ConnectionsInv => PointerIsLive
    BY DEF ConnectionsInv
  <1>. QED
    BY ConnectionsInvariance, <1>1, PTL

\* OneEmailPerReceipt: the receipt of a member's key in a workspace, and the authorization
\* it may have, let one request at a time call the provider, and none after a result was
\* recorded.  An email that a transaction rolled back later had sent is not counted.
THEOREM ReceiptSendsOnce == Spec => []OneEmailPerReceipt
PROOF
  <1>1. ConnectionsInv => OneEmailPerReceipt
    BY DEF ConnectionsInv, ReceiptsInv, OneEmailPerReceipt, TypeOK
  <1>. QED
    BY ConnectionsInvariance, <1>1, PTL

=============================================================================
