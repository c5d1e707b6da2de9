---------------------------- MODULE Connections ----------------------------
(***************************************************************************)
(* Mailbox connections (mailboxes/service.py and repository.py): OAuth and *)
(* SMTP connects, updates, disconnects, credential refreshes and test      *)
(* emails, on the mailbox rows of one provider, one row for each workspace,*)
(* of the same account or of different ones.                               *)
(*                                                                         *)
(* A request is one transaction (api/deps.py): what it writes shows when   *)
(* it commits, and an error undoes all of it, also what it wrote to report *)
(* that error.  It calls the provider in its middle, so its steps are: its *)
(* reads, the locks it holds over the call, the call, and its commit.  The *)
(* locks are PostgreSQL's: FOR UPDATE on the mailbox, the weaker lock of a *)
(* foreign key that refers to it, the one of an UPDATE, and FOR UPDATE on  *)
(* a connection.  Addresses, scopes, keys and ciphertexts are left out, and*)
(* so are the checks a test email makes of the policy and the suppressions.*)
(***************************************************************************)
EXTENDS Integers, FiniteSets

CONSTANTS Workspaces, Requests, Flows,
          Accounts,      \* accounts at the provider
          Callers,       \* members of a workspace, with the operation they ask for
          Keys,          \* Idempotency-Keys
          Identities(_), \* bound: with a provider, the accounts the workspaces connect
          Asked(_),      \* bound: with a provider, the receipts of the test emails
          MaxGen,        \* bound: generations of a connection
          MaxFaults      \* bound: servers that die, refused consents and logins

Providers == {"GMAIL", "MICROSOFT", "SMTP"}

\* command_receipts_identity_key: what a receipt is unique by.
Receipts == [w : Workspaces, caller : Callers, key : Keys]

ASSUME ConnectionsAssumption ==
    /\ \A p \in Providers : Identities(p) \subseteq [Workspaces -> Accounts] /\ Asked(p) \subseteq Receipts
    /\ MaxGen \in Nat \ {0} /\ MaxFaults \in Nat

VARIABLES
    provider,  \* mailboxes.provider
    accountId, \* mailboxes.provider_account_id, which nothing writes but the insert
    account,   \* the account that the newest connection of a mailbox logs in to
    box,       \* mailboxes: connection_state and current_connection_generation
    cred,      \* mailbox_connections, by generation
    flow,      \* oauth_flows
    req,       \* the requests under way, their locks and what they have not committed
    sent,      \* test emails the provider took, by receipt, less those whose
               \* transaction was rolled back after that (history)
    recorded,  \* the test message of that receipt
    faults

vars == <<provider, accountId, account, box, cred, flow, req, sent, recorded, faults>>
identityVars == <<provider, accountId, account>>
testVars == <<sent, recorded>>

Gen == 1 .. MaxGen
Idle == [kind |-> "idle"]

Init ==
    /\ provider \in Providers
    /\ accountId \in Identities(provider) /\ account = accountId
    /\ box = [w \in Workspaces |-> [state |-> "none", gen |-> 0]]
    /\ cred = [w \in Workspaces |-> [g \in Gen |-> "none"]]
    /\ flow = [f \in Flows |-> [status |-> "none"]]
    /\ req = [r \in Requests |-> Idle]
    /\ sent = [k \in Receipts |-> 0] /\ recorded = [k \in Receipts |-> "none"]
    /\ faults = 0

Fault == faults < MaxFaults /\ faults' = faults + 1

OAuth == provider \in {"GMAIL", "MICROSOFT"}

\* A request that has room for the generation it will write.
Begins(r, w) == req[r] = Idle /\ box[w].gen < MaxGen

-----------------------------------------------------------------------------
(* Locks *)

Others(r, w) == {q \in Requests \ {r} : req[q] # Idle /\ req[q].w = w}

\* get_mailbox(for_update=True) holds the row until the end.
RowLocked(r, w) == \E q \in Others(r, w) : req[q].kind \in {"update", "disconnect"}

Authorized(q) == req[q].kind = "test" /\ req[q].at # "read"

\* The authorization of a test email refers to the mailbox: nobody gets FOR
\* UPDATE before it is committed or rolled back.
Referred(r, w) == \E q \in Others(r, w) : Authorized(q)

\* An UPDATE of the mailbox that is not committed: only a refresh of a test email
\* goes on after it.
Updated(r, w) ==
    \E q \in Others(r, w) : req[q].kind = "test" /\ req[q].at \in {"ready", "called"} /\ req[q].refreshed

\* Mutant: a test email does not hold the row against a disconnect.
X_MayLock(r, w) == ~RowLocked(r, w) /\ ~Updated(r, w)
MayLock(r, w) == ~RowLocked(r, w) /\ ~Updated(r, w) /\ ~Referred(r, w)
MayRefer(r, w) == ~RowLocked(r, w)

\* The UPDATE of the mailbox itself: it leaves the key alone, and so does not wait
\* for references.
MayUpdate(r, w) == ~RowLocked(r, w) /\ ~Updated(r, w)

\* get_mailbox_connection(for_update=True).
ConnectionLocked(r, w, g) ==
    \E q \in Others(r, w) : req[q].kind = "test" /\ req[q].at \in {"ready", "called"} /\ req[q].locked = g

-----------------------------------------------------------------------------
(* Constraints *)

\* Mutant: the trigger lets a generation come back.
X_Guard(w, state, gen) == TRUE
\* app_guard_mailbox_generation.
Guard(w, state, gen) ==
    /\ gen >= box[w].gen
    /\ box[w].state = "CONNECTED" /\ state # "CONNECTED" => gen > box[w].gen

\* Mutant: only the check of the request, which row security confines to its own
\* workspace.
X_GlobalKey(w) == TRUE
\* mailboxes_provider_account_global_key.
GlobalKey(w) ==
    \A v \in Workspaces \ {w} : accountId[v] = accountId[w] => box[v].state \in {"none", "DISCONNECTED"}

\* mailbox_connections_generation_key; beyond the bound a request is undone as if
\* the database refused it.
NewGeneration(w, gen) == gen \in Gen /\ cred[w][gen] = "none"

-----------------------------------------------------------------------------
(* Statements of the repository *)

\* get_active_mailbox_by_provider_account_global: row security shows a request the
\* rows of its own workspace only.
GlobalActive(w) == {v \in {w} : box[v].state \notin {"none", "DISCONNECTED"}}

\* get_mailbox_connection finds one whose secrets are not destroyed.
HasCredential(w, gen) == cred[w][gen] = "live"

InsertConnection(w, gen) == cred' = [cred EXCEPT ![w][gen] = "live"]

\* A generation destroyed before stays so.
DestroyConnection(w, gen) ==
    cred' = [cred EXCEPT ![w][gen] = IF @ = "live" THEN "destroyed" ELSE @]

UpdateConnectionState(w, state, gen) == box' = [box EXCEPT ![w] = [state |-> state, gen |-> gen]]

MayConnect(w, gen) == NewGeneration(w, gen) /\ Guard(w, "CONNECTED", gen) /\ GlobalKey(w)

\* The end of a request that wrote a connection, or was refused by a constraint.
ConnectOrRollBack(r, w, gen) ==
    /\ req' = [req EXCEPT ![r] = Idle]
    /\ IF MayConnect(w, gen) THEN InsertConnection(w, gen) /\ UpdateConnectionState(w, "CONNECTED", gen)
       ELSE UNCHANGED <<box, cred>>

RollBack(r) == req' = [req EXCEPT ![r] = Idle] /\ UNCHANGED <<box, cred, flow>>

-----------------------------------------------------------------------------
(* OAuth *)

InsertOAuthFlow(f, w) ==
    /\ flow[f].status = "none"
    /\ flow' = [flow EXCEPT ![f] = [status |-> "PENDING", w |-> w]]

StartGmailOAuth(f, w) == provider = "GMAIL" /\ InsertOAuthFlow(f, w)
StartMicrosoftOAuth(f, w) == provider = "MICROSOFT" /\ InsertOAuthFlow(f, w)

\* Connecting and reconnecting (reconnect_gmail, reconnect_microsoft) begin alike.
StartOAuth(f, w) ==
    /\ StartGmailOAuth(f, w) \/ StartMicrosoftOAuth(f, w)
    /\ UNCHANGED <<identityVars, box, cred, req, faults>> /\ UNCHANGED testVars

\* expires_at passes.
ExpireFlow(f) ==
    /\ flow[f].status = "PENDING" /\ Fault
    /\ flow' = [flow EXCEPT ![f] = [status |-> "EXPIRED"]]
    /\ UNCHANGED <<identityVars, box, cred, req>> /\ UNCHANGED testVars

\* get_and_claim_oauth_flow: one UPDATE, which a second one waits for.
Claimable(r, f) ==
    /\ flow[f].status = "PENDING"
    /\ \A q \in Requests \ {r} : ~(req[q].kind = "connect" /\ req[q].f = f)

ClaimFlow(r, f) ==
    /\ Claimable(r, f) /\ Begins(r, flow[f].w)
    /\ req' = [req EXCEPT ![r] = [kind |-> "connect", w |-> flow[f].w, f |-> f, at |-> "claimed"]]
    /\ UNCHANGED <<identityVars, box, cred, flow, faults>> /\ UNCHANGED testVars

\* exchange_code, get_identity: refused.  fail_oauth_flow is undone with the rest,
\* and the flow is PENDING again.
Refused(r) ==
    /\ Fault /\ RollBack(r)
    /\ UNCHANGED identityVars /\ UNCHANGED testVars

ExchangeFails(r) ==
    /\ req[r].kind = "connect" /\ req[r].at = "claimed"
    /\ Refused(r)

GmailExchangeFails(r) == provider = "GMAIL" /\ ExchangeFails(r)
MicrosoftExchangeFails(r) == provider = "MICROSOFT" /\ ExchangeFails(r)

\* get_mailbox_by_provider_account: the generation is that of a row nobody holds.
ReadAccount(r) ==
    /\ req[r].kind = "connect" /\ req[r].at = "claimed"
    /\ GlobalActive(req[r].w) \subseteq {req[r].w}
    /\ req' = [req EXCEPT ![r] = [kind |-> "connect", w |-> req[r].w, f |-> req[r].f,
                                  at |-> "known", gen |-> box[req[r].w].gen]]
    /\ UNCHANGED <<identityVars, box, cred, flow, faults>> /\ UNCHANGED testVars

ReadGmailAccount(r) == provider = "GMAIL" /\ ReadAccount(r)
ReadMicrosoftAccount(r) == provider = "MICROSOFT" /\ ReadAccount(r)

CompleteFlow(f) == flow' = [flow EXCEPT ![f] = [status |-> "COMPLETED"]]

\* insert_mailbox: the workspace has none of the account by now.
InsertMailbox(w, known) == known = 0 => box[w].state = "none"

\* From the insert on: a new mailbox begins at 1, one that exists at the generation
\* after the one that was read.
CompleteOAuth(r) ==
    LET w == req[r].w  gen == req[r].gen + 1
    IN /\ req[r].kind = "connect" /\ req[r].at = "known"
       /\ MayUpdate(r, w)
       /\ IF MayConnect(w, gen) /\ InsertMailbox(w, req[r].gen) THEN CompleteFlow(req[r].f)
          ELSE UNCHANGED flow
       /\ ConnectOrRollBack(r, w, gen)
       /\ UNCHANGED <<identityVars, faults>> /\ UNCHANGED testVars

CompleteGmailOAuth(r) == provider = "GMAIL" /\ CompleteOAuth(r)
CompleteMicrosoftOAuth(r) == provider = "MICROSOFT" /\ CompleteOAuth(r)

-----------------------------------------------------------------------------
(* SMTP *)

\* connect_smtp_mailbox: it logs in before it writes, and always inserts.
ConnectSmtp(w) ==
    /\ provider = "SMTP" /\ box[w].state = "none" /\ MayConnect(w, 1)
    /\ InsertConnection(w, 1) /\ UpdateConnectionState(w, "CONNECTED", 1)
    /\ UNCHANGED <<identityVars, flow, req, faults>> /\ UNCHANGED testVars

\* update_smtp_mailbox, until it logs in with the new settings.
LockForUpdate(r, w) ==
    /\ provider = "SMTP" /\ Begins(r, w) /\ box[w].state # "none" /\ MayLock(r, w)
    /\ HasCredential(w, box[w].gen)
    /\ req' = [req EXCEPT ![r] = [kind |-> "update", w |-> w, gen |-> box[w].gen]]
    /\ UNCHANGED <<identityVars, box, cred, flow, faults>> /\ UNCHANGED testVars

LoginFails(r) ==
    /\ req[r].kind = "update" /\ Refused(r)

\* The host, the port and the user may be those of another account: nothing compares
\* them with provider_account_id, which stays.
UpdateSmtp(r) ==
    LET w == req[r].w  gen == req[r].gen + 1
    IN /\ req[r].kind = "update"
       /\ ConnectOrRollBack(r, w, gen)
       /\ IF MayConnect(w, gen) THEN \E a \in Accounts : account' = [account EXCEPT ![w] = a]
          ELSE UNCHANGED account
       /\ UNCHANGED <<provider, accountId, flow, faults>> /\ UNCHANGED testVars

-----------------------------------------------------------------------------
(* Disconnecting *)

\* disconnect_mailbox, until the token is revoked, whatever the provider says.
LockForDisconnect(r, w) ==
    /\ Begins(r, w) /\ box[w].state = "CONNECTED" /\ MayLock(r, w)
    /\ req' = [req EXCEPT ![r] = [kind |-> "disconnect", w |-> w, gen |-> box[w].gen]]
    /\ UNCHANGED <<identityVars, box, cred, flow, faults>> /\ UNCHANGED testVars

\* destroy_mailbox_connection, and a generation without a connection.
Disconnect(r) ==
    LET w == req[r].w  gen == req[r].gen
    IN /\ req[r].kind = "disconnect" /\ ~ConnectionLocked(r, w, gen)
       /\ req' = [req EXCEPT ![r] = Idle]
       /\ IF Guard(w, "DISCONNECTED", gen + 1)
          THEN DestroyConnection(w, gen) /\ UpdateConnectionState(w, "DISCONNECTED", gen + 1)
          ELSE UNCHANGED <<box, cred>>
       /\ UNCHANGED <<identityVars, flow, faults>> /\ UNCHANGED testVars

-----------------------------------------------------------------------------
(* Refreshes by workers *)

\* A send worker or a mailbox sync found the access token about to expire.
LoadCredential(r, w) ==
    /\ OAuth /\ Begins(r, w) /\ box[w].state = "CONNECTED" /\ HasCredential(w, box[w].gen)
    /\ req' = [req EXCEPT ![r] = [kind |-> "refresh", w |-> w, gen |-> box[w].gen]]
    /\ UNCHANGED <<identityVars, box, cred, flow, faults>> /\ UNCHANGED testVars

\* refresh_token: refused, or no answer.
GmailRefreshFails(r) == provider = "GMAIL" /\ req[r].kind = "refresh" /\ Refused(r)
MicrosoftRefreshFails(r) == provider = "MICROSOFT" /\ req[r].kind = "refresh" /\ Refused(r)

\* insert_mailbox_connection, or rotate_mailbox_connection, after the provider
\* answered: no lock was held meanwhile, and the pointer moves unconditionally.
RotateConnection(r) ==
    /\ req[r].kind = "refresh" /\ MayUpdate(r, req[r].w)
    /\ ConnectOrRollBack(r, req[r].w, req[r].gen + 1)
    /\ UNCHANGED <<identityVars, flow, faults>> /\ UNCHANGED testVars

-----------------------------------------------------------------------------
(* Test emails *)

\* send_controlled_test_email: the state of the mailbox.
BeginTest(r, receipt) ==
    LET w == receipt.w
    IN /\ req[r] = Idle /\ box[w].state = "CONNECTED"
       /\ req' = [req EXCEPT ![r] = [kind |-> "test", w |-> w, receipt |-> receipt, at |-> "read",
                                     gen |-> box[w].gen]]
       /\ UNCHANGED <<identityVars, box, cred, flow, faults>> /\ UNCHANGED testVars

\* ensure_command_receipt waits for a request with the same receipt.
ReceiptFree(r, receipt) == \A q \in Requests \ {r} : ~(Authorized(q) /\ req[q].receipt = receipt)

\* Mutant: a receipt may have two authorizations.
X_Unauthorized(receipt) == TRUE
\* controlled_send_authorizations_receipt_key.
Unauthorized(receipt) == recorded[receipt] = "none"

\* insert_controlled_send_authorization; a receipt used before ends the request.
AuthorizeTest(r) ==
    /\ req[r].kind = "test" /\ req[r].at = "read"
    /\ ReceiptFree(r, req[r].receipt) /\ MayRefer(r, req[r].w)
    /\ IF Unauthorized(req[r].receipt) THEN req' = [req EXCEPT ![r].at = "authorized"]
       ELSE req' = [req EXCEPT ![r] = Idle]
    /\ UNCHANGED <<identityVars, box, cred, flow, faults>> /\ UNCHANGED testVars

WithCredential(r, gen, refreshed) ==
    req' = [req EXCEPT ![r] = [kind |-> "test", w |-> @.w, receipt |-> @.receipt, at |-> "ready",
                               gen |-> gen, locked |-> @.gen, refreshed |-> refreshed]]

\* The connection of the generation read first: locked, and used as it is, or
\* refreshed into a new one that is not committed yet.  A refresh that fails
\* undoes all, RECONNECT_REQUIRED included.
TakeCredential(r) ==
    LET w == req[r].w  gen == req[r].gen
    IN /\ req[r].kind = "test" /\ req[r].at = "authorized"
       /\ ~ConnectionLocked(r, w, gen)
       /\ \/ ~HasCredential(w, gen) /\ RollBack(r)
          \/ HasCredential(w, gen) /\ WithCredential(r, gen, FALSE)
          \/ /\ OAuth /\ HasCredential(w, gen) /\ gen < MaxGen /\ MayUpdate(r, w)
             /\ IF MayConnect(w, gen + 1) THEN WithCredential(r, gen + 1, TRUE) ELSE RollBack(r)
       /\ UNCHANGED <<identityVars, box, cred, flow, faults>> /\ UNCHANGED testVars

\* What the adapters make of a call: `taken` is whether the provider has the
\* email, `heard` what came back.  A broken HTTP connection is called a rejection,
\* a broken SMTP session is not.
AnswerStatus(taken) == IF taken THEN "ACCEPTED" ELSE "DEFINITIVELY_REJECTED"

GmailStatus(taken, heard) ==
    CASE heard = "answer" -> AnswerStatus(taken)
      [] heard = "timeout" -> "UNKNOWN"
      [] heard = "broken" -> "DEFINITIVELY_REJECTED"

\* Nothing is taken before the draft exists; after it as with Gmail.
GraphStatus(taken, heard, drafted) ==
    IF drafted THEN GmailStatus(taken, heard) ELSE "DEFINITIVELY_REJECTED"

\* Nothing is taken before the login; after it a lost session proves nothing.
SmtpStatus(taken, heard, loggedIn) ==
    CASE ~loggedIn -> "DEFINITIVELY_REJECTED"
      [] loggedIn /\ heard = "answer" -> AnswerStatus(taken)
      [] loggedIn /\ heard # "answer" -> "UNKNOWN"

Status(taken, heard, began) ==
    CASE provider = "GMAIL" -> GmailStatus(taken, heard)
      [] provider = "MICROSOFT" -> GraphStatus(taken, heard, began)
      [] provider = "SMTP" -> SmtpStatus(taken, heard, began)

SendTest(r) ==
    /\ req[r].kind = "test" /\ req[r].at = "ready"
    /\ \E taken, began \in BOOLEAN, heard \in {"answer", "timeout", "broken"} :
          /\ taken => began
          /\ req' = [req EXCEPT ![r] = [kind |-> "test", w |-> @.w, receipt |-> @.receipt, at |-> "called",
                        gen |-> @.gen, locked |-> @.locked, refreshed |-> @.refreshed,
                        taken |-> taken, status |-> Status(taken, heard, began)]]
          /\ sent' = [sent EXCEPT ![req[r].receipt] = @ + IF taken THEN 1 ELSE 0]
    /\ UNCHANGED <<identityVars, box, cred, flow, recorded, faults>>

Lose(r) == sent' = [sent EXCEPT ![req[r].receipt] = @ - IF req[r].taken THEN 1 ELSE 0]

TestResult(status) ==
    CASE status = "ACCEPTED" -> "SENT" [] status = "UNKNOWN" -> "UNKNOWN_OUTCOME"
      [] status = "DEFINITIVELY_REJECTED" -> "FAILED"

\* update_message_and_attempt_result; an accepted email says again that the
\* mailbox is connected at the generation it used, which the trigger refuses when
\* a newer one was committed meanwhile.
RecordTest(r) ==
    LET w == req[r].w  gen == req[r].gen  accepted == req[r].status = "ACCEPTED"
    IN /\ req[r].kind = "test" /\ req[r].at = "called"
       /\ accepted => MayUpdate(r, w)
       /\ IF accepted /\ ~Guard(w, "CONNECTED", gen) THEN Lose(r) /\ RollBack(r) /\ UNCHANGED recorded
          ELSE /\ recorded' = [recorded EXCEPT ![req[r].receipt] = TestResult(req[r].status)]
               /\ IF req[r].refreshed THEN InsertConnection(w, gen) ELSE UNCHANGED cred
               /\ IF req[r].refreshed \/ accepted THEN UpdateConnectionState(w, "CONNECTED", gen) ELSE UNCHANGED box
               /\ req' = [req EXCEPT ![r] = Idle]
               /\ UNCHANGED <<flow, sent>>
       /\ UNCHANGED <<identityVars, faults>>

-----------------------------------------------------------------------------
\* The server or the worker dies, or the database refuses the commit.
Crash(r) ==
    /\ req[r] # Idle
    /\ Fault /\ RollBack(r)
    /\ IF req[r].kind = "test" /\ req[r].at = "called" THEN Lose(r) ELSE UNCHANGED sent
    /\ UNCHANGED <<identityVars, recorded>>

Step(r) ==
    \/ ReadGmailAccount(r) \/ ReadMicrosoftAccount(r) \/ CompleteGmailOAuth(r) \/ CompleteMicrosoftOAuth(r)
    \/ UpdateSmtp(r) \/ Disconnect(r) \/ RotateConnection(r)
    \/ AuthorizeTest(r) \/ TakeCredential(r) \/ SendTest(r) \/ RecordTest(r)

Next ==
    \/ \E f \in Flows, w \in Workspaces : StartOAuth(f, w)
    \/ \E f \in Flows : ExpireFlow(f)
    \/ \E w \in Workspaces : ConnectSmtp(w)
    \/ \E r \in Requests : \/ Step(r) \/ LoginFails(r) \/ Crash(r)
                           \/ GmailExchangeFails(r) \/ MicrosoftExchangeFails(r)
                           \/ GmailRefreshFails(r) \/ MicrosoftRefreshFails(r)
                           \/ \E f \in Flows : ClaimFlow(r, f)
                           \/ \E w \in Workspaces : \/ LockForUpdate(r, w) \/ LockForDisconnect(r, w)
                                                    \/ LoadCredential(r, w)
                           \/ \E receipt \in Asked(provider) : BeginTest(r, receipt)

Spec == Init /\ [][Next]_vars /\ \A r \in Requests : WF_vars(Step(r))

-----------------------------------------------------------------------------
(* Properties *)

\* What is left of "a real provider account may be actively connected to at most one
\* workspace platform-wide" (0003_mailboxes_campaigns.sql), whoever connects, refreshes
\* and disconnects at the same time: no two workspaces are connected with one
\* provider_account_id.  They are connected to one account only where an update of
\* SMTP settings moved one of them to an account that is not the one of its id.
OneWorkspacePerAccount ==
    \A v, w \in Workspaces :
        v # w /\ box[v].state = "CONNECTED" /\ box[w].state = "CONNECTED" =>
            /\ accountId[v] # accountId[w]
            /\ account[v] = account[w] =>
                  provider = "SMTP" /\ \E u \in {v, w} : account[u] # accountId[u]

\* A connected mailbox points to the newest connection it has, and that one still
\* has its secrets; a disconnected one has nothing as new as itself.
PointerIsLive ==
    \A w \in Workspaces :
        /\ box[w].state = "CONNECTED" => cred[w][box[w].gen] = "live"
        /\ \A g \in Gen : cred[w][g] # "none" =>
              IF box[w].state = "CONNECTED" THEN g <= box[w].gen ELSE g < box[w].gen

\* An Idempotency-Key sends one test email for the same member, workspace and operation,
\* however often they use it at once; only a transaction rolled back after the provider
\* had taken the email makes room for another, and `sent` does not count the first.
OneEmailPerReceipt == \A k \in Receipts : sent[k] <= 1

\* Every request ends: none waits for ever for the locks of another.
EveryRequestEnds == \A r \in Requests : []<>(req[r] = Idle)

\* "HTTP disconnect or SMTP socket error after submission is not proof of
\* nonacceptance" (MESSAGE_STATE_MACHINE.md): an email is recorded as FAILED only
\* if the provider did not take it.
FailedWasNotTaken ==
    [][\A r \in Requests :
          (recorded' # recorded /\ req[r] # Idle /\ req'[r] # req[r] /\ recorded'[req[r].receipt] = "FAILED")
             => ~req[r].taken]_vars

=============================================================================
