--------------------------- MODULE MCConnections ---------------------------
(* Instances of Connections for TLC. *)
EXTENDS Connections

SomeOf(S) == CHOOSE x \in S : TRUE

\* The workspaces connect one account.
SameAccount == [w \in Workspaces |-> SomeOf(Accounts)]

\* One of them connects an account of its own.
OwnAccount ==
    [SameAccount EXCEPT ![SomeOf(Workspaces)] = SomeOf(Accounts \ {SomeOf(Accounts)})]

\* Only the update of SMTP settings tells the accounts apart.
MCIdentities(p) == {SameAccount} \union IF p = "SMTP" THEN {OwnAccount} ELSE {}

\* One receipt, that of another workspace, and that of another member.
OfOneCaller == {k \in Receipts : k.caller = SomeOf(Callers)}
OfOneWorkspace == {k \in Receipts : k.w = SomeOf(Workspaces)}

MCAsked(p) ==
    CASE p = "GMAIL" -> OfOneCaller
      [] p = "MICROSOFT" -> OfOneCaller \intersect OfOneWorkspace
      [] p = "SMTP" -> OfOneWorkspace
=============================================================================
