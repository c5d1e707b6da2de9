---------------------------- MODULE SendPromise ----------------------------
(***************************************************************************)
(* What sending a campaign's messages promises, with no word about how.    *)
(*                                                                         *)
(* The provider delivers another copy of a message only when it denies the *)
(* one before, and no more than MaxCopies in all; where it never denies a  *)
(* copy it delivers one at most.  The platform gives each message at most  *)
(* one verdict, which it never takes back: "sent" only for a message with  *)
(* a copy that was not denied, "unsent" only for one that has none and     *)
(* never will.  A message may also be "dropped": no more attempts are      *)
(* made, and nothing is claimed about one that was under way.              *)
(***************************************************************************)
EXTENDS Integers

CONSTANTS Msgs, MaxCopies, MayDeny

VARIABLES
  deliveries,   \* copies of each message the provider delivered
  denied,       \* those of them it said it had not
  verdict       \* what the platform says of each message

promiseVars == <<deliveries, denied, verdict>>

Verdicts == {"open", "sent", "unsent", "dropped"}

PromiseInit ==
  /\ deliveries = [m \in Msgs |-> 0]
  /\ denied = [m \in Msgs |-> 0]
  /\ verdict = [m \in Msgs |-> "open"]

\* A delivery under way cannot be called back by dropping the message.
Deliver(m) ==
  /\ verdict[m] \in {"open", "dropped"}
  /\ deliveries[m] = denied[m] /\ deliveries[m] < MaxCopies
  /\ deliveries' = [deliveries EXCEPT ![m] = @ + 1]
  /\ \/ denied' = denied
     \/ MayDeny /\ denied' = [denied EXCEPT ![m] = @ + 1]
  /\ UNCHANGED verdict

Conclude(m, v) ==
  /\ verdict[m] = "open"
  /\ verdict' = [verdict EXCEPT ![m] = v]
  /\ UNCHANGED <<deliveries, denied>>

DeclareSent(m)   == deliveries[m] > denied[m] /\ Conclude(m, "sent")
DeclareUnsent(m) == deliveries[m] = denied[m] /\ Conclude(m, "unsent")
Drop(m)          == Conclude(m, "dropped")

PromiseNext ==
  \E m \in Msgs : Deliver(m) \/ DeclareSent(m) \/ DeclareUnsent(m) \/ Drop(m)

PromiseSpec == PromiseInit /\ [][PromiseNext]_promiseVars
=============================================================================
