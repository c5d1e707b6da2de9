------------------------------ MODULE Handoff ------------------------------
(***************************************************************************)
(* What an outbox promises to whoever writes work into it.                 *)
(*                                                                         *)
(* Work waits, is taken by somebody who sends it to the broker, and is     *)
(* settled once it was sent; work that is taken may be given back, so it   *)
(* may be sent more than once.  Only work that nobody has taken can be     *)
(* withdrawn.  So work that is neither waiting nor taken any more was      *)
(* withdrawn or has been sent: none is forgotten.                          *)
(***************************************************************************)
CONSTANT Deliveries

VARIABLES
  waiting,    \* work to be sent
  taken,      \* work somebody may still settle
  gone,       \* work settled or withdrawn
  sent        \* work the broker has seen

handoffVars == <<waiting, taken, gone, sent>>

HandoffInit == waiting = {} /\ taken = {} /\ gone = {} /\ sent = {}

Submit(d) ==
  /\ d \notin waiting \union taken \union gone
  /\ waiting' = waiting \union {d}
  /\ UNCHANGED <<taken, gone, sent>>

TakeUp(d) ==
  /\ d \in waiting
  /\ waiting' = waiting \ {d}
  /\ taken' = taken \union {d}
  /\ UNCHANGED <<gone, sent>>

\* A slow sender may be the last to send, long after the work was settled.
SendCopy(d) ==
  /\ d \in waiting \union taken \union gone
  /\ sent' = sent \union {d}
  /\ UNCHANGED <<waiting, taken, gone>>

Settle(d) ==
  /\ d \in taken /\ d \in sent
  /\ taken' = taken \ {d}
  /\ gone' = gone \union {d}
  /\ UNCHANGED <<waiting, sent>>

\* One step may give back the work of several senders.
GiveBack(D) ==
  /\ D \subseteq taken
  /\ taken' = taken \ D
  /\ waiting' = waiting \union D
  /\ UNCHANGED <<gone, sent>>

Withdraw(d) ==
  /\ d \in waiting
  /\ waiting' = waiting \ {d}
  /\ gone' = gone \union {d}
  /\ UNCHANGED <<taken, sent>>

HandoffNext ==
  \/ \E d \in Deliveries :
       Submit(d) \/ TakeUp(d) \/ SendCopy(d) \/ Settle(d) \/ Withdraw(d)
  \/ \E D \in SUBSET Deliveries : GiveBack(D)

HandoffSpec == HandoffInit /\ [][HandoffNext]_handoffVars
=============================================================================
