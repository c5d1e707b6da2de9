------------------------------- MODULE MCInbound -------------------------------
EXTENDS Inbound, TLC
CONSTANTS w1, w2, v1, v2, v3, m1, m2, m3, a1, c1, c2, b1, b2

\* m1 and its follow-up m2 in one campaign, m3 to the same person from another
\* mailbox.
Address1 == [m \in {m1, m2, m3} |-> a1]
Enrollment2 == m1 :> c1 @@ m2 :> c1 @@ m3 :> c2
Mailbox2 == m1 :> b1 @@ m2 :> b1 @@ m3 :> b2
Previous == m1 :> m1 @@ m2 :> m1 @@ m3 :> m3

\* A hard bounce by webhook, a notification of the same bounce by mail, a click
\* on the link of the email.
AllWays == v1 :> "WEBHOOK" @@ v2 :> "DSN" @@ v3 :> "LINK"
AllKinds == v1 :> "HARD" @@ v2 :> "SOFT" @@ v3 :> "UNSUBSCRIBE"
About3 == v1 :> m1 @@ v2 :> m1 @@ v3 :> m1

=============================================================================
