SPECIFICATION Spec
CONSTANTS
    w1 = w1  w2 = w2  v1 = v1  v2 = v2  v3 = v3  m1 = m1  m2 = m2  m3 = m3
    a1 = a1  c1 = c1  c2 = c2  b1 = b1  b2 = b2
    Workers = {w1, w2}
    Events = {v1, v2, v3}
    Messages = {m1, m2, m3}
    Addresses = {a1}
    Enrollments = {c1, c2}
    Mailboxes = {b1, b2}
    Source <- AllWays
    Kind <- AllKinds
    About <- About3
    AddressOf <- Address1
    EnrollmentOf <- Enrollment2
    MailboxOf <- Mailbox2
    PreviousOf <- Previous
    MaxRetries = 1
    MaxFaults = 2
INVARIANT CountMatchesHolds
PROPERTIES NothingSentAfterEvent EveryEventApplied
CHECK_DEADLOCK FALSE
