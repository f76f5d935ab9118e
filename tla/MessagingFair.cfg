SPECIFICATION FairSpec
CONSTANTS
    u1 = u1
    u2 = u2
    u3 = u3
    m1 = m1
    m2 = m2
    m3 = m3
    Users = {u1, u2}
    Messages = {m1, m2}
    From <- FromEach
    To <- ToEach
    Photos = {m2}
    Absent = Absent
    Nobody = Nobody
    MaxFaults <- DropAndCrash
CHECK_DEADLOCK FALSE
INVARIANTS
    SafetyInvariant
    NoDanglingPointer
PROPERTIES
    ServiceIsImplemented
    ViewNeverForgets
    SendsSettle
    WritesArrive
