SPECIFICATION Spec
CONSTANTS
    u1 = u1
    u2 = u2
    u3 = u3
    m1 = m1
    m2 = m2
    m3 = m3
    Users = {u1, u2}
    Messages = {m1, m2, m3}
    From <- FromTwo
    To <- ToTwo
    Photos = {}
    Absent = Absent
    Nobody = Nobody
    MaxFaults <- DropAndCrash
CHECK_DEADLOCK FALSE
INVARIANTS
    SoleConversationIsShared
    StoredOnce
    SentIsStored
