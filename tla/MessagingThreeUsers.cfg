SPECIFICATION Spec
CONSTANTS
    u1 = u1
    u2 = u2
    u3 = u3
    m1 = m1
    m2 = m2
    m3 = m3
    Users = {u1, u2, u3}
    Messages = {m1, m2, m3}
    From <- FromThree
    To <- ToThree
    Photos = {m2}
    Absent = Absent
    Nobody = Nobody
    MaxFaults <- OneRefusal
CHECK_DEADLOCK FALSE
INVARIANTS
    NoCrossTalk
    CacheConverges
