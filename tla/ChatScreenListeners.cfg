SPECIFICATION FairSpec
CONSTANTS
    n1 = n1
    n2 = n2
    m1 = m1
    m2 = m2
    m3 = m3
    m4 = m4
    Nodes = {n1, n2}
    Messages = {m1, m2}
    Stamp <- StampTwo
    Photos = {m1}
    Pins = {}
    Absent = Absent
    MaxFires = 2
CHECK_DEADLOCK FALSE
INVARIANTS
    OncePerListener
PROPERTIES
    MessagesGetShown
