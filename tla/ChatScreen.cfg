SPECIFICATION Spec
CONSTANTS
    n1 = n1
    n2 = n2
    m1 = m1
    m2 = m2
    m3 = m3
    m4 = m4
    Nodes = {n1, m3}
    Messages = {m1, m2, m3, m4}
    Stamp <- StampFour
    Photos = {m1, m2}
    Pins = {m3}
    Absent = Absent
    MaxFires = 0
CHECK_DEADLOCK FALSE
INVARIANTS
    OnlyAPhotoHidesAMessage
    SettledTableIsCurrent
