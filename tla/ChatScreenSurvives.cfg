SPECIFICATION Spec
CONSTANTS
    n1 = n1
    n2 = n2
    m1 = m1
    m2 = m2
    m3 = m3
    m4 = m4
    Nodes = {m1}
    Messages = {m1}
    Stamp <- StampOne
    Photos = {}
    Pins = {m1}
    Absent = Absent
    MaxFires = 0
CHECK_DEADLOCK FALSE
INVARIANTS
    AppSurvives
