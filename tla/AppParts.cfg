SPECIFICATION Spec
CONSTANTS
    u1 = u1
    u2 = u2
    m1 = m1
    Clients = {u1, u2}
    Paths = {m1}
    Values = {"unread", "read"}
    Absent = Absent
    Nobody = Nobody
    Author <- AuthorOne
    Callers <- ReadCallers
    Watch <- WholeChat
    MaxFaults <- DropAndCrash
    MaxVisits <- OneVisit
    p1 = p1
    p2 = p2
    n1 = n1
    n2 = n2
    n3 = n3
    NoNode = NoNode
    Peers = {p1, p2}
    Nodes = {n1, n2, n3}
    PeerOf <- PeerOfThree
    Texts <- FiveTexts
    NodeOf <- NodeOfFive
    SentAt <- SentAtFive
    Malformed <- Third
    Accounts = {"alice", "bob"}
    NoOne = NoOne
    MaxTaps = 3
    MaxStarts = 1
CHECK_DEADLOCK FALSE
INVARIANTS
    LeftMeansRead
    ReadWasReceived
    SettledListIsCurrent
    ConversationsNeedASession
    LogOutIsFinal
    CredentialsAreTheSession
PROPERTIES
    ConversationsGetShown
    FormComesBack
