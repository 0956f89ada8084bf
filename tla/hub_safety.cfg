SPECIFICATION MemberSpec
CONSTANTS
    c1 = c1
    c2 = c2
    u1 = u1
    u2 = u2
    lobby = lobby
    Empty = Empty
    NoClient = NoClient
    None = None
    Clients <- TwoClients
    Users <- TwoUsers
    UserOf <- OwnUser
    Rooms <- OneRoom
    ClientKinds <- BothTalk
    Frail <- MemberFails
    ServerCalls <- PrivateCalls
    ServerCommands <- NoCommands
    SendBuffer = 1
    BroadcastBuffer = 2
    RoomBuffer = 2
    MaxInputs = 3
INVARIANTS
    TypeOK
    IndexConsistent
    PanicOnlyFromGhost
    SenderOrder
    PrivateDelivery
    NobodyForgotten
    LastWordHolds
PROPERTIES
    MembersOnly
    ImplementsFanout
CHECK_DEADLOCK FALSE
