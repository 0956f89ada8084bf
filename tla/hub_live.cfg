SPECIFICATION Spec
CONSTANTS
    c1 = c1
    c2 = c2
    u1 = u1
    u2 = u2
    lobby = lobby
    Empty = Empty
    NoClient = NoClient
    None = None
    Clients <- TwoClients
    Users <- TwoUsers
    UserOf <- OwnUser
    Rooms <- OneRoom
    ClientKinds <- OneTalks
    Frail <- MemberFails
    ServerCalls <- RoomCalls
    ServerCommands <- ServerJoins
    SendBuffer = 1
    BroadcastBuffer = 1
    RoomBuffer = 1
    MaxInputs = 2
INVARIANT
    NoGhosts
PROPERTIES
    DeadConnectionReaped
    ReaderUnblocked
    StopClosesRegistered
CHECK_DEADLOCK FALSE
