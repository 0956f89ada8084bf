SPECIFICATION Spec
CONSTANTS
    c1 = c1
    c2 = c2
    u1 = u1
    u2 = u2
    lobby = lobby
    Empty = Empty
    NoClient = NoClient
    None = None
    Clients <- TwoClients
    Users <- TwoUsers
    UserOf <- OwnUser
    Rooms <- OneRoom
    ClientKinds <- MemberAndGuest
    Frail = {}
    ServerCalls <- PrivateCalls
    ServerCommands <- NoCommands
    SendBuffer = 1
    BroadcastBuffer = 2
    RoomBuffer = 1
    MaxInputs = 4
INVARIANT RunsUntilCancelled
CHECK_DEADLOCK FALSE
