SPECIFICATION ServersSpec
CONSTANTS
    u1 = u1
    u2 = u2
    b1 = b1
    b2 = b2
    n1 = n1
    m1 = m1
    c2 = c2
    NoServer = NoServer
    NoId = NoId
    ServerUrls = {u1, u2}
    Bases = {b1, b2}
    Guests <- ThreeGuests
    Owner <- OwnerOf
    Kind <- KindOf
    MaxServers = 2
    Worlds <- ThreeWorlds
INVARIANTS RightServer
PROPERTIES AccessKept
