\* Cluster forwarding: 2 single-mode nodes (1 connection per master), slots
\* {0, 1}, 2 keys with one hash tag, 2 clients with 1 request each, 1 slot
\* migration, 2 refreshes.
CONSTANTS
    n1 = n1
    n2 = n2
    m1 = m1
    m2 = m2
    r1 = r1
    r2 = r2
    r3 = r3
    x1 = x1
    x2 = x2
    x3 = x3
    x4 = x4
    x5 = x5
    c1 = c1
    c2 = c2
    u = u
    UnknownAddr = u
    None = None
    Nodes <- MCNodes
    Conns <- MCConns
    ConnDb <- MCConnDb
    Dbs <- MCDbs
    DbNode <- MCDbNode
    Master <- MCMaster
    Slaves <- MCSlaves
    Mode <- MCModeSingle
    Keys <- MCKeys
    SlotOf <- MCSlotOf
    Clients <- MCClients
    Replies <- MCReplies
    Slots = {0, 1}
    Crc16 <- MCCrc16
    KeyBytes <- MCKeyBytes
    MaxKeyLen = 4
    Masks <- MCMasks
    Shards <- MCShards
    PointValues <- MCPointValues
    MaxPoints = 3
    Hashes <- MCHashes
    RedirectTime = 3
    MaxRequests = 1
    MaxMigrations = 1
    MaxRefresh = 2
SPECIFICATION Spec
INVARIANTS AskHonoured
