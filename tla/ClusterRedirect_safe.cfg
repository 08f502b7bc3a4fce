\* Cluster forwarding: 2 master/slave nodes (n1 with 2 replicas, n2 with 1,
\* 1 connection per pool), slots {0, 1}, 2 keys with one hash tag, 2 clients with
\* 1 request each, 1 slot migration, 1 refresh; at most 2 redirects (the code
\* has 3: the bound is the same comparison, one hop shorter).
CONSTANTS
    n1 = n1
    n2 = n2
    m1 = m1
    m2 = m2
    r1 = r1
    r2 = r2
    r3 = r3
    x1 = x1
    x2 = x2
    x3 = x3
    x4 = x4
    x5 = x5
    c1 = c1
    c2 = c2
    u = u
    UnknownAddr = u
    None = None
    Nodes <- MCNodes
    Conns <- MCConns
    ConnDb <- MCConnDb
    Dbs <- MCDbs
    DbNode <- MCDbNode
    Master <- MCMaster
    Slaves <- MCSlaves
    Mode <- MCModeMS
    Keys <- MCKeys
    SlotOf <- MCSlotOf
    Clients <- MCClients
    Replies <- MCReplies
    Slots = {0, 1}
    Crc16 <- MCCrc16
    KeyBytes <- MCKeyBytes
    MaxKeyLen = 4
    Masks <- MCMasks
    Shards <- MCShards
    PointValues <- MCPointValues
    MaxPoints = 3
    Hashes <- MCHashes
    RedirectTime = 2
    MaxRequests = 1
    MaxMigrations = 1
    MaxRefresh = 1
SPECIFICATION FairSpec
INVARIANTS TypeOK TableComplete ExceedOnlyUnderMigration
    HashTagRule DispatchAgrees
PROPERTIES RequestsRedirectBounded
