\* One native peer with two addresses, ranges that exclude each other.
SPECIFICATION LiveSpec
CONSTANTS
    p1 = p1
    p2 = p2
    a1 = a1
    a2 = a2
    NoPeer = NoPeer
    Peer <- OneNative
    NativePeer <- OneNative
    Addr <- TwoAddrs
    Scopes <- DisjointScopes
    Timeout = 1
    QueueCap = 1
    NotifyCap = 1
INVARIANTS
    TypeOK
    ScopeRespected
    WatchInSync
    OnlineIsTimed
PROPERTIES
    DeadGoesOffline
    OutOfScopeIsEvicted
