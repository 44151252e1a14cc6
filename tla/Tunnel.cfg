SPECIFICATION FairSpec
CONSTANTS
    Protocols = {"http", "socks5"}
    HttpMay = {}
    ResponseBuf = 4
    NameLengths = {0, 3, 255}
    MaxPayload = 2
INVARIANTS
    TypeOK
    InOrder
    EofComplete
    OnlyIfGranted
    GrantedNotRefused
PROPERTY
    TunnelEnds
