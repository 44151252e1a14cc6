SPECIFICATION FairSpec
CONSTANTS
    Protocols = {"http"}
    HttpMay = {"split", "coalesce"}
    ResponseBuf = 4
    NameLengths = {}
    MaxPayload = 1
INVARIANT InOrder
