SPECIFICATION Spec
CONSTANTS
    None = None
    Tids = {t1, t2}
    Main = t1
    Fds = {0}
    Socks = {s1, s2}
    Bufs = {b1}
    Kinds <- OneStream
    Clones <- Forks
    Addrs = {Local, A, B}
    Local = Local
    Inet6 = {}
    OtherFamily = {}
    Loopback = {Local}
    Unspecified = {}
    PortZero = {}
    NoProxyAddrs = {}
    Upstream = Upstream
    UseSeccomp = TRUE
    DisableIpv6 = FALSE
    CanProbe = TRUE
    Attempts = 1
    Allow = {}
SYMMETRY Symmetry
INVARIANTS
    RightDestination
    AllTraced
    NothingSurvivesReap
PROPERTIES
    DropOnlyAfterClose
