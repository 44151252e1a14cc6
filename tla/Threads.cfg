SPECIFICATION Spec
CONSTANTS
    None = None
    Tids = {t1, t2}
    Main = t1
    Fds = {0, 1}
    Socks = {s1, s2}
    Bufs = {b1, b2}
    Kinds <- OneStream
    Clones <- Threads
    Addrs = {Local, A, B}
    Local = Local
    Inet6 = {}
    OtherFamily = {}
    Loopback = {Local}
    Unspecified = {}
    PortZero = {}
    NoProxyAddrs = {}
    Upstream = Upstream
    UseSeccomp = TRUE
    DisableIpv6 = FALSE
    CanProbe = TRUE
    Attempts = 1
    Allow = {}
SYMMETRY Symmetry
INVARIANTS
    RightDestination
    DirectOnlyIfExempt
    BufferRestored
    TrackerMatchesFds
    NothingSurvivesReap
PROPERTIES
    DropOnlyAfterClose
    Implements
