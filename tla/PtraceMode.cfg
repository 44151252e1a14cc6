SPECIFICATION Spec
CONSTANTS
    None = None
    Tids = {t1, t2}
    Main = t1
    Fds = {0}
    Socks = {s1, s2}
    Bufs = {b1}
    Kinds <- StreamAndDatagram
    Clones <- UntracedThreads
    Addrs = {Local, A, V6, Upstream}
    Local = Local
    Inet6 = {V6}
    OtherFamily = {}
    Loopback = {Local}
    Unspecified = {}
    PortZero = {}
    NoProxyAddrs = {V6}
    Upstream = Upstream
    UseSeccomp = FALSE
    DisableIpv6 = FALSE
    CanProbe = TRUE
    Attempts = 1
    Allow = {"badPointer"}
SYMMETRY SocketSymmetry
INVARIANTS
    PhaseAgrees
    DirectOnlyIfExempt
    OnlyStreamsRedirected
    TrackerMatchesFds
PROPERTY
    Implements
