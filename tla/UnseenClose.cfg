SPECIFICATION Spec
CONSTANTS
    None = None
    Tids = {t1}
    Main = t1
    Fds = {0}
    Socks = {s1, s2}
    Bufs = {b1}
    Kinds <- StreamAndDatagram
    Clones <- Threads
    Addrs = {Local, A}
    Local = Local
    Inet6 = {}
    OtherFamily = {}
    Loopback = {Local}
    Unspecified = {}
    PortZero = {}
    NoProxyAddrs = {}
    Upstream = Upstream
    UseSeccomp = TRUE
    DisableIpv6 = FALSE
    CanProbe = TRUE
    Attempts = 1
    Allow = {"closeUnseen"}
INVARIANTS
    OnlyStreamsRedirected
