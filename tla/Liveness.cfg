SPECIFICATION FairSpec
CONSTANTS
    None = None
    Tids = {t1, t2}
    Main = t1
    Fds = {0}
    Socks = {s1}
    Bufs = {b1}
    Kinds <- OneStream
    Clones <- TracedForks
    Addrs = {Local, A}
    Local = Local
    Inet6 = {}
    OtherFamily = {}
    Loopback = {Local}
    Unspecified = {}
    PortZero = {}
    NoProxyAddrs = {}
    Upstream = Upstream
    UseSeccomp = TRUE
    DisableIpv6 = FALSE
    CanProbe = TRUE
    Attempts = 2
    Allow = {"closeUnseen", "retarget", "inherit", "acceptFails"}
INVARIANT TypeOK
PROPERTIES
    CallsReturn
    ClientsAnswered
