SPECIFICATION Spec
CONSTANTS
    None = None
    Tids = {t1}
    Main = t1
    Fds = {0}
    Socks = {s1}
    Bufs = {b1}
    Kinds <- AllKinds
    Clones <- Threads
    Addrs = {Local, A, V6}
    Local = Local
    Inet6 = {V6}
    OtherFamily = {}
    Loopback = {Local}
    Unspecified = {}
    PortZero = {}
    NoProxyAddrs = {}
    Upstream = Upstream
    UseSeccomp = TRUE
    DisableIpv6 = TRUE
    CanProbe = TRUE
    Attempts = 1
    Allow = {}
INVARIANTS
    DirectOnlyIfExempt
