SPECIFICATION Spec
CONSTANTS
    None = None
    Tids = {t1, t2}
    Main = t1
    Fds = {0, 1}
    Socks = {s1, s2}
    Bufs = {b1}
    Kinds <- OneStream
    Clones <- Threads
    Addrs = {Local, A}
    Local = Local
    Inet6 = {}
    OtherFamily = {}
    Loopback = {Local}
    Unspecified = {}
    PortZero = {}
    NoProxyAddrs = {}
    Upstream = Upstream
    UseSeccomp = TRUE
    DisableIpv6 = FALSE
    CanProbe = TRUE
    Attempts = 1
    Allow = {"shareBuf"}
INVARIANTS
    DirectOnlyIfExempt
