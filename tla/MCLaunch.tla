------------------------------ MODULE MCLaunch ------------------------------
(***************************************************************************)
(* An instance of Launch with addresses of 4 and 16 bits: an octet of an   *)
(* IPv4 address is one bit, 127.0.0.0/8 is 1000 to 1111.                   *)
(***************************************************************************)
EXTENDS Launch

OneBit == <<1>>
B(a, b, c, d) == <<a, b, c, d>>
V4(bits) == [v |-> 4, bits |-> bits]
V6(head, tail) == [v |-> 6, bits |-> head \o Zero \o Zero \o tail]

Lan4 == V4(B(0, 1, 1, 0))
Far6 == V6(B(0, 1, 1, 0), B(0, 0, 1, 1))

Cidr(a, p) == [kind |-> "cidr", addr |-> a, prefix_len |-> p]
Parts ==
    {[kind |-> k] : k \in {"empty", "any", "localhost", "badcidr", "suffix"}}
        \cup {[kind |-> "ip", addr |-> a] : a \in {Lan4, Far6}}
        \cup {Cidr(Lan4, p) : p \in {0, 1, 3, 4, 5}}
        \cup {Cidr(Far6, p) : p \in {0, 2, 15, 16, 17}}
        \cup {[kind |-> "host", addrs |-> s] : s \in {{}, {Lan4, Far6}}}
UpToTwoParts ==
    {<<>>} \cup {<<p>> : p \in Parts}
           \cup {<<Cidr(Lan4, 3), p>> : p \in Parts}

Upstream4 == V4(B(0, 1, 0, 1))
Name == [v |-> 0]
Url(s, h, p) == [scheme |-> s, host |-> h, port |-> p, user |-> s = "socks5"]
SomeUrls ==
    {Url("http", Upstream4, 8080), Url("socks5", Far6, 1080),
     Url("http", Upstream4, 80), Url("socks", Name, 1080),
     Url("https", Upstream4, 8080), Url("socks5", None, 1080)}

Sentinel == B(1, 0, 1, 1)
FamilyPort(f, p) == [family |-> f, port |-> p]
In4(ip, p) == <<FamilyPort("inet", p), ip.bits, Sentinel, Zero>>
                  \o [i \in 1 .. 4 |-> Sentinel]
In6(ip, p) == <<FamilyPort("inet6", p), Sentinel>>
                  \o [u \in 1 .. 4 |-> Unit(ip.bits, u)]
                  \o <<Sentinel, Sentinel>>
Some4 == {V4(b) : b \in Bits(4)}
Some6 == {V6(h, t) : h \in {Zero, B(0, 1, 1, 0), B(0, 1, 0, 0), B(1, 1, 1, 1)},
                     t \in {Zero, B(0, 0, 0, 1), B(0, 0, 1, 0), B(0, 0, 1, 1)}}
SomeImages ==
    {In4(a, 443) : a \in Some4} \cup {In6(a, 1080) : a \in Some6}
        \cup {In4(Upstream4, 8080), In4(Lan4, 0), In6(Far6, 0)}
        \cup {<<FamilyPort("unix", 0)>> \o [i \in 1 .. 7 |-> Sentinel]}
SomeVars == {"http_proxy", "NO_PROXY", "PATH"}
=============================================================================
