---------------------------- MODULE LaunchProofs ----------------------------
(***************************************************************************)
(* From the command line to the bytes, for every width of the addresses,   *)
(* every list of --no-proxy parts, every URL, environment and content of   *)
(* the program's memory.  The masks select exactly the addresses that a    *)
(* part denotes, an address survives being written and read again, and the *)
(* order of main()'s calls (ConfigInv) makes the handlers find what the    *)
(* command line says.  MemInv says what is at the sockaddr in each place   *)
(* of a connect(): while a call is redirected the tracer holds the address *)
(* and the memory holds the local proxy's.                                 *)
(***************************************************************************)
EXTENDS Launch, SequenceTheorems, TLAPS

ConfigInv ==
    /\ no_proxy # None =>
          no_proxy = parse(args.no_proxy) /\ parse(args.no_proxy).ok
    /\ stage \in {"env", "url", "bind", "fork", "run"} =>
          no_proxy = parse(args.no_proxy) /\ parse(args.no_proxy).ok
    /\ stage \in {"url", "bind", "fork", "run"} => env \cap PROXY_ENV_VARS = {}
    /\ stage \in {"bind", "fork", "run"} =>
          proxy_url_ok(args.proxy) /\ proxy = proxy_config(args.proxy)
    /\ stage \in {"fork", "run"} => local_addr = Local
    /\ stage # "ended" => exit_code = None
    /\ at # "none" => stage = "run" /\ child_env \cap PROXY_ENV_VARS = {}

MemInv ==
    /\ at = "none" => mem = None /\ stored = None /\ restore = None
    /\ at # "none" =>
          /\ ImageOK(mem) /\ stored \in Images
          /\ \A u \in Beyond(stored) .. Units : mem[u] = stored[u]
    /\ at \in {"user", "entry"} =>
          /\ restore = None /\ read_sockaddr(mem) = read_sockaddr(stored)
          /\ Exempted(read_sockaddr(stored)) => mem = stored
    /\ at \in {"kernel", "exit"} =>
          IF Exempted(read_sockaddr(stored)) THEN mem = stored /\ restore = None
          ELSE read_sockaddr(mem) = Local /\ restore = read_sockaddr(stored)
    /\ saw = IF at = "exit" THEN mem ELSE None

LaunchInv == TypeOK /\ ConfigInv /\ MemInv
-----------------------------------------------------------------------------
(* The rules.                                                              *)

LEMMA SmallMod ==
    ASSUME NEW w \in Nat \ {0}, NEW k \in 0 .. w - 1 PROVE k % w = k
OBVIOUS

(* At every prefix length, 0 and the full width included, the mask has its *)
(* ones in the places of the prefix and nowhere else.                      *)
LEMMA MaskIsPrefix ==
    ASSUME NEW w \in Nat \ {0}, NEW p \in 0 .. w, NEW i \in 1 .. w
    PROVE  mask(w, p)[i] = IF i <= p THEN 1 ELSE 0
<1>1. CASE p = 0
  BY <1>1 DEF mask
<1>2. CASE p # 0
  <2>1. w - p \in 0 .. w - 1
    BY <1>2
  <2>2. (w - p) % w = w - p
    BY <2>1, SmallMod
  <2>3. mask(w, p)[i] = IF i + (w - p) <= w THEN 1 ELSE 0
    BY <1>2, <2>2 DEF mask, MaxShl
  <2> QED BY <2>3
<1> QED BY <1>1, <1>2

(* Masking both sides compares the prefixes.                               *)
LEMMA ContainsIsPrefix ==
    ASSUME NEW w \in Nat \ {0}, NEW p \in 0 .. w,
           NEW a \in Bits(w), NEW b \in Bits(w)
    PROVE  contains_bits(a, b, w, p) <=> \A i \in 1 .. p : a[i] = b[i]
<1>1. ASSUME NEW i \in 1 .. w
      PROVE  a[i] * mask(w, p)[i] = b[i] * mask(w, p)[i] <=>
                 (i <= p => a[i] = b[i])
  <2>1. a[i] \in {0, 1} /\ b[i] \in {0, 1}
    BY DEF Bits
  <2>2. CASE i <= p
    <3>1. mask(w, p)[i] = 1
      BY <2>2, MaskIsPrefix
    <3> QED BY <2>1, <2>2, <3>1
  <2>3. CASE ~(i <= p)
    <3>1. mask(w, p)[i] = 0
      BY <2>3, MaskIsPrefix
    <3> QED BY <2>1, <2>3, <3>1
  <2> QED BY <2>2, <2>3
<1>2. contains_bits(a, b, w, p) <=> \A i \in 1 .. w : i <= p => a[i] = b[i]
  BY <1>1 DEF contains_bits
<1> QED BY <1>2

(* The rules made of a part match the addresses that it denotes.           *)
LEMMA RulesDenote ==
    ASSUME NEW part, PartOK(part), ~rejected(part), NEW ip \in Ip
    PROVE  (\E r \in rules_of(part) : matches(r, ip)) <=> Denotes(part, ip)
<1> USE DEF PartOK, rules_of
<1>1. CASE part.kind \in {"empty", "badcidr", "suffix"}
  BY <1>1 DEF Denotes
<1>2. CASE part.kind = "any"
  BY <1>2 DEF Denotes, matches
<1>3. CASE part.kind = "localhost"
  <2>1. rules_of(part) = {[rule |-> "Loopback"]}
    BY <1>3
  <2>2. matches([rule |-> "Loopback"], ip) = is_loopback(ip)
    BY DEF matches
  <2>3. Denotes(part, ip) <=> is_loopback(ip)
    BY <1>3 DEF Denotes
  <2> HIDE DEF rules_of
  <2> QED BY <2>1, <2>2, <2>3
<1>4. CASE part.kind = "ip"
  <2> DEFINE r == [rule |-> "IpExact", ip |-> part.addr]
  <2>1. rules_of(part) = {r}
    BY <1>4
  <2>2. matches(r, ip) <=> part.addr = ip
    BY DEF matches
  <2>3. Denotes(part, ip) <=> part.addr = ip
    BY <1>4 DEF Denotes
  <2> HIDE DEF rules_of, r
  <2> QED BY <2>1, <2>2, <2>3
<1>5. CASE part.kind = "cidr"
  <2> DEFINE r == [rule |-> "IpCidr", addr |-> part.addr,
                   prefix_len |-> part.prefix_len]
  <2>1. rules_of(part) = {r} /\ matches(r, ip) = contains(r, ip)
    BY <1>5 DEF matches
  <2>2. part.prefix_len \in 0 .. Width(part.addr) /\ part.addr \in Ip
    BY <1>5, NoProxyAssumption DEF rejected, parse_cidr_ok, Width
  <2>3. ASSUME part.addr.v = ip.v
        PROVE  /\ Width(part.addr) = Width(ip) /\ Width(ip) \in Nat \ {0}
               /\ part.addr.bits \in Bits(Width(ip))
               /\ ip.bits \in Bits(Width(ip))
    BY <2>2, <2>3, NoProxyAssumption DEF Ip, Width
  <2>4. contains(r, ip) <=>
           /\ part.addr.v = ip.v
           /\ \A i \in 1 .. part.prefix_len : part.addr.bits[i] = ip.bits[i]
    <3>1. CASE part.addr.v = ip.v
      <4>1. contains_bits(part.addr.bits, ip.bits, Width(ip), part.prefix_len)
              <=> \A i \in 1 .. part.prefix_len : part.addr.bits[i] = ip.bits[i]
        BY <2>2, <2>3, <3>1, ContainsIsPrefix
      <4> QED BY <3>1, <4>1 DEF contains
    <3>2. CASE part.addr.v # ip.v
      BY <3>2 DEF contains
    <3> QED BY <3>1, <3>2
  <2> QED BY <1>5, <2>1, <2>4 DEF Denotes
<1>6. CASE part.kind = "host"
  <2>1. \A r \in rules_of(part) : \E a \in part.addrs :
            r = [rule |-> "IpExact", ip |-> a]
    BY <1>6
  <2>2. \A a \in part.addrs : [rule |-> "IpExact", ip |-> a] \in rules_of(part)
    BY <1>6
  <2>3. \A a : matches([rule |-> "IpExact", ip |-> a], ip) <=> a = ip
    BY DEF matches
  <2>4. Denotes(part, ip) <=> ip \in part.addrs
    BY <1>6 DEF Denotes
  <2> HIDE DEF rules_of
  <2> QED BY <2>1, <2>2, <2>3, <2>4
<1> QED BY <1>1, <1>2, <1>3, <1>4, <1>5, <1>6

LEMMA BypassDenotes ==
    ASSUME NEW l \in PartLists, parse(l).ok, NEW ip \in Ip
    PROVE  should_bypass(parse(l), ip) <=>
               \E i \in 1 .. Len(l) : Denotes(l[i], ip)
<1>1. \A i \in 1 .. Len(l) : PartOK(l[i]) /\ ~rejected(l[i])
  BY InputAssumption DEF parse
<1>2. \A i \in 1 .. Len(l) :
         (\E r \in rules_of(l[i]) : matches(r, ip)) <=> Denotes(l[i], ip)
  BY <1>1, RulesDenote
<1>3. should_bypass(parse(l), ip) <=>
         \E i \in 1 .. Len(l) : \E r \in rules_of(l[i]) : matches(r, ip)
  BY DEF should_bypass, parse
<1> QED BY <1>2, <1>3
-----------------------------------------------------------------------------
(* The memory.                                                             *)

(* The addresses of the two families.                                      *)
SockAddr4 == [v : {4}, bits : Bits(W4), port : Nat]
SockAddr6 == [v : {6}, bits : Bits(W6), port : Nat]

LEMMA BitsAreSequences ==
    ASSUME NEW w \in Nat, NEW b \in Bits(w)
    PROVE  b \in Seq({0, 1}) /\ Len(b) = w
BY SeqDef DEF Bits

LEMMA JoinedTwo ==
    ASSUME NEW s \in Seq({0, 1}), NEW t \in Seq({0, 1})
    PROVE  /\ s \o t \in Seq({0, 1}) /\ Len(s \o t) = Len(s) + Len(t)
           /\ \A i \in 1 .. Len(s) + Len(t) :
                 (s \o t)[i] = IF i <= Len(s) THEN s[i] ELSE t[i - Len(s)]
BY ConcatProperties, Zenon

(* Four units one after the other.                                         *)
Quad(a, b, c, d) == a \o b \o c \o d

LEMMA Joined ==
    ASSUME NEW a \in Bits(W4), NEW b \in Bits(W4), NEW c \in Bits(W4),
           NEW d \in Bits(W4)
    PROVE  /\ Quad(a, b, c, d) \in Bits(W6)
           /\ \A i \in 1 .. W4 : /\ Quad(a, b, c, d)[i] = a[i]
                                 /\ Quad(a, b, c, d)[W4 + i] = b[i]
                                 /\ Quad(a, b, c, d)[2 * W4 + i] = c[i]
                                 /\ Quad(a, b, c, d)[3 * W4 + i] = d[i]
<1> DEFINE ab == a \o b  abc == ab \o c  abcd == abc \o d
<1>1. /\ a \in Seq({0, 1}) /\ Len(a) = W4 /\ b \in Seq({0, 1}) /\ Len(b) = W4
      /\ c \in Seq({0, 1}) /\ Len(c) = W4 /\ d \in Seq({0, 1}) /\ Len(d) = W4
      /\ W4 \in Nat
  BY BitsAreSequences, NoProxyAssumption
<1>2. /\ ab \in Seq({0, 1}) /\ Len(ab) = 2 * W4
      /\ \A i \in 1 .. 2 * W4 : ab[i] = IF i <= W4 THEN a[i] ELSE b[i - W4]
  <2>1. /\ ab \in Seq({0, 1}) /\ Len(ab) = Len(a) + Len(b)
        /\ \A i \in 1 .. Len(a) + Len(b) :
              ab[i] = IF i <= Len(a) THEN a[i] ELSE b[i - Len(a)]
    BY <1>1, JoinedTwo, Zenon
  <2> QED BY <1>1, <2>1
<1> HIDE DEF ab
<1>3. /\ abc \in Seq({0, 1}) /\ Len(abc) = 3 * W4
      /\ \A i \in 1 .. 3 * W4 :
            abc[i] = IF i <= 2 * W4 THEN ab[i] ELSE c[i - 2 * W4]
  <2>1. /\ abc \in Seq({0, 1}) /\ Len(abc) = Len(ab) + Len(c)
        /\ \A i \in 1 .. Len(ab) + Len(c) :
              abc[i] = IF i <= Len(ab) THEN ab[i] ELSE c[i - Len(ab)]
    BY <1>1, <1>2, JoinedTwo, Zenon
  <2>2. Len(ab) = 2 * W4 /\ Len(c) = W4 /\ Len(ab) + Len(c) = 3 * W4
    BY <1>1, <1>2
  <2> QED BY <2>1, <2>2
<1> HIDE DEF abc
<1>4. /\ abcd \in Seq({0, 1}) /\ Len(abcd) = 4 * W4
      /\ \A i \in 1 .. 4 * W4 :
            abcd[i] = IF i <= 3 * W4 THEN abc[i] ELSE d[i - 3 * W4]
  <2>1. /\ abcd \in Seq({0, 1}) /\ Len(abcd) = Len(abc) + Len(d)
        /\ \A i \in 1 .. Len(abc) + Len(d) :
              abcd[i] = IF i <= Len(abc) THEN abc[i] ELSE d[i - Len(abc)]
    BY <1>1, <1>3, JoinedTwo, Zenon
  <2>2. Len(abc) = 3 * W4 /\ Len(d) = W4 /\ Len(abc) + Len(d) = 4 * W4
    BY <1>1, <1>3
  <2> QED BY <2>1, <2>2
<1> HIDE DEF abcd
<1>5. abcd \in Bits(W6)
  BY <1>1, <1>4, SeqDef, LenProperties, SockaddrAssumption DEF Bits
<1>6. ASSUME NEW i \in 1 .. W4
      PROVE  /\ abcd[i] = a[i] /\ abcd[W4 + i] = b[i]
             /\ abcd[2 * W4 + i] = c[i] /\ abcd[3 * W4 + i] = d[i]
  BY <1>1, <1>2, <1>3, <1>4
<1>7. Quad(a, b, c, d) = abcd
  BY DEF Quad, abcd, abc, ab
<1> QED BY <1>5, <1>6, <1>7

LEMMA UnitType ==
    ASSUME NEW b \in Bits(W6), NEW u \in 1 .. 4
    PROVE  Unit(b, u) \in Bits(W4)
<1>1. ASSUME NEW i \in 1 .. W4 PROVE (u - 1) * W4 + i \in 1 .. W6
  <2>1. u = 1 \/ u = 2 \/ u = 3 \/ u = 4
    OBVIOUS
  <2> QED BY <2>1, NoProxyAssumption, SockaddrAssumption
<1> QED BY <1>1 DEF Unit, Bits

LEMMA ZeroType == Zero \in Bits(W4)
BY DEF Zero, Bits

(* An IPv6 address put together from its units.                            *)
LEMMA UnitsJoined ==
    ASSUME NEW b \in Bits(W6)
    PROVE  Unit(b, 1) \o Unit(b, 2) \o Unit(b, 3) \o Unit(b, 4) = b
<1> DEFINE u1 == Unit(b, 1)  u2 == Unit(b, 2)  u3 == Unit(b, 3)
           u4 == Unit(b, 4)  j == Quad(u1, u2, u3, u4)
<1>1. u1 \in Bits(W4) /\ u2 \in Bits(W4) /\ u3 \in Bits(W4) /\ u4 \in Bits(W4)
  BY UnitType
<1> HIDE DEF u1, u2, u3, u4
<1>2. /\ j \in Bits(W6)
      /\ \A i \in 1 .. W4 : /\ j[i] = u1[i] /\ j[W4 + i] = u2[i]
                            /\ j[2 * W4 + i] = u3[i] /\ j[3 * W4 + i] = u4[i]
  BY <1>1, Joined
<1> HIDE DEF j
<1>3. \A i \in 1 .. W4 :
         /\ u1[i] = b[i] /\ u2[i] = b[W4 + i]
         /\ u3[i] = b[2 * W4 + i] /\ u4[i] = b[3 * W4 + i]
  BY NoProxyAssumption DEF Unit, u1, u2, u3, u4
<1>4. ASSUME NEW k \in 1 .. W6 PROVE j[k] = b[k]
  <2>1. \E i \in 1 .. W4 : k = i \/ k = W4 + i \/ k = 2 * W4 + i \/ k = 3 * W4 + i
    <3>1. \/ k \in 1 .. W4 \/ k - W4 \in 1 .. W4
          \/ k - 2 * W4 \in 1 .. W4 \/ k - 3 * W4 \in 1 .. W4
      BY NoProxyAssumption, SockaddrAssumption
    <3>2. /\ k = W4 + (k - W4) /\ k = 2 * W4 + (k - 2 * W4)
          /\ k = 3 * W4 + (k - 3 * W4)
      BY NoProxyAssumption
    <3> QED BY <3>1, <3>2
  <2> QED BY <1>2, <1>3, <2>1
<1>5. j = b
  <2>1. /\ j \in Seq({0, 1}) /\ Len(j) = W6 /\ b \in Seq({0, 1}) /\ Len(b) = W6
    BY <1>2, BitsAreSequences, NoProxyAssumption
  <2> QED BY <1>4, <2>1, SeqEqual, Zenon
<1> QED BY <1>5 DEF Quad, j, u1, u2, u3, u4

(* Written and read again, an address is what it was, of either family,    *)
(* and what follows the structure is what it was, the rest of the last     *)
(* word included.                                                          *)
LEMMA WriteRead4 ==
    ASSUME NEW m, ImageOK(m), NEW a \in SockAddr4
    PROVE  /\ read_sockaddr(write_sockaddr(m, a)) = a
           /\ ImageOK(write_sockaddr(m, a))
           /\ \A u \in 5 .. Units : write_sockaddr(m, a)[u] = m[u]
<1> DEFINE w == write_sockaddr(m, a)
           head == [family |-> "inet", port |-> a.port]
<1>1. encode(a) = <<head, a.bits, Zero, Zero>> /\ Len(encode(a)) = 4
  BY DEF encode, SockAddr4
<1>2. /\ w[1] = head /\ w[2] = a.bits /\ w[3] = Zero /\ w[4] = Zero
      /\ \A u \in 5 .. 8 : w[u] = m[u]
      /\ DOMAIN w = 1 .. 8
  BY <1>1 DEF write_sockaddr, Units
<1> HIDE DEF w
<1>3. read_sockaddr(w) = [v |-> 4, bits |-> a.bits, port |-> a.port]
  BY <1>2 DEF read_sockaddr
<1>4. ImageOK(w)
  <2>1. w[1].port \in Nat /\ w[2] \in Bits(W4)
    BY <1>2 DEF SockAddr4
  <2>2. \A u \in 3 .. 8 : w[u] \in Bits(W4)
    BY <1>2, ZeroType DEF ImageOK, Units
  <2> QED BY <1>2, <2>1, <2>2 DEF ImageOK, Units
<1> QED BY <1>2, <1>3, <1>4 DEF SockAddr4, Units, w

LEMMA WriteRead6 ==
    ASSUME NEW m, ImageOK(m), NEW a \in SockAddr6
    PROVE  /\ read_sockaddr(write_sockaddr(m, a)) = a
           /\ ImageOK(write_sockaddr(m, a))
           /\ write_sockaddr(m, a)[8] = m[8]
<1> DEFINE w == write_sockaddr(m, a)
           head == [family |-> "inet6", port |-> a.port]
<1>1. /\ encode(a) = <<head, Zero, Unit(a.bits, 1), Unit(a.bits, 2),
                       Unit(a.bits, 3), Unit(a.bits, 4), Zero>>
      /\ Len(encode(a)) = 7
  BY DEF encode, SockAddr6
<1>2. /\ w[1] = head /\ w[2] = Zero /\ w[3] = Unit(a.bits, 1)
      /\ w[4] = Unit(a.bits, 2) /\ w[5] = Unit(a.bits, 3)
      /\ w[6] = Unit(a.bits, 4) /\ w[7] = Zero /\ w[8] = m[8]
      /\ DOMAIN w = 1 .. 8
  BY <1>1 DEF write_sockaddr, last_word, Units
<1> HIDE DEF w
<1>3. read_sockaddr(w) = [v |-> 6, bits |-> a.bits, port |-> a.port]
  <2>1. Unit(a.bits, 1) \o Unit(a.bits, 2) \o Unit(a.bits, 3)
           \o Unit(a.bits, 4) = a.bits
    BY UnitsJoined DEF SockAddr6
  <2>2. w[3] \o w[4] \o w[5] \o w[6] = a.bits
    BY <1>2, <2>1, Zenon
  <2>3. w[1].family = "inet6" /\ w[1].port = a.port
    BY <1>2
  <2> QED BY <2>2, <2>3 DEF read_sockaddr
<1>4. ImageOK(w)
  <2>1. w[1].port \in Nat
    BY <1>2 DEF SockAddr6
  <2>2. \A u \in 1 .. 4 : Unit(a.bits, u) \in Bits(W4)
    BY UnitType DEF SockAddr6
  <2>3. m[8] \in Bits(W4)
    BY DEF ImageOK, Units
  <2>4. \A u \in 2 .. 8 : w[u] \in Bits(W4)
    BY <1>2, <2>2, <2>3, ZeroType
  <2> QED BY <1>2, <2>1, <2>4 DEF ImageOK, Units
<1> QED BY <1>2, <1>3, <1>4 DEF SockAddr6, w

(* What is read from memory is an address of its family, or unknown.       *)
LEMMA ReadType ==
    ASSUME NEW m, ImageOK(m)
    PROVE  \/ read_sockaddr(m) \in SockAddr4 /\ Beyond(m) = 5
           \/ read_sockaddr(m) \in SockAddr6 /\ Beyond(m) = 8
           \/ read_sockaddr(m) = Unknown
<1>1. CASE m[1].family = "inet"
  BY <1>1 DEF read_sockaddr, Beyond, ImageOK, SockAddr4, Units
<1>2. CASE m[1].family = "inet6"
  <2>1. m[3] \o m[4] \o m[5] \o m[6] \in Bits(W6)
    <3>1. /\ m[3] \in Bits(W4) /\ m[4] \in Bits(W4)
          /\ m[5] \in Bits(W4) /\ m[6] \in Bits(W4)
      BY DEF ImageOK, Units
    <3>2. Quad(m[3], m[4], m[5], m[6]) \in Bits(W6)
      BY <3>1, Joined
    <3> QED BY <3>2, Zenon DEF Quad
  <2> QED BY <1>2, <2>1 DEF read_sockaddr, Beyond, ImageOK, SockAddr6, Units
<1>3. CASE m[1].family \notin {"inet", "inet6"}
  BY <1>3 DEF read_sockaddr
<1> QED BY <1>1, <1>2, <1>3

LEMMA LocalType == Local \in SockAddr4 /\ Local # None
<1> DEFINE bits == [i \in 1 .. W4 |-> IF i <= Len(LoopNet) THEN LoopNet[i]
                                     ELSE IF i = W4 THEN 1 ELSE 0]
<1>1. bits \in Bits(W4)
  BY NoProxyAssumption DEF Bits
<1>2. Local = [v |-> 4, bits |-> bits, port |-> LocalPort]
  BY DEF Local, Addr
<1> HIDE DEF bits
<1>3. Local \in SockAddr4
  BY <1>1, <1>2, LaunchAssumption DEF SockAddr4
<1> QED BY <1>3, InputAssumption DEF SockAddr4

(* A socket address has an IP address and is not one of the other values.  *)
LEMMA AddressType ==
    ASSUME NEW a \in SockAddr4 \cup SockAddr6
    PROVE  IpOf(a) \in Ip /\ a # Unknown /\ a # None
<1>1. IpOf(a) \in Ip
  BY DEF IpOf, Ip, SockAddr4, SockAddr6
<1>2. a.v # 0
  BY DEF SockAddr4, SockAddr6
<1>3. a # None
  BY InputAssumption DEF SockAddr4, SockAddr6
<1> QED BY <1>1, <1>2, <1>3 DEF Unknown

(* The handler's conditions are what the command line says.                *)
LEMMA HandlerExempts ==
    ASSUME TypeOK, ConfigInv, stage = "run",
           NEW a \in SockAddr4 \cup SockAddr6 \cup {Unknown}
    PROVE  Exempted(a) <=>
              \/ skips(a)
              \/ a.v = 6 /\ disable_ipv6
              \/ a = proxy.addr
<1>1. CASE a = Unknown
  <2>1. Exempted(a)
    BY <1>1 DEF Exempted
  <2>2. skips(a)
    BY <1>1 DEF skips
  <2> QED BY <2>1, <2>2
<1>2. CASE a # Unknown
  <2>1. IpOf(a) \in Ip
    BY <1>2, AddressType
  <2>2. should_bypass(no_proxy, IpOf(a)) <=>
           \E i \in 1 .. Len(args.no_proxy) :
               Denotes(args.no_proxy[i], IpOf(a))
    BY <2>1, BypassDenotes DEF TypeOK, ConfigInv
  <2>3. proxy.addr = Addr(args.proxy.host, args.proxy.port)
    BY DEF ConfigInv, proxy_url_ok, proxy_config, url_port
  <2> DEFINE special == is_loopback(IpOf(a)) \/ is_unspecified(IpOf(a))
             listed == \E i \in 1 .. Len(args.no_proxy) :
                           Denotes(args.no_proxy[i], IpOf(a))
  <2>4. skips(a) <=> special \/ a.port = 0 \/ listed
    BY <1>2, <2>2 DEF skips
  <2>5. Exempted(a) <=>
           \/ special \/ a.port = 0 \/ listed
           \/ a = Addr(args.proxy.host, args.proxy.port)
           \/ a.v = 6 /\ disable_ipv6
    BY <1>2 DEF Exempted, disable_ipv6
  <2> HIDE DEF special, listed
  <2> QED BY <2>3, <2>4, <2>5
<1> QED BY <1>1, <1>2
-----------------------------------------------------------------------------
(* The steps.                                                              *)

LEMMA LaunchInit == Init => LaunchInv
<1> SUFFICES ASSUME Init PROVE LaunchInv
  OBVIOUS
<1>1. TypeOK
  BY DEF Init, TypeOK
<1>2. ConfigInv
  BY DEF Init, ConfigInv
<1>3. MemInv
  BY DEF Init, MemInv
<1> QED BY <1>1, <1>2, <1>3 DEF LaunchInv

(* Before the program runs main() changes nothing of it.                   *)
LEMMA MainKeeps ==
    ASSUME LaunchInv, at = "none", UNCHANGED <<args, programVars>>,
           stage' \in {"rules", "env", "url", "bind", "fork", "run", "ended"},
           env' \subseteq Vars, local_addr' \in {None, Local},
           exit_code' \in {None, 1, 127}
    PROVE  TypeOK' /\ MemInv'
<1>1. TypeOK'
  BY DEF LaunchInv, TypeOK, programVars
<1>2. MemInv'
  BY DEF LaunchInv, MemInv, programVars
<1> QED BY <1>1, <1>2

LEMMA MainInv ==
    ASSUME LaunchInv, ParseNoProxy \/ ClearEnv \/ ParseProxy \/ Bind
    PROVE  LaunchInv'
<1> USE DEF LaunchInv, Go, Fail
<1>1. stage \in {"rules", "env", "url", "bind"} /\ at = "none"
  BY DEF ParseNoProxy, ClearEnv, ParseProxy, Bind, ConfigInv
<1>2. CASE ParseNoProxy
  <2>1. ConfigInv'
    BY <1>1, <1>2 DEF ParseNoProxy, ConfigInv, programVars
  <2> QED BY <1>1, <1>2, <2>1, MainKeeps DEF ParseNoProxy, TypeOK
<1>3. CASE ClearEnv
  <2>1. ConfigInv'
    BY <1>1, <1>3 DEF ClearEnv, clear_proxy_env, ConfigInv, programVars
  <2> QED BY <1>1, <1>3, <2>1, MainKeeps DEF ClearEnv, clear_proxy_env, TypeOK
<1>4. CASE ParseProxy
  <2>1. ConfigInv'
    BY <1>1, <1>4 DEF ParseProxy, ConfigInv, programVars
  <2> QED BY <1>1, <1>4, <2>1, MainKeeps DEF ParseProxy, TypeOK
<1>5. CASE Bind
  <2>1. ConfigInv'
    BY <1>1, <1>5 DEF Bind, ConfigInv, programVars
  <2> QED BY <1>1, <1>5, <2>1, MainKeeps DEF Bind, TypeOK
<1> QED BY <1>2, <1>3, <1>4, <1>5

(* The program starts with an image of its own choice.                     *)
LEMMA StoredInv ==
    ASSUME NEW m \in Images, mem' = m, stored' = m, at' = "user",
           restore' = None, saw' = None
    PROVE  MemInv'
BY InputAssumption DEF MemInv

LEMMA ForkExecInv ==
    ASSUME LaunchInv, ForkExec PROVE LaunchInv'
<1> USE DEF LaunchInv, ForkExec
<1>1. stage = "fork" /\ at = "none" /\ restore = None /\ saw = None
  BY DEF ConfigInv, MemInv
<1>2. CASE at' = "user"
  <2>1. PICK m \in Images : mem' = m /\ stored' = m
    BY <1>1, <1>2
  <2>2. MemInv'
    BY <1>1, <1>2, <2>1, StoredInv
  <2>3. ConfigInv'
    BY <1>1, <1>2 DEF ConfigInv, Go
  <2>4. TypeOK'
    BY <1>1, <1>2, <2>1, InputAssumption DEF TypeOK, Go
  <2> QED BY <2>2, <2>3, <2>4
<1>3. CASE at' # "user"
  <2>1. /\ stage' = "ended" /\ exit_code' \in {1, 127}
        /\ UNCHANGED <<args, env, no_proxy, proxy, local_addr, programVars>>
    BY <1>3 DEF Fail, programVars
  <2>2. ConfigInv'
    BY <1>1, <2>1 DEF ConfigInv, programVars
  <2>3. TypeOK' /\ MemInv'
    BY <1>1, <2>1, MainKeeps DEF TypeOK
  <2> QED BY <2>2, <2>3
<1> QED BY <1>2, <1>3

(* While the program runs the configuration stays.                         *)
LEMMA ConfigKept ==
    ASSUME ConfigInv, at # "none", UNCHANGED <<args, mainVars, child_env>>
    PROVE  ConfigInv'
BY DEF ConfigInv, mainVars

LEMMA TypeKept ==
    ASSUME TypeOK, UNCHANGED <<args, mainVars, child_env>>,
           at' \in {"user", "entry", "kernel", "exit"}, errno' \in BOOLEAN,
           \A m \in {mem', stored', saw'} \ {None} : ImageOK(m),
           restore' # None => IpOf(restore') \in Ip
    PROVE  TypeOK'
BY DEF TypeOK, mainVars

LEMMA StoreInv ==
    ASSUME LaunchInv, Store PROVE LaunchInv'
<1> USE DEF LaunchInv, Store
<1>1. PICK m \in Images : mem' = m /\ stored' = m
  OBVIOUS
<1>2. at' = "user" /\ restore' = None /\ saw' = None
  BY DEF MemInv
<1>3. MemInv'
  BY <1>1, <1>2, StoredInv
<1>4. TypeOK'
  BY <1>1, <1>2, TypeKept, InputAssumption DEF TypeOK
<1> QED BY <1>3, <1>4, ConfigKept

LEMMA SameExempted ==
    ASSUME UNCHANGED <<args, stored>>
    PROVE  Exempted(read_sockaddr(stored))' <=> Exempted(read_sockaddr(stored))
BY DEF Exempted

LEMMA CallInv ==
    ASSUME LaunchInv, Call PROVE LaunchInv'
<1> USE DEF LaunchInv, Call
<1>1. MemInv'
  BY SameExempted DEF MemInv
<1>2. TypeOK'
  BY TypeKept DEF TypeOK
<1> QED BY <1>1, <1>2, ConfigKept

(* The entry handler rewrites the sockaddr exactly when the command line   *)
(* does not exempt the address.                                            *)
LEMMA EnterInv ==
    ASSUME LaunchInv, handle_connect_enter PROVE LaunchInv'
<1> DEFINE dest == read_sockaddr(mem)
<1>1. /\ at = "entry" /\ at' = "kernel" /\ stage = "run"
      /\ UNCHANGED <<args, mainVars, child_env, stored, saw>>
      /\ ImageOK(mem) /\ stored \in Images /\ ImageOK(stored)
      /\ restore = None /\ saw = None /\ dest = read_sockaddr(stored)
  BY InputAssumption DEF handle_connect_enter, LaunchInv, ConfigInv, MemInv
<1>2. dest \in SockAddr4 \cup SockAddr6 \cup {Unknown}
  BY <1>1, ReadType
<1>3. ConfigInv'
  BY <1>1, ConfigKept DEF LaunchInv
<1>4. CASE Exempted(dest)
  <2>1. mem = stored
    BY <1>1, <1>4 DEF LaunchInv, MemInv
  <2>2. UNCHANGED <<mem, restore>> /\ errno' \in BOOLEAN
    BY <1>1, <1>2, <1>4, HandlerExempts
    DEF LaunchInv, handle_connect_enter, TypeOK
  <2>3. MemInv'
    BY <1>1, <1>4, <2>1, <2>2, SameExempted DEF LaunchInv, MemInv
  <2>4. TypeOK'
    BY <1>1, <2>2, TypeKept DEF LaunchInv, TypeOK
  <2> QED BY <1>3, <2>3, <2>4 DEF LaunchInv
<1>5. CASE ~Exempted(dest)
  <2>1. /\ mem' = write_sockaddr(mem, Local) /\ restore' = dest
        /\ UNCHANGED errno
    <3>1. local_addr = Local
      BY <1>1 DEF LaunchInv, ConfigInv
    <3>2. ~skips(dest) /\ ~(dest.v = 6 /\ disable_ipv6) /\ dest # proxy.addr
      BY <1>1, <1>2, <1>5, HandlerExempts DEF LaunchInv
    <3> QED BY <3>1, <3>2 DEF handle_connect_enter
  <2>2. dest \in SockAddr4 \cup SockAddr6
    BY <1>2, <1>5 DEF Exempted
  <2>3. /\ read_sockaddr(mem') = Local /\ ImageOK(mem')
        /\ \A u \in 5 .. Units : mem'[u] = mem[u]
    BY <1>1, <2>1, LocalType, WriteRead4
  <2>4. Beyond(stored) \in {5, 8}
    BY <1>1, <2>2, ReadType, AddressType
  <2>5. \A u \in Beyond(stored) .. Units : mem'[u] = stored[u]
    <3>1. \A u \in Beyond(stored) .. Units : mem[u] = stored[u]
      BY <1>1 DEF LaunchInv, MemInv
    <3> QED BY <2>3, <2>4, <3>1 DEF Units
  <2>6. MemInv'
    BY <1>1, <1>5, <2>1, <2>3, <2>5, SameExempted DEF MemInv
  <2>7. TypeOK'
    BY <1>1, <2>1, <2>2, <2>3, AddressType, TypeKept DEF LaunchInv, TypeOK
  <2> QED BY <1>3, <2>6, <2>7 DEF LaunchInv
<1> QED BY <1>4, <1>5

LEMMA KernelInv ==
    ASSUME LaunchInv, Kernel PROVE LaunchInv'
<1> USE DEF LaunchInv, Kernel
<1>1. MemInv'
  BY SameExempted DEF MemInv
<1>2. TypeOK'
  BY TypeKept DEF TypeOK
<1> QED BY <1>1, <1>2, ConfigKept

(* The exit handler puts the address back.                                 *)
LEMMA ExitInv ==
    ASSUME LaunchInv, handle_syscall_exit PROVE LaunchInv'
<1>1. /\ at = "exit" /\ at' = "user" /\ restore' = None /\ saw' = None
      /\ UNCHANGED <<args, mainVars, child_env, stored>>
      /\ ImageOK(mem) /\ stored \in Images /\ ImageOK(stored)
      /\ errno' \in BOOLEAN
  BY InputAssumption DEF handle_syscall_exit, LaunchInv, MemInv
<1>2. ConfigInv'
  BY <1>1, ConfigKept DEF LaunchInv
<1>3. CASE Exempted(read_sockaddr(stored))
  <2>1. mem = stored /\ mem' = mem
    BY <1>1, <1>3 DEF LaunchInv, MemInv, handle_syscall_exit
  <2>2. MemInv'
    BY <1>1, <1>3, <2>1, SameExempted DEF MemInv
  <2>3. TypeOK'
    BY <1>1, <2>1, TypeKept DEF LaunchInv, TypeOK
  <2> QED BY <1>2, <2>2, <2>3 DEF LaunchInv
<1>4. CASE ~Exempted(read_sockaddr(stored))
  <2> DEFINE dest == read_sockaddr(stored)
  <2>1. restore = dest /\ \A u \in Beyond(stored) .. Units : mem[u] = stored[u]
    BY <1>1, <1>4 DEF LaunchInv, MemInv
  <2>2. \/ dest \in SockAddr4 /\ Beyond(stored) = 5
        \/ dest \in SockAddr6 /\ Beyond(stored) = 8
    BY <1>1, <1>4, ReadType DEF Exempted
  <2>3. mem' = write_sockaddr(mem, dest)
    BY <2>1, <2>2, AddressType DEF handle_syscall_exit
  <2>4. /\ read_sockaddr(mem') = dest /\ ImageOK(mem')
        /\ \A u \in Beyond(stored) .. Units : mem'[u] = stored[u]
    <3>1. CASE dest \in SockAddr4 /\ Beyond(stored) = 5
      BY <1>1, <2>1, <2>3, <3>1, WriteRead4
    <3>2. CASE dest \in SockAddr6 /\ Beyond(stored) = 8
      <4>1. /\ read_sockaddr(mem') = dest /\ ImageOK(mem')
            /\ mem'[8] = mem[8]
        BY <1>1, <2>3, <3>2, WriteRead6
      <4>2. \A u \in 8 .. Units : u = 8
        BY DEF Units
      <4> QED BY <2>1, <3>2, <4>1, <4>2
    <3> QED BY <2>2, <3>1, <3>2
  <2>5. MemInv'
    BY <1>1, <1>4, <2>4, SameExempted DEF MemInv
  <2>6. TypeOK'
    BY <1>1, <2>4, TypeKept DEF LaunchInv, TypeOK
  <2> QED BY <1>2, <2>5, <2>6 DEF LaunchInv
<1> QED BY <1>3, <1>4

LEMMA LaunchStep ==
    ASSUME LaunchInv, [Next]_vars PROVE LaunchInv'
<1>1. CASE UNCHANGED vars
  <2>1. TypeOK' /\ ConfigInv'
    BY <1>1 DEF LaunchInv, TypeOK, ConfigInv, vars, mainVars, programVars
  <2>2. MemInv'
    BY <1>1, SameExempted DEF LaunchInv, MemInv, vars, mainVars, programVars
  <2> QED BY <2>1, <2>2 DEF LaunchInv
<1>2. CASE Next
  BY <1>1, <1>2, MainInv, ForkExecInv, StoreInv, CallInv, EnterInv, KernelInv,
     ExitInv
  DEF Next, Main, Ended
<1> QED BY <1>1, <1>2

LEMMA LaunchInvariant == Spec => []LaunchInv
<1>1. LaunchInv /\ [Next]_vars => LaunchInv'
  BY LaunchStep
<1> QED BY <1>1, LaunchInit, PTL DEF Spec
-----------------------------------------------------------------------------
(* Type correctness: what main() parses, what the program starts with and  *)
(* what the handlers write stay what their types say, at every width.      *)
THEOREM LaunchTypeOK == Spec => []TypeOK
<1>1. LaunchInv => TypeOK
  BY DEF LaunchInv
<1> QED BY <1>1, LaunchInvariant, PTL

(* The program runs only under a complete configuration, whichever of      *)
(* main()'s calls fail, and without the proxy variables.                   *)
THEOREM ProgramStartsConfigured == Spec => []ConfiguredFirst
<1>1. LaunchInv => ConfiguredFirst
  <2> SUFFICES ASSUME LaunchInv, at # "none" PROVE ConfiguredFirst
    BY DEF ConfiguredFirst
  <2>1. /\ stage = "run" /\ local_addr = Local /\ exit_code = None
        /\ parse(args.no_proxy).ok /\ proxy_url_ok(args.proxy)
        /\ child_env \cap PROXY_ENV_VARS = {}
    BY DEF LaunchInv, ConfigInv
  <2>2. \A i \in 1 .. Len(args.no_proxy) : ~rejected(args.no_proxy[i])
    BY <2>1 DEF parse
  <2>3. args.proxy.host \in Ip
    BY <2>1, LaunchAssumption DEF LaunchInv, TypeOK, proxy_url_ok
  <2> QED BY <2>1, <2>2, <2>3, LocalType DEF ConfiguredFirst
<1> QED BY <1>1, LaunchInvariant, PTL

(* An address is bypassed if and only if a part of --no-proxy denotes it,  *)
(* for addresses of 32 and 128 bits as for any other width and at every    *)
(* prefix length (NoProxy::parse, the masks of contains_v4 and contains_v6 *)
(* and should_bypass).                                                     *)
THEOREM RulesAreExact == Spec => []BypassExactly
<1>1. LaunchInv => BypassExactly
  <2> SUFFICES ASSUME LaunchInv, no_proxy # None, NEW m \in Images,
                      read_sockaddr(m) # Unknown
               PROVE  should_bypass(no_proxy, IpOf(read_sockaddr(m))) <=>
                         \E i \in 1 .. Len(args.no_proxy) :
                             Denotes(args.no_proxy[i], IpOf(read_sockaddr(m)))
    BY DEF BypassExactly
  <2>1. IpOf(read_sockaddr(m)) \in Ip
    BY ReadType, AddressType, InputAssumption
  <2> QED BY <2>1, BypassDenotes DEF LaunchInv, TypeOK, ConfigInv
<1> QED BY <1>1, LaunchInvariant, PTL

(* The kernel reads the program's own bytes, unchanged, if the command     *)
(* line exempts or blocks the address, and the local proxy's address in    *)
(* every other case (main(), handle_connect_enter, read_sockaddr and       *)
(* write_sockaddr together).                                               *)
THEOREM KernelReadsAsConfigured == Spec => []KernelSees
<1>1. LaunchInv => KernelSees
  BY DEF LaunchInv, MemInv, KernelSees
<1> QED BY <1>1, LaunchInvariant, PTL

(* After connect() the program finds the address it stored, of either      *)
(* family, and the bytes after the structure as they were                  *)
(* (handle_syscall_exit and the merged last word of write_sockaddr).       *)
THEOREM SockaddrMeaningRestored == Spec => []MeaningRestored
<1>1. LaunchInv => MeaningRestored
  BY DEF LaunchInv, MemInv, MeaningRestored
<1> QED BY <1>1, LaunchInvariant, PTL
=============================================================================
