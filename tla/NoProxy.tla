------------------------------ MODULE NoProxy ------------------------------
(***************************************************************************)
(* The --no-proxy rules (src/src/no_proxy.rs).  An IP address is its bits, *)
(* the most significant first, so that masks and shifts are the ones of    *)
(* the code at any width.  A part of the command line is modelled by what  *)
(* NoProxy::parse takes it for:                                            *)
(*   empty      nothing but blanks                                         *)
(*   any        "*"                                                        *)
(*   localhost  in any case                                                *)
(*   ip         an address                                                 *)
(*   cidr       an address, a slash and a number of at most 255            *)
(*   badcidr    anything else with a slash                                 *)
(*   suffix     a leading dot                                              *)
(*   host       any other name, with the addresses it resolves to at       *)
(*              startup (none if the lookup fails)                         *)
(***************************************************************************)
EXTENDS Integers, Sequences

CONSTANTS
    W4, W6,    \* the width of the two kinds of address: 32 and 128
    LoopNet    \* the bits of the first octet of 127.0.0.0/8

ASSUME NoProxyAssumption ==
    /\ W4 \in Nat \ {0} /\ W6 \in Nat \ {0}
    /\ LoopNet \in Seq({0, 1}) /\ Len(LoopNet) \in 1 .. W4

Bits(w) == [1 .. w -> {0, 1}]
Ip == [v : {4}, bits : Bits(W4)] \cup [v : {6}, bits : Bits(W6)]
Width(ip) == IF ip.v = 4 THEN W4 ELSE W6

is_unspecified(ip) == \A i \in 1 .. Width(ip) : ip.bits[i] = 0
is_loopback(ip) ==
    IF ip.v = 4 THEN \A i \in 1 .. Len(LoopNet) : ip.bits[i] = LoopNet[i]
    ELSE \A i \in 1 .. W6 : ip.bits[i] = IF i = W6 THEN 1 ELSE 0

-----------------------------------------------------------------------------
(* u32::MAX << k and u128::MAX << k; the shift amount is taken modulo the  *)
(* width, as a build without overflow checks does.                         *)
MaxShl(w, k) == [i \in 1 .. w |-> IF i + (k % w) <= w THEN 1 ELSE 0]

mask_by_shift(w, p) == MaxShl(w, w - p)  \* faulty variant: no case for 0
mask(w, p) == IF p = 0 THEN [i \in 1 .. w |-> 0] ELSE MaxShl(w, w - p)

(* contains_v4 and contains_v6                                             *)
contains_bits(network, ip, w, p) ==
    \A i \in 1 .. w : network[i] * mask(w, p)[i] = ip[i] * mask(w, p)[i]

contains(net, ip) ==
    /\ net.addr.v = ip.v
    /\ contains_bits(net.addr.bits, ip.bits, Width(ip), net.prefix_len)

(* parse_cidr fails when the prefix is longer than the address.            *)
parse_cidr_ok(part) == part.prefix_len <= Width(part.addr)

rejected(part) ==
    \/ part.kind = "badcidr"
    \/ part.kind = "cidr" /\ ~parse_cidr_ok(part)

rules_of(part) ==
    CASE part.kind = "any" -> {[rule |-> "Any"]}
      [] part.kind = "localhost" -> {[rule |-> "Loopback"]}
      [] part.kind = "ip" -> {[rule |-> "IpExact", ip |-> part.addr]}
      [] part.kind = "cidr" ->
            {[rule |-> "IpCidr", addr |-> part.addr,
              prefix_len |-> part.prefix_len]}
      [] part.kind = "host" ->
            {[rule |-> "IpExact", ip |-> a] : a \in part.addrs}
      [] OTHER -> {}

(* NoProxy::parse: the first part it rejects ends it.  The rules are only  *)
(* ever asked whether any of them matches, so their order is left out.     *)
parse(parts) ==
    [ok |-> \A i \in 1 .. Len(parts) : ~rejected(parts[i]),
     rules |-> UNION {rules_of(parts[i]) : i \in 1 .. Len(parts)}]

matches(r, ip) ==
    CASE r.rule = "Any" -> TRUE
      [] r.rule = "Loopback" -> is_loopback(ip)
      [] r.rule = "IpExact" -> r.ip = ip
      [] r.rule = "IpCidr" -> contains(r, ip)

should_bypass(no_proxy, ip) == \E r \in no_proxy.rules : matches(r, ip)
-----------------------------------------------------------------------------
(* What a part means, without masks: the addresses whose first prefix_len  *)
(* bits are those of the network.                                          *)
Denotes(part, ip) ==
    \/ part.kind = "any"
    \/ part.kind = "localhost" /\ is_loopback(ip)
    \/ part.kind = "ip" /\ part.addr = ip
    \/ /\ part.kind = "cidr" /\ part.addr.v = ip.v
       /\ \A i \in 1 .. part.prefix_len : part.addr.bits[i] = ip.bits[i]
    \/ part.kind = "host" /\ ip \in part.addrs
=============================================================================
