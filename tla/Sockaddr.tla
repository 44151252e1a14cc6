------------------------------ MODULE Sockaddr ------------------------------
(***************************************************************************)
(* Socket addresses in the memory of a tracee (src/src/tracer/memory.rs):  *)
(* the 32 bytes from the pointer that connect() was given, in units of 4   *)
(* bytes.  Two units are the word that PTRACE_POKEDATA writes.             *)
(*                                                                         *)
(*   unit   sockaddr_in         sockaddr_in6                               *)
(*    1     family, port        family, port                               *)
(*    2     address             flow label                                 *)
(*    3-4   sin_zero            address ...                                *)
(*    5-6   beyond it           ... address                                *)
(*    7     beyond it           scope id                                   *)
(*    8     beyond it           beyond it                                  *)
(***************************************************************************)
EXTENDS NoProxy

Units == 8

Zero == [i \in 1 .. W4 |-> 0]

(* An IPv6 address is four units.                                          *)
ASSUME SockaddrAssumption == W6 = 4 * W4

Unknown == [v |-> 0]
Addr(ip, port) == [v |-> ip.v, bits |-> ip.bits, port |-> port]
IpOf(a) == [v |-> a.v, bits |-> a.bits]

(* Flow label and scope id are not read.                                   *)
read_sockaddr(m) ==
    CASE m[1].family = "inet" -> [v |-> 4, bits |-> m[2], port |-> m[1].port]
      [] m[1].family = "inet6" ->
            [v |-> 6, bits |-> m[3] \o m[4] \o m[5] \o m[6],
             port |-> m[1].port]
      [] OTHER -> Unknown

Unit(bits, u) == [i \in 1 .. W4 |-> bits[(u - 1) * W4 + i]]

(* The buffer that write_sockaddr builds: 16 or 28 bytes.                  *)
encode(a) ==
    IF a.v = 4
    THEN <<[family |-> "inet", port |-> a.port], a.bits, Zero, Zero>>
    ELSE <<[family |-> "inet6", port |-> a.port], Zero, Unit(a.bits, 1),
           Unit(a.bits, 2), Unit(a.bits, 3), Unit(a.bits, 4), Zero>>

(* Faulty variant: the last word is written whole.                         *)
last_word_whole(buf, existing) == <<buf[Len(buf)], Zero>>

(* The last word of an odd buffer keeps what it held after the structure.  *)
last_word(buf, existing) == <<buf[Len(buf)], existing[2]>>

(* Full words first, then the remainder as read, changed and written back. *)
write_sockaddr(m, a) ==
    LET buf   == encode(a)
        whole == 2 * (Len(buf) \div 2)
        last  == last_word(buf, <<m[whole + 1], m[whole + 2]>>)
    IN  [u \in 1 .. Units |->
            IF u <= whole THEN buf[u]
            ELSE IF Len(buf) > whole /\ u <= whole + 2 THEN last[u - whole]
            ELSE m[u]]

(* The first unit that is not part of the structure.                       *)
Beyond(m) ==
    CASE m[1].family = "inet" -> 5 [] m[1].family = "inet6" -> 8
      [] OTHER -> 1
=============================================================================
