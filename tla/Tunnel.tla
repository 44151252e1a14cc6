------------------------------- MODULE Tunnel -------------------------------
(***************************************************************************)
(* One task of the local proxy after it has found its destination          *)
(* (proxy_connection of src/src/proxy/local.rs): it dials the upstream     *)
(* proxy, asks it for a tunnel by HTTP CONNECT (src/src/proxy/http.rs) or  *)
(* SOCKS5 (src/src/proxy/socks5.rs), and relays bytes between the program  *)
(* and the tunnel until either side is done.                               *)
(*                                                                         *)
(* TCP is a stream: what upstream writes goes to `wire' and arrives in     *)
(* `inbox' in pieces of any size; read_exact waits for all of its bytes,   *)
(* read returns what is there.  SOCKS5 is modelled byte by byte, HTTP by   *)
(* the parts of its reply that the code tells apart.  A payload byte is a  *)
(* number that no protocol byte has.                                       *)
(*                                                                         *)
(* What upstream and the wire may do that a single read() of an HTTP reply *)
(* does not expect is switched on by HttpMay:                              *)
(*   split     the reply arrives in several pieces                         *)
(*   coalesce  the destination's first bytes arrive with the reply         *)
(*   long      the reply is longer than the buffer                         *)
(*   mention   a refusal whose status line mentions "200"                  *)
(***************************************************************************)
EXTENDS Integers, SequencesExt

CONSTANTS
    Protocols,    \* the protocols of ProxyConfig that are configured
    HttpMay,      \* see above
    ResponseBuf,  \* parts of an HTTP reply that fit the buffer (1024 bytes)
    NameLengths,  \* the lengths of the names in SOCKS5 replies
    MaxPayload    \* bound: payload bytes each side sends

ASSUME TunnelAssumption ==
    /\ Protocols \subseteq {"http", "socks5"} /\ Protocols # {}
    /\ HttpMay \subseteq {"split", "coalesce", "long", "mention"}
    /\ ResponseBuf \in Nat \ {0, 1, 2} /\ MaxPayload \in Nat
    /\ NameLengths \subseteq 0 .. 255

SOCKS_VERSION == 5
METHOD_NO_AUTH == 0
METHOD_USER_PASS == 2
ATYP_IPV4 == 1
ATYP_NAME == 3
ATYP_IPV6 == 4

(* The parts of an HTTP reply: the version, the code with its reason, and  *)
(* the rest of the head.                                                   *)
HTTP == 301
OK200 == 302
REFUSED == 303
REFUSED_200 == 304   \* say "502 no route to 10.0.0.200"
HEADER == 305

Payload(i) == 1000 + i

VARIABLES
    protocol,   \* ProxyConfig::protocol
    auth,       \* ProxyConfig::auth: "none", "some", or "long" (over 255)
    at,         \* where the task is
    need,       \* bytes of the connect reply still to discard
    request,    \* what the task has written and upstream has not answered
    expects,    \* the request upstream waits for; "tunnel" once granted
    wire,       \* upstream's bytes under way to the task
    inbox,      \* those that have arrived
    server,     \* upstream's end of its connection: open, shut, closed
    program,    \* the program's end of the loopback connection
    outbox,     \* the program's bytes that the relay has not read
    upbuf, downbuf,  \* the buffers of the two copies
    toServer, toProgram,      \* what the relay delivered
    serverSent, programSent,  \* history: what the two ends sent
    ended       \* how the task ended: no, refused, error, server, program

taskVars == <<at, need, request, ended>>
netVars == <<expects, wire, server, serverSent>>
relayVars == <<upbuf, downbuf, toServer, toProgram>>
programVars == <<program, programSent>>
vars == <<protocol, auth, taskVars, netVars, inbox, relayVars, programVars,
          outbox>>

Stages == {"dial", "response", "method", "auth", "header", "length",
           "discard", "relay", "ended"}
Units == (0 .. 255) \cup (HTTP .. HEADER)
            \cup {Payload(i) : i \in 1 .. MaxPayload}

TypeOK ==
    /\ protocol \in Protocols /\ auth \in {"none", "some", "long"}
    /\ at \in Stages /\ need \in 0 .. 257
    /\ request \in {"none", "greeting", "auth", "connect"}
    /\ expects \in {"greeting", "auth", "connect", "tunnel", "nothing"}
    /\ server \in {"open", "shut", "closed"}
    /\ program \in {"open", "shut", "closed"}
    /\ \A s \in {wire, inbox, outbox, upbuf, downbuf, toServer, toProgram,
                 serverSent, programSent} : s \in Seq(Units)
    /\ ended \in {"no", "refused", "error", "server", "program"}

Init ==
    /\ protocol \in Protocols /\ auth \in {"none", "some", "long"}
    /\ at = "dial" /\ need = 0 /\ request = "none" /\ ended = "no"
    /\ expects = IF protocol = "http" THEN "connect" ELSE "greeting"
    /\ wire = <<>> /\ inbox = <<>> /\ server = "open" /\ serverSent = <<>>
    /\ program = "open" /\ programSent = <<>> /\ outbox = <<>>
    /\ upbuf = <<>> /\ downbuf = <<>> /\ toServer = <<>> /\ toProgram = <<>>
-----------------------------------------------------------------------------
(* The handshake.                                                          *)

Goto(stage) == at' = stage /\ UNCHANGED ended
End(how) == at' = "ended" /\ ended' = how

Write(r) == request' = r

Dial ==
    /\ at = "dial"
    /\ \/ /\ protocol = "http" /\ Goto("response") /\ Write("connect")
       \/ /\ protocol = "socks5" /\ Goto("method") /\ Write("greeting")
       \/ End("error") /\ UNCHANGED request
    /\ UNCHANGED <<protocol, auth, need, netVars, inbox, relayVars,
                   programVars, outbox>>

(* read_exact of n bytes, of which Check makes the next step.              *)
ReadExact(n) ==
    /\ Len(inbox) >= n
    /\ inbox' = SubSeq(inbox, n + 1, Len(inbox))
    /\ UNCHANGED <<protocol, auth, netVars, relayVars, programVars, outbox>>

(* socks5::connect on the method reply.  Credentials over 255 bytes are    *)
(* found out in socks5_auth, once upstream has chosen them.                *)
method_answer(a) ==
    CASE inbox[1] = SOCKS_VERSION /\ inbox[2] = METHOD_NO_AUTH -> "connect"
      [] inbox[1] = SOCKS_VERSION /\ inbox[2] = METHOD_USER_PASS /\ a = "some"
           -> "auth"
      [] OTHER -> "refused"

MethodReply ==
    /\ at = "method" /\ ReadExact(2)
    /\ \/ method_answer(auth) = "connect" /\ Goto("header") /\ Write("connect")
       \/ method_answer(auth) = "auth" /\ Goto("auth") /\ Write("auth")
       \/ method_answer(auth) = "refused" /\ End("refused") /\ Write("none")
    /\ UNCHANGED need

socks5_auth ==
    /\ at = "auth" /\ ReadExact(2)
    /\ \/ inbox[1] = 1 /\ inbox[2] = 0 /\ Goto("header") /\ Write("connect")
       \/ ~(inbox[1] = 1 /\ inbox[2] = 0) /\ End("refused") /\ Write("none")
    /\ UNCHANGED need

(* The four bytes of the connect reply before its address.                 *)
reply_version_only(h) == h[1] = SOCKS_VERSION  \* faulty variant
reply_ok(h) == h[1] = SOCKS_VERSION /\ h[2] = 0

addr_len_swapped(atyp) == IF atyp = ATYP_IPV4 THEN 16 ELSE 4  \* faulty variant
addr_len(atyp) == IF atyp = ATYP_IPV4 THEN 4 ELSE 16

atyp_is_ip(atyp) == atyp \in {ATYP_IPV4, ATYP_IPV6}  \* faulty variant
atyp_known(atyp) == atyp \in {ATYP_IPV4, ATYP_NAME, ATYP_IPV6}

ConnectReply ==
    /\ at = "header" /\ ReadExact(4)
    /\ LET atyp == inbox[4]
       IN  \/ /\ reply_ok(inbox) /\ atyp \in {ATYP_IPV4, ATYP_IPV6}
              /\ Goto("discard") /\ need' = addr_len(atyp) + 2
           \/ /\ reply_ok(inbox) /\ atyp_known(atyp) /\ atyp = ATYP_NAME
              /\ Goto("length") /\ UNCHANGED need
           \/ /\ ~reply_ok(inbox) \/ ~atyp_known(atyp)
              /\ End("refused") /\ UNCHANGED need
    /\ UNCHANGED request

NameLength_with_port ==  \* faulty variant: the length includes the port
    /\ at = "length" /\ ReadExact(1)
    /\ Goto("discard") /\ need' = inbox[1] - 2
    /\ UNCHANGED request

NameLength ==
    /\ at = "length" /\ ReadExact(1)
    /\ Goto("discard") /\ need' = inbox[1] + 2
    /\ UNCHANGED request

Discard ==
    /\ at = "discard" /\ ReadExact(need)
    /\ Goto("relay") /\ need' = 0
    /\ UNCHANGED request

(* http::connect takes the reply from one read: its first line must        *)
(* contain "200", wherever that is.                                        *)
contains_200(response) ==
    /\ Len(response) > 1 /\ response[1] = HTTP
    /\ response[2] \in {OK200, REFUSED_200}

Response ==
    LET n == IF Len(inbox) < ResponseBuf THEN Len(inbox) ELSE ResponseBuf
    IN  /\ at = "response" /\ inbox # <<>> /\ ReadExact(n)
        /\ \/ contains_200(SubSeq(inbox, 1, n)) /\ Goto("relay")
           \/ ~contains_200(SubSeq(inbox, 1, n)) /\ End("refused")
        /\ UNCHANGED <<need, request>>

Needed ==
    CASE at = "response" -> 1 [] at \in {"method", "auth"} -> 2
      [] at = "header" -> 4 [] at = "length" -> 1 [] at = "discard" -> need
      [] OTHER -> 0

(* Upstream hangs up, or resets the connection, before the reply is whole. *)
HandshakeFails ==
    /\ at \notin {"dial", "relay", "ended"}
    /\ \/ server = "closed"
       \/ server = "shut" /\ wire = <<>> /\ Len(inbox) < Needed
    /\ End("error")
    /\ UNCHANGED <<protocol, auth, need, request, netVars, inbox, relayVars,
                   programVars, outbox>>
-----------------------------------------------------------------------------
(* The relay: two copies, polled by one select!, which drops the other     *)
(* copy with its buffer when either ends.  A read or a write fails once    *)
(* the other end is closed (reset).                                        *)

relayUnchanged == UNCHANGED <<protocol, auth, need, request, netVars,
                              programVars>>

CopyUp ==
    /\ at = "relay"
    /\ \/ /\ upbuf = <<>> /\ outbox # <<>>
          /\ upbuf' = outbox /\ outbox' = <<>>
          /\ UNCHANGED <<toServer, at, ended>>
       \/ /\ upbuf # <<>>
          /\ toServer' = toServer \o upbuf /\ upbuf' = <<>>
          /\ UNCHANGED <<outbox, at, ended>>
       \/ /\ IF upbuf = <<>> THEN program = "closed" ELSE server = "closed"
          /\ End("error")
          /\ UNCHANGED <<upbuf, outbox, toServer>>
    /\ UNCHANGED <<inbox, downbuf, toProgram>> /\ relayUnchanged

CopyDown ==
    /\ at = "relay"
    /\ \/ /\ downbuf = <<>> /\ inbox # <<>>
          /\ downbuf' = inbox /\ inbox' = <<>>
          /\ UNCHANGED <<toProgram, at, ended>>
       \/ /\ downbuf # <<>>
          /\ toProgram' = toProgram \o downbuf /\ downbuf' = <<>>
          /\ UNCHANGED <<inbox, at, ended>>
       \/ /\ IF downbuf = <<>> THEN server = "closed" ELSE program = "closed"
          /\ End("error")
          /\ UNCHANGED <<downbuf, inbox, toProgram>>
    /\ UNCHANGED <<outbox, upbuf, toServer>> /\ relayUnchanged

(* A copy has seen the end of its input and written all of it.             *)
up_read(buf) == program # "open" /\ outbox = <<>>    \* faulty variant
up_done(buf) == program # "open" /\ outbox = <<>> /\ buf = <<>>
down_done(buf) ==
    server # "open" /\ wire = <<>> /\ inbox = <<>> /\ buf = <<>>

(* Faulty variant: both copies must end, as with join!.                    *)
RelayEnds_both ==
    /\ at = "relay" /\ up_done(upbuf) /\ down_done(downbuf) /\ End("server")
    /\ UNCHANGED <<inbox, outbox, relayVars>> /\ relayUnchanged

RelayEnds ==
    /\ at = "relay"
    /\ \/ up_done(upbuf) /\ End("program")
       \/ down_done(downbuf) /\ End("server")
    /\ UNCHANGED <<inbox, outbox, relayVars>> /\ relayUnchanged

Task ==
    \/ Dial \/ MethodReply \/ socks5_auth \/ ConnectReply \/ NameLength
    \/ Discard \/ Response \/ HandshakeFails
    \/ CopyUp \/ CopyDown \/ RelayEnds
-----------------------------------------------------------------------------
(* The other ends.  Upstream answers the requests it expects, hangs up on  *)
(* one it does not, and may hang up at any time.                           *)

othersUnchanged == UNCHANGED <<protocol, auth, at, need, ended, relayVars>>

Send(bytes) == wire' = wire \o bytes

GreetingReplies ==
    {<<SOCKS_VERSION, m>> : m \in {METHOD_NO_AUTH, METHOD_USER_PASS, 1, 255}}
        \cup {<<4, METHOD_NO_AUTH>>}

AnswerGreeting ==
    /\ request = "greeting" /\ expects = "greeting" /\ server = "open"
    /\ \E r \in GreetingReplies :
          /\ Send(r)
          /\ expects' = CASE r = <<SOCKS_VERSION, METHOD_NO_AUTH>> -> "connect"
                          [] r = <<SOCKS_VERSION, METHOD_USER_PASS>> -> "auth"
                          [] OTHER -> "nothing"
    /\ request' = "none"
    /\ UNCHANGED <<server, serverSent, inbox, outbox, programVars>>
    /\ othersUnchanged

AnswerAuth ==
    /\ request = "auth" /\ expects = "auth" /\ server = "open"
    /\ \/ Send(<<1, 0>>) /\ expects' = "connect"
       \/ Send(<<1, 1>>) /\ expects' = "nothing"
    /\ request' = "none"
    /\ UNCHANGED <<server, serverSent, inbox, outbox, programVars>>
    /\ othersUnchanged

Bytes(n) == [i \in 1 .. n |-> 0]
Reply(rep, atyp) == <<SOCKS_VERSION, rep, 0, atyp>>
Granting ==
    IF protocol = "socks5"
    THEN {Reply(0, ATYP_IPV4) \o Bytes(6), Reply(0, ATYP_IPV6) \o Bytes(18)}
            \cup {Reply(0, ATYP_NAME) \o <<n>> \o Bytes(n + 2) : n \in NameLengths}
    ELSE {<<HTTP, OK200, HEADER>>}
            \cup (IF "long" \in HttpMay
                  THEN {<<HTTP, OK200>> \o [i \in 1 .. ResponseBuf |-> HEADER]}
                  ELSE {})
Refusing ==
    IF protocol = "socks5"
    THEN {Reply(5, ATYP_IPV4) \o Bytes(6), Reply(0, 2), <<4, 0, 0, ATYP_IPV4>>}
    ELSE {<<HTTP, REFUSED, HEADER>>}
            \cup (IF "mention" \in HttpMay
                  THEN {<<HTTP, REFUSED_200, HEADER>>} ELSE {})

AnswerConnect ==
    /\ request = "connect" /\ expects = "connect" /\ server = "open"
    /\ \/ \E r \in Granting : Send(r) /\ expects' = "tunnel"
       \/ \E r \in Refusing : Send(r) /\ expects' = "nothing"
    /\ request' = "none"
    /\ UNCHANGED <<server, serverSent, inbox, outbox, programVars>>
    /\ othersUnchanged

(* The destination speaks as soon as the tunnel stands.                    *)
ServerSends ==
    /\ expects = "tunnel" /\ server = "open" /\ at # "ended"
    /\ Len(serverSent) < MaxPayload
    /\ protocol = "http" /\ "coalesce" \notin HttpMay => at = "relay"
    /\ Send(<<Payload(Len(serverSent) + 1)>>)
    /\ serverSent' = Append(serverSent, Payload(Len(serverSent) + 1))
    /\ UNCHANGED <<expects, server, request, inbox, outbox, programVars>>
    /\ othersUnchanged

ServerCloses ==
    /\ at # "ended"
    /\ \/ server = "open" /\ server' = "shut"
       \/ server # "closed" /\ server' = "closed"
    /\ UNCHANGED <<expects, wire, serverSent, request, inbox, outbox,
                   programVars>>
    /\ othersUnchanged

(* Bytes arrive; an HTTP reply in one piece unless it may be split.        *)
Arrive ==
    /\ wire # <<>> /\ at # "ended"
    /\ LET n == IF protocol = "http" /\ "split" \notin HttpMay
                THEN Len(wire) ELSE 1
       IN  /\ inbox' = inbox \o SubSeq(wire, 1, n)
           /\ wire' = SubSeq(wire, n + 1, Len(wire))
    /\ UNCHANGED <<expects, server, serverSent, request, outbox, programVars>>
    /\ othersUnchanged

(* The program is connected from the start and may send at once.           *)
ProgramSends ==
    /\ program = "open" /\ at # "ended" /\ Len(programSent) < MaxPayload
    /\ outbox' = Append(outbox, Payload(Len(programSent) + 1))
    /\ programSent' = Append(programSent, Payload(Len(programSent) + 1))
    /\ UNCHANGED <<program, netVars, request, inbox>> /\ othersUnchanged

ProgramCloses ==
    /\ at # "ended"
    /\ \/ program = "open" /\ program' = "shut"
       \/ program # "closed" /\ program' = "closed"
    /\ UNCHANGED <<programSent, netVars, request, inbox, outbox>>
    /\ othersUnchanged

Terminated == at = "ended" /\ UNCHANGED vars

Next ==
    \/ Task
    \/ AnswerGreeting \/ AnswerAuth \/ AnswerConnect \/ ServerSends
    \/ ServerCloses \/ Arrive \/ ProgramSends \/ ProgramCloses
    \/ Terminated

Spec == Init /\ [][Next]_vars

(* The runtime polls the task, and TCP delivers; upstream and the program  *)
(* owe nothing.                                                            *)
FairSpec == Spec /\ WF_vars(Task) /\ WF_vars(Arrive)
-----------------------------------------------------------------------------
(* The relay delivers to each side what the other sent, from its first     *)
(* byte, in order and without a byte of the handshake (the lengths that    *)
(* socks5::connect reads, the buffer of http::connect, the two copies).    *)
InOrder ==
    /\ IsPrefix(toProgram, serverSent)
    /\ IsPrefix(toServer, programSent)

(* When one side's end of file ends the relay, all that side sent has been *)
(* delivered (io::copy writes what it read before it returns).             *)
EofComplete ==
    /\ ended = "server" => toProgram = serverSent
    /\ ended = "program" => toServer = programSent

(* The relay starts only in a tunnel that upstream has granted, with the   *)
(* authentication it asked for.                                            *)
OnlyIfGranted == at = "relay" => expects = "tunnel"

(* A tunnel that upstream granted is not taken for a refusal, whatever the *)
(* pieces in which the replies arrive.                                     *)
GrantedNotRefused == ended = "refused" => expects # "tunnel"

(* The task ends once upstream has hung up, at any stage, or the program   *)
(* has while the relay runs: no copy waits for a peer that is gone.        *)
TunnelEnds ==
    (server # "open" \/ (program # "open" /\ at = "relay")) ~> at = "ended"
=============================================================================
