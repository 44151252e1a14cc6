---------------------------- MODULE TunnelProofs ----------------------------
(***************************************************************************)
(* One task of the local proxy from the dial to its end, for any amount of *)
(* payload on either side and replies that arrive in any pieces.  What is  *)
(* not yet read of upstream's bytes (Rest) is the rest of the reply that   *)
(* the task is in, followed by all that the destination has sent (After):  *)
(* TaskInv says for each place of the task how long that rest is and what  *)
(* its deciding bytes are, so that no byte of the handshake is taken for   *)
(* payload and none of the payload for the handshake.                      *)
(*                                                                         *)
(* SOCKS5 needs no hypothesis.  The single read() of http::connect is only *)
(* right about replies that come whole, alone and no longer than its       *)
(* buffer, with "200" in the status line only if they grant the tunnel.    *)
(***************************************************************************)
EXTENDS Tunnel, SequenceTheorems, TLAPS

(* None of these things happens to an HTTP reply.                          *)
Without(S) == protocol = "socks5" \/ S \cap HttpMay = {}
AsExpected == Without({"split", "coalesce", "long"})

Rest == inbox \o wire

(* What is unread is k bytes of a reply and then the destination's bytes.  *)
After(k) ==
    /\ Len(Rest) = k + Len(serverSent)
    /\ \A i \in 1 .. Len(serverSent) : Rest[k + i] = serverSent[i]

Whole == Without({"split"}) => inbox = <<>> \/ Len(inbox) >= 3

MethodInv ==
    /\ protocol = "socks5"
    /\ \/ request = "greeting" /\ expects = "greeting"
       \/ /\ request = "none" /\ Len(Rest) = 2
          /\ expects \in {"connect", "auth", "nothing"}
          /\ expects = "connect" <=> Rest[1] = SOCKS_VERSION
                                     /\ Rest[2] = METHOD_NO_AUTH
          /\ expects = "auth" <=> Rest[1] = SOCKS_VERSION
                                  /\ Rest[2] = METHOD_USER_PASS

AuthInv ==
    /\ protocol = "socks5"
    /\ \/ request = "auth" /\ expects = "auth"
       \/ /\ request = "none" /\ Len(Rest) = 2
          /\ expects \in {"connect", "nothing"}
          /\ expects = "connect" <=> Rest[1] = 1 /\ Rest[2] = 0

HeaderInv ==
    /\ protocol = "socks5"
    /\ \/ request = "connect" /\ expects = "connect"
       \/ /\ request = "none" /\ expects = "nothing" /\ Len(Rest) >= 4
          /\ ~(reply_ok(Rest) /\ atyp_known(Rest[4]))
       \/ /\ request = "none" /\ expects = "tunnel" /\ reply_ok(Rest)
          /\ \/ Rest[4] = ATYP_IPV4 /\ After(10)
             \/ Rest[4] = ATYP_IPV6 /\ After(22)
             \/ Rest[4] = ATYP_NAME /\ Rest[5] \in NameLengths /\ After(7 + Rest[5])

ResponseInv ==
    /\ protocol = "http"
    /\ \/ request = "connect" /\ expects = "connect"
       \/ /\ request = "none" /\ Whole /\ Len(Rest) >= 3 /\ Rest[1] = HTTP
          /\ \/ /\ expects = "tunnel" /\ Rest[2] = OK200
                /\ Without({"coalesce", "long"}) => After(3) /\ serverSent = <<>>
             \/ /\ expects = "nothing" /\ After(3)
                /\ Rest[2] \in {REFUSED, REFUSED_200}
                /\ Without({"mention"}) => Rest[2] = REFUSED

StageInv ==
    /\ expects # "tunnel" => serverSent = <<>>
    /\ request # "none" => Rest = <<>>
    /\ at = "dial" =>
          /\ request = "none" /\ Rest = <<>>
          /\ expects = IF protocol = "http" THEN "connect" ELSE "greeting"
    /\ at = "method" => MethodInv
    /\ at = "auth" => AuthInv
    /\ at = "header" => HeaderInv
    /\ at = "length" =>
          /\ protocol = "socks5" /\ request = "none" /\ expects = "tunnel"
          /\ Rest[1] \in NameLengths /\ After(3 + Rest[1])
    /\ at = "discard" =>
          /\ protocol = "socks5" /\ request = "none" /\ expects = "tunnel"
          /\ After(need)
    /\ at = "response" => ResponseInv

(* Concatenation, as an operator that the provers take as it is.           *)
Cat(s, t) == s \o t

(* From upstream to the program.                                           *)
DownInv ==
    /\ at \notin {"relay", "ended"} => toProgram = <<>> /\ downbuf = <<>>
    /\ at = "relay" =>
          /\ request = "none"
          /\ Without({"mention"}) => expects = "tunnel"
          /\ AsExpected => Cat(Cat(toProgram, downbuf), Rest) = serverSent
    /\ at = "ended" /\ AsExpected =>
          /\ IsPrefix(toProgram, serverSent)
          /\ ended = "server" => toProgram = serverSent

(* From the program to upstream.                                           *)
UpInv ==
    /\ Cat(Cat(toServer, upbuf), outbox) = programSent
    /\ ended = "program" => upbuf = <<>> /\ outbox = <<>>

EndInv ==
    /\ at = "ended" <=> ended # "no"
    /\ ended = "refused" =>
          request = "none" /\ (Without({"split"}) => expects # "tunnel")

TaskInv == StageInv /\ DownInv /\ UpInv /\ EndInv

TunnelInv == TypeOK /\ TaskInv
-----------------------------------------------------------------------------
(* Sequences.                                                              *)

(* The length of a name is a byte.                                         *)
LEMMA NameBytes == NameLengths \subseteq 0 .. 255
BY TunnelAssumption

LEMMA Cut ==
    ASSUME NEW S, NEW s \in Seq(S), NEW n \in 0 .. Len(s)
    PROVE  /\ SubSeq(s, 1, n) \in Seq(S) /\ Len(SubSeq(s, 1, n)) = n
           /\ \A i \in 1 .. n : SubSeq(s, 1, n)[i] = s[i]
           /\ SubSeq(s, n + 1, Len(s)) \in Seq(S)
           /\ Len(SubSeq(s, n + 1, Len(s))) = Len(s) - n
           /\ \A i \in 1 .. Len(s) - n :
                 SubSeq(s, n + 1, Len(s))[i] = s[n + i]
<1>1. Len(s) \in Nat /\ \A i \in 1 .. Len(s) : s[i] \in S
  BY LenProperties, ElementOfSeq
<1> QED BY <1>1, SubSeqProperties

LEMMA CatProperties ==
    ASSUME NEW S, NEW s \in Seq(S), NEW t \in Seq(S)
    PROVE  /\ Cat(s, t) \in Seq(S)
           /\ Len(Cat(s, t)) = Len(s) + Len(t)
           /\ \A i \in 1 .. Len(s) + Len(t) :
                 Cat(s, t)[i] = IF i <= Len(s) THEN s[i] ELSE t[i - Len(s)]
BY ConcatProperties, Zenon DEF Cat

LEMMA CatAssociative ==
    ASSUME NEW S, NEW s \in Seq(S), NEW t \in Seq(S), NEW u \in Seq(S)
    PROVE  Cat(Cat(s, t), u) = Cat(s, Cat(t, u))
BY ConcatAssociative DEF Cat

LEMMA CatEmpty ==
    ASSUME NEW S, NEW s \in Seq(S)
    PROVE  Cat(s, <<>>) = s /\ Cat(<<>>, s) = s
BY ConcatEmptySeq, Zenon DEF Cat

LEMMA CatCut ==
    ASSUME NEW S, NEW s \in Seq(S), NEW n \in 0 .. Len(s)
    PROVE  Cat(SubSeq(s, 1, n), SubSeq(s, n + 1, Len(s))) = s
<1> DEFINE a == SubSeq(s, 1, n)  b == SubSeq(s, n + 1, Len(s))  c == Cat(a, b)
<1>1. /\ a \in Seq(S) /\ Len(a) = n /\ \A i \in 1 .. n : a[i] = s[i]
      /\ b \in Seq(S) /\ Len(b) = Len(s) - n
      /\ \A i \in 1 .. Len(s) - n : b[i] = s[n + i]
  BY Cut
<1> HIDE DEF a, b
<1>2. /\ c \in Seq(S) /\ Len(c) = Len(a) + Len(b)
      /\ \A i \in 1 .. Len(a) + Len(b) :
            c[i] = IF i <= Len(a) THEN a[i] ELSE b[i - Len(a)]
  BY <1>1, CatProperties, Zenon
<1> HIDE DEF c
<1>3. Len(s) \in Nat /\ Len(c) = Len(s)
  BY <1>1, <1>2, LenProperties
<1>4. ASSUME NEW i \in 1 .. Len(c) PROVE c[i] = s[i]
  <2>1. CASE i <= n
    BY <1>1, <1>2, <1>3, <2>1
  <2>2. CASE ~(i <= n)
    <3>1. i - n \in 1 .. Len(s) - n /\ n + (i - n) = i
      BY <1>3, <2>2
    <3> QED BY <1>1, <1>2, <3>1
  <2> QED BY <2>1, <2>2
<1>5. c = s
  BY <1>2, <1>3, <1>4, SeqEqual
<1> QED BY <1>5 DEF c, a, b

LEMMA PrefixOfCat ==
    ASSUME NEW S, NEW s \in Seq(S), NEW t \in Seq(S)
    PROVE  IsPrefix(s, Cat(s, t))
<1> DEFINE c == Cat(s, t)
<1>1. /\ c \in Seq(S) /\ Len(c) = Len(s) + Len(t)
      /\ \A i \in 1 .. Len(s) + Len(t) :
            c[i] = IF i <= Len(s) THEN s[i] ELSE t[i - Len(s)]
  BY CatProperties, Zenon
<1>2. Len(s) \in Nat /\ Len(t) \in Nat
  BY LenProperties
<1> HIDE DEF c
<1> DEFINE a == SubSeq(s, 1, Len(s))  b == SubSeq(c, 1, Len(s))
<1>3. /\ a \in Seq(S) /\ Len(a) = Len(s)
      /\ \A i \in 1 .. Len(s) : a[i] = s[i]
      /\ b \in Seq(S) /\ Len(b) = Len(s)
      /\ \A i \in 1 .. Len(s) : b[i] = c[i]
  BY <1>1, <1>2, Cut
<1> HIDE DEF a, b
<1>4. a = b
  BY <1>1, <1>2, <1>3, SeqEqual
<1>5. Len(s) <= Len(c)
  BY <1>1, <1>2
<1> QED BY <1>4, <1>5 DEF IsPrefix, a, b, c

LEMMA AppendIsCat ==
    ASSUME NEW S, NEW s \in Seq(S), NEW e \in S
    PROVE  <<e>> \in Seq(S) /\ Append(s, e) = Cat(s, <<e>>)
<1>1. <<e>> \in Seq(S)
  OBVIOUS
<1>2. Append(s, e) = Cat(s, <<e>>)
  BY AppendIsConcat, Zenon DEF Cat
<1> QED BY <1>1, <1>2
-----------------------------------------------------------------------------
(* What is unread.                                                         *)

LEMMA RestIs == Rest = Cat(inbox, wire) /\ Rest' = Cat(inbox', wire')
BY DEF Rest, Cat

LEMMA SeqTypes ==
    ASSUME TypeOK
    PROVE  /\ wire \in Seq(Units) /\ inbox \in Seq(Units)
           /\ outbox \in Seq(Units) /\ upbuf \in Seq(Units)
           /\ downbuf \in Seq(Units) /\ toServer \in Seq(Units)
           /\ toProgram \in Seq(Units) /\ serverSent \in Seq(Units)
           /\ programSent \in Seq(Units)
BY DEF TypeOK

LEMMA RestProperties ==
    ASSUME TypeOK
    PROVE  /\ Rest \in Seq(Units) /\ Len(Rest) = Len(inbox) + Len(wire)
           /\ \A i \in 1 .. Len(inbox) : Rest[i] = inbox[i]
           /\ Len(Rest) \in Nat /\ Len(inbox) \in Nat /\ Len(wire) \in Nat
           /\ Len(serverSent) \in Nat
<1>1. inbox \in Seq(Units) /\ wire \in Seq(Units) /\ serverSent \in Seq(Units)
  BY SeqTypes
<1>2. /\ Rest \in Seq(Units) /\ Len(Rest) = Len(inbox) + Len(wire)
      /\ \A i \in 1 .. Len(inbox) + Len(wire) :
            Rest[i] = IF i <= Len(inbox) THEN inbox[i] ELSE wire[i - Len(inbox)]
  BY <1>1, RestIs, CatProperties, Zenon
<1>3. /\ Len(Rest) \in Nat /\ Len(inbox) \in Nat /\ Len(wire) \in Nat
      /\ Len(serverSent) \in Nat
  BY <1>1, <1>2, LenProperties
<1> QED BY <1>2, <1>3

LEMMA RestKept ==
    ASSUME UNCHANGED <<inbox, wire>> PROVE Rest' = Rest
BY DEF Rest

LEMMA RestArrives ==
    ASSUME TypeOK, Arrive PROVE Rest' = Rest /\ inbox' \in Seq(Units)
                                /\ wire' \in Seq(Units)
<1>1. inbox \in Seq(Units) /\ wire \in Seq(Units) /\ wire # <<>>
  BY SeqTypes DEF Arrive
<1>2. Len(wire) \in Nat \ {0}
  BY <1>1, EmptySeq
<1>3. PICK n \in 0 .. Len(wire) :
         /\ inbox' = Cat(inbox, SubSeq(wire, 1, n))
         /\ wire' = SubSeq(wire, n + 1, Len(wire))
  <2> DEFINE n == IF protocol = "http" /\ "split" \notin HttpMay
                  THEN Len(wire) ELSE 1
  <2>1. n \in 0 .. Len(wire)
    BY <1>2
  <2>2. /\ inbox' = Cat(inbox, SubSeq(wire, 1, n))
        /\ wire' = SubSeq(wire, n + 1, Len(wire))
    BY DEF Arrive, Cat
  <2> HIDE DEF n
  <2> QED BY <2>1, <2>2
<1> DEFINE a == SubSeq(wire, 1, n)  b == SubSeq(wire, n + 1, Len(wire))
<1>4. a \in Seq(Units) /\ b \in Seq(Units) /\ Cat(a, b) = wire
  BY <1>1, Cut, CatCut
<1>5. inbox' = Cat(inbox, a) /\ wire' = b
  BY <1>3
<1> HIDE DEF a, b
<1>6. Cat(Cat(inbox, a), b) = Cat(inbox, wire)
  <2>1. Cat(Cat(inbox, a), b) = Cat(inbox, Cat(a, b))
    BY <1>1, <1>4, CatAssociative
  <2> QED BY <1>4, <2>1
<1>7. Cat(inbox, a) \in Seq(Units)
  BY <1>1, <1>4, CatProperties
<1> QED BY <1>4, <1>5, <1>6, <1>7, RestIs

(* Upstream writes.                                                        *)
LEMMA RestSent ==
    ASSUME TypeOK, NEW b \in Seq(Units), inbox' = inbox, Send(b)
    PROVE  /\ Rest' = Cat(Rest, b) /\ wire' \in Seq(Units)
           /\ Len(Rest') = Len(Rest) + Len(b)
           /\ \A i \in 1 .. Len(Rest) + Len(b) :
                 Rest'[i] = IF i <= Len(Rest) THEN Rest[i] ELSE b[i - Len(Rest)]
<1>1. inbox \in Seq(Units) /\ wire \in Seq(Units) /\ Rest \in Seq(Units)
  BY SeqTypes, RestProperties
<1>2. wire' = Cat(wire, b) /\ wire' \in Seq(Units)
  BY <1>1, CatProperties DEF Send, Cat
<1>3. Rest' = Cat(Rest, b)
  <2>1. Cat(Cat(inbox, wire), b) = Cat(inbox, Cat(wire, b))
    BY <1>1, CatAssociative
  <2> QED BY <1>2, <2>1, RestIs
<1> HIDE DEF Rest
<1>4. /\ Len(Rest') = Len(Rest) + Len(b)
      /\ \A i \in 1 .. Len(Rest) + Len(b) :
            Rest'[i] = IF i <= Len(Rest) THEN Rest[i] ELSE b[i - Len(Rest)]
  BY <1>1, <1>3, CatProperties, Zenon
<1> QED BY <1>2, <1>3, <1>4

(* The task reads n bytes.                                                 *)
LEMMA RestRead ==
    ASSUME TypeOK, NEW n \in Nat, ReadExact(n)
    PROVE  /\ inbox' \in Seq(Units) /\ n <= Len(inbox) /\ n <= Len(Rest)
           /\ Len(Rest') = Len(Rest) - n
           /\ \A i \in 1 .. Len(Rest) - n : Rest'[i] = Rest[n + i]
<1>1. inbox \in Seq(Units) /\ wire \in Seq(Units) /\ wire' = wire
      /\ Len(inbox) \in Nat /\ Len(wire) \in Nat
  BY SeqTypes, RestProperties DEF ReadExact, netVars
<1>2. n \in 0 .. Len(inbox) /\ inbox' = SubSeq(inbox, n + 1, Len(inbox))
  BY <1>1 DEF ReadExact
<1> DEFINE d == SubSeq(inbox, n + 1, Len(inbox))
<1>3. /\ d \in Seq(Units) /\ Len(d) = Len(inbox) - n
      /\ \A i \in 1 .. Len(inbox) - n : d[i] = inbox[n + i]
  BY <1>1, <1>2, Cut
<1> HIDE DEF d
<1>4. inbox' = d
  BY <1>2 DEF d
<1>5. /\ Len(Rest') = Len(d) + Len(wire)
      /\ \A i \in 1 .. Len(d) + Len(wire) :
            Rest'[i] = IF i <= Len(d) THEN d[i] ELSE wire[i - Len(d)]
  BY <1>1, <1>3, <1>4, RestIs, CatProperties, Zenon
<1>6. /\ Len(Rest) = Len(inbox) + Len(wire)
      /\ \A i \in 1 .. Len(inbox) + Len(wire) :
            Rest[i] = IF i <= Len(inbox) THEN inbox[i] ELSE wire[i - Len(inbox)]
  BY <1>1, RestIs, CatProperties, Zenon
<1>7. ASSUME NEW i \in 1 .. Len(Rest) - n PROVE Rest'[i] = Rest[n + i]
  <2>1. /\ i \in 1 .. Len(d) + Len(wire) /\ n + i \in 1 .. Len(inbox) + Len(wire)
        /\ i <= Len(d) <=> n + i <= Len(inbox)
        /\ i - Len(d) = (n + i) - Len(inbox)
        /\ i <= Len(d) => i \in 1 .. Len(inbox) - n
    BY <1>1, <1>2, <1>3, <1>6
  <2>2. /\ Rest'[i] = IF i <= Len(d) THEN d[i] ELSE wire[i - Len(d)]
        /\ Rest[n + i] = IF n + i <= Len(inbox) THEN inbox[n + i]
                         ELSE wire[(n + i) - Len(inbox)]
        /\ i <= Len(d) => d[i] = inbox[n + i]
    BY <1>3, <1>5, <1>6, <2>1, Zenon
  <2> QED BY <2>1, <2>2
<1>8. Len(Rest') = Len(Rest) - n /\ n <= Len(inbox) /\ n <= Len(Rest)
  BY <1>1, <1>2, <1>3, <1>5, <1>6
<1> QED BY <1>3, <1>4, <1>7, <1>8

(* Reading the reply leaves what comes after it.                           *)
LEMMA AfterRead ==
    ASSUME TypeOK, NEW n \in Nat, ReadExact(n), NEW k \in Nat, n <= k, After(k)
    PROVE  After(k - n)'
<1>1. /\ serverSent' = serverSent /\ Len(serverSent) \in Nat
      /\ Len(Rest) = k + Len(serverSent)
      /\ Len(Rest') = Len(Rest) - n
      /\ \A i \in 1 .. Len(Rest) - n : Rest'[i] = Rest[n + i]
  BY RestRead, RestProperties DEF ReadExact, netVars, After
<1>2. ASSUME NEW i \in 1 .. Len(serverSent)
      PROVE  Rest'[(k - n) + i] = serverSent[i]
  <2>1. /\ (k - n) + i \in 1 .. Len(Rest) - n
        /\ n + ((k - n) + i) = k + i
    BY <1>1
  <2>2. Rest'[(k - n) + i] = Rest[n + ((k - n) + i)]
    BY <1>1, <2>1
  <2> QED BY <2>1, <2>2 DEF After
<1>3. Len(Rest') = (k - n) + Len(serverSent)
  BY <1>1
<1> QED BY <1>1, <1>2, <1>3 DEF After

LEMMA AfterKept ==
    ASSUME NEW k, After(k), Rest' = Rest, serverSent' = serverSent
    PROVE  After(k)'
BY DEF After

(* The destination sends.                                                  *)
LEMMA AfterSends ==
    ASSUME TypeOK, NEW k \in Nat, After(k), NEW e \in Units, inbox' = inbox,
           Send(<<e>>), serverSent' = Append(serverSent, e)
    PROVE  After(k)'
<1>1. Len(serverSent) \in Nat /\ Len(Rest) = k + Len(serverSent)
  BY RestProperties DEF After
<1>2. /\ <<e>> \in Seq(Units) /\ Len(<<e>>) = 1
      /\ \A i \in 1 .. 1 : i = 1
  OBVIOUS
<1>3. /\ Len(Rest') = Len(Rest) + 1
      /\ \A i \in 1 .. Len(Rest) + 1 :
            Rest'[i] = IF i <= Len(Rest) THEN Rest[i] ELSE <<e>>[i - Len(Rest)]
  BY <1>2, RestSent
<1>4. /\ Len(serverSent') = Len(serverSent) + 1
      /\ \A i \in 1 .. Len(serverSent) : serverSent'[i] = serverSent[i]
      /\ serverSent'[Len(serverSent) + 1] = e
  BY SeqTypes, AppendProperties
<1>5. ASSUME NEW i \in 1 .. Len(serverSent) + 1
      PROVE  Rest'[k + i] = serverSent'[i]
  <2>1. k + i \in 1 .. Len(Rest) + 1
    BY <1>1
  <2>2. CASE i <= Len(serverSent)
    <3>1. i \in 1 .. Len(serverSent) /\ k + i <= Len(Rest)
      BY <1>1, <2>2
    <3>2. Rest'[k + i] = Rest[k + i]
      BY <1>3, <2>1, <3>1
    <3> QED BY <1>4, <3>1, <3>2 DEF After
  <2>3. CASE i = Len(serverSent) + 1
    <3>1. ~(k + i <= Len(Rest)) /\ (k + i) - Len(Rest) = 1
      BY <1>1, <2>3
    <3>2. Rest'[k + i] = <<e>>[(k + i) - Len(Rest)]
      BY <1>3, <2>1, <3>1
    <3>3. <<e>>[1] = e
      OBVIOUS
    <3> QED BY <1>4, <2>3, <3>1, <3>2, <3>3
  <2> QED BY <1>1, <2>2, <2>3
<1> QED BY <1>1, <1>3, <1>4, <1>5 DEF After

(* The whole of a reply is read: what is left is what was sent.            *)
LEMMA AfterAll ==
    ASSUME TypeOK, NEW n \in Nat, ReadExact(n), After(n)
    PROVE  Rest' = serverSent
<1>1. After(n - n)' /\ serverSent' = serverSent
  BY AfterRead DEF ReadExact, netVars
<1>2. /\ serverSent \in Seq(Units) /\ Len(serverSent) \in Nat
      /\ Len(Rest') = 0 + Len(serverSent)
      /\ \A i \in 1 .. Len(serverSent) : Rest'[0 + i] = serverSent[i]
  BY <1>1, SeqTypes, RestProperties DEF After
<1>3. Rest' \in Seq(Units)
  <2>1. inbox' \in Seq(Units) /\ wire' \in Seq(Units)
    BY RestRead, SeqTypes DEF ReadExact, netVars
  <2> QED BY <2>1, RestIs, CatProperties
<1>4. Len(Rest') = Len(serverSent)
      /\ \A i \in 1 .. Len(Rest') : Rest'[i] = serverSent[i]
  BY <1>2
<1> QED BY <1>2, <1>3, <1>4, SeqEqual

LEMMA EmptyPrefix ==
    ASSUME NEW S, NEW s \in Seq(S) PROVE IsPrefix(<<>>, s)
<1>1. <<>> \in Seq(S) /\ Cat(<<>>, s) = s
  BY CatEmpty, EmptySeq
<1> DEFINE z == <<>>
<1>2. z \in Seq(S)
  BY <1>1
<1> HIDE DEF z
<1>3. IsPrefix(z, Cat(z, s))
  BY <1>2, PrefixOfCat
<1> QED BY <1>1, <1>3 DEF z
-----------------------------------------------------------------------------
(* The task.                                                               *)

Requests == {"none", "greeting", "auth", "connect"}
Answers == {"greeting", "auth", "connect", "tunnel", "nothing"}

LEMMA TypeFrom ==
    ASSUME TypeOK, UNCHANGED <<protocol, auth>>, at' \in Stages,
           need' \in 0 .. 257, request' \in Requests, expects' \in Answers,
           server' \in {"open", "shut", "closed"},
           program' \in {"open", "shut", "closed"},
           ended' \in {"no", "refused", "error", "server", "program"},
           wire' \in Seq(Units), inbox' \in Seq(Units), outbox' \in Seq(Units),
           upbuf' \in Seq(Units), downbuf' \in Seq(Units),
           toServer' \in Seq(Units), toProgram' \in Seq(Units),
           serverSent' \in Seq(Units), programSent' \in Seq(Units)
    PROVE  TypeOK'
BY DEF TypeOK, Requests, Answers

LEMMA SameWithout ==
    ASSUME protocol' = protocol, NEW S PROVE Without(S)' <=> Without(S)
BY DEF Without

(* Once the handshake is over, StageInv asks little.                       *)
LEMMA StageLeft ==
    ASSUME StageInv, at' \in {"relay", "ended"},
           UNCHANGED <<expects, serverSent>>,
           request' = "none" \/ (request' = request /\ Rest' = Rest)
    PROVE  StageInv'
BY DEF StageInv

LEMMA UpKept ==
    ASSUME UpInv, UNCHANGED <<toServer, upbuf, outbox, programSent>>,
           ended' = ended \/ ended' # "program"
    PROVE  UpInv'
BY DEF UpInv

(* A step of the handshake that reads and goes on, or refuses.             *)
LEMMA ReadKeeps ==
    ASSUME TunnelInv, NEW n \in Nat, ReadExact(n),
           at \notin {"relay", "ended"}, at' \in Stages \ {"relay"},
           need' \in 0 .. 257, request' \in Requests,
           \/ at' # "ended" /\ ended' = ended
           \/ /\ at' = "ended" /\ ended' = "refused" /\ request' = "none"
              /\ Without({"split"}) => expects # "tunnel"
    PROVE  TypeOK' /\ DownInv' /\ UpInv' /\ EndInv'
<1>1. /\ UNCHANGED <<protocol, auth, expects, wire, server, serverSent, upbuf,
                     downbuf, toServer, toProgram, program, programSent, outbox>>
      /\ inbox' \in Seq(Units) /\ TypeOK
  BY RestRead DEF ReadExact, netVars, relayVars, programVars, TunnelInv
<1>2. TypeOK'
  BY <1>1, SeqTypes, TypeFrom DEF TypeOK, Answers
<1>3. toProgram = <<>> /\ downbuf = <<>> /\ IsPrefix(<<>>, serverSent)
  BY <1>1, SeqTypes, EmptyPrefix DEF TunnelInv, TaskInv, DownInv
<1>4. DownInv'
  BY <1>1, <1>3 DEF DownInv
<1>5. UpInv'
  BY <1>1, UpKept DEF TunnelInv, TaskInv
<1>6. EndInv'
  BY <1>1, SameWithout DEF TunnelInv, TaskInv, EndInv
<1> QED BY <1>2, <1>4, <1>5, <1>6

LEMMA DialInv ==
    ASSUME TunnelInv, Dial PROVE TunnelInv'
<1> USE DEF Dial
<1>1. /\ UNCHANGED <<protocol, auth, need, expects, wire, server, serverSent,
                     inbox, upbuf, downbuf, toServer, toProgram, program,
                     programSent, outbox>>
      /\ at = "dial" /\ request = "none" /\ Rest = <<>> /\ Rest' = Rest
      /\ expects = IF protocol = "http" THEN "connect" ELSE "greeting"
      /\ TypeOK /\ ended = "no" /\ toProgram = <<>> /\ downbuf = <<>>
      /\ expects # "tunnel" => serverSent = <<>>
  BY RestKept DEF TunnelInv, TaskInv, StageInv, DownInv, EndInv, TypeOK, netVars,
     relayVars, programVars
<1>2. TypeOK'
  BY <1>1, SeqTypes, TypeFrom
  DEF TypeOK, Requests, Answers, Stages, Goto, End, Write
<1>3. StageInv'
  BY <1>1 DEF StageInv, MethodInv, ResponseInv, Goto, End, Write
<1>4. DownInv'
  BY <1>1, SeqTypes, EmptyPrefix DEF DownInv, Goto, End
<1>5. UpInv'
  BY <1>1, UpKept DEF TunnelInv, TaskInv, Goto, End
<1>6. EndInv'
  BY <1>1 DEF EndInv, Goto, End
<1> QED BY <1>2, <1>3, <1>4, <1>5, <1>6 DEF TunnelInv, TaskInv

LEMMA EmptyRest ==
    ASSUME TypeOK, NEW n \in Nat, ReadExact(n), Len(Rest) = n
    PROVE  Rest' = <<>>
<1>1. Len(Rest') = 0
  BY RestRead, RestProperties
<1>2. inbox' \in Seq(Units) /\ wire' \in Seq(Units)
  BY RestRead, SeqTypes DEF ReadExact, netVars
<1>3. Rest' \in Seq(Units)
  BY <1>2, RestIs, CatProperties
<1> QED BY <1>1, <1>3, EmptySeq

LEMMA MethodReplyInv ==
    ASSUME TunnelInv, MethodReply PROVE TunnelInv'
<1>1. /\ at = "method" /\ ReadExact(2) /\ MethodInv /\ TypeOK /\ need' = need
      /\ ended = "no"
      /\ UNCHANGED <<protocol, expects, serverSent>>
  BY DEF MethodReply, TunnelInv, TaskInv, StageInv, EndInv, ReadExact, netVars
<1>2. Len(Rest) >= 2 /\ inbox[1] = Rest[1] /\ inbox[2] = Rest[2]
  BY <1>1, RestRead, RestProperties
<1>3. request = "none" /\ Len(Rest) = 2 /\ Rest' = <<>> /\ serverSent = <<>>
  <2>1. request # "greeting"
    BY <1>1, <1>2, EmptySeq DEF TunnelInv, TaskInv, StageInv
  <2>2. request = "none" /\ Len(Rest) = 2 /\ expects # "tunnel"
    BY <1>1, <2>1 DEF MethodInv
  <2> QED BY <1>1, <2>2, EmptyRest DEF TunnelInv, TaskInv, StageInv
<1>4. /\ expects \in {"connect", "auth", "nothing"}
      /\ expects = "connect" <=> method_answer(auth) = "connect"
      /\ method_answer(auth) = "auth" => expects = "auth"
  BY <1>1, <1>2, <1>3
  DEF MethodInv, method_answer, SOCKS_VERSION, METHOD_NO_AUTH, METHOD_USER_PASS
<1>5. \/ /\ at' = "header" /\ request' = "connect" /\ expects = "connect"
         /\ ended' = ended
      \/ /\ at' = "auth" /\ request' = "auth" /\ expects = "auth"
         /\ ended' = ended
      \/ at' = "ended" /\ ended' = "refused" /\ request' = "none"
  BY <1>4 DEF MethodReply, Goto, End, Write
<1>6. StageInv'
  BY <1>1, <1>3, <1>5 DEF StageInv, HeaderInv, AuthInv, MethodInv
<1>7. TypeOK' /\ DownInv' /\ UpInv' /\ EndInv'
  BY <1>1, <1>4, <1>5, ReadKeeps DEF Stages, Requests, TypeOK
<1> QED BY <1>6, <1>7 DEF TunnelInv, TaskInv

LEMMA AuthReplyInv ==
    ASSUME TunnelInv, socks5_auth PROVE TunnelInv'
<1>1. /\ at = "auth" /\ ReadExact(2) /\ AuthInv /\ TypeOK /\ need' = need
      /\ ended = "no"
      /\ UNCHANGED <<protocol, expects, serverSent>>
  BY DEF socks5_auth, TunnelInv, TaskInv, StageInv, EndInv, ReadExact, netVars
<1>2. Len(Rest) >= 2 /\ inbox[1] = Rest[1] /\ inbox[2] = Rest[2]
  BY <1>1, RestRead, RestProperties
<1>3. request = "none" /\ Len(Rest) = 2 /\ Rest' = <<>> /\ serverSent = <<>>
  <2>1. request # "auth"
    BY <1>1, <1>2, EmptySeq DEF TunnelInv, TaskInv, StageInv
  <2>2. request = "none" /\ Len(Rest) = 2 /\ expects # "tunnel"
    BY <1>1, <2>1 DEF AuthInv
  <2> QED BY <1>1, <2>2, EmptyRest DEF TunnelInv, TaskInv, StageInv
<1>4. /\ expects \in {"connect", "nothing"}
      /\ expects = "connect" <=> inbox[1] = 1 /\ inbox[2] = 0
  BY <1>1, <1>2, <1>3 DEF AuthInv
<1>5. \/ /\ at' = "header" /\ request' = "connect" /\ expects = "connect"
         /\ ended' = ended
      \/ at' = "ended" /\ ended' = "refused" /\ request' = "none"
  BY <1>4 DEF socks5_auth, Goto, End, Write
<1>6. StageInv'
  BY <1>1, <1>3, <1>5 DEF StageInv, HeaderInv, AuthInv
<1>7. TypeOK' /\ DownInv' /\ UpInv' /\ EndInv'
  BY <1>1, <1>4, <1>5, ReadKeeps DEF Stages, Requests, TypeOK
<1> QED BY <1>6, <1>7 DEF TunnelInv, TaskInv

LEMMA ConnectReplyInv ==
    ASSUME TunnelInv, ConnectReply PROVE TunnelInv'
<1>1. /\ at = "header" /\ ReadExact(4) /\ HeaderInv /\ TypeOK
      /\ request' = request /\ ended = "no"
      /\ UNCHANGED <<protocol, expects, serverSent>>
  BY DEF ConnectReply, TunnelInv, TaskInv, StageInv, EndInv, ReadExact, netVars
<1>2. /\ Len(Rest) \in Nat /\ Len(Rest) >= 4 /\ inbox[1] = Rest[1]
      /\ inbox[2] = Rest[2] /\ inbox[4] = Rest[4]
      /\ \A i \in 1 .. Len(Rest) - 4 : Rest'[i] = Rest[4 + i]
  BY <1>1, RestRead, RestProperties
<1>3. request = "none"
  BY <1>1, <1>2, EmptySeq DEF HeaderInv, TunnelInv, TaskInv, StageInv
<1>4. reply_ok(inbox) <=> reply_ok(Rest)
  BY <1>2 DEF reply_ok
<1>5. CASE expects = "nothing"
  <2>1. at' = "ended" /\ ended' = "refused" /\ need' = need
    BY <1>1, <1>2, <1>3, <1>4, <1>5
    DEF HeaderInv, ConnectReply, Goto, End, atyp_known
  <2>2. StageInv'
    BY <1>1, <1>3, <2>1, StageLeft DEF TunnelInv, TaskInv
  <2>3. TypeOK' /\ DownInv' /\ UpInv' /\ EndInv'
    BY <1>1, <1>3, <1>5, <2>1, ReadKeeps DEF Stages, Requests, TypeOK
  <2> QED BY <2>2, <2>3 DEF TunnelInv, TaskInv
<1>6. CASE expects = "tunnel"
  <2>1. /\ reply_ok(inbox)
        /\ \/ inbox[4] = ATYP_IPV4 /\ After(10)
           \/ inbox[4] = ATYP_IPV6 /\ After(22)
           \/ inbox[4] = ATYP_NAME /\ Rest[5] \in NameLengths /\ After(7 + Rest[5])
    BY <1>1, <1>2, <1>3, <1>4, <1>6 DEF HeaderInv
  <2>2. ended' = ended
    BY <2>1 DEF ConnectReply, Goto, End, atyp_known
  <2>3. CASE inbox[4] = ATYP_IPV4 /\ After(10)
    <3>1. at' = "discard" /\ need' = 6
      BY <2>1, <2>3
      DEF ConnectReply, Goto, atyp_known, addr_len, ATYP_IPV4, ATYP_IPV6,
          ATYP_NAME
    <3>2. After(6)'
      <4>1. After(10 - 4)'
        BY <1>1, <2>3, AfterRead
      <4> QED BY <4>1
    <3>3. StageInv'
      BY <1>1, <1>3, <1>6, <3>1, <3>2 DEF StageInv, HeaderInv
    <3>4. TypeOK' /\ DownInv' /\ UpInv' /\ EndInv'
      BY <1>1, <1>3, <2>2, <3>1, ReadKeeps DEF Stages, Requests
    <3> QED BY <3>3, <3>4 DEF TunnelInv, TaskInv
  <2>4. CASE inbox[4] = ATYP_IPV6 /\ After(22)
    <3>1. at' = "discard" /\ need' = 18
      BY <2>1, <2>4
      DEF ConnectReply, Goto, atyp_known, addr_len, ATYP_IPV4, ATYP_IPV6,
          ATYP_NAME
    <3>2. After(18)'
      <4>1. After(22 - 4)'
        BY <1>1, <2>4, AfterRead
      <4> QED BY <4>1
    <3>3. StageInv'
      BY <1>1, <1>3, <1>6, <3>1, <3>2 DEF StageInv, HeaderInv
    <3>4. TypeOK' /\ DownInv' /\ UpInv' /\ EndInv'
      BY <1>1, <1>3, <2>2, <3>1, ReadKeeps DEF Stages, Requests
    <3> QED BY <3>3, <3>4 DEF TunnelInv, TaskInv
  <2>5. CASE inbox[4] = ATYP_NAME /\ Rest[5] \in NameLengths /\ After(7 + Rest[5])
    <3>1. at' = "length" /\ need' = need
      BY <2>1, <2>5
      DEF ConnectReply, Goto, atyp_known, addr_len, ATYP_IPV4, ATYP_IPV6,
          ATYP_NAME
    <3>2. PICK len \in 0 .. 255 : len = Rest[5]
      BY <2>5, NameBytes
    <3>3. After(3 + len)' /\ Rest'[1] = len
      <4>1. After(7 + len)
        BY <2>5, <3>2
      <4>2. After((7 + len) - 4)'
        BY <1>1, <4>1, AfterRead
      <4>3. (7 + len) - 4 = 3 + len
        OBVIOUS
      <4>4. Len(Rest) >= 7
        BY <1>1, <4>1, RestProperties DEF After
      <4> QED BY <1>2, <3>2, <4>2, <4>3, <4>4
    <3>4. StageInv'
      BY <1>1, <1>3, <1>6, <2>5, <3>1, <3>2, <3>3 DEF StageInv, HeaderInv
    <3>5. TypeOK' /\ DownInv' /\ UpInv' /\ EndInv'
      BY <1>1, <1>3, <2>2, <3>1, ReadKeeps DEF Stages, Requests, TypeOK
    <3> QED BY <3>4, <3>5 DEF TunnelInv, TaskInv
  <2> QED BY <2>1, <2>3, <2>4, <2>5
<1> QED BY <1>1, <1>3, <1>5, <1>6 DEF HeaderInv

LEMMA NameLengthInv ==
    ASSUME TunnelInv, NameLength PROVE TunnelInv'
<1>1. /\ at = "length" /\ ReadExact(1) /\ TypeOK /\ request' = request
      /\ at' = "discard" /\ need' = inbox[1] + 2 /\ ended' = ended
      /\ protocol = "socks5" /\ request = "none" /\ expects = "tunnel"
      /\ Rest[1] \in NameLengths /\ After(3 + Rest[1])
      /\ UNCHANGED <<protocol, expects, serverSent>>
  BY DEF NameLength, Goto, TunnelInv, TaskInv, StageInv, ReadExact, netVars
<1>2. inbox[1] = Rest[1]
  BY <1>1, RestRead, RestProperties
<1>3. After(need)'
  <2>1. PICK len \in 0 .. 255 : len = Rest[1]
    BY <1>1, NameBytes
  <2>2. After((3 + len) - 1)'
    BY <1>1, <2>1, AfterRead
  <2>3. (3 + len) - 1 = need'
    BY <1>1, <1>2, <2>1
  <2> QED BY <2>2, <2>3
<1>4. StageInv'
  BY <1>1, <1>3 DEF StageInv
<1>5. TypeOK' /\ DownInv' /\ UpInv' /\ EndInv'
  <2>1. Rest[1] \in 0 .. 255
    BY <1>1, NameBytes
  <2>2. need' \in 0 .. 257
    BY <1>1, <1>2, <2>1
  <2> QED BY <1>1, <2>2, ReadKeeps DEF Stages, Requests
<1> QED BY <1>4, <1>5 DEF TunnelInv, TaskInv

(* The reply has been read and the relay starts.                           *)
LEMMA RelayStarts ==
    ASSUME TunnelInv, NEW n \in Nat, ReadExact(n),
           at \notin {"relay", "ended"}, at' = "relay", ended' = ended,
           need' \in 0 .. 257, request = "none", request' = request,
           Without({"mention"}) => expects = "tunnel",
           AsExpected => Rest' = serverSent
    PROVE  TunnelInv'
<1>1. /\ UNCHANGED <<protocol, auth, expects, wire, server, serverSent, upbuf,
                     downbuf, toServer, toProgram, program, programSent, outbox>>
      /\ inbox' \in Seq(Units) /\ TypeOK
  BY RestRead DEF ReadExact, netVars, relayVars, programVars, TunnelInv
<1>2. TypeOK'
  BY <1>1, SeqTypes, TypeFrom DEF TypeOK, Answers, Requests, Stages
<1>3. toProgram = <<>> /\ downbuf = <<>> /\ ended = "no"
  BY DEF TunnelInv, TaskInv, DownInv, EndInv
<1>4. AsExpected' => Cat(Cat(toProgram', downbuf'), Rest') = serverSent'
  <2>1. \A s \in Seq(Units) : Cat(Cat(<<>>, <<>>), s) = s
    BY CatEmpty, EmptySeq
  <2>2. AsExpected' <=> AsExpected
    BY <1>1 DEF AsExpected, Without
  <2> QED BY <1>1, <1>3, <2>1, <2>2, SeqTypes
<1>5. DownInv'
  BY <1>1, <1>4, SameWithout DEF DownInv
<1>6. UpInv'
  BY <1>1, UpKept DEF TunnelInv, TaskInv
<1>7. EndInv'
  BY <1>1, <1>3 DEF EndInv
<1>8. StageInv'
  BY <1>1, StageLeft DEF TunnelInv, TaskInv
<1> QED BY <1>2, <1>5, <1>6, <1>7, <1>8 DEF TunnelInv, TaskInv

LEMMA DiscardInv ==
    ASSUME TunnelInv, Discard PROVE TunnelInv'
<1>1. /\ at = "discard" /\ ReadExact(need) /\ TypeOK /\ request' = request
      /\ at' = "relay" /\ need' = 0 /\ ended' = ended /\ need \in Nat
      /\ request = "none" /\ expects = "tunnel" /\ After(need)
  BY DEF Discard, Goto, TunnelInv, TaskInv, StageInv, TypeOK
<1>2. Rest' = serverSent
  BY <1>1, AfterAll
<1> QED BY <1>1, <1>2, RelayStarts

(* http::connect: the reply is taken from what one read() returns.         *)
LEMMA ResponseStepInv ==
    ASSUME TunnelInv, Response PROVE TunnelInv'
<1> DEFINE n == IF Len(inbox) < ResponseBuf THEN Len(inbox) ELSE ResponseBuf
           r == SubSeq(inbox, 1, n)
<1>1. /\ at = "response" /\ ReadExact(n) /\ ResponseInv /\ TypeOK
      /\ request' = request /\ need' = need /\ inbox # <<>> /\ ended = "no"
      /\ UNCHANGED <<protocol, expects, serverSent>>
      /\ \/ contains_200(r) /\ at' = "relay" /\ ended' = ended
         \/ ~contains_200(r) /\ at' = "ended" /\ ended' = "refused"
  BY DEF Response, Goto, End, TunnelInv, TaskInv, StageInv, EndInv, ReadExact,
     netVars
<1>2. /\ Len(inbox) \in Nat \ {0} /\ ResponseBuf \in Nat /\ ResponseBuf >= 3
      /\ inbox \in Seq(Units)
  BY <1>1, SeqTypes, EmptySeq, TunnelAssumption
<1>3. n \in 1 .. Len(inbox) /\ n <= ResponseBuf /\ (Len(inbox) >= 3 => n >= 3)
      /\ (n = Len(inbox) \/ n = ResponseBuf)
  BY <1>2
<1> HIDE DEF n
<1>4. /\ Len(r) = n /\ r[1] = inbox[1] /\ (n >= 2 => r[2] = inbox[2])
  BY <1>2, <1>3, Cut
<1> HIDE DEF r
<1>5. /\ Len(Rest) = Len(inbox) + Len(wire) /\ Len(wire) \in Nat
      /\ \A i \in 1 .. Len(inbox) : Rest[i] = inbox[i]
  BY <1>1, RestProperties
<1>6. /\ request = "none" /\ Whole /\ Len(Rest) >= 3 /\ Rest[1] = HTTP
      /\ \/ /\ expects = "tunnel" /\ Rest[2] = OK200
            /\ Without({"coalesce", "long"}) => After(3) /\ serverSent = <<>>
         \/ /\ expects = "nothing" /\ After(3)
            /\ Rest[2] \in {REFUSED, REFUSED_200}
            /\ Without({"mention"}) => Rest[2] = REFUSED
  <2>1. Len(Rest) # 0
    BY <1>2, <1>5
  <2>2. Rest # <<>>
    BY <2>1, EmptySeq
  <2> QED BY <1>1, <2>2 DEF ResponseInv, TunnelInv, TaskInv, StageInv
<1>7. CASE at' = "relay"
  <2>1. n >= 2 /\ inbox[2] \in {OK200, REFUSED_200} /\ Rest[2] = inbox[2]
    BY <1>1, <1>3, <1>4, <1>5, <1>7 DEF contains_200
  <2>2. Without({"mention"}) => expects = "tunnel"
    BY <1>6, <2>1 DEF OK200, REFUSED, REFUSED_200
  <2>3. AsExpected => Rest' = serverSent
    <3> SUFFICES ASSUME AsExpected PROVE Rest' = serverSent
      OBVIOUS
    <3>1. Without({"coalesce", "long"}) /\ Without({"split"})
      BY DEF AsExpected, Without
    <3>2. After(3) /\ serverSent = <<>>
      BY <1>1, <1>6, <3>1 DEF TunnelInv, TaskInv, StageInv
    <3>3. Len(Rest) = 3
      BY <3>2, EmptySeq DEF After
    <3>4. Len(inbox) >= 3
      BY <1>1, <1>6, <3>1 DEF Whole
    <3>5. n = 3
      <4>1. n \in Int /\ n >= 3 /\ n <= Len(inbox)
        BY <1>2, <1>3, <3>4
      <4>2. Len(inbox) <= 3
        <5>1. Len(inbox) + Len(wire) = 3
          BY <1>5, <3>3
        <5>2. Len(inbox) \in Nat /\ Len(wire) \in Nat
          BY <1>2, <1>5
        <5> QED BY <5>1, <5>2
      <4> QED BY <1>2, <4>1, <4>2
    <3> QED BY <1>1, <3>2, <3>5, AfterAll
  <2>4. n \in Nat /\ need' \in 0 .. 257 /\ ended' = ended
    BY <1>1, <1>3, <1>7 DEF TypeOK
  <2> QED BY <1>1, <1>6, <1>7, <2>2, <2>3, <2>4, RelayStarts
<1>8. CASE at' = "ended"
  <2>1. ~contains_200(r) /\ ended' = "refused"
    BY <1>1, <1>8
  <2>2. Without({"split"}) => expects # "tunnel"
    <3> SUFFICES ASSUME Without({"split"}), expects = "tunnel" PROVE FALSE
      OBVIOUS
    <3>1. Len(inbox) >= 3 /\ Rest[2] = OK200
      BY <1>1, <1>6 DEF Whole
    <3>2. n >= 3 /\ r[1] = HTTP /\ r[2] = OK200
      BY <1>2, <1>3, <1>4, <1>5, <1>6, <3>1
    <3> QED BY <1>3, <1>4, <2>1, <3>2 DEF contains_200
  <2>3. StageInv'
    BY <1>1, <1>6, <1>8, StageLeft DEF TunnelInv, TaskInv
  <2>4. n \in Nat /\ need' \in 0 .. 257
    BY <1>1, <1>3 DEF TypeOK
  <2>5. TypeOK' /\ DownInv' /\ UpInv' /\ EndInv'
    BY <1>1, <1>6, <1>8, <2>1, <2>2, <2>4, ReadKeeps DEF Stages, Requests
  <2> QED BY <2>3, <2>5 DEF TunnelInv, TaskInv
<1> QED BY <1>1, <1>7, <1>8

LEMMA HandshakeFailsInv ==
    ASSUME TunnelInv, HandshakeFails PROVE TunnelInv'
<1>1. /\ UNCHANGED <<protocol, auth, need, request, expects, wire, server,
                     serverSent, inbox, upbuf, downbuf, toServer, toProgram,
                     program, programSent, outbox>>
      /\ at \notin {"relay", "ended"} /\ at' = "ended" /\ ended' = "error"
      /\ Rest' = Rest /\ TypeOK /\ toProgram = <<>>
  BY RestKept DEF HandshakeFails, End, TunnelInv, TaskInv, DownInv, netVars,
     relayVars, programVars
<1>2. TypeOK'
  BY <1>1, SeqTypes, TypeFrom DEF TypeOK, Requests, Answers, Stages
<1>3. StageInv'
  BY <1>1, StageLeft DEF TunnelInv, TaskInv
<1>4. DownInv'
  BY <1>1, SeqTypes, EmptyPrefix DEF DownInv
<1>5. UpInv'
  BY <1>1, UpKept DEF TunnelInv, TaskInv
<1>6. EndInv'
  BY <1>1 DEF EndInv
<1> QED BY <1>2, <1>3, <1>4, <1>5, <1>6 DEF TunnelInv, TaskInv
-----------------------------------------------------------------------------
(* The relay.                                                              *)

LEMMA SameExpected ==
    ASSUME protocol' = protocol PROVE AsExpected' <=> AsExpected
BY DEF AsExpected, Without

LEMMA RelayPrefix ==
    ASSUME TunnelInv, at = "relay", AsExpected
    PROVE  IsPrefix(toProgram, serverSent)
<1>1. /\ Cat(Cat(toProgram, downbuf), Rest) = serverSent
      /\ toProgram \in Seq(Units) /\ downbuf \in Seq(Units)
      /\ Rest \in Seq(Units)
  BY SeqTypes, RestProperties DEF TunnelInv, TaskInv, DownInv
<1>2. serverSent = Cat(toProgram, Cat(downbuf, Rest))
  BY <1>1, CatAssociative
<1>3. Cat(downbuf, Rest) \in Seq(Units)
  BY <1>1, CatProperties
<1> QED BY <1>1, <1>2, <1>3, PrefixOfCat

(* The task ends; what it has delivered stays.                             *)
LEMMA RelayEnded ==
    ASSUME TunnelInv, at = "relay", at' = "ended",
           ended' \in {"error", "server", "program"},
           UNCHANGED <<inbox, outbox, relayVars>>, relayUnchanged,
           ended' = "server" /\ AsExpected => toProgram = serverSent,
           ended' = "program" => upbuf = <<>> /\ outbox = <<>>
    PROVE  TunnelInv'
<1>1. /\ UNCHANGED <<protocol, auth, need, request, expects, wire, server,
                     serverSent, inbox, upbuf, downbuf, toServer, toProgram,
                     program, programSent, outbox>>
      /\ Rest' = Rest /\ TypeOK
  BY RestKept DEF TunnelInv, relayUnchanged, relayVars, netVars, programVars
<1>2. TypeOK'
  BY <1>1, SeqTypes, TypeFrom DEF TypeOK, Requests, Answers, Stages
<1>3. StageInv'
  BY <1>1, StageLeft DEF TunnelInv, TaskInv
<1>4. DownInv'
  BY <1>1, RelayPrefix, SameExpected DEF DownInv
<1>5. UpInv'
  BY <1>1 DEF TunnelInv, TaskInv, UpInv
<1>6. EndInv'
  BY <1>1 DEF EndInv
<1> QED BY <1>2, <1>3, <1>4, <1>5, <1>6 DEF TunnelInv, TaskInv

LEMMA RelayEndsInv ==
    ASSUME TunnelInv, RelayEnds PROVE TunnelInv'
<1>1. at = "relay" /\ UNCHANGED <<inbox, outbox, relayVars>> /\ relayUnchanged
  BY DEF RelayEnds
<1>2. CASE up_done(upbuf) /\ End("program")
  BY <1>1, <1>2, RelayEnded DEF End, up_done
<1>3. CASE down_done(downbuf) /\ End("server")
  <2>1. wire = <<>> /\ inbox = <<>> /\ downbuf = <<>>
    BY <1>3 DEF down_done
  <2>2. ASSUME AsExpected PROVE toProgram = serverSent
    <3>1. toProgram \in Seq(Units) /\ <<>> \in Seq(Units)
      BY SeqTypes, EmptySeq DEF TunnelInv
    <3>2. Rest = <<>>
      BY <2>1, <3>1, RestIs, CatEmpty
    <3>3. Cat(Cat(toProgram, <<>>), <<>>) = toProgram
      BY <3>1, CatEmpty
    <3> QED BY <1>1, <2>1, <2>2, <3>2, <3>3 DEF TunnelInv, TaskInv, DownInv
  <2> QED BY <1>1, <1>3, <2>2, RelayEnded DEF End
<1> QED BY <1>2, <1>3 DEF RelayEnds

LEMMA CopyUpInv ==
    ASSUME TunnelInv, CopyUp PROVE TunnelInv'
<1>1. /\ at = "relay" /\ UNCHANGED <<inbox, downbuf, toProgram>>
      /\ relayUnchanged /\ TypeOK
  BY DEF CopyUp, TunnelInv
<1>2. /\ UNCHANGED <<protocol, auth, need, request, expects, wire, server,
                     serverSent, program, programSent>>
      /\ Rest' = Rest
  BY <1>1, RestKept DEF relayUnchanged, netVars, programVars
<1>3. /\ outbox \in Seq(Units) /\ upbuf \in Seq(Units)
      /\ toServer \in Seq(Units) /\ <<>> \in Seq(Units)
      /\ Cat(Cat(toServer, upbuf), outbox) = programSent
  BY <1>1, SeqTypes, EmptySeq DEF TunnelInv, TaskInv, UpInv
<1>4. CASE at' = "ended"
  <2>1. ended' = "error" /\ UNCHANGED <<upbuf, outbox, toServer>>
    BY <1>1, <1>4 DEF CopyUp, End
  <2> QED BY <1>1, <1>4, <2>1, RelayEnded DEF relayVars
<1>5. CASE at' # "ended"
  <2>1. /\ at' = at /\ ended' = ended /\ upbuf' \in Seq(Units)
        /\ outbox' \in Seq(Units) /\ toServer' \in Seq(Units)
        /\ Cat(Cat(toServer', upbuf'), outbox') = programSent
    <3>1. CASE /\ upbuf = <<>> /\ upbuf' = outbox /\ outbox' = <<>>
               /\ UNCHANGED <<toServer, at, ended>>
      <4>1. /\ Cat(toServer, outbox) \in Seq(Units)
            /\ Cat(toServer, <<>>) = toServer
        BY <1>3, CatProperties, CatEmpty
      <4>2. Cat(Cat(toServer, outbox), <<>>) = Cat(toServer, outbox)
        BY <4>1, CatEmpty
      <4> QED BY <1>3, <3>1, <4>1, <4>2
    <3>2. CASE /\ toServer' = toServer \o upbuf /\ upbuf' = <<>>
               /\ UNCHANGED <<outbox, at, ended>>
      <4>1. toServer' = Cat(toServer, upbuf) /\ toServer' \in Seq(Units)
        BY <1>3, <3>2, CatProperties DEF Cat
      <4>2. Cat(toServer', <<>>) = toServer'
        BY <4>1, CatEmpty
      <4> QED BY <1>3, <3>2, <4>1, <4>2
    <3> QED BY <1>1, <1>5, <3>1, <3>2 DEF CopyUp, End
  <2>2. TypeOK'
    BY <1>1, <1>2, <2>1, SeqTypes, TypeFrom DEF TypeOK, Requests, Answers
  <2>3. StageInv'
    BY <1>1, <1>2, <2>1, StageLeft DEF TunnelInv, TaskInv
  <2>4. DownInv'
    BY <1>1, <1>2, <2>1, SameExpected, SameWithout
    DEF TunnelInv, TaskInv, DownInv
  <2>5. EndInv' /\ ended' = "no"
    BY <1>1, <1>2, <2>1 DEF TunnelInv, TaskInv, EndInv
  <2>6. UpInv'
    BY <1>2, <2>1, <2>5 DEF UpInv
  <2> QED BY <2>2, <2>3, <2>4, <2>5, <2>6 DEF TunnelInv, TaskInv
<1> QED BY <1>4, <1>5

LEMMA CopyDownInv ==
    ASSUME TunnelInv, CopyDown PROVE TunnelInv'
<1>1. /\ at = "relay" /\ UNCHANGED <<outbox, upbuf, toServer>>
      /\ relayUnchanged /\ TypeOK
  BY DEF CopyDown, TunnelInv
<1>2. UNCHANGED <<protocol, auth, need, request, expects, wire, server,
                  serverSent, program, programSent>>
  BY <1>1 DEF relayUnchanged, netVars, programVars
<1>3. /\ inbox \in Seq(Units) /\ downbuf \in Seq(Units) /\ wire \in Seq(Units)
      /\ toProgram \in Seq(Units) /\ <<>> \in Seq(Units) /\ request = "none"
  BY <1>1, SeqTypes, EmptySeq DEF TunnelInv, TaskInv, DownInv
<1>4. CASE at' = "ended"
  <2>1. ended' = "error" /\ UNCHANGED <<downbuf, inbox, toProgram>>
    BY <1>1, <1>4 DEF CopyDown, End
  <2> QED BY <1>1, <1>4, <2>1, RelayEnded DEF relayVars
<1>5. CASE at' # "ended"
  <2>1. /\ at' = at /\ ended' = ended /\ downbuf' \in Seq(Units)
        /\ inbox' \in Seq(Units) /\ toProgram' \in Seq(Units)
        /\ Cat(Cat(toProgram', downbuf'), Rest')
              = Cat(Cat(toProgram, downbuf), Rest)
    <3>1. CASE /\ downbuf = <<>> /\ downbuf' = inbox /\ inbox' = <<>>
               /\ UNCHANGED <<toProgram, at, ended>>
      <4>1. Cat(Cat(toProgram, inbox), wire) = Cat(toProgram, Cat(inbox, wire))
        BY <1>3, CatAssociative
      <4>2. Cat(toProgram, <<>>) = toProgram /\ Cat(<<>>, wire) = wire
        BY <1>3, CatEmpty
      <4>3. Rest = Cat(inbox, wire) /\ Rest' = wire
        BY <1>2, <3>1, <4>2, RestIs
      <4> QED BY <1>3, <3>1, <4>1, <4>2, <4>3
    <3>2. CASE /\ toProgram' = toProgram \o downbuf /\ downbuf' = <<>>
               /\ UNCHANGED <<inbox, at, ended>>
      <4>1. toProgram' = Cat(toProgram, downbuf) /\ toProgram' \in Seq(Units)
        BY <1>3, <3>2, CatProperties DEF Cat
      <4>2. Cat(toProgram', <<>>) = toProgram' /\ Rest' = Rest
        BY <1>2, <3>2, <4>1, CatEmpty, RestKept
      <4> QED BY <1>3, <3>2, <4>1, <4>2
    <3> QED BY <1>1, <1>5, <3>1, <3>2 DEF CopyDown, End
  <2>2. TypeOK'
    BY <1>1, <1>2, <2>1, SeqTypes, TypeFrom DEF TypeOK, Requests, Answers
  <2>3. StageInv'
    BY <1>1, <1>2, <1>3, <2>1, StageLeft DEF TunnelInv, TaskInv
  <2>4. DownInv'
    BY <1>1, <1>2, <2>1, SameExpected, SameWithout
    DEF TunnelInv, TaskInv, DownInv
  <2>5. EndInv'
    BY <1>1, <1>2, <2>1 DEF TunnelInv, TaskInv, EndInv
  <2>6. UpInv'
    BY <1>1, <1>2, <2>1, UpKept DEF TunnelInv, TaskInv
  <2> QED BY <2>2, <2>3, <2>4, <2>5, <2>6 DEF TunnelInv, TaskInv
<1> QED BY <1>4, <1>5
-----------------------------------------------------------------------------
(* The other ends.                                                         *)

LEMMA StageKept ==
    ASSUME StageInv, UNCHANGED <<protocol, at, need, request, expects,
                                 serverSent>>,
           Rest' = Rest, at = "response" /\ Whole => Whole'
    PROVE  StageInv'
<1>1. /\ MethodInv => MethodInv'
      /\ AuthInv => AuthInv'
  BY DEF MethodInv, AuthInv
<1>2. HeaderInv => HeaderInv'
  BY DEF HeaderInv, After, reply_ok
<1>3. at = "response" /\ ResponseInv => ResponseInv'
  BY SameWithout DEF ResponseInv, After
<1>4. \A k : After(k)' <=> After(k)
  BY DEF After
<1> QED BY <1>1, <1>2, <1>3, <1>4 DEF StageInv

(* Nothing changes but the two ends' state and where their bytes are.      *)
LEMMA OthersKept ==
    ASSUME TunnelInv, othersUnchanged,
           UNCHANGED <<request, expects, serverSent, outbox, programSent>>,
           server' \in {"open", "shut", "closed"},
           program' \in {"open", "shut", "closed"},
           inbox' \in Seq(Units), wire' \in Seq(Units), Rest' = Rest,
           at = "response" /\ Whole => Whole'
    PROVE  TunnelInv'
<1>1. /\ UNCHANGED <<protocol, auth, at, need, ended, upbuf, downbuf, toServer,
                     toProgram>>
      /\ TypeOK
  BY DEF othersUnchanged, relayVars, TunnelInv
<1>2. TypeOK'
  BY <1>1, SeqTypes, TypeFrom DEF TypeOK, Requests, Answers
<1>3. StageInv'
  BY <1>1, StageKept DEF TunnelInv, TaskInv
<1>4. DownInv'
  BY <1>1, SameExpected, SameWithout DEF TunnelInv, TaskInv, DownInv
<1>5. UpInv'
  BY <1>1, UpKept DEF TunnelInv, TaskInv
<1>6. EndInv'
  BY <1>1, SameWithout DEF TunnelInv, TaskInv, EndInv
<1> QED BY <1>2, <1>3, <1>4, <1>5, <1>6 DEF TunnelInv, TaskInv

LEMMA ClosesInv ==
    ASSUME TunnelInv, ServerCloses \/ ProgramCloses PROVE TunnelInv'
<1>1. /\ othersUnchanged /\ TypeOK
      /\ UNCHANGED <<request, expects, serverSent, outbox, programSent, inbox,
                     wire>>
      /\ server' \in {"open", "shut", "closed"}
      /\ program' \in {"open", "shut", "closed"}
  BY DEF ServerCloses, ProgramCloses, programVars, netVars, TunnelInv, TypeOK
<1>2. Rest' = Rest /\ (Whole => Whole')
  BY <1>1, RestKept DEF Whole, Without, othersUnchanged
<1> QED BY <1>1, <1>2, SeqTypes, OthersKept

LEMMA ArriveInv ==
    ASSUME TunnelInv, Arrive PROVE TunnelInv'
<1>1. /\ othersUnchanged /\ TypeOK
      /\ UNCHANGED <<request, expects, serverSent, outbox, programSent,
                     server, program>>
      /\ server \in {"open", "shut", "closed"}
      /\ program \in {"open", "shut", "closed"}
  BY DEF Arrive, programVars, TunnelInv, TypeOK
<1>2. Rest' = Rest /\ inbox' \in Seq(Units) /\ wire' \in Seq(Units)
  BY <1>1, RestArrives
<1>3. ASSUME at = "response", Whole PROVE Whole'
  <2> SUFFICES ASSUME Without({"split"})' PROVE Len(inbox') >= 3
    BY DEF Whole
  <2>1. protocol = "http" /\ protocol' = protocol
    BY <1>1, <1>3 DEF TunnelInv, TaskInv, StageInv, ResponseInv, othersUnchanged
  <2>2. "split" \notin HttpMay
    BY <2>1 DEF Without
  <2>3. wire' = SubSeq(wire, Len(wire) + 1, Len(wire))
    BY <2>1, <2>2 DEF Arrive
  <2>4. Len(wire') = 0
    BY <1>1, <2>3, SeqTypes, RestProperties, Cut
  <2>5. Len(inbox') = Len(Rest)
    <3>1. Len(Rest') = Len(inbox') + Len(wire')
      BY <1>2, RestIs, CatProperties
    <3>2. Len(inbox') \in Nat
      BY <1>2, LenProperties
    <3> QED BY <1>2, <2>4, <3>1, <3>2
  <2>6. Len(Rest) >= 3
    <3>1. Len(wire) \in Nat \ {0} /\ Len(Rest) = Len(inbox) + Len(wire)
          /\ Len(inbox) \in Nat
      BY <1>1, SeqTypes, EmptySeq, RestProperties DEF Arrive
    <3>2. Len(Rest) # 0
      BY <3>1
    <3>3. Rest # <<>>
      BY <3>2, EmptySeq
    <3> QED BY <1>3, <3>3 DEF TunnelInv, TaskInv, StageInv, ResponseInv
  <2> QED BY <2>5, <2>6
<1> QED BY <1>1, <1>2, <1>3, OthersKept

LEMMA ProgramSendsInv ==
    ASSUME TunnelInv, ProgramSends PROVE TunnelInv'
<1> DEFINE e == Payload(Len(programSent) + 1)
<1>1. /\ UNCHANGED <<protocol, auth, at, need, ended, upbuf, downbuf, toServer,
                     toProgram, program, expects, wire, server, serverSent,
                     request, inbox>>
      /\ TypeOK /\ at # "ended" /\ Rest' = Rest
  BY RestKept DEF ProgramSends, othersUnchanged, relayVars, netVars, TunnelInv
<1>2. /\ outbox \in Seq(Units) /\ programSent \in Seq(Units)
      /\ toServer \in Seq(Units) /\ upbuf \in Seq(Units)
      /\ Len(programSent) \in Nat
  BY <1>1, SeqTypes, LenProperties
<1>3. e \in Units
  BY <1>2, TunnelAssumption DEF ProgramSends, Units
<1>4. outbox' = Append(outbox, e) /\ programSent' = Append(programSent, e)
  BY DEF ProgramSends
<1> HIDE DEF e
<1>5. outbox' \in Seq(Units) /\ programSent' \in Seq(Units)
  BY <1>2, <1>3, <1>4, AppendProperties
<1>6. TypeOK'
  BY <1>1, <1>5, SeqTypes, TypeFrom DEF TypeOK, Requests, Answers
<1>7. StageInv'
  <2>1. Whole => Whole'
    BY <1>1 DEF Whole, Without
  <2> QED BY <1>1, <2>1, StageKept DEF TunnelInv, TaskInv
<1>8. DownInv'
  BY <1>1, SameExpected, SameWithout DEF TunnelInv, TaskInv, DownInv
<1>9. EndInv' /\ ended' = "no"
  BY <1>1, SameWithout DEF TunnelInv, TaskInv, EndInv
<1>10. UpInv'
  <2> DEFINE x == Cat(toServer, upbuf)
  <2>1. x \in Seq(Units) /\ Cat(x, outbox) = programSent
    BY <1>2, CatProperties DEF TunnelInv, TaskInv, UpInv
  <2> HIDE DEF x
  <2> DEFINE y == <<e>>
  <2>2. /\ y \in Seq(Units) /\ outbox' = Cat(outbox, y)
        /\ programSent' = Cat(programSent, y)
    BY <1>2, <1>3, <1>4, AppendIsCat
  <2> HIDE DEF y
  <2>3. Cat(x, outbox') = programSent' /\ x = Cat(toServer', upbuf')
    BY <1>1, <1>2, <2>1, <2>2, CatAssociative DEF x
  <2> QED BY <1>9, <2>3 DEF UpInv
<1> QED BY <1>6, <1>7, <1>8, <1>9, <1>10 DEF TunnelInv, TaskInv

(* The destination speaks.                                                 *)
LEMMA ServerSendsInv ==
    ASSUME TunnelInv, ServerSends PROVE TunnelInv'
<1> DEFINE e == Payload(Len(serverSent) + 1)
<1>1. /\ UNCHANGED <<protocol, auth, at, need, ended, upbuf, downbuf, toServer,
                     toProgram, program, programSent, expects, server,
                     request, inbox, outbox>>
      /\ TypeOK /\ at # "ended" /\ expects = "tunnel"
      /\ protocol = "http" /\ "coalesce" \notin HttpMay => at = "relay"
  BY DEF ServerSends, othersUnchanged, relayVars, programVars, TunnelInv
<1>2. serverSent \in Seq(Units) /\ Len(serverSent) \in Nat /\ Rest \in Seq(Units)
      /\ Len(Rest) \in Nat
  BY <1>1, SeqTypes, LenProperties, RestProperties
<1>3. e \in Units
  BY <1>2, TunnelAssumption DEF ServerSends, Units
<1>4. Send(<<e>>) /\ serverSent' = Append(serverSent, e)
  BY DEF ServerSends
<1> HIDE DEF e
<1>5. serverSent' \in Seq(Units)
  BY <1>2, <1>3, <1>4, AppendProperties
<1>6. <<e>> \in Seq(Units) /\ Len(<<e>>) = 1
  BY <1>3
<1>7. /\ wire' \in Seq(Units) /\ Rest' = Cat(Rest, <<e>>)
      /\ Len(Rest') = Len(Rest) + 1
      /\ \A i \in 1 .. Len(Rest) : Rest'[i] = Rest[i]
  <2>1. /\ wire' \in Seq(Units) /\ Rest' = Cat(Rest, <<e>>)
        /\ Len(Rest') = Len(Rest) + Len(<<e>>)
        /\ \A i \in 1 .. Len(Rest) + Len(<<e>>) :
              Rest'[i] = IF i <= Len(Rest) THEN Rest[i]
                         ELSE <<e>>[i - Len(Rest)]
    BY <1>1, <1>4, <1>6, RestSent
  <2> QED BY <1>2, <1>6, <2>1
<1>8. ASSUME NEW k \in Nat, After(k) PROVE After(k)'
  BY <1>1, <1>3, <1>4, <1>8, AfterSends
<1>9. TypeOK'
  BY <1>1, <1>5, <1>7, SeqTypes, TypeFrom DEF TypeOK, Requests, Answers
<1>10. request = "none"
  <2>1. at # "dial" /\ at # "method" /\ at # "auth"
    BY <1>1 DEF TunnelInv, TaskInv, StageInv, MethodInv, AuthInv
  <2> QED BY <1>1, <2>1 DEF TunnelInv, TaskInv, StageInv, DownInv, HeaderInv,
                            ResponseInv, TypeOK, Stages
<1>11. StageInv'
  <2>1. at # "dial" /\ at # "method" /\ at # "auth"
    BY <1>1 DEF TunnelInv, TaskInv, StageInv, MethodInv, AuthInv
  <2>2. CASE at = "header"
    <3>1. /\ protocol = "socks5" /\ reply_ok(Rest)
          /\ \/ Rest[4] = ATYP_IPV4 /\ After(10)
             \/ Rest[4] = ATYP_IPV6 /\ After(22)
             \/ Rest[4] = ATYP_NAME /\ Rest[5] \in NameLengths /\ After(7 + Rest[5])
      BY <1>1, <1>10, <2>2 DEF TunnelInv, TaskInv, StageInv, HeaderInv
    <3>2. Len(Rest) >= 7
      <4>1. \/ Len(Rest) = 10 + Len(serverSent)
            \/ Len(Rest) = 22 + Len(serverSent)
            \/ \E k \in 0 .. 255 : Len(Rest) = (7 + k) + Len(serverSent)
        BY <3>1, NameBytes DEF After
      <4>2. PICK k \in Nat : k >= 7 /\ Len(Rest) = k + Len(serverSent)
        <5>1. CASE \E i \in 0 .. 255 : Len(Rest) = (7 + i) + Len(serverSent)
          <6>1. PICK i \in 0 .. 255 : Len(Rest) = (7 + i) + Len(serverSent)
            BY <5>1
          <6>2. 7 + i \in Nat /\ 7 + i >= 7
            OBVIOUS
          <6> QED BY <6>1, <6>2
        <5> QED BY <4>1, <5>1
      <4> QED BY <1>2, <4>2
    <3>3. /\ Rest'[1] = Rest[1] /\ Rest'[2] = Rest[2] /\ Rest'[4] = Rest[4]
          /\ Rest'[5] = Rest[5]
      <4>1. /\ 1 \in 1 .. Len(Rest) /\ 2 \in 1 .. Len(Rest)
            /\ 4 \in 1 .. Len(Rest) /\ 5 \in 1 .. Len(Rest)
        BY <1>2, <3>2
      <4> QED BY <1>7, <4>1
    <3>4. \/ Rest'[4] = ATYP_IPV4 /\ After(10)'
          \/ Rest'[4] = ATYP_IPV6 /\ After(22)'
          \/ Rest'[4] = ATYP_NAME /\ Rest'[5] \in NameLengths /\ After(7 + Rest[5])'
      <4>1. CASE Rest[4] = ATYP_IPV4 /\ After(10)
        BY <1>8, <3>3, <4>1
      <4>2. CASE Rest[4] = ATYP_IPV6 /\ After(22)
        BY <1>8, <3>3, <4>2
      <4>3. CASE Rest[4] = ATYP_NAME /\ Rest[5] \in NameLengths /\ After(7 + Rest[5])
        <5>1. PICK len \in 0 .. 255 : len = Rest[5]
          BY <4>3, NameBytes
        <5>2. After(7 + len)'
          BY <1>8, <4>3, <5>1
        <5> QED BY <3>3, <4>3, <5>1, <5>2
      <4> QED BY <3>1, <4>1, <4>2, <4>3
    <3>5. HeaderInv'
      BY <1>1, <1>10, <3>1, <3>3, <3>4 DEF HeaderInv, reply_ok
    <3> QED BY <1>1, <1>10, <2>2, <3>5 DEF StageInv
  <2>3. CASE at = "length"
    <3>1. PICK len \in 0 .. 255 :
             len = Rest[1] /\ len \in NameLengths /\ After(3 + len)
      BY <2>3, NameBytes DEF TunnelInv, TaskInv, StageInv
    <3>2. After(3 + len)'
      BY <1>8, <3>1
    <3>3. Rest'[1] = Rest[1]
      <4>1. len \in 0 .. 255 /\ Len(Rest) = (3 + len) + Len(serverSent)
        BY <3>1 DEF After
      <4>2. Len(Rest) >= 3
        BY <1>2, <4>1
      <4> QED BY <1>2, <1>7, <4>2
    <3> QED BY <1>1, <1>10, <2>3, <3>1, <3>2, <3>3
            DEF StageInv, TunnelInv, TaskInv
  <2>4. CASE at = "discard"
    <3>1. need \in Nat /\ After(need) /\ need' = need /\ protocol = "socks5"
      BY <1>1, <2>4 DEF TunnelInv, TaskInv, StageInv, TypeOK
    <3>2. PICK k \in Nat : k = need
      BY <3>1
    <3>3. After(k)'
      BY <1>8, <3>1, <3>2
    <3>4. After(need)'
      BY <3>1, <3>2, <3>3
    <3> QED BY <1>1, <1>10, <2>4, <3>1, <3>4 DEF StageInv
  <2>5. CASE at = "response"
    <3>1. ResponseInv
      BY <2>5 DEF TunnelInv, TaskInv, StageInv
    <3>2. /\ protocol = "http" /\ Whole /\ Len(Rest) >= 3 /\ Rest[1] = HTTP
          /\ Rest[2] = OK200
      BY <1>1, <1>10, <3>1 DEF ResponseInv
    <3>3. Rest'[1] = HTTP /\ Rest'[2] = OK200 /\ Len(Rest') >= 3
      BY <1>2, <1>7, <3>2
    <3>4. ~Without({"coalesce", "long"})' /\ Whole'
      BY <1>1, <2>5, <3>2 DEF Without, Whole
    <3>5. ResponseInv'
      BY <1>1, <1>10, <3>2, <3>3, <3>4 DEF ResponseInv
    <3> QED BY <1>1, <1>10, <2>5, <3>5 DEF StageInv
  <2>6. CASE at = "relay"
    BY <1>1, <1>10, <2>6 DEF StageInv
  <2> QED BY <1>1, <2>1, <2>2, <2>3, <2>4, <2>5, <2>6 DEF TypeOK, Stages
<1>12. DownInv'
  <2>1. ASSUME at = "relay", AsExpected
        PROVE  Cat(Cat(toProgram, downbuf), Rest') = serverSent'
    <3> DEFINE x == Cat(toProgram, downbuf)  y == <<e>>
    <3>1. x \in Seq(Units) /\ Cat(x, Rest) = serverSent
      BY <1>1, <2>1, SeqTypes, CatProperties DEF TunnelInv, TaskInv, DownInv
    <3>2. /\ y \in Seq(Units) /\ Rest' = Cat(Rest, y)
          /\ serverSent' = Cat(serverSent, y)
      BY <1>2, <1>3, <1>4, <1>7, AppendIsCat
    <3> HIDE DEF x, y
    <3>3. Cat(x, Rest') = serverSent'
      BY <1>2, <3>1, <3>2, CatAssociative
    <3> QED BY <3>3 DEF x
  <2> QED BY <1>1, <1>10, <2>1, SameExpected, SameWithout
          DEF TunnelInv, TaskInv, DownInv
<1>13. UpInv'
  BY <1>1, UpKept DEF TunnelInv, TaskInv
<1>14. EndInv'
  BY <1>1, SameWithout DEF TunnelInv, TaskInv, EndInv
<1> QED BY <1>9, <1>11, <1>12, <1>13, <1>14 DEF TunnelInv, TaskInv

(* Upstream answers a request: nothing else was on the way.                *)
LEMMA Answered ==
    ASSUME TunnelInv, othersUnchanged, NEW r \in Seq(Units), Send(r),
           request # "none", request' = "none", expects # "tunnel",
           expects' \in Answers,
           UNCHANGED <<server, serverSent, inbox, outbox, programVars>>
    PROVE  /\ TypeOK' /\ DownInv' /\ UpInv' /\ EndInv'
           /\ Rest' = r /\ serverSent = <<>> /\ inbox = <<>>
           /\ at # "relay" /\ at # "dial"
           /\ UNCHANGED <<protocol, at, need, inbox, serverSent>>
<1>1. /\ UNCHANGED <<protocol, auth, at, need, ended, upbuf, downbuf, toServer,
                     toProgram, program, programSent, server, serverSent,
                     inbox, outbox>>
      /\ TypeOK /\ Rest = <<>> /\ serverSent = <<>>
      /\ at # "relay" /\ at # "dial" /\ ended # "refused"
  BY DEF othersUnchanged, relayVars, programVars, TunnelInv, TaskInv, StageInv,
     DownInv, EndInv
<1>2. wire' \in Seq(Units) /\ Rest' = Cat(Rest, r)
  BY <1>1, RestSent
<1>3. Rest' = r
  BY <1>1, <1>2, CatEmpty
<1>4. inbox = <<>>
  <2>1. PICK m \in Nat, n \in Nat :
           m = Len(inbox) /\ n = Len(wire) /\ Len(Rest) = m + n
    BY <1>1, RestProperties
  <2>2. Len(Rest) = 0
    BY <1>1, EmptySeq
  <2>3. m + n = 0
    BY <2>1, <2>2
  <2>4. m = 0
    BY <2>3
  <2>5. Len(inbox) = 0
    BY <2>1, <2>4
  <2> QED BY <1>1, <2>5, SeqTypes, EmptySeq
<1>5. TypeOK'
  BY <1>1, <1>2, SeqTypes, TypeFrom DEF TypeOK, Requests
<1>6. DownInv'
  BY <1>1, SameExpected DEF TunnelInv, TaskInv, DownInv
<1>7. UpInv'
  BY <1>1, UpKept DEF TunnelInv, TaskInv
<1>8. EndInv'
  BY <1>1 DEF TunnelInv, TaskInv, EndInv
<1> QED BY <1>1, <1>3, <1>4, <1>5, <1>6, <1>7, <1>8

LEMMA AnswerGreetingInv ==
    ASSUME TunnelInv, AnswerGreeting PROVE TunnelInv'
<1>1. /\ request = "greeting" /\ request' = "none" /\ expects = "greeting"
      /\ othersUnchanged
      /\ UNCHANGED <<server, serverSent, inbox, outbox, programVars>>
  BY DEF AnswerGreeting
<1>2. PICK r \in GreetingReplies :
         /\ Send(r)
         /\ expects' = CASE r = <<SOCKS_VERSION, METHOD_NO_AUTH>> -> "connect"
                         [] r = <<SOCKS_VERSION, METHOD_USER_PASS>> -> "auth"
                         [] OTHER -> "nothing"
  BY DEF AnswerGreeting
<1>3. PICK v \in 0 .. 255, m \in 0 .. 255 : r = <<v, m>>
  <2>1. CASE r = <<4, METHOD_NO_AUTH>>
    <3>1. 4 \in 0 .. 255 /\ METHOD_NO_AUTH \in 0 .. 255
      BY DEF METHOD_NO_AUTH
    <3> QED BY <2>1, <3>1
  <2>2. CASE \E m \in {METHOD_NO_AUTH, METHOD_USER_PASS, 1, 255} :
                r = <<SOCKS_VERSION, m>>
    <3>1. PICK m \in {METHOD_NO_AUTH, METHOD_USER_PASS, 1, 255} :
             r = <<SOCKS_VERSION, m>>
      BY <2>2
    <3>2. SOCKS_VERSION \in 0 .. 255 /\ m \in 0 .. 255
      BY DEF SOCKS_VERSION, METHOD_NO_AUTH, METHOD_USER_PASS
    <3> QED BY <3>1, <3>2
  <2> QED BY <1>2, <2>1, <2>2 DEF GreetingReplies
<1>4. /\ r \in Seq(Units) /\ Len(r) = 2 /\ r[1] = v /\ r[2] = m
      /\ r = <<SOCKS_VERSION, METHOD_NO_AUTH>> <=>
            v = SOCKS_VERSION /\ m = METHOD_NO_AUTH
      /\ r = <<SOCKS_VERSION, METHOD_USER_PASS>> <=>
            v = SOCKS_VERSION /\ m = METHOD_USER_PASS
  <2>1. v \in Units /\ m \in Units
    BY DEF Units
  <2> QED BY <1>3, <2>1
<1>5. /\ expects' \in {"connect", "auth", "nothing"}
      /\ expects' = "connect" <=> r[1] = SOCKS_VERSION /\ r[2] = METHOD_NO_AUTH
      /\ expects' = "auth" <=> r[1] = SOCKS_VERSION /\ r[2] = METHOD_USER_PASS
  BY <1>2, <1>4 DEF METHOD_NO_AUTH, METHOD_USER_PASS
<1>6. /\ TypeOK' /\ DownInv' /\ UpInv' /\ EndInv' /\ Rest' = r
      /\ serverSent = <<>> /\ at # "relay" /\ at # "dial"
      /\ UNCHANGED <<protocol, at, need, inbox, serverSent>>
  BY <1>1, <1>2, <1>4, <1>5, Answered DEF Answers
<1>7. at \notin {"auth", "header", "length", "discard", "response"}
  BY <1>1 DEF TunnelInv, TaskInv, StageInv, AuthInv, HeaderInv, ResponseInv
<1>8. at = "method" => MethodInv'
  BY <1>1, <1>4, <1>5, <1>6 DEF TunnelInv, TaskInv, StageInv, MethodInv
<1>9. StageInv'
  BY <1>1, <1>6, <1>7, <1>8 DEF StageInv
<1> QED BY <1>6, <1>9 DEF TunnelInv, TaskInv

LEMMA AnswerAuthInv ==
    ASSUME TunnelInv, AnswerAuth PROVE TunnelInv'
<1>1. /\ request = "auth" /\ request' = "none" /\ expects = "auth"
      /\ othersUnchanged
      /\ UNCHANGED <<server, serverSent, inbox, outbox, programVars>>
  BY DEF AnswerAuth
<1>2. PICK m \in {0, 1} :
         /\ Send(<<1, m>>)
         /\ expects' = IF m = 0 THEN "connect" ELSE "nothing"
  BY DEF AnswerAuth
<1> DEFINE r == <<1, m>>
<1>3. r \in Seq(Units) /\ Len(r) = 2 /\ r[1] = 1 /\ r[2] = m /\ Send(r)
  <2>1. 1 \in Units /\ m \in Units
    BY DEF Units
  <2> QED BY <1>2, <2>1
<1> HIDE DEF r
<1>4. /\ TypeOK' /\ DownInv' /\ UpInv' /\ EndInv' /\ Rest' = r
      /\ serverSent = <<>> /\ at # "relay" /\ at # "dial"
      /\ UNCHANGED <<protocol, at, need, inbox, serverSent>>
  BY <1>1, <1>2, <1>3, Answered DEF Answers
<1>5. at \notin {"method", "header", "length", "discard", "response"}
  BY <1>1 DEF TunnelInv, TaskInv, StageInv, MethodInv, HeaderInv, ResponseInv
<1>6. at = "auth" => AuthInv'
  BY <1>1, <1>2, <1>3, <1>4 DEF TunnelInv, TaskInv, StageInv, AuthInv
<1>7. StageInv'
  BY <1>1, <1>4, <1>5, <1>6 DEF StageInv
<1> QED BY <1>4, <1>7 DEF TunnelInv, TaskInv

(* The replies to a connect request.                                       *)
LEMMA BytesSeq ==
    ASSUME NEW n \in Nat
    PROVE  Bytes(n) \in Seq(Units) /\ Len(Bytes(n)) = n
<1>1. 0 \in Units
  BY DEF Units
<1>2. Bytes(n) \in [1 .. n -> Units]
  BY <1>1 DEF Bytes
<1> QED BY <1>2, SeqDef

Headed(r, rep, atyp, t) ==
    /\ r \in Seq(Units) /\ Len(r) = 4 + Len(t)
    /\ r[1] = SOCKS_VERSION /\ r[2] = rep /\ r[4] = atyp
    /\ Len(t) > 0 => r[5] = t[1]

LEMMA HeadThen ==
    ASSUME NEW rep \in Units, NEW atyp \in Units, NEW t \in Seq(Units)
    PROVE  Headed(Cat(Reply(rep, atyp), t), rep, atyp, t)
<1> DEFINE h == Reply(rep, atyp)  c == Cat(h, t)
<1>1. /\ h \in Seq(Units) /\ Len(h) = 4
      /\ h[1] = SOCKS_VERSION /\ h[2] = rep /\ h[4] = atyp
  <2>1. {SOCKS_VERSION, rep, 0, atyp} \subseteq Units
    BY DEF Units, SOCKS_VERSION
  <2> QED BY <2>1 DEF Reply
<1>2. Len(t) \in Nat
  BY LenProperties
<1> HIDE DEF h
<1>3. /\ c \in Seq(Units) /\ Len(c) = Len(h) + Len(t)
      /\ \A i \in 1 .. Len(h) + Len(t) :
            c[i] = IF i <= Len(h) THEN h[i] ELSE t[i - Len(h)]
  BY <1>1, CatProperties, Zenon
<1> HIDE DEF c
<1>4. /\ c \in Seq(Units) /\ Len(c) = 4 + Len(t)
      /\ \A i \in 1 .. 4 + Len(t) :
            c[i] = IF i <= 4 THEN h[i] ELSE t[i - 4]
  BY <1>1, <1>3
<1>5. c[1] = h[1] /\ c[2] = h[2] /\ c[4] = h[4]
  BY <1>2, <1>4
<1>6. ASSUME Len(t) > 0 PROVE c[5] = t[1]
  <2>1. 5 \in 1 .. 4 + Len(t)
    BY <1>2, <1>6
  <2> QED BY <1>4, <2>1
<1>7. Headed(c, rep, atyp, t)
  BY <1>1, <1>4, <1>5, <1>6 DEF Headed
<1> QED BY <1>7 DEF h, c

LEMMA SocksGranting ==
    ASSUME protocol = "socks5", NEW r \in Granting
    PROVE  /\ r \in Seq(Units) /\ reply_ok(r)
           /\ \/ r[4] = ATYP_IPV4 /\ Len(r) = 10
              \/ r[4] = ATYP_IPV6 /\ Len(r) = 22
              \/ r[4] = ATYP_NAME /\ r[5] \in NameLengths /\ Len(r) = 7 + r[5]
<1>0. PICK z \in Units : z = 0
  BY DEF Units
<1>1. \/ r = Cat(Reply(0, ATYP_IPV4), Bytes(6))
      \/ r = Cat(Reply(0, ATYP_IPV6), Bytes(18))
      \/ \E n \in NameLengths : r = Cat(Cat(Reply(0, ATYP_NAME), <<n>>), Bytes(n + 2))
  BY Zenon DEF Granting, Cat
<1>2. ATYP_IPV4 \in Units /\ ATYP_IPV6 \in Units /\ ATYP_NAME \in Units
  BY DEF Units, ATYP_IPV4, ATYP_IPV6, ATYP_NAME
<1>3. CASE r = Cat(Reply(0, ATYP_IPV4), Bytes(6))
  <2>1. PICK b \in Seq(Units) : b = Bytes(6) /\ Len(b) = 6
    BY BytesSeq
  <2>2. /\ r \in Seq(Units) /\ Len(r) = 4 + Len(b) /\ r[1] = SOCKS_VERSION
        /\ r[2] = z /\ r[4] = ATYP_IPV4
    <3>1. r = Cat(Reply(z, ATYP_IPV4), b)
      BY <1>0, <1>3, <2>1
    <3>2. Headed(r, z, ATYP_IPV4, b)
      BY <1>2, <3>1, HeadThen
    <3> QED BY <3>2 DEF Headed
  <2> QED BY <1>0, <2>1, <2>2 DEF reply_ok
<1>4. CASE r = Cat(Reply(0, ATYP_IPV6), Bytes(18))
  <2>1. PICK b \in Seq(Units) : b = Bytes(18) /\ Len(b) = 18
    BY BytesSeq
  <2>2. /\ r \in Seq(Units) /\ Len(r) = 4 + Len(b) /\ r[1] = SOCKS_VERSION
        /\ r[2] = z /\ r[4] = ATYP_IPV6
    <3>1. r = Cat(Reply(z, ATYP_IPV6), b)
      BY <1>0, <1>4, <2>1
    <3>2. Headed(r, z, ATYP_IPV6, b)
      BY <1>2, <3>1, HeadThen
    <3> QED BY <3>2 DEF Headed
  <2> QED BY <1>0, <2>1, <2>2 DEF reply_ok
<1>5. CASE \E n \in NameLengths :
              r = Cat(Cat(Reply(0, ATYP_NAME), <<n>>), Bytes(n + 2))
  <2>1. PICK n \in 0 .. 255 :
           /\ n \in NameLengths
           /\ r = Cat(Cat(Reply(0, ATYP_NAME), <<n>>), Bytes(n + 2))
    BY <1>5, NameBytes
  <2> DEFINE h == Reply(0, ATYP_NAME)  l == <<n>>  b == Bytes(n + 2)
             t == Cat(l, b)
  <2>2. b \in Seq(Units) /\ Len(b) = n + 2
    BY BytesSeq
  <2>3. h \in Seq(Units) /\ l \in Seq(Units) /\ Len(l) = 1 /\ l[1] = n
    <3>1. {SOCKS_VERSION, 0, ATYP_NAME, n} \subseteq Units
      BY <1>2 DEF Units, SOCKS_VERSION
    <3> QED BY <3>1 DEF Reply
  <2>4. r = Cat(Cat(h, l), b)
    BY <2>1
  <2> HIDE DEF h, l, b
  <2>5. /\ t \in Seq(Units) /\ Len(t) = Len(l) + Len(b)
        /\ \A i \in 1 .. Len(l) + Len(b) :
              t[i] = IF i <= Len(l) THEN l[i] ELSE b[i - Len(l)]
    BY <2>2, <2>3, CatProperties, Zenon
  <2>6. r = Cat(h, t)
    BY <2>2, <2>3, <2>4, CatAssociative
  <2> HIDE DEF t
  <2>7. t \in Seq(Units) /\ Len(t) = n + 3 /\ t[1] = n
    <3>1. 1 \in 1 .. Len(l) + Len(b) /\ 1 <= Len(l)
      BY <2>2, <2>3
    <3> QED BY <2>2, <2>3, <2>5, <3>1
  <2>8. /\ r \in Seq(Units) /\ Len(r) = 4 + Len(t) /\ r[1] = SOCKS_VERSION
        /\ r[2] = z /\ r[4] = ATYP_NAME /\ r[5] = t[1]
    <3>1. r = Cat(Reply(z, ATYP_NAME), t) /\ Len(t) > 0
      BY <1>0, <2>6, <2>7 DEF h
    <3>2. Headed(r, z, ATYP_NAME, t)
      BY <1>2, <2>7, <3>1, HeadThen
    <3> QED BY <3>1, <3>2 DEF Headed
  <2>9. n \in NameLengths /\ n \in 0 .. 255
    BY <2>1
  <2> QED BY <1>0, <2>7, <2>8, <2>9 DEF reply_ok
<1> QED BY <1>1, <1>3, <1>4, <1>5

LEMMA SocksRefusing ==
    ASSUME protocol = "socks5", NEW r \in Refusing
    PROVE  /\ r \in Seq(Units) /\ Len(r) >= 4
           /\ ~(reply_ok(r) /\ atyp_known(r[4]))
<1>1. \/ r = Cat(Reply(5, ATYP_IPV4), Bytes(6))
      \/ r = Reply(0, 2)
      \/ r = <<4, 0, 0, ATYP_IPV4>>
  BY Zenon DEF Refusing, Cat
<1>2. CASE r = Cat(Reply(5, ATYP_IPV4), Bytes(6))
  <2>1. PICK b \in Seq(Units) : b = Bytes(6) /\ Len(b) = 6
    BY BytesSeq
  <2>2. PICK rep \in Units : rep = 5
    BY DEF Units
  <2>3. ATYP_IPV4 \in Units
    BY DEF Units, ATYP_IPV4
  <2>4. r = Cat(Reply(rep, ATYP_IPV4), b)
    BY <1>2, <2>1, <2>2
  <2>5. Headed(r, rep, ATYP_IPV4, b)
    BY <2>3, <2>4, HeadThen
  <2> QED BY <2>1, <2>2, <2>5 DEF Headed, reply_ok
<1>3. CASE r = Reply(0, 2)
  <2>1. SOCKS_VERSION \in Units /\ 0 \in Units /\ 2 \in Units
    BY DEF Units, SOCKS_VERSION
  <2>2. r \in Seq(Units) /\ Len(r) = 4 /\ r[4] = 2
    BY <1>3, <2>1 DEF Reply
  <2> QED BY <2>2 DEF atyp_known, ATYP_IPV4, ATYP_NAME, ATYP_IPV6
<1>4. CASE r = <<4, 0, 0, ATYP_IPV4>>
  <2>1. 4 \in Units /\ 0 \in Units /\ ATYP_IPV4 \in Units
    BY DEF Units, ATYP_IPV4
  <2>2. r \in Seq(Units) /\ Len(r) = 4 /\ r[1] = 4
    BY <1>4, <2>1
  <2> QED BY <2>2 DEF reply_ok, SOCKS_VERSION
<1> QED BY <1>1, <1>2, <1>3, <1>4

LEMMA ThreeParts ==
    ASSUME NEW code \in Units, NEW r, r = <<HTTP, code, HEADER>>
    PROVE  r \in Seq(Units) /\ Len(r) = 3 /\ r[1] = HTTP /\ r[2] = code
<1>1. HTTP \in Units /\ HEADER \in Units
  BY DEF Units, HTTP, HEADER
<1> QED BY <1>1

LEMMA HttpGranting ==
    ASSUME protocol = "http", NEW r \in Granting
    PROVE  /\ r \in Seq(Units) /\ Len(r) >= 3 /\ r[1] = HTTP /\ r[2] = OK200
           /\ "long" \notin HttpMay => Len(r) = 3
<1>1. HTTP \in Units /\ OK200 \in Units /\ HEADER \in Units
  BY DEF Units, HTTP, OK200, HEADER
<1>2. CASE r = <<HTTP, OK200, HEADER>>
  BY <1>1, <1>2, ThreeParts
<1>3. CASE /\ "long" \in HttpMay
           /\ r = <<HTTP, OK200>> \o [i \in 1 .. ResponseBuf |-> HEADER]
  <2> DEFINE h == <<HTTP, OK200>>  t == [i \in 1 .. ResponseBuf |-> HEADER]
  <2>1. h \in Seq(Units) /\ Len(h) = 2 /\ h[1] = HTTP /\ h[2] = OK200
    BY <1>1
  <2>2. ResponseBuf \in Nat /\ ResponseBuf >= 1
    BY TunnelAssumption
  <2>3. t \in [1 .. ResponseBuf -> Units]
    BY <1>1
  <2>4. t \in Seq(Units) /\ Len(t) = ResponseBuf
    BY <2>2, <2>3, SeqDef
  <2>5. r = Cat(h, t)
    BY <1>3 DEF Cat
  <2> HIDE DEF h, t
  <2>6. /\ r \in Seq(Units) /\ Len(r) = Len(h) + Len(t)
        /\ \A i \in 1 .. Len(h) + Len(t) :
              r[i] = IF i <= Len(h) THEN h[i] ELSE t[i - Len(h)]
    BY <2>1, <2>4, <2>5, CatProperties, Zenon
  <2>7. 1 \in 1 .. Len(h) + Len(t) /\ 2 \in 1 .. Len(h) + Len(t)
    BY <2>1, <2>2, <2>4
  <2>8. r[1] = h[1] /\ r[2] = h[2]
    BY <2>1, <2>6, <2>7
  <2> QED BY <1>3, <2>1, <2>2, <2>4, <2>6, <2>8
<1>4. protocol # "socks5"
  OBVIOUS
<1> QED BY <1>2, <1>3, <1>4 DEF Granting

LEMMA HttpRefusing ==
    ASSUME protocol = "http", NEW r \in Refusing
    PROVE  /\ r \in Seq(Units) /\ Len(r) = 3 /\ r[1] = HTTP
           /\ r[2] \in {REFUSED, REFUSED_200}
           /\ "mention" \notin HttpMay => r[2] = REFUSED
<1>1. REFUSED \in Units /\ REFUSED_200 \in Units
  BY DEF Units, HTTP, HEADER, REFUSED, REFUSED_200
<1>2. CASE r = <<HTTP, REFUSED, HEADER>>
  BY <1>1, <1>2, ThreeParts
<1>3. CASE "mention" \in HttpMay /\ r = <<HTTP, REFUSED_200, HEADER>>
  BY <1>1, <1>3, ThreeParts
<1>4. protocol # "socks5"
  OBVIOUS
<1> QED BY <1>2, <1>3, <1>4 DEF Refusing

LEMMA AnswerConnectInv ==
    ASSUME TunnelInv, AnswerConnect PROVE TunnelInv'
<1>1. /\ request = "connect" /\ request' = "none" /\ expects = "connect"
      /\ othersUnchanged
      /\ UNCHANGED <<server, serverSent, inbox, outbox, programVars>>
  BY DEF AnswerConnect
<1>2. PICK r :
         /\ Send(r)
         /\ \/ r \in Granting /\ expects' = "tunnel"
            \/ r \in Refusing /\ expects' = "nothing"
  BY DEF AnswerConnect
<1>3. at \notin {"method", "auth", "length", "discard"}
  BY <1>1 DEF TunnelInv, TaskInv, StageInv, MethodInv, AuthInv
<1>4. protocol \in {"http", "socks5"}
  BY TunnelAssumption DEF TunnelInv, TypeOK
<1>5. r \in Seq(Units)
  BY <1>2, <1>4, SocksGranting, SocksRefusing, HttpGranting, HttpRefusing
<1>6. /\ TypeOK' /\ DownInv' /\ UpInv' /\ EndInv' /\ Rest' = r
      /\ serverSent = <<>> /\ inbox = <<>> /\ at # "relay" /\ at # "dial"
      /\ UNCHANGED <<protocol, at, need, inbox, serverSent>>
  BY <1>1, <1>2, <1>5, Answered DEF Answers
<1>7. ASSUME NEW k \in Nat, Len(r) = k PROVE After(k)'
  BY <1>6, <1>7 DEF After
<1>8. ASSUME at = "header" PROVE HeaderInv'
  <2>1. protocol = "socks5" /\ protocol' = "socks5"
    BY <1>6, <1>8 DEF TunnelInv, TaskInv, StageInv, HeaderInv
  <2>2. CASE r \in Refusing /\ expects' = "nothing"
    <3>1. Len(r) >= 4 /\ ~(reply_ok(r) /\ atyp_known(r[4]))
      BY <2>1, <2>2, SocksRefusing
    <3>2. Len(Rest') >= 4 /\ ~(reply_ok(Rest) /\ atyp_known(Rest[4]))'
      BY <1>6, <3>1 DEF reply_ok, atyp_known
    <3> QED BY <1>1, <2>1, <2>2, <3>2 DEF HeaderInv
  <2>3. CASE r \in Granting /\ expects' = "tunnel"
    <3>1. /\ reply_ok(r)
          /\ \/ r[4] = ATYP_IPV4 /\ Len(r) = 10
             \/ r[4] = ATYP_IPV6 /\ Len(r) = 22
             \/ r[4] = ATYP_NAME /\ r[5] \in NameLengths /\ Len(r) = 7 + r[5]
      BY <2>1, <2>3, SocksGranting
    <3>2. reply_ok(Rest)'
      BY <1>6, <3>1 DEF reply_ok
    <3>3. \/ Rest'[4] = ATYP_IPV4 /\ After(10)'
          \/ Rest'[4] = ATYP_IPV6 /\ After(22)'
          \/ Rest'[4] = ATYP_NAME /\ Rest'[5] \in NameLengths /\ After(7 + Rest[5])'
      <4>1. CASE r[4] = ATYP_IPV4 /\ Len(r) = 10
        BY <1>6, <1>7, <4>1
      <4>2. CASE r[4] = ATYP_IPV6 /\ Len(r) = 22
        BY <1>6, <1>7, <4>2
      <4>3. CASE r[4] = ATYP_NAME /\ r[5] \in NameLengths /\ Len(r) = 7 + r[5]
        <5>1. PICK k \in Nat : k = 7 + r[5]
          BY <4>3
        <5>2. After(k)' /\ k = 7 + Rest'[5]
          BY <1>6, <1>7, <4>3, <5>1
        <5>3. After(7 + Rest[5])'
          BY <5>2
        <5> QED BY <1>6, <4>3, <5>3
      <4> QED BY <3>1, <4>1, <4>2, <4>3
    <3> QED BY <1>1, <2>1, <2>3, <3>2, <3>3 DEF HeaderInv
  <2> QED BY <1>2, <2>2, <2>3
<1>9. ASSUME at = "response" PROVE ResponseInv'
  <2>1. protocol = "http" /\ protocol' = "http"
    BY <1>6, <1>9 DEF TunnelInv, TaskInv, StageInv, ResponseInv
  <2>2. Whole' /\ serverSent' = <<>>
    BY <1>6 DEF Whole
  <2>3. CASE r \in Granting /\ expects' = "tunnel"
    <3>1. /\ Len(r) >= 3 /\ r[1] = HTTP /\ r[2] = OK200
          /\ "long" \notin HttpMay => Len(r) = 3
      BY <2>1, <2>3, HttpGranting
    <3>2. Without({"coalesce", "long"})' => After(3)'
      BY <1>7, <2>1, <3>1 DEF Without
    <3> QED BY <1>1, <1>6, <2>1, <2>2, <2>3, <3>1, <3>2 DEF ResponseInv
  <2>4. CASE r \in Refusing /\ expects' = "nothing"
    <3>1. /\ Len(r) = 3 /\ r[1] = HTTP /\ r[2] \in {REFUSED, REFUSED_200}
          /\ "mention" \notin HttpMay => r[2] = REFUSED
      BY <2>1, <2>4, HttpRefusing
    <3>2. After(3)' /\ (Without({"mention"})' => r[2] = REFUSED)
      BY <1>7, <2>1, <3>1 DEF Without
    <3> QED BY <1>1, <1>6, <2>1, <2>2, <2>4, <3>1, <3>2 DEF ResponseInv
  <2> QED BY <1>2, <2>3, <2>4
<1>10. StageInv'
  BY <1>1, <1>3, <1>6, <1>8, <1>9 DEF StageInv
<1> QED BY <1>6, <1>10 DEF TunnelInv, TaskInv
-----------------------------------------------------------------------------
LEMMA TunnelInit == ASSUME Init PROVE TunnelInv
<1>1. TypeOK
  BY DEF Init, TypeOK, Stages
<1>2. Rest = <<>>
  BY <1>1, SeqTypes, RestIs, CatEmpty DEF Init
<1>3. StageInv
  BY <1>2 DEF Init, StageInv
<1>4. DownInv
  BY DEF Init, DownInv
<1>5. UpInv
  BY <1>1, SeqTypes, CatEmpty DEF Init, UpInv
<1>6. EndInv
  BY DEF Init, EndInv
<1> QED BY <1>1, <1>3, <1>4, <1>5, <1>6 DEF TunnelInv, TaskInv

LEMMA TunnelStutters == ASSUME TunnelInv, UNCHANGED vars PROVE TunnelInv'
<1>1. /\ othersUnchanged /\ TypeOK
      /\ UNCHANGED <<request, expects, serverSent, outbox, programSent, inbox,
                     wire, server, program>>
  BY DEF vars, taskVars, netVars, relayVars, programVars, othersUnchanged,
     TunnelInv
<1>2. Rest' = Rest /\ (Whole => Whole')
  BY <1>1, RestKept DEF Whole, Without, othersUnchanged
<1>3. /\ server' \in {"open", "shut", "closed"}
      /\ program' \in {"open", "shut", "closed"}
  BY <1>1 DEF TypeOK
<1> QED BY <1>1, <1>2, <1>3, SeqTypes, OthersKept

LEMMA TunnelStep == ASSUME TunnelInv, [Next]_vars PROVE TunnelInv'
<1>1. CASE Task
  BY <1>1, DialInv, MethodReplyInv, AuthReplyInv, ConnectReplyInv,
     NameLengthInv, DiscardInv, ResponseStepInv, HandshakeFailsInv, CopyUpInv,
     CopyDownInv, RelayEndsInv DEF Task
<1>2. CASE AnswerGreeting \/ AnswerAuth \/ AnswerConnect
  BY <1>2, AnswerGreetingInv, AnswerAuthInv, AnswerConnectInv
<1>3. CASE ServerSends \/ Arrive \/ ProgramSends
  BY <1>3, ServerSendsInv, ArriveInv, ProgramSendsInv
<1>4. CASE ServerCloses \/ ProgramCloses
  BY <1>4, ClosesInv
<1>5. CASE UNCHANGED vars
  BY <1>5, TunnelStutters
<1> QED BY <1>1, <1>2, <1>3, <1>4, <1>5 DEF Next, Terminated

LEMMA TunnelInvariant == Spec => []TunnelInv
<1>1. Init => TunnelInv
  BY TunnelInit
<1>2. TunnelInv /\ [Next]_vars => TunnelInv'
  BY TunnelStep
<1> QED BY <1>1, <1>2, PTL DEF Spec
-----------------------------------------------------------------------------
(* What upstream and the wire do is what the constants allow.              *)
LEMMA Allowed ==
    ASSUME TypeOK, NEW S, "http" \notin Protocols \/ S \cap HttpMay = {}
    PROVE  Without(S)
BY TunnelAssumption DEF TypeOK, Without

(* The task's stage, buffers and count of bytes to discard stay in their   *)
(* ranges whatever upstream, the program and the wire do, the things that  *)
(* may happen to an HTTP reply included.                                   *)
THEOREM TunnelTypeOK == Spec => []TypeOK
<1>1. TunnelInv => TypeOK
  BY DEF TunnelInv
<1> QED BY <1>1, TunnelInvariant, PTL

(* The relay hands over each side's bytes from the first, in order and     *)
(* with none of the handshake, however the replies are cut: for SOCKS5,    *)
(* and for HTTP replies that come whole, alone and within the buffer.      *)
THEOREM RelayInOrder ==
    ASSUME "http" \notin Protocols
              \/ {"split", "coalesce", "long"} \cap HttpMay = {}
    PROVE  Spec => []InOrder
<1>1. TunnelInv => InOrder
  <2> SUFFICES ASSUME TunnelInv PROVE InOrder
    OBVIOUS
  <2>1. TypeOK /\ AsExpected /\ DownInv /\ UpInv
    BY Allowed DEF TunnelInv, TaskInv, AsExpected
  <2>2. IsPrefix(toProgram, serverSent)
    <3>1. CASE at = "relay"
      BY <2>1, <3>1, RelayPrefix
    <3>2. CASE at = "ended"
      BY <2>1, <3>2 DEF DownInv
    <3>3. CASE at \notin {"relay", "ended"}
      <4>1. toProgram = <<>> /\ serverSent \in Seq(Units)
        BY <2>1, <3>3, SeqTypes DEF DownInv
      <4> QED BY <4>1, EmptyPrefix
    <3> QED BY <3>1, <3>2, <3>3
  <2>3. IsPrefix(toServer, programSent)
    <3>1. /\ toServer \in Seq(Units) /\ upbuf \in Seq(Units)
          /\ outbox \in Seq(Units)
          /\ Cat(Cat(toServer, upbuf), outbox) = programSent
      BY <2>1, SeqTypes DEF UpInv
    <3>2. Cat(upbuf, outbox) \in Seq(Units)
      BY <3>1, CatProperties
    <3>3. programSent = Cat(toServer, Cat(upbuf, outbox))
      BY <3>1, CatAssociative
    <3> QED BY <3>1, <3>2, <3>3, PrefixOfCat
  <2> QED BY <2>2, <2>3 DEF InOrder
<1> QED BY <1>1, TunnelInvariant, PTL

(* An end of file ends the relay only once all that its side sent has been *)
(* handed over: nothing is left in a buffer of the copy that ended, on the *)
(* wire or in the socket.                                                  *)
THEOREM NothingLostAtEof ==
    ASSUME "http" \notin Protocols
              \/ {"split", "coalesce", "long"} \cap HttpMay = {}
    PROVE  Spec => []EofComplete
<1>1. TunnelInv => EofComplete
  <2> SUFFICES ASSUME TunnelInv PROVE EofComplete
    OBVIOUS
  <2>1. TypeOK /\ AsExpected /\ DownInv /\ UpInv /\ EndInv
    BY Allowed DEF TunnelInv, TaskInv, AsExpected
  <2>2. ended = "server" => toProgram = serverSent
    BY <2>1 DEF DownInv, EndInv
  <2>3. ASSUME ended = "program" PROVE toServer = programSent
    <3>1. /\ toServer \in Seq(Units)
          /\ Cat(Cat(toServer, <<>>), <<>>) = programSent
      BY <2>1, <2>3, SeqTypes DEF UpInv
    <3> QED BY <3>1, CatEmpty
  <2> QED BY <2>2, <2>3 DEF EofComplete
<1> QED BY <1>1, TunnelInvariant, PTL

(* The relay starts only in a tunnel that upstream granted after the       *)
(* authentication it chose: for SOCKS5 whatever upstream replies, for HTTP *)
(* as long as no refusal has "200" in its status line.  A reply in pieces, *)
(* with payload behind it or over the buffer does not break this.          *)
THEOREM RelayOnlyIfGranted ==
    ASSUME "http" \notin Protocols \/ "mention" \notin HttpMay
    PROVE  Spec => []OnlyIfGranted
<1>1. TunnelInv => OnlyIfGranted
  <2> SUFFICES ASSUME TunnelInv, at = "relay" PROVE expects = "tunnel"
    BY DEF OnlyIfGranted
  <2>1. Without({"mention"})
    BY Allowed DEF TunnelInv
  <2> QED BY <2>1 DEF TunnelInv, TaskInv, DownInv
<1> QED BY <1>1, TunnelInvariant, PTL

(* A granted tunnel is never taken for a refusal: for SOCKS5 however the   *)
(* bytes of the replies arrive, for HTTP if the reply comes in one piece.  *)
THEOREM GrantsAreSeen ==
    ASSUME "http" \notin Protocols \/ "split" \notin HttpMay
    PROVE  Spec => []GrantedNotRefused
<1>1. TunnelInv => GrantedNotRefused
  <2> SUFFICES ASSUME TunnelInv, ended = "refused" PROVE expects # "tunnel"
    BY DEF GrantedNotRefused
  <2>1. Without({"split"})
    BY Allowed DEF TunnelInv
  <2> QED BY <2>1 DEF TunnelInv, TaskInv, EndInv
<1> QED BY <1>1, TunnelInvariant, PTL
=============================================================================
