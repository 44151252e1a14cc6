-------------------------- MODULE DescriptorProofs --------------------------
(***************************************************************************)
(* What the tracker says of descriptors is true (TrackerMatchesFds), and   *)
(* only streams are sent to the local proxy (OnlyStreamsRedirected).  The  *)
(* tracker forgets a descriptor at the entry of close() and the kernel     *)
(* closes it later; it learns of one at the entry of connect() and the     *)
(* kernel uses it later.  In between CallOK and StreamOK carry what was    *)
(* true at the entry.                                                      *)
(*                                                                         *)
(* The filter must be in use: in ptrace mode socket_exit marks a           *)
(* descriptor at the exit stop of socket(), which a sibling thread may     *)
(* have closed since the kernel returned it.  And every close must be one  *)
(* that the tracer sees.                                                   *)
(***************************************************************************)
EXTENDS DestinationProofs

LiveGroup(p) == \E t \in Tids : tgid[t] = p /\ Alive(t)

(* A dead group's descriptors are closed; the tracker learns it when the   *)
(* group is reaped.                                                        *)
FdOK(p, f) ==
    LiveGroup(p) =>
        /\ <<p, f>> \in tracker.stream_fds =>
              fdt[p][f] # None /\ is_stream_type(kind[fdt[p][f]])
        /\ tracker.fd_inode[<<p, f>>] \in {None, fdt[p][f]}

(* Nobody marks a descriptor again that the kernel is about to close, and  *)
(* the filter lets socket() pass.                                          *)
CallOK(t) ==
    /\ call[t].op # "other"
    /\ pc[t] = "seccomp" => call[t].op # "socket"
    /\ call[t].op = "close" /\ pc[t] = "kernel" =>
          /\ <<tgid[t], call[t].fd>> \notin tracker.stream_fds
          /\ tracker.fd_inode[<<tgid[t], call[t].fd>>] = None

StreamOK(t) ==
    call[t].op = "connect" /\ Pending(t) # NoRestore =>
        is_stream_type(kind[SockOf(t)])

(* A socket at the local proxy passes the code's test for a stream.        *)
StreamTypesRedirected ==
    \A s \in Socks : peer[s] = Local => is_stream_inet_socket(kind[s])

FdsInv ==
    /\ WroteOK
    /\ \A t \in Tids : tracker.pending_socket[t] = None
    /\ \A t \in Tids : CallOK(t) /\ StreamOK(t)
    /\ \A p \in Tids, f \in Fds : FdOK(p, f)
    /\ StreamTypesRedirected

(* What the tracer must get to see.                                        *)
SeesCloses == UseSeccomp /\ "closeUnseen" \notin Allow

(* The parts of the tracker that FdsInv looks at.                          *)
SameFds ==
    /\ tracker'.stream_fds = tracker.stream_fds
    /\ tracker'.fd_inode = tracker.fd_inode
    /\ tracker'.pending_socket = tracker.pending_socket

(* A call takes place at most; the tables and the tracker stay.            *)
LEMMA FdsCall ==
    ASSUME Base, FdsInv, NEW t \in Tids, SameFds,
           UNCHANGED <<tgid, fdt, kind, peer>>,
           \A u \in Tids : u # t => /\ call'[u] = call[u] /\ pc'[u] = pc[u]
                                    /\ Pending(u)' = Pending(u),
           Alive(t)' => Alive(t), WroteOK', CallOK(t)', StreamOK(t)'
    PROVE  FdsInv'
<1>1. ASSUME NEW u \in Tids PROVE CallOK(u)' /\ StreamOK(u)'
  <2>1. CASE u = t
    BY <2>1
  <2>2. CASE u # t
    <3>1. CallOK(u) /\ StreamOK(u)
      BY DEF FdsInv
    <3>2. CallOK(u)'
      BY <2>2, <3>1 DEF CallOK, SameFds
    <3>3. StreamOK(u)'
      BY <2>2, <3>1 DEF StreamOK, SockOf
    <3> QED BY <3>2, <3>3
  <2> QED BY <2>1, <2>2
<1>2. ASSUME NEW p \in Tids, NEW f \in Fds PROVE FdOK(p, f)'
  <2>1. FdOK(p, f)
    BY DEF FdsInv
  <2>2. LiveGroup(p)' => LiveGroup(p)
    BY DEF LiveGroup, Alive
  <2> QED BY <2>1, <2>2 DEF FdOK, SameFds
<1>3. StreamTypesRedirected' /\ \A u \in Tids : tracker'.pending_socket[u] = None
  BY DEF FdsInv, StreamTypesRedirected, SameFds
<1> QED BY <1>1, <1>2, <1>3 DEF FdsInv

LEMMA TrapFds ==
    ASSUME SeesCloses, Base, FdsInv, NEW t \in Tids, NEW c \in Calls,
           Trap(t, c), c.op # "other", UNCHANGED <<wrote, tracerVars>>
    PROVE  FdsInv'
<1>1. /\ UNCHANGED <<tgid, fdt, kind, peer, thread_states, wrote>> /\ SameFds
      /\ call'[t] = c /\ pc[t] = "user" /\ how[t] = "cont"
      /\ pc'[t] = IF how[t] = "syscall" THEN "entry" ELSE AfterEntry(c)
      /\ \A u \in Tids : u # t => call'[u] = call[u] /\ pc'[u] = pc[u]
  BY DEF Trap, Base, TypeInv, TypeOK, KernelTypeOK, tracerVars, SameFds,
         PhaseInv, PhaseOK, SeesCloses
<1>2. pc'[t] = IF Filtered(c) THEN "seccomp" ELSE "kernel"
  BY <1>1 DEF AfterEntry, SeesCloses
<1>3. Pending(t)' = NoRestore
  <2>1. Pending(t) = NoRestore
    BY <1>1, NotPending DEF Base, PhaseInv, PhaseOK, Idle
  <2> QED BY <1>1, <2>1 DEF Pending
<1>4. CallOK(t)'
  BY <1>1, <1>2 DEF CallOK, Filtered
<1>5. StreamOK(t)'
  BY <1>3 DEF StreamOK
<1>6. Alive(t) /\ WroteOK' /\ \A u \in Tids : Pending(u)' = Pending(u)
  BY <1>1 DEF Alive, FdsInv, WroteOK, Pending
<1> QED BY <1>1, <1>4, <1>5, <1>6, FdsCall

LEMMA ExitFds ==
    ASSUME Base, FdsInv, NEW t \in Tids, Exit(t), UNCHANGED tracerVars
    PROVE  FdsInv'
<1> DEFINE p == tgid[t]
           last == \A u \in Siblings(t) : pc[u] = "zombie"
<1>1. /\ UNCHANGED <<tgid, call, kind, peer, tracker, thread_states>>
      /\ p \in Tids /\ p # None /\ pc[t] = "user" /\ pc'[t] = "zombie"
      /\ \A u \in Tids : u # t => pc'[u] = pc[u]
  BY Typed DEF Exit, Base, TypeInv, TaskOK, tracerVars
<1>2. /\ \A x \in Tids : x # p => fdt'[x] = fdt[x] /\ wrote'[x] = wrote[x]
      /\ ~last => fdt'[p] = fdt[p] /\ wrote'[p] = wrote[p]
      /\ last => \A b \in Bufs : wrote'[p][b] = None
  BY <1>1, Typed DEF Exit, Base, NoFds, NoMem
<1>3. \A u \in Tids : last /\ tgid[u] = p => call[u] = NoCall /\ ~Alive(u)'
  BY <1>1 DEF Siblings, Base, TypeInv, TaskOK, Idle, Alive
<1> HIDE DEF last
<1>4. WroteOK'
  BY <1>2, Typed DEF Base, FdsInv, WroteOK
<1>5. ASSUME NEW u \in Tids PROVE CallOK(u)' /\ StreamOK(u)'
  <2>1. CallOK(u) /\ StreamOK(u)
    BY DEF FdsInv
  <2>2. CallOK(u)'
    BY <1>1, <2>1 DEF CallOK
  <2>3. CASE call[u].op = "connect"
    <3>1. tgid[u] \in Tids /\ ~(last /\ tgid[u] = p)
      BY <1>3, <2>3, ConnectTyped, NoCallFd DEF Base
    <3>2. SockOf(u)' = SockOf(u)
      BY <1>1, <1>2, <3>1 DEF SockOf
    <3> QED BY <1>1, <2>1, <2>2, <3>2 DEF StreamOK, Pending
  <2> QED BY <1>1, <2>2, <2>3 DEF StreamOK
<1>6. ASSUME NEW x \in Tids, NEW f \in Fds PROVE FdOK(x, f)'
  <2> SUFFICES ASSUME LiveGroup(x)' PROVE FdOK(x, f)'
    BY DEF FdOK
  <2>1. FdOK(x, f) /\ LiveGroup(x)
    BY <1>1 DEF FdsInv, LiveGroup, Alive
  <2>2. fdt'[x] = fdt[x]
    BY <1>1, <1>2, <1>3 DEF LiveGroup
  <2> QED BY <1>1, <2>1, <2>2 DEF FdOK
<1>7. StreamTypesRedirected' /\ \A u \in Tids : tracker'.pending_socket[u] = None
  BY <1>1 DEF FdsInv, StreamTypesRedirected
<1> QED BY <1>4, <1>5, <1>6, <1>7 DEF FdsInv

LEMMA ProgramFds ==
    ASSUME SeesCloses, Base, FdsInv, NEW t \in Tids, ProgramStep(t)
    PROVE  FdsInv'
<1>0. UNCHANGED tracerVars
  BY DEF ProgramStep
<1>1. ASSUME NEW b \in Bufs, NEW a \in Dests, StoreSockaddr(t, b, a)
      PROVE  FdsInv'
  <2>1. /\ UNCHANGED <<tgid, pc, call, fdt, kind, peer, thread_states>>
        /\ SameFds
    BY <1>0, <1>1 DEF StoreSockaddr, tracerVars, SameFds
  <2>2. WroteOK'
    <3>1. wrote' = [wrote EXCEPT ![tgid[t]][b] = a] /\ a # Local
      BY <1>1 DEF StoreSockaddr, Dests
    <3> QED BY <3>1, Typed DEF Base, FdsInv, WroteOK
  <2>3. CallOK(t)' /\ StreamOK(t)'
    <3>1. CallOK(t) /\ StreamOK(t)
      BY DEF FdsInv
    <3> QED BY <2>1, <3>1 DEF CallOK, StreamOK, SockOf, Pending, SameFds
  <2>4. (Alive(t)' => Alive(t)) /\ \A u \in Tids : Pending(u)' = Pending(u)
    BY <2>1 DEF Alive, Pending
  <2> QED BY <2>1, <2>2, <2>3, <2>4, FdsCall
(* Every system call but the ones that close unseen.                       *)
<1>2. ASSUME NEW k \in Kinds, CallSocket(t, k)
      PROVE  FdsInv'
  <2> DEFINE c == [NoCall EXCEPT !.op = "socket", !.kind = k]
  <2>1. c \in Calls /\ c.op # "other"
    BY DEF NoCall, Calls, Ops
  <2> QED BY <1>0, <1>2, <2>1, TrapFds DEF CallSocket
<1>3. ASSUME NEW fd \in Fds, NEW b \in Bufs, CallConnect(t, fd, b)
      PROVE  FdsInv'
  <2>1. PICK v \in BOOLEAN :
          Trap(t, [[NoCall EXCEPT !.op = "connect", !.fd = fd, !.buf = b,
                        !.want = wrote[tgid[t]][b]] EXCEPT !.valid = v])
    BY <1>3 DEF CallConnect
  <2> DEFINE c == [[NoCall EXCEPT !.op = "connect", !.fd = fd, !.buf = b,
                        !.want = wrote[tgid[t]][b]] EXCEPT !.valid = v]
  <2>2. wrote[tgid[t]][b] \in Addrs \cup {None} /\ UNCHANGED wrote
    <3>1. tgid[t] \in Tids /\ UNCHANGED wrote
      BY <1>3, Typed DEF CallConnect, Base, TypeInv, TaskOK
    <3> QED BY <3>1, Typed DEF Base
  <2>3. c \in Calls /\ c.op # "other"
    BY <2>2 DEF NoCall, Calls, Ops
  <2> HIDE DEF c
  <2> QED BY <1>0, <2>1, <2>2, <2>3, TrapFds DEF c
<1>4. ASSUME NEW fd \in Fds, CallClose(t, fd)
      PROVE  FdsInv'
  <2> DEFINE c == [NoCall EXCEPT !.op = "close", !.fd = fd]
  <2>1. c \in Calls /\ c.op # "other"
    BY DEF NoCall, Calls, Ops
  <2> QED BY <1>0, <1>4, <2>1, TrapFds DEF CallClose
<1>5. ASSUME NEW k \in Clones, CallClone(t, k)
      PROVE  FdsInv'
  <2>1. PICK v \in BOOLEAN :
          Trap(t, [NoCall EXCEPT !.op = k.op, !.thread = k.thread,
                                 !.untraced = k.untraced, !.valid = v])
    BY <1>5 DEF CallClone
  <2> DEFINE c == [NoCall EXCEPT !.op = k.op, !.thread = k.thread,
                                 !.untraced = k.untraced, !.valid = v]
  <2>2. k \in [op : {"clone", "clone3"}, thread : BOOLEAN, untraced : BOOLEAN]
    BY KernelAssumption
  <2>3. c \in Calls /\ c.op # "other"
    BY <2>2 DEF NoCall, Calls, Ops
  <2>4. UNCHANGED wrote
    BY <1>5 DEF CallClone
  <2> HIDE DEF c
  <2> QED BY <1>0, <2>1, <2>3, <2>4, TrapFds DEF c
<1>6. \A fd \in Fds \cup {None} : ~CallOther(t, fd)
  BY DEF CallOther, SeesCloses
<1>7. CASE Exit(t)
  BY <1>0, <1>7, ExitFds
<1> QED BY <1>1, <1>2, <1>3, <1>4, <1>5, <1>6, <1>7 DEF ProgramStep, Program

LEMMA CallFailsFds ==
    ASSUME SeesCloses, Base, FdsInv, NEW t \in Tids, pc[t] = "kernel", NEW c,
           SameFd(c, call[t]), Finish(t, c),
           UNCHANGED <<tgid, fdt, kind, peer, wrote>>,
           UNCHANGED <<tracerVars, proxyVars>>
    PROVE  FdsInv'
<1>1. /\ \/ call'[t] = c /\ pc'[t] = "exit"
         \/ call'[t] = NoCall /\ pc'[t] = "user"
      /\ \A u \in Tids : u # t => call'[u] = call[u] /\ pc'[u] = pc[u]
      /\ UNCHANGED tracker /\ \A u \in Tids : Pending(u)' = Pending(u)
  BY FinishEffect
<1>2. CallOK(t) /\ StreamOK(t) /\ SameFds /\ WroteOK' /\ Alive(t)
  BY <1>1 DEF FdsInv, SameFds, WroteOK, Alive
<1>3. CallOK(t)'
  BY <1>1, <1>2, NoCallFd DEF CallOK, SameFd
<1>4. StreamOK(t)'
  BY <1>1, <1>2, NoCallFd DEF StreamOK, SockOf, SameFd
<1> QED BY <1>1, <1>2, <1>3, <1>4, FdsCall

(* A call ends with a change of the tables or of a socket: what FdsInv     *)
(* asks of the other calls stays.                                          *)
LEMMA FinishFds ==
    ASSUME SeesCloses, Base, FdsInv, NEW t \in Tids, pc[t] = "kernel", NEW c,
           c.op = call[t].op, Finish(t, c), UNCHANGED <<tgid, wrote>>,
           UNCHANGED <<tracerVars, proxyVars>>,
           \A s \in Socks : kind[s] # None => kind'[s] = kind[s],
           \A u \in Tids : call'[u].op = "connect" => SockOf(u)' = SockOf(u),
           \A p \in Tids, f \in Fds : LiveGroup(p) => FdOK(p, f)',
           StreamTypesRedirected'
    PROVE  FdsInv'
<1>1. /\ \/ call'[t] = c /\ pc'[t] = "exit"
         \/ call'[t] = NoCall /\ pc'[t] = "user"
      /\ \A u \in Tids : u # t => call'[u] = call[u] /\ pc'[u] = pc[u]
      /\ UNCHANGED tracker /\ \A u \in Tids : Pending(u)' = Pending(u)
  BY FinishEffect
<1>2. ASSUME NEW u \in Tids PROVE CallOK(u)' /\ StreamOK(u)'
  <2>1. CallOK(u) /\ StreamOK(u)
    BY DEF FdsInv
  <2>2. CallOK(u)'
    BY <1>1, <2>1, NoCallFd DEF CallOK
  <2>3. StreamOK(u)'
    <3> SUFFICES ASSUME call'[u].op = "connect" PROVE StreamOK(u)'
      BY DEF StreamOK
    <3>1. call[u].op = "connect" /\ SockOf(u)' = SockOf(u)
      BY <1>1, NoCallFd
    <3>2. SockOf(u) \in Socks /\ kind[SockOf(u)] # None
      <4>1. /\ SockOf(u) \in Socks /\ tgid[u] \in Tids /\ call[u].fd \in Fds
            /\ SockOf(u) # None
        BY <3>1, ConnectTyped DEF Base, DirectInv, Judged
      <4> QED BY <4>1 DEF Base, DirectInv, Created, SockOf
    <3> QED BY <1>1, <2>1, <3>1, <3>2 DEF StreamOK
  <2> QED BY <2>2, <2>3
<1>3. ASSUME NEW p \in Tids, NEW f \in Fds PROVE FdOK(p, f)'
  <2>1. LiveGroup(p)' => LiveGroup(p)
    BY <1>1 DEF LiveGroup, Alive
  <2> QED BY <2>1 DEF FdOK
<1>4. WroteOK' /\ \A u \in Tids : tracker'.pending_socket[u] = None
  BY <1>1 DEF FdsInv, WroteOK
<1> QED BY <1>2, <1>3, <1>4 DEF FdsInv

LEMMA DoSocketFds ==
    ASSUME SeesCloses, Base, FdsInv, NEW t \in Tids, pc[t] = "kernel",
           call[t].op = "socket", NEW s \in Socks, NEW f \in Fds, NEW c,
           c.op = "socket",
           kind[s] = None, LowestFree(tgid[t], f),
           kind' = [kind EXCEPT ![s] = call[t].kind],
           fdt' = [fdt EXCEPT ![tgid[t]][f] = s], Finish(t, c),
           UNCHANGED <<tgid, peer, wrote, tracerVars, proxyVars>>
    PROVE  FdsInv'
<1>1. PICK p \in Tids : p = tgid[t] /\ p # None
  BY Typed DEF Base, TypeInv, TaskOK
<1>2. /\ fdt[p][f] = None /\ fdt'[p][f] = s /\ UNCHANGED tracker
      /\ \A x \in Tids, g \in Fds : <<x, g>> # <<p, f>> => fdt'[x][g] = fdt[x][g]
      /\ \A x \in Socks : x # s => kind'[x] = kind[x]
      /\ \A x \in Socks : kind[x] # None => kind'[x] = kind[x]
  <2>1. /\ \A x \in Tids : x # p => fdt'[x] = fdt[x]
        /\ \A g \in Fds : g # f => fdt'[p][g] = fdt[p][g]
        /\ fdt'[p][f] = s
    BY <1>1, Typed DEF Base
  <2> QED BY <1>1, <2>1, Typed DEF Base, LowestFree, tracerVars
<1>3. ASSUME NEW u \in Tids, call'[u].op = "connect"
      PROVE  SockOf(u)' = SockOf(u)
  <2>1. call[u].op = "connect" /\ call'[u] = call[u]
    BY <1>3, NoCallFd, FinishEffect
  <2>2. tgid[u] \in Tids /\ call[u].fd \in Fds /\ fdt[tgid[u]][call[u].fd] # None
    BY <2>1, ConnectTyped DEF Base, DirectInv, Judged, SockOf
  <2>3. fdt'[tgid[u]][call[u].fd] = fdt[tgid[u]][call[u].fd]
    BY <1>2, <2>2
  <2> QED BY <2>1, <2>3 DEF SockOf
<1>4. ASSUME NEW x \in Tids, NEW g \in Fds, LiveGroup(x) PROVE FdOK(x, g)'
  <2>0. FdOK(x, g)
    BY DEF FdsInv
  <2>1. CASE x = p /\ g = f
    <3>1. <<x, g>> \notin tracker.stream_fds /\ tracker.fd_inode[<<x, g>>] = None
      BY <1>2, <1>4, <2>0, <2>1 DEF FdOK
    <3> QED BY <1>2, <3>1 DEF FdOK
  <2>2. CASE ~(x = p /\ g = f)
    <3>1. fdt'[x][g] = fdt[x][g]
      BY <1>2, <2>2
    <3>2. fdt[x][g] # None => fdt[x][g] \in Socks /\ kind[fdt[x][g]] # None
      BY Typed DEF Base, DirectInv, Created
    <3> QED BY <1>2, <1>4, <2>0, <3>1, <3>2 DEF FdOK
  <2> QED BY <2>1, <2>2
<1>5. StreamTypesRedirected'
  <2>1. \A x \in Socks : peer[x] = Local => kind[x] # None
    BY Typed DEF Base, DirectInv, Created
  <2> QED BY <1>2, <2>1 DEF FdsInv, StreamTypesRedirected
<1> QED BY <1>2, <1>3, <1>4, <1>5, FinishFds

LEMMA DoConnectFds ==
    ASSUME SeesCloses, Base, FdsInv, NEW t \in Tids, pc[t] = "kernel",
           call[t].op = "connect", NEW a, a = mem[tgid[t]][call[t].buf],
           NEW s, s = SockOf(t), kind[s].domain = FamilyOf(a),
           peer' = [peer EXCEPT ![s] = a], NEW c, SameFd(c, call[t]),
           Finish(t, c),
           UNCHANGED <<tgid, fdt, kind, wrote, tracerVars, proxyVars>>
    PROVE  FdsInv'
<1>1. /\ \A u \in Tids : call'[u].op = "connect" => SameFd(call'[u], call[u])
      /\ UNCHANGED tracker
  BY FinishEffect, NoCallFd DEF SameFd
<1>2. \A u \in Tids : call'[u].op = "connect" => SockOf(u)' = SockOf(u)
  BY <1>1 DEF SockOf, SameFd
<1>3. ASSUME NEW x \in Tids, NEW g \in Fds, LiveGroup(x) PROVE FdOK(x, g)'
  <2>1. FdOK(x, g)
    BY DEF FdsInv
  <2> QED BY <1>1, <1>3, <2>1 DEF FdOK
<1>4. s \in Socks
  BY ConnectTyped DEF Base, DirectInv, Judged
<1>5. ASSUME NEW x \in Socks, peer'[x] = Local
      PROVE  is_stream_inet_socket(kind[x])
  <2>1. CASE x # s
    BY <1>4, <1>5, <2>1, Typed DEF Base, FdsInv, StreamTypesRedirected
  <2>2. CASE x = s
    <3>1. a = Local
      BY <1>4, <1>5, <2>2, Typed DEF Base
    <3>2. Pending(t) # NoRestore
      BY <3>1, LocalIfRedirected DEF FdsInv
    <3>3. is_stream_type(kind[s])
      BY <3>2 DEF FdsInv, StreamOK
    <3>4. kind[s].domain = "inet"
      BY <3>1, KernelAssumption DEF FamilyOf
    <3> QED BY <2>2, <3>3, <3>4 DEF is_stream_inet_socket
  <2> QED BY <2>1, <2>2
<1>6. StreamTypesRedirected'
  BY <1>5 DEF StreamTypesRedirected
<1>7. c.op = call[t].op
  BY DEF SameFd
<1> QED BY <1>2, <1>3, <1>6, <1>7, FinishFds

(* close_enter has forgotten the descriptor, so closing it is right.       *)
LEMMA DoCloseFds ==
    ASSUME SeesCloses, Base, FdsInv, NEW t \in Tids, DoClose(t),
           UNCHANGED <<tracerVars, proxyVars>>
    PROVE  FdsInv'
<1> DEFINE c == [call[t] EXCEPT !.ret = "ok"]
<1>1. /\ call[t].op = "close" /\ pc[t] = "kernel" /\ SameFd(c, call[t])
      /\ Finish(t, c) /\ UNCHANGED <<tgid, kind, peer, wrote, tracker>>
  <2>1. CallOK(t) /\ call[t] \in Calls
    BY Typed DEF FdsInv, Base
  <2>2. call[t].op = "close" /\ pc[t] = "kernel"
    BY <2>1 DEF DoClose, CallOK
  <2>3. SameFd(c, call[t])
    BY <2>1 DEF Calls, SameFd
  <2>4. Finish(t, c) /\ UNCHANGED <<tgid, kind, peer, wrote, tracker>>
    BY DEF DoClose, tracerVars
  <2> QED BY <2>2, <2>3, <2>4
<1>2. PICK p \in Tids, fd \in Fds : p = tgid[t] /\ p # None /\ fd = call[t].fd
  BY <1>1, Typed DEF Base, TypeInv, TaskOK
<1>3. /\ \A f \in Fds : fdt'[p][f] = IF f = fd THEN None ELSE fdt[p][f]
      /\ \A x \in Tids : x # p => fdt'[x] = fdt[x]
  BY <1>2, Typed DEF DoClose, Base
<1> HIDE DEF c
<1>4. <<p, fd>> \notin tracker.stream_fds /\ tracker.fd_inode[<<p, fd>>] = None
  BY <1>1, <1>2 DEF FdsInv, CallOK
<1>5. ASSUME NEW u \in Tids, call'[u].op = "connect"
      PROVE  SockOf(u)' = SockOf(u)
  <2>1. u # t /\ call'[u] = call[u]
    <3>1. call'[t].op # "connect"
      BY <1>1, FinishEffect, NoCallFd DEF SameFd
    <3> QED BY <1>1, <1>5, <3>1, FinishEffect
  <2>2. tgid[u] \in Tids /\ tgid[u] # None /\ call[u].fd \in Fds
    BY <1>5, <2>1, ConnectTyped DEF Base
  <2>3. ~(tgid[u] = p /\ call[u].fd = fd)
    BY <1>1, <1>2, <1>5, <2>1, <2>2 DEF Base, DirectInv, FdExclusive, OnFd
  <2>4. fdt'[tgid[u]][call[u].fd] = fdt[tgid[u]][call[u].fd]
    BY <1>3, <2>2, <2>3
  <2> QED BY <1>1, <2>1, <2>4 DEF SockOf
<1>6. ASSUME NEW x \in Tids, NEW g \in Fds, LiveGroup(x) PROVE FdOK(x, g)'
  <2>0. FdOK(x, g)
    BY DEF FdsInv
  <2>1. CASE x = p /\ g = fd
    BY <1>1, <1>4, <2>1 DEF FdOK
  <2>2. CASE ~(x = p /\ g = fd)
    <3>1. fdt'[x][g] = fdt[x][g]
      BY <1>3, <2>2
    <3> QED BY <1>1, <1>6, <2>0, <3>1 DEF FdOK
  <2> QED BY <2>1, <2>2
<1>7. StreamTypesRedirected'
  BY <1>1 DEF FdsInv, StreamTypesRedirected
<1>8. c.op = call[t].op
  BY <1>1 DEF SameFd
<1> QED BY <1>1, <1>5, <1>6, <1>7, <1>8, FinishFds

LEMMA DoCloneFds ==
    ASSUME Base, FdsInv, NEW t \in Tids, pc[t] = "kernel",
           call[t].op \in {"clone", "clone3"}, NEW c \in Tids, pc[c] = "none",
           NEW q, q = (IF call[t].thread THEN tgid[t] ELSE c),
           tgid' = [tgid EXCEPT ![c] = q],
           fdt' = [fdt EXCEPT ![q] = fdt[tgid[t]]],
           wrote' = [wrote EXCEPT ![q] = wrote[tgid[t]]],
           pc' = [pc EXCEPT ![c] = "newborn", ![t] = "event"],
           call' = [call EXCEPT ![t].child = c, ![t].ret = "ok"],
           UNCHANGED <<kind, peer, tracerVars>>
    PROVE  FdsInv'
<1>1. PICK p \in Tids : /\ p = tgid[t] /\ p # None /\ c # t /\ p # c
                        /\ c # None
  BY FreeTid, Typed DEF Base, TypeInv, TaskOK
<1>2. /\ tgid[c] = None /\ call[c] = NoCall /\ \A u \in Tids : tgid[u] # c
      /\ \A f \in Fds : ~Known(<<c, f>>)
  BY <1>1, FreeTid DEF Base, ReapInv
<1>3. /\ \A u \in Tids : u # c => tgid'[u] = tgid[u]
      /\ tgid'[c] = q /\ q \in {p, c}
      /\ \A x \in Tids : x # c => fdt'[x] = fdt[x] /\ wrote'[x] = wrote[x]
      /\ wrote'[c] \in {wrote[p], wrote[c]}
      /\ \A u \in Tids : u # c /\ u # t => pc'[u] = pc[u]
      /\ pc'[t] = "event"
  BY <1>1, Typed DEF Base
<1>4. /\ \A u \in Tids : SameFd(call'[u], call[u])
      /\ UNCHANGED <<tracker, thread_states>>
  BY Typed DEF Base, Calls, SameFd, tracerVars
<1>5. WroteOK'
  BY <1>1, <1>3 DEF FdsInv, WroteOK
<1>6. ASSUME NEW u \in Tids PROVE CallOK(u)' /\ StreamOK(u)'
  <2>0. CallOK(u) /\ StreamOK(u)
    BY DEF FdsInv
  <2>1. CASE u = c
    BY <1>2, <1>4, <2>1, NoCallFd DEF CallOK, StreamOK, SameFd
  <2>2. CASE u # c
    <3>1. CallOK(u)'
      <4>1. call[u].op = "close" => u # t
        OBVIOUS
      <4> QED BY <1>3, <1>4, <2>0, <2>2, <4>1 DEF CallOK, SameFd
    <3>2. StreamOK(u)'
      <4> SUFFICES ASSUME call[u].op = "connect" PROVE StreamOK(u)'
        BY <1>4 DEF StreamOK, SameFd
      <4>1. tgid[u] \in Tids /\ tgid[u] # c
        BY <1>2, ConnectTyped DEF Base
      <4>2. /\ call'[u].fd = call[u].fd /\ tgid'[u] = tgid[u]
            /\ fdt'[tgid[u]] = fdt[tgid[u]]
        BY <1>3, <1>4, <2>2, <4>1 DEF SameFd
      <4>3. SockOf(u)' = SockOf(u)
        BY <4>2 DEF SockOf
      <4> QED BY <1>4, <2>0, <4>3 DEF StreamOK, Pending
    <3> QED BY <3>1, <3>2
  <2> QED BY <2>1, <2>2
<1>7. ASSUME NEW x \in Tids, NEW g \in Fds PROVE FdOK(x, g)'
  <2>0. FdOK(x, g)
    BY DEF FdsInv
  <2>1. CASE x = c
    <3>1. <<x, g>> \notin tracker.stream_fds /\ tracker.fd_inode[<<x, g>>] = None
      BY <1>2, <2>1 DEF Known
    <3> QED BY <1>4, <3>1 DEF FdOK
  <2>2. CASE x # c
    <3>1. LiveGroup(x)' => LiveGroup(x)
      <4> SUFFICES ASSUME NEW u \in Tids, tgid'[u] = x, Alive(u)'
                   PROVE  LiveGroup(x)
        BY DEF LiveGroup
      <4>1. CASE u = c
        BY <1>1, <1>3, <2>2, <4>1 DEF LiveGroup, Alive
      <4>2. CASE u # c
        BY <1>3, <4>2 DEF LiveGroup, Alive
      <4> QED BY <4>1, <4>2
    <3> QED BY <1>3, <1>4, <2>0, <2>2, <3>1 DEF FdOK
  <2> QED BY <2>1, <2>2
<1>8. StreamTypesRedirected' /\ \A u \in Tids : tracker'.pending_socket[u] = None
  BY <1>4 DEF FdsInv, StreamTypesRedirected
<1> QED BY <1>5, <1>6, <1>7, <1>8 DEF FdsInv

LEMMA KernelFds ==
    ASSUME SeesCloses, Base, FdsInv, NEW t \in Tids, KernelStep(t)
    PROVE  FdsInv'
<1>0. UNCHANGED <<tracerVars, proxyVars>>
  BY DEF KernelStep
<1>1. Execute(t) /\ pc[t] = "kernel" /\ ~call[t].untraced
  BY DEF KernelStep, Execute, DoSocket, DoConnect, DoClose, DoClone,
         Base, PhaseInv, TracedOK
<1> DEFINE failed == [call[t] EXCEPT !.ret = "error"]
<1>2. SameFd(failed, call[t])
  BY Typed DEF Base, Calls, SameFd
<1> HIDE DEF failed
<1>3. CASE /\ Finish(t, failed) /\ UNCHANGED <<tgid, fdt, kind, peer, wrote>>
  BY <1>0, <1>1, <1>2, <1>3, CallFailsFds
<1>4. CASE DoSocket(t)
  <2>1. call[t].op = "socket" /\ UNCHANGED <<tgid, peer, wrote>>
    BY <1>4 DEF DoSocket
  <2>2. ASSUME NEW s \in Socks, NEW f \in Fds,
               kind[s] = None, LowestFree(tgid[t], f),
               kind' = [kind EXCEPT ![s] = call[t].kind],
               fdt' = [fdt EXCEPT ![tgid[t]][f] = s],
               Finish(t, [call[t] EXCEPT !.fd = f, !.ret = "ok"])
        PROVE  FdsInv'
    <3> DEFINE c == [call[t] EXCEPT !.fd = f, !.ret = "ok"]
    <3>1. c.op = "socket" /\ Finish(t, c)
      BY <2>1, <2>2, Typed DEF Base, Calls
    <3> HIDE DEF c
    <3> QED BY <1>0, <1>1, <2>1, <2>2, <3>1, DoSocketFds
  <2>3. CASE Finish(t, [call[t] EXCEPT !.ret = "error"]) /\ UNCHANGED <<kind, fdt>>
    BY <1>3, <2>1, <2>3 DEF failed
  <2> QED BY <1>4, <2>2, <2>3 DEF DoSocket
<1>5. CASE DoConnect(t)
  <2>1. /\ call[t].op = "connect" /\ UNCHANGED <<tgid, fdt, kind, wrote>>
    BY <1>5 DEF DoConnect
  <2>2. CASE Finish(t, [call[t] EXCEPT !.ret = "error"]) /\ UNCHANGED peer
    BY <1>3, <2>1, <2>2 DEF failed
  <2>3. CASE /\ kind[SockOf(t)].domain = FamilyOf(mem[tgid[t]][call[t].buf])
             /\ peer' = [peer EXCEPT ![SockOf(t)] = mem[tgid[t]][call[t].buf]]
             /\ Finish(t, [call[t] EXCEPT !.ret = "ok"])
    <3> DEFINE c == [call[t] EXCEPT !.ret = "ok"]
    <3>1. SameFd(c, call[t]) /\ Finish(t, c)
      BY <2>3, Typed DEF Base, Calls, SameFd
    <3> HIDE DEF c
    <3> QED BY <1>0, <1>1, <2>1, <2>3, <3>1, DoConnectFds
  <2> QED BY <1>5, <2>2, <2>3 DEF DoConnect, SockOf
<1>6. CASE DoClose(t)
  BY <1>0, <1>6, DoCloseFds
<1>7. CASE DoClone(t)
  <2>1. call[t].op \in {"clone", "clone3"} /\ UNCHANGED <<kind, peer>>
    BY <1>7 DEF DoClone
  <2>2. CASE /\ Finish(t, [call[t] EXCEPT !.ret = "error"])
             /\ UNCHANGED <<tgid, fdt, wrote>>
    BY <1>3, <2>1, <2>2 DEF failed
  <2>3. ASSUME NEW c \in Tids, NEW q, q = (IF call[t].thread THEN tgid[t] ELSE c),
               pc[c] = "none",
               tgid' = [tgid EXCEPT ![c] = q],
               fdt' = [fdt EXCEPT ![q] = fdt[tgid[t]]],
               wrote' = [wrote EXCEPT ![q] = wrote[tgid[t]]],
               pc' = [pc EXCEPT ![c] = "newborn", ![t] = "event"],
               call' = [call EXCEPT ![t].child = c, ![t].ret = "ok"]
        PROVE  FdsInv'
    BY <1>0, <1>1, <2>1, <2>3, DoCloneFds
  <2> QED BY <1>1, <1>7, <2>2, <2>3 DEF DoClone
<1> QED BY <1>1, <1>4, <1>5, <1>6, <1>7 DEF Execute

-----------------------------------------------------------------------------
(* The tracer forgets descriptors: at close(), or with a dead group.       *)
LEMMA FdsForget ==
    ASSUME Base, FdsInv, NEW t \in Tids,
           tracker'.stream_fds \subseteq tracker.stream_fds,
           \A p \in Tids, f \in Fds :
              tracker'.fd_inode[<<p, f>>] \in {None, tracker.fd_inode[<<p, f>>]},
           \A u \in Tids : tracker'.pending_socket[u] = None,
           UNCHANGED <<call, fdt, kind, peer, wrote>>,
           \A u \in Tids : u # t => /\ tgid'[u] = tgid[u] /\ pc'[u] = pc[u]
                                    /\ Pending(u)' = Pending(u),
           Alive(t)' => Alive(t) /\ tgid'[t] = tgid[t], CallOK(t)', StreamOK(t)'
    PROVE  FdsInv'
<1>1. ASSUME NEW u \in Tids PROVE CallOK(u)' /\ StreamOK(u)'
  <2>1. CASE u = t
    BY <2>1
  <2>2. CASE u # t
    <3>1. CallOK(u) /\ StreamOK(u)
      BY DEF FdsInv
    <3>2. CallOK(u)'
      <4>1. call[u].op = "close" => tgid[u] \in Tids /\ call[u].fd \in Fds
        BY NoCallFd, Typed DEF Base, TypeInv, TaskOK, Idle
      <4> QED BY <2>2, <3>1, <4>1 DEF CallOK
    <3>3. StreamOK(u)'
      BY <2>2, <3>1 DEF StreamOK, SockOf
    <3> QED BY <3>2, <3>3
  <2> QED BY <2>1, <2>2
<1>2. ASSUME NEW p \in Tids, NEW f \in Fds PROVE FdOK(p, f)'
  <2>1. FdOK(p, f)
    BY DEF FdsInv
  <2>2. LiveGroup(p)' => LiveGroup(p)
    BY DEF LiveGroup, Alive
  <2>3. tracker'.fd_inode[<<p, f>>] \in {None, tracker.fd_inode[<<p, f>>]}
    OBVIOUS
  <2> QED BY <2>1, <2>2, <2>3 DEF FdOK
<1>3. StreamTypesRedirected' /\ WroteOK'
  BY DEF FdsInv, StreamTypesRedirected, WroteOK
<1> QED BY <1>1, <1>2, <1>3 DEF FdsInv

(* handle_connect_enter marks and binds only the descriptor of a stream.   *)
LEMMA FdsLearn ==
    ASSUME Base, FdsInv, NEW t \in Tids, pc[t] = "seccomp",
           call[t].op = "connect",
           NEW s, s = SockOf(t), NEW key, key = <<tgid[t], call[t].fd>>,
           \/ tracker'.stream_fds = tracker.stream_fds
           \/ /\ tracker'.stream_fds = tracker.stream_fds \cup {key}
              /\ is_stream_type(kind[s]),
           \/ tracker'.fd_inode = tracker.fd_inode
           \/ tracker'.fd_inode = [tracker.fd_inode EXCEPT ![key] = s],
           tracker'.pending_socket = tracker.pending_socket,
           UNCHANGED <<tgid, call, fdt, kind, peer, wrote>>,
           pc'[t] = "kernel",
           \A u \in Tids : u # t => /\ pc'[u] = pc[u]
                                    /\ Pending(u)' = Pending(u),
           Pending(t)' # NoRestore => is_stream_type(kind[s])
    PROVE  FdsInv'
<1>1. /\ tgid[t] \in Tids /\ tgid[t] # None /\ call[t].fd \in Fds
      /\ s \in Socks /\ s # None /\ key \in Tids \X Fds
  BY ConnectTyped, Typed DEF Base, DirectInv, Judged
<1>2. \A k \in Tids \X Fds : k # key =>
         /\ tracker'.fd_inode[k] = tracker.fd_inode[k]
         /\ k \in tracker'.stream_fds => k \in tracker.stream_fds
  BY <1>1, Typed DEF Base
<1>3. tracker'.fd_inode[key] \in {s, tracker.fd_inode[key]}
  BY <1>1, Typed DEF Base
<1>4. ASSUME NEW u \in Tids PROVE CallOK(u)' /\ StreamOK(u)'
  <2>1. CallOK(u) /\ StreamOK(u) /\ SockOf(u)' = SockOf(u)
    BY DEF FdsInv, SockOf
  <2>2. CASE u = t
    BY <2>1, <2>2 DEF CallOK, StreamOK
  <2>3. CASE u # t
    <3>1. StreamOK(u)'
      BY <2>1, <2>3 DEF StreamOK
    <3>2. CASE call[u].op # "close"
      BY <2>1, <2>3, <3>1, <3>2 DEF CallOK
    <3>3. CASE call[u].op = "close"
      <4>1. tgid[u] \in Tids /\ call[u].fd \in Fds
        BY <3>3, NoCallFd, Typed DEF Base, TypeInv, TaskOK, Idle
      <4>2. <<tgid[u], call[u].fd>> # key
        BY <1>1, <2>3, <3>3 DEF Base, DirectInv, FdExclusive, OnFd
      <4> QED BY <1>2, <2>1, <2>3, <3>1, <4>1, <4>2 DEF CallOK
    <3> QED BY <3>2, <3>3
  <2> QED BY <2>2, <2>3
<1>5. ASSUME NEW p \in Tids, NEW f \in Fds PROVE FdOK(p, f)'
  <2>1. FdOK(p, f) /\ <<p, f>> \in Tids \X Fds
    BY DEF FdsInv
  <2>2. LiveGroup(p)' => LiveGroup(p)
    BY DEF LiveGroup, Alive
  <2>3. CASE <<p, f>> # key
    BY <1>2, <2>1, <2>2, <2>3 DEF FdOK
  <2>4. CASE <<p, f>> = key
    <3>1. fdt[p][f] = s
      BY <2>4 DEF SockOf
    <3>2. tracker'.fd_inode[<<p, f>>] \in {s, tracker.fd_inode[<<p, f>>]}
      BY <1>3, <2>4
    <3>3. <<p, f>> \in tracker'.stream_fds =>
             <<p, f>> \in tracker.stream_fds \/ is_stream_type(kind[s])
      OBVIOUS
    <3> QED BY <1>1, <2>1, <2>2, <3>1, <3>2, <3>3 DEF FdOK
  <2> QED BY <2>3, <2>4
<1>6. /\ StreamTypesRedirected' /\ WroteOK'
      /\ \A u \in Tids : tracker'.pending_socket[u] = None
  BY DEF FdsInv, StreamTypesRedirected, WroteOK
<1> QED BY <1>4, <1>5, <1>6 DEF FdsInv

(* A task is resumed and the tracker says of descriptors what it said.     *)
LEMMA ResumeFds ==
    ASSUME Base, FdsInv, NEW t \in Tids, NEW st, NEW c,
           resume_tracee(t, st, c), SameFds,
           \/ /\ pc[t] = "seccomp" /\ SameFd(c, call[t])
              /\ call[t].op \notin {"connect", "close"}
           \/ pc[t] = "exit"
           \/ pc[t] \in {"event", "newborn"} /\ c = call[t] /\ st = thread_states[t]
    PROVE  FdsInv'
<1> DEFINE at == ResumeAt(pc[t], c, resume_request(st))
<1>1. /\ UNCHANGED <<tgid, fdt, kind, peer, wrote>>
      /\ pc'[t] = at /\ thread_states'[t] = st
      /\ call'[t] = IF at = "user" THEN NoCall ELSE c
      /\ \A u \in Tids : u # t => /\ call'[u] = call[u] /\ pc'[u] = pc[u]
                                  /\ thread_states'[u] = thread_states[u]
  BY DEF Base, TypeInv, TypeOK, KernelTypeOK, TracerTypeOK, resume_tracee
<1>2. /\ pc[t] = "seccomp" => at = "kernel"
      /\ pc[t] = "exit" => at = "user"
      /\ pc[t] \in {"event", "newborn"} => at \in {"exit", "user"}
  BY DEF ResumeAt, AtExit
<1> HIDE DEF at
<1>3. /\ Alive(t) /\ WroteOK' /\ CallOK(t) /\ StreamOK(t)
      /\ \A u \in Tids : u # t => Pending(u)' = Pending(u)
  BY <1>1 DEF Alive, FdsInv, WroteOK, Pending
<1>4. CallOK(t)'
  BY <1>1, <1>2, <1>3, NoCallFd DEF CallOK, SameFd
<1>5. StreamOK(t)'
  <2>1. CASE call'[t] = NoCall \/ call'[t].op # "connect"
    BY <2>1, NoCallFd DEF StreamOK
  <2>2. CASE call'[t] # NoCall /\ call'[t].op = "connect"
    <3>1. call'[t] = call[t] /\ thread_states'[t] = thread_states[t]
      BY <1>1, <1>2, <2>2 DEF SameFd
    <3> QED BY <1>1, <1>3, <3>1 DEF StreamOK, SockOf, Pending
  <2> QED BY <2>1, <2>2
<1> QED BY <1>1, <1>3, <1>4, <1>5, FdsCall

LEMMA ErrorFds ==
    ASSUME FdsInv, UNCHANGED <<kernelVars, tracker, thread_states>>
    PROVE  FdsInv'
<1>1. UNCHANGED <<tgid, pc, call, fdt, kind, peer, wrote, tracker, thread_states>>
  BY DEF kernelVars
<1> QED BY <1>1
        DEF FdsInv, WroteOK, CallOK, StreamOK, FdOK, LiveGroup, Alive, SockOf,
            Pending, StreamTypesRedirected

LEMMA EnterFds ==
    ASSUME SeesCloses, Base, FdsInv, NEW t \in Tids, pc[t] = "seccomp",
           handle_syscall_enter(t)
    PROVE  FdsInv'
<1>1. /\ call[t] \in Calls /\ thread_states[t] \in ThreadState
      /\ TypeInv /\ ReapInv /\ CallOK(t) /\ Pending(t) = NoRestore
      /\ pc[t] \in {"entry", "seccomp"}
  BY NotPending
  DEF Base, TypeInv, TypeOK, KernelTypeOK, TracerTypeOK, PhaseInv, PhaseOK,
      FdsInv
<1>2. /\ resolve_tgid(tracker, tgid, t) = tgid[t] /\ tgid[t] \in Tids
      /\ tgid[t] # None /\ tracker \in Tracker /\ tgid \in Proc
  BY <1>1, ResolveRight
<1>3. CASE return_err(t)
  BY <1>3, ErrorFds DEF return_err
<1>4. ASSUME NEW st \in ThreadState, Entered(t, st, call[t])
      PROVE  /\ UNCHANGED <<tgid, call, fdt, kind, peer, wrote>>
             /\ pc'[t] = "kernel"
             /\ Pending(t)' = st.pending_connect_restore
             /\ \A u \in Tids : u # t => /\ pc'[u] = pc[u]
                                         /\ Pending(u)' = Pending(u)
  <2>1. /\ UNCHANGED <<tgid, fdt, kind, peer, wrote>>
        /\ call'[t] = call[t]
        /\ Pending(t)' = st.pending_connect_restore
        /\ \A u \in Tids : u # t => /\ call'[u] = call[u] /\ pc'[u] = pc[u]
                                    /\ Pending(u)' = Pending(u)
    BY <1>1, <1>4, EnteredEffect
  <2>2. /\ pc'[t] = "kernel"
        /\ call \in [Tids -> Calls] /\ call' \in [Tids -> Calls]
    BY <1>1, <1>4
    DEF TypeInv, TypeOK, KernelTypeOK, Entered, resume_tracee, ResumeAt, Calls,
        NoCall, Ops
  <2> QED BY <2>1, <2>2
<1>5. CASE call[t].op = "close" /\ handle_close_enter(t)
  <2>1. /\ tracker' = close_enter(tracker, tgid, t, call[t].fd)
        /\ Entered(t, thread_states[t], call[t])
    BY <1>5 DEF handle_close_enter
  <2>2. call[t].fd \in Fds
    BY <1>5 DEF Base, TypeInv, TaskOK
  <2>3. Closed(tracker', tracker, t, tgid[t], call[t].fd)
    BY <1>2, <2>1, <2>2, CloseEnterEffect
  <2>4. /\ tracker'.stream_fds \subseteq tracker.stream_fds
        /\ \A p \in Tids, f \in Fds :
              tracker'.fd_inode[<<p, f>>] \in {None, tracker.fd_inode[<<p, f>>]}
        /\ \A u \in Tids : tracker'.pending_socket[u] = None
        /\ <<tgid[t], call[t].fd>> \notin tracker'.stream_fds
        /\ tracker'.fd_inode[<<tgid[t], call[t].fd>>] = None
    BY <1>2, <2>2, <2>3, Typed DEF Closed, Resolved, FdsInv, Base
  <2>5. CallOK(t)' /\ StreamOK(t)'
    BY <1>1, <1>4, <1>5, <2>1, <2>4 DEF CallOK, StreamOK
  <2>6. Alive(t)
    BY DEF Alive
  <2> QED BY <1>1, <1>4, <2>1, <2>4, <2>5, <2>6, FdsForget
<1>6. CASE \/ call[t].op = "clone" /\ handle_clone_enter(t)
           \/ call[t].op = "clone3" /\ handle_clone3_enter(t)
  <2> DEFINE c == [call[t] EXCEPT !.untraced = FALSE]
  <2>1. SameFd(c, call[t])
    BY <1>1 DEF Calls, SameFd
  <2>2. return_err(t) \/ (Entered(t, thread_states[t], c) /\ SameFds)
    BY <1>6 DEF handle_clone_enter, handle_clone3_enter, SameFds
  <2> HIDE DEF c
  <2>3. Entered(t, thread_states[t], c) => \E st : resume_tracee(t, st, c)
    BY DEF Entered
  <2> QED BY <1>3, <1>6, <2>1, <2>2, <2>3, ResumeFds
<1>7. CASE call[t].op = "connect" /\ handle_connect_enter(t)
  <2>1. PICK s, key : s = SockOf(t) /\ key = <<tgid[t], call[t].fd>>
    OBVIOUS
  <2>2. /\ probe_socket_is_stream(t, call[t].fd) => is_stream_type(kind[s])
        /\ key \in tracker.stream_fds => is_stream_type(kind[s])
    <3>1. probe_socket_is_stream(t, call[t].fd) => is_stream_type(kind[s])
      BY <1>2, <2>1 DEF probe_socket_is_stream, read_tgid_from_proc_status, SockOf
    <3>2. LiveGroup(tgid[t]) /\ call[t].fd \in Fds
      BY <1>1, <1>7, ConnectTyped DEF LiveGroup, Alive
    <3> QED BY <1>2, <2>1, <3>1, <3>2 DEF FdsInv, FdOK, SockOf
  <2>3. CASE ConnectPasses(t)
    <3>1. PICK st \in ThreadState : /\ st.pending_connect_restore = NoRestore
                                    /\ Entered(t, st, call[t])
      BY <2>3 DEF ConnectPasses
    <3>2. /\ tracker'.pending_socket = tracker.pending_socket
          /\ tracker'.fd_inode = tracker.fd_inode
          /\ \/ tracker'.stream_fds = tracker.stream_fds
             \/ /\ tracker'.stream_fds = tracker.stream_fds \cup {key}
                /\ is_stream_type(kind[s])
      BY <2>1, <2>2, <2>3 DEF ConnectPasses
    <3> QED BY <1>4, <1>7, <2>1, <3>1, <3>2, FdsLearn
  <2>4. CASE ConnectRedirects(t)
    <3>1. PICK st \in ThreadState : Entered(t, st, call[t])
      BY <2>4 DEF ConnectRedirects
    <3>2. /\ tracker'.pending_socket = tracker.pending_socket
          /\ is_stream_type(kind[s])
          /\ \/ tracker'.stream_fds = tracker.stream_fds
             \/ tracker'.stream_fds = tracker.stream_fds \cup {key}
          /\ \/ tracker'.fd_inode = tracker.fd_inode
             \/ tracker'.fd_inode = [tracker.fd_inode EXCEPT ![key] = s]
      BY <2>1, <2>2, <2>4 DEF ConnectRedirects, Resolved, SockOf
    <3> QED BY <1>4, <1>7, <2>1, <3>1, <3>2, FdsLearn
  <2> QED BY <1>1, <1>3, <1>7, <2>3, <2>4, ConnectEffect
<1>8. call[t].op \notin {"socket", "other"}
  BY <1>1 DEF CallOK
<1> QED BY <1>5, <1>6, <1>7, <1>8 DEF handle_syscall_enter

(* Without socket_enter, socket_exit marks nothing.                        *)
LEMMA SocketExitIdle ==
    ASSUME NEW tr \in Tracker, NEW proc, NEW t \in Tids, NEW fd,
           tr.pending_socket[t] = None, NEW n, n = socket_exit(tr, proc, t, fd)
    PROVE  /\ n.stream_fds = tr.stream_fds /\ n.fd_inode = tr.fd_inode
           /\ n.pending_socket = tr.pending_socket
BY DEF socket_exit, Tracker

LEMMA OnExitedFds ==
    ASSUME Base, FdsInv, NEW t \in Tids, OnExited(t)
    PROVE  FdsInv'
<1> DEFINE proc == [tgid EXCEPT ![t] = None]
           g    == resolve_tgid(tracker, proc, t)
<1>1. /\ pc[t] = "zombie" /\ call[t] = NoCall /\ pc'[t] = "none"
      /\ tracker' = cleanup_process(tracker, proc, t)
      /\ UNCHANGED <<call, fdt, kind, peer, wrote>>
      /\ \A u \in Tids : u # t => /\ tgid'[u] = tgid[u] /\ pc'[u] = pc[u]
                                  /\ thread_states'[u] = thread_states[u]
  BY DEF OnExited, Base, TypeInv, TypeOK, KernelTypeOK, TracerTypeOK, TaskOK, Idle
<1>2. /\ tracker \in Tracker /\ proc \in Proc
  BY Typed DEF Base, TypeInv, TypeOK, TracerTypeOK, Proc
<1> HIDE DEF proc
<1>3. Cleaned(tracker', tracker, proc, t, g)
  BY <1>1, <1>2, CleanupEffect
<1> HIDE DEF g
<1>4. \A u \in Tids : tracker'.pending_socket[u] = None
  BY <1>2, <1>3 DEF Cleaned, FdsInv, Tracker
<1>5. tracker'.stream_fds \subseteq tracker.stream_fds
  BY <1>3 DEF Cleaned, TaskForgotten, GroupForgotten, SameKeys
<1>6. \A p \in Tids, f \in Fds :
         tracker'.fd_inode[<<p, f>>] \in {None, tracker.fd_inode[<<p, f>>]}
  BY <1>3 DEF Cleaned, TaskForgotten, GroupForgotten, SameKeys
<1>7. CallOK(t)' /\ StreamOK(t)'
  BY <1>1, NoCallFd DEF CallOK, StreamOK
<1>8. ~Alive(t)' /\ \A u \in Tids : u # t => Pending(u)' = Pending(u)
  BY <1>1 DEF Alive, Pending
<1> QED BY <1>1, <1>4, <1>5, <1>6, <1>7, <1>8, FdsForget

LEMMA TracerFds ==
    ASSUME SeesCloses, Base, FdsInv, NEW t \in Tids, TracerStep(t)
    PROVE  FdsInv'
<1>0. PhaseOK(t) /\ TypeInv /\ ReapInv
  BY DEF Base, PhaseInv
<1>1. CASE OnSeccompEvent(t)
  BY <1>1, EnterFds DEF OnSeccompEvent
<1>2. CASE OnSyscallStop(t)
  <2>1. pc[t] = "exit" /\ handle_syscall_exit(t)
    BY <1>0, <1>2 DEF OnSyscallStop, PhaseOK, SeesCloses
  <2>2. SameFds
    <3>1. tracker \in Tracker /\ tracker.pending_socket[t] = None
      BY <1>0 DEF TypeInv, TypeOK, TracerTypeOK, FdsInv
    <3>2. CASE \E fd : tracker' = socket_exit(tracker, tgid, t, fd)
      <4>1. PICK fd, n : n = socket_exit(tracker, tgid, t, fd) /\ tracker' = n
        BY <3>2
      <4> QED BY <3>1, <4>1, SocketExitIdle DEF SameFds
    <3> QED BY <2>1, <3>2 DEF handle_syscall_exit, SameFds
  <2>3. PICK st, c : resume_tracee(t, st, c)
    BY <2>1 DEF handle_syscall_exit
  <2> QED BY <2>1, <2>2, <2>3, ResumeFds
<1>3. CASE OnCloneEvent(t) \/ OnNewborn(t)
  <2>1. /\ resume_tracee(t, thread_states[t], call[t]) /\ SameFds
        /\ pc[t] \in {"event", "newborn"}
    BY <1>3 DEF OnCloneEvent, OnNewborn, SameFds
  <2> QED BY <2>1, ResumeFds
<1>4. CASE OnExited(t)
  BY <1>4, OnExitedFds
<1> QED BY <1>1, <1>2, <1>3, <1>4 DEF TracerStep, Tracer
-----------------------------------------------------------------------------
LEMMA FdsInit == Init => FdsInv
<1> SUFFICES ASSUME Init PROVE FdsInv
  OBVIOUS
<1>1. /\ \A t \in Tids : call[t] = NoCall
      /\ \A p \in Tids, b \in Bufs : wrote[p][b] = None
      /\ \A s \in Socks : peer[s] = None
      /\ tracker = new
  BY DEF Init, KernelInit, TracerInit, NoMem
<1>2. /\ \A t \in Tids : tracker.pending_socket[t] = None
      /\ tracker.stream_fds = {}
      /\ \A p \in Tids, f \in Fds : tracker.fd_inode[<<p, f>>] = None
  BY <1>1 DEF new
<1>3. WroteOK /\ StreamTypesRedirected
  BY <1>1, TrackerAssumption, KernelAssumption DEF WroteOK, StreamTypesRedirected
<1>4. \A t \in Tids : CallOK(t) /\ StreamOK(t)
  BY <1>1, NoCallFd DEF CallOK, StreamOK
<1>5. \A p \in Tids, f \in Fds : FdOK(p, f)
  BY <1>2 DEF FdOK
<1> QED BY <1>2, <1>3, <1>4, <1>5 DEF FdsInv

LEMMA FdsInvariant ==
    ASSUME Disciplined, SeesCloses
    PROVE  Spec => [](Base /\ FdsInv)
<1>1. Base /\ FdsInv /\ [Next]_vars => FdsInv'
  <2> SUFFICES ASSUME Base, FdsInv, [Next]_vars PROVE FdsInv'
    OBVIOUS
  <2>1. CASE UNCHANGED <<kernelVars, tracerVars>>
    BY <2>1, ErrorFds DEF tracerVars
  <2>2. CASE \E t \in Tids : ProgramStep(t) \/ KernelStep(t) \/ TracerStep(t)
    BY <2>2, ProgramFds, KernelFds, TracerFds
  <2> QED BY <2>1, <2>2 DEF Next, ProxyStep, Terminated, vars
<1> QED BY <1>1, FdsInit, BaseInvariant, PTL DEF Spec

(* What the tracker says of a live process's descriptors is true, for      *)
(* every number of threads and processes, descriptors and sockets: one it  *)
(* takes for a stream is a stream, and a bound inode is the socket behind  *)
(* the descriptor, although close_enter and handle_connect_enter run       *)
(* before the kernel closes or connects, and other threads and children    *)
(* open and close descriptors meanwhile.                                   *)
THEOREM DescriptorsAreTracked ==
    ASSUME "shareBuf" \notin Allow, "shareFd" \notin Allow,
           "forkInConnect" \notin Allow, "closeUnseen" \notin Allow, UseSeccomp
    PROVE  Spec => []TrackerMatchesFds
<1>1. Disciplined /\ SeesCloses
  BY DEF Disciplined, NotShared, SeesCloses
<1>2. Base /\ FdsInv => TrackerMatchesFds
  <2> SUFFICES ASSUME Base, FdsInv, NEW t \in Tids, NEW f \in Fds, Alive(t)
               PROVE  /\ <<tgid[t], f>> \in tracker.stream_fds =>
                            /\ fdt[tgid[t]][f] # None
                            /\ is_stream_type(kind[fdt[tgid[t]][f]])
                      /\ tracker.fd_inode[<<tgid[t], f>>]
                            \in {None, fdt[tgid[t]][f]}
    BY DEF TrackerMatchesFds
  <2>1. tgid[t] \in Tids /\ LiveGroup(tgid[t])
    BY Typed DEF Base, TypeInv, TaskOK, Alive, LiveGroup
  <2> QED BY <2>1 DEF FdsInv, FdOK
<1> QED BY <1>1, <1>2, FdsInvariant, PTL

(* Nothing but a TCP stream is ever connected to the local proxy, although *)
(* handle_connect_enter redirects by the number of the descriptor and that *)
(* number may have been a stream's before: close_enter forgets it before   *)
(* any other socket can get it.  The program must not create SOCK_RAW or   *)
(* SOCK_SEQPACKET sockets of these families: is_stream_type, which tests   *)
(* one bit, takes them for streams.                                        *)
THEOREM DatagramsAreLeftAlone ==
    ASSUME "shareBuf" \notin Allow, "shareFd" \notin Allow,
           "forkInConnect" \notin Allow, "closeUnseen" \notin Allow, UseSeccomp,
           \A k \in Kinds : is_stream_inet_socket(k) => CreatedAsStream(k)
    PROVE  Spec => []OnlyStreamsRedirected
<1>1. Disciplined /\ SeesCloses
  BY DEF Disciplined, NotShared, SeesCloses
<1>2. Base /\ FdsInv => OnlyStreamsRedirected
  <2> SUFFICES ASSUME Base, FdsInv, NEW x \in Socks, peer[x] = Local
               PROVE  CreatedAsStream(kind[x])
    BY DEF OnlyStreamsRedirected
  <2>1. is_stream_inet_socket(kind[x])
    BY DEF FdsInv, StreamTypesRedirected
  <2>2. kind[x] # None /\ kind[x] \in Kinds \cup {None}
    BY Typed, TrackerAssumption, KernelAssumption DEF Base, DirectInv, Created
  <2> QED BY <2>1, <2>2
<1> QED BY <1>1, <1>2, FdsInvariant, PTL
=============================================================================
