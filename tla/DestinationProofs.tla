------------------------- MODULE DestinationProofs --------------------------
(***************************************************************************)
(* A connection that is not exempt reaches the destination the program     *)
(* asked for (RightDestination), it is not hung up on while the program    *)
(* keeps it (DropOnlyAfterClose), and the whole system implements          *)
(* TransparentConnect.  The destination passes from the entry handler to   *)
(* the tracker and from there, later and by one of several ways, to a task *)
(* of the local proxy; a close(), an exit or a new socket may come between *)
(* any two of these.  DestInv says at each point what is still on record:  *)
(* WantOK up to the kernel's connect, ProxOK from there to the look-up,    *)
(* ClientOK during the look-up, TableOK and InodeOK for the bookkeeping    *)
(* that every close and exit relies on.                                    *)
(***************************************************************************)
EXTENDS RedirectProofs, ProxecRefinement

(* The local proxy serves this socket, or will.                            *)
Proxied(s) == peer[s] = Local \/ client[s].at # "none"

(* The process that created a socket still has a thread.                   *)
OwnerOK(s) ==
    owner[s] # None =>
        /\ owner[s] \in Tids /\ tgid[owner[s]] = owner[s] /\ kind[s] # None
        /\ \E t \in Tids : tgid[t] = owner[s] /\ Alive(t)

WroteOK == \A p \in Tids, b \in Bufs : wrote[p][b] # Local

(* A socket has one descriptor in a process, and only the process that     *)
(* created it has a destination for it.                                    *)
TableOK(p, f) ==
    fdt[p][f] # None =>
        /\ \A g \in Fds : fdt[p][g] = fdt[p][f] => g = f
        /\ tracker.fd_dest[<<p, f>>] # None => owner[fdt[p][f]] = p

(* A bound inode is a socket of that process; if it is still in the table  *)
(* then at the descriptor it is bound to.                                  *)
InodeOK(p, g) ==
    LET s == tracker.fd_inode[<<p, g>>]
    IN  s # None =>
          /\ kind[s] # None /\ owner[s] \in {p, None}
          /\ \A f \in Fds : fdt[p][f] = s => f = g

(* From the entry handler to the kernel the destination stays on record.   *)
WantOK(t) ==
    call[t].op = "connect" =>
        LET s == SockOf(t)
        IN  /\ call[t].want \in Dests /\ owner[s] = tgid[t]
            /\ peer[s] = None \/ asked[s] = call[t].want
            /\ Pending(t) # NoRestore =>
                  /\ tracker.inode_dest[s] = call[t].want
                  /\ tracker.fd_dest[<<tgid[t], call[t].fd>>]
                        \in {None, call[t].want}

(* A close() that was executed has left no served connection behind.       *)
ShutOK(t) ==
    call[t].op = "close" =>
        /\ pc[t] # "event"
        /\ pc[t] = "exit" /\ SockOf(t) # None /\ owner[SockOf(t)] = tgid[t] =>
              ~Proxied(SockOf(t))

(* Every way the proxy may look a connection up leads to the right         *)
(* destination or to none.                                                 *)
ProxOK(s) ==
    Proxied(s) =>
        /\ peer[s] # None
        /\ tracker.inode_dest[s] \in {None, asked[s]}
        /\ \A p \in Tids, f \in Fds :
              fdt[p][f] = s => tracker.fd_dest[<<p, f>>] \in {None, asked[s]}
        /\ Kept(s) => tracker.inode_dest[s] # None

ClientOK(s) ==
    /\ client[s].inode \in {None, s}
    /\ client[s].at = "match" /\ client[s].inode = None => Holders(s) = {}

DestInv ==
    /\ WroteOK
    /\ \A s \in Socks : OwnerOK(s) /\ ProxOK(s) /\ ClientOK(s)
    /\ \A p \in Tids, f \in Fds : TableOK(p, f) /\ InodeOK(p, f)
    /\ \A t \in Tids : WantOK(t) /\ ShutOK(t)
    /\ RightDestination

Base == TypeInv /\ PhaseInv /\ ReapInv /\ BufInv /\ DirectInv

(* The parts of the tracker that DestInv looks at.                         *)
SameDests ==
    /\ tracker'.fd_dest = tracker.fd_dest
    /\ tracker'.fd_inode = tracker.fd_inode
    /\ tracker'.inode_dest = tracker.inode_dest

LEMMA Typed ==
    ASSUME TypeInv
    PROVE  /\ tgid \in [Tids -> Tids \cup {None}] /\ pc \in [Tids -> PCs]
           /\ call \in [Tids -> Calls]
           /\ fdt \in [Tids -> [Fds -> Socks \cup {None}]]
           /\ kind \in [Socks -> Kinds \cup {None}]
           /\ peer \in [Socks -> Addrs \cup {None}]
           /\ asked \in [Socks -> Addrs \cup {None}]
           /\ owner \in [Socks -> Tids \cup {None}]
           /\ wrote \in [Tids -> [Bufs -> Addrs \cup {None}]]
           /\ client \in [Socks -> Clients]
           /\ tracker.fd_dest \in [Tids \X Fds -> Addrs \cup {None}]
           /\ tracker.fd_inode \in [Tids \X Fds -> Socks \cup {None}]
           /\ tracker.inode_dest \in [Socks -> Addrs \cup {None}]
           /\ None \notin Tids \cup Socks \cup Addrs \cup Kinds
           /\ None \notin Fds /\ Local # None /\ Local \in Addrs
BY TrackerAssumption, KernelAssumption
DEF TypeInv, TypeOK, KernelTypeOK, TracerTypeOK, ProxyTypeOK, Tracker

(* A call takes place at most; the sockets and the destinations stay.      *)
LEMMA DestCall ==
    ASSUME Base, DestInv, NEW t \in Tids, SameDests,
           UNCHANGED <<tgid, fdt, kind, peer, asked, owner, client>>,
           \A u \in Tids : u # t => /\ call'[u] = call[u] /\ pc'[u] = pc[u]
                                    /\ Pending(u)' = Pending(u),
           Alive(t) => Alive(t)', WroteOK', WantOK(t)', ShutOK(t)',
           \/ SameFd(call'[t], call[t])
           \/ call[t].op # "close"
           \/ SockOf(t) # None /\ owner[SockOf(t)] = tgid[t] =>
                 ~Proxied(SockOf(t))
    PROVE  DestInv'
<1>1. ASSUME NEW s \in Socks PROVE OwnerOK(s)'
  <2>1. OwnerOK(s)
    BY DEF DestInv
  <2>2. \A u \in Tids : Alive(u) => Alive(u)'
    BY DEF Alive
  <2> QED BY <2>1, <2>2 DEF OwnerOK
<1>2. ASSUME NEW s \in Socks PROVE ProxOK(s)'
  <2>1. ASSUME Proxied(s), Kept(s)' PROVE Kept(s)
    <3>1. PICK f \in Fds : /\ owner[s] # None /\ fdt[owner[s]][f] = s
                           /\ \A u \in Tids : tgid[u] = owner[s] =>
                                 ~(call'[u].op = "close" /\ call'[u].fd = f)
      BY <2>1 DEF Kept
    <3>2. ASSUME NEW u \in Tids, tgid[u] = owner[s], call[u].op = "close",
                 call[u].fd = f
          PROVE  FALSE
      <4>1. u = t
        BY <3>1, <3>2
      <4>2. SockOf(t) = s /\ s # None
        BY <3>1, <3>2, <4>1, Typed DEF Base, SockOf
      <4> QED BY <2>1, <3>1, <3>2, <4>1, <4>2 DEF SameFd
    <3> QED BY <3>1, <3>2 DEF Kept
  <2>2. ProxOK(s)
    BY DEF DestInv
  <2>3. Proxied(s)' = Proxied(s)
    BY DEF Proxied
  <2> QED BY <2>1, <2>2, <2>3 DEF ProxOK, SameDests
<1>3. \A s \in Socks : ClientOK(s)'
  BY DEF DestInv, ClientOK, Holders
<1>4. ASSUME NEW p \in Tids, NEW f \in Fds
      PROVE  TableOK(p, f)' /\ InodeOK(p, f)'
  <2>1. TableOK(p, f) /\ InodeOK(p, f)
    BY DEF DestInv
  <2>2. TableOK(p, f)'
    BY <2>1 DEF TableOK, SameDests
  <2>3. InodeOK(p, f)'
    BY <2>1 DEF InodeOK, SameDests
  <2> QED BY <2>2, <2>3
<1>5. ASSUME NEW u \in Tids, u # t PROVE WantOK(u)' /\ ShutOK(u)'
  <2>1. WantOK(u) /\ ShutOK(u)
    BY DEF DestInv
  <2> QED BY <1>5, <2>1 DEF WantOK, ShutOK, SockOf, SameDests, Proxied
<1>6. RightDestination'
  BY DEF DestInv, RightDestination
<1> QED BY <1>1, <1>2, <1>3, <1>4, <1>5, <1>6 DEF DestInv

LEMMA TrapDest ==
    ASSUME Base, DestInv, NEW t \in Tids, NEW c \in Calls, Trap(t, c),
           UNCHANGED <<wrote, tracerVars, proxyVars>>,
           c.op = "connect" =>
              LET s == fdt[tgid[t]][c.fd]
              IN  /\ c.want \in Dests /\ owner[s] = tgid[t]
                  /\ peer[s] = None \/ asked[s] = c.want
    PROVE  DestInv'
<1>1. /\ UNCHANGED <<tgid, fdt, kind, peer, asked, owner, client>> /\ SameDests
      /\ call'[t] = c /\ call[t] = NoCall /\ UNCHANGED <<thread_states, wrote>>
      /\ pc'[t] = IF how[t] = "syscall" THEN "entry" ELSE AfterEntry(c)
      /\ \A u \in Tids : u # t => call'[u] = call[u] /\ pc'[u] = pc[u]
  BY DEF Trap, Base, TypeInv, TypeOK, KernelTypeOK, TaskOK, Idle, tracerVars,
         proxyVars, SameDests
<1>2. pc'[t] \notin {"none", "zombie", "exit", "event"}
  BY <1>1 DEF AfterEntry
<1>3. Pending(t)' = NoRestore
  <2>1. Pending(t) = NoRestore
    BY NotPending DEF Trap, Base, PhaseInv, PhaseOK, Idle
  <2> QED BY <1>1, <2>1 DEF Pending
<1>4. WantOK(t)'
  BY <1>1, <1>3 DEF WantOK, SockOf
<1>5. ShutOK(t)'
  BY <1>1, <1>2 DEF ShutOK
<1>6. Alive(t)' /\ WroteOK' /\ \A u \in Tids : Pending(u)' = Pending(u)
  BY <1>1, <1>2 DEF Alive, WroteOK, DestInv, Pending
<1>7. call[t].op # "close"
  BY <1>1, NoCallFd
<1> QED BY <1>1, <1>4, <1>5, <1>6, <1>7, DestCall

LEMMA ExitDest ==
    ASSUME Base, DestInv, NEW t \in Tids, Exit(t),
           UNCHANGED <<tracerVars, proxyVars>>
    PROVE  DestInv'
<1> DEFINE p == tgid[t]
           last == \A u \in Siblings(t) : pc[u] = "zombie"
<1>1. /\ UNCHANGED <<tgid, call, kind, peer, asked, client, tracker>>
      /\ UNCHANGED thread_states
      /\ p \in Tids /\ p # None /\ pc[t] = "user" /\ pc'[t] = "zombie"
      /\ \A u \in Tids : u # t => pc'[u] = pc[u]
  BY Typed
  DEF Exit, Base, TypeInv, TaskOK, tracerVars, proxyVars
<1>2. /\ \A x \in Tids : x # p => fdt'[x] = fdt[x] /\ wrote'[x] = wrote[x]
      /\ ~last => fdt'[p] = fdt[p] /\ wrote'[p] = wrote[p]
      /\ last => /\ \A f \in Fds : fdt'[p][f] = None
                 /\ \A b \in Bufs : wrote'[p][b] = None
      /\ \A s \in Socks : owner'[s] = IF last /\ owner[s] = p THEN None
                                      ELSE owner[s]
  BY <1>1, Typed DEF Exit, Base, NoFds, NoMem
<1>3. \A u \in Tids : last /\ tgid[u] = p => call[u] = NoCall /\ ~Alive(u)'
  BY <1>1 DEF Siblings, Base, TypeInv, TaskOK, Idle, Alive
<1> HIDE DEF last
<1>4. WroteOK'
  BY <1>2, Typed DEF Base, DestInv, WroteOK
<1>5. ASSUME NEW s \in Socks PROVE OwnerOK(s)'
  <2>0. OwnerOK(s)
    BY DEF DestInv
  <2>1. CASE owner'[s] = None
    BY <2>1 DEF OwnerOK
  <2>2. CASE owner'[s] = owner[s] /\ owner[s] = p /\ ~last
    <3>1. PICK u \in Tids : u # t /\ tgid[u] = p /\ pc[u] # "zombie"
      BY <2>2 DEF last, Siblings
    <3>2. pc[u] # "none"
      BY <1>1, <3>1 DEF Base, TypeInv, TaskOK
    <3>3. Alive(u)' /\ tgid'[u] = p
      BY <1>1, <3>1, <3>2 DEF Alive
    <3> QED BY <1>1, <2>0, <2>2, <3>3 DEF OwnerOK
  <2>3. CASE owner'[s] = owner[s] /\ owner[s] # p /\ owner[s] # None
    <3>1. PICK u \in Tids : tgid[u] = owner[s] /\ Alive(u)
      BY <2>0, <2>3 DEF OwnerOK
    <3>2. u # t /\ Alive(u)'
      BY <1>1, <2>3, <3>1 DEF Alive
    <3> QED BY <1>1, <2>0, <2>3, <3>1, <3>2 DEF OwnerOK
  <2> QED BY <1>2, <2>1, <2>2, <2>3
<1>6. ASSUME NEW s \in Socks PROVE ProxOK(s)'
  <2>1. ProxOK(s) /\ s # None /\ owner[s] \in Tids \cup {None}
    BY Typed DEF DestInv, Base
  <2>2. Kept(s)' => Kept(s)
    <3> SUFFICES ASSUME Kept(s)' PROVE Kept(s)
      OBVIOUS
    <3>1. PICK f \in Fds : /\ owner'[s] # None /\ fdt'[owner'[s]][f] = s
                           /\ \A u \in Tids : tgid'[u] = owner'[s] =>
                                 ~(call'[u].op = "close" /\ call'[u].fd = f)
      BY DEF Kept
    <3>2. owner'[s] = owner[s] /\ fdt[owner[s]][f] = s
      BY <1>2, <2>1, <3>1
    <3> QED BY <1>1, <3>1, <3>2 DEF Kept
  <2>3. \A x \in Tids, f \in Fds : fdt'[x][f] = s => fdt[x][f] = s
    BY <1>2, <2>1
  <2> QED BY <1>1, <2>1, <2>2, <2>3 DEF ProxOK, Proxied
<1>7. ASSUME NEW s \in Socks PROVE ClientOK(s)'
  <2>1. ClientOK(s) /\ s # None
    BY Typed DEF DestInv, Base
  <2>2. Holders(s) = {} => Holders(s)' = {}
    BY <1>2, <2>1 DEF Holders
  <2> QED BY <1>1, <2>1, <2>2 DEF ClientOK
<1>8. ASSUME NEW x \in Tids, NEW f \in Fds PROVE TableOK(x, f)' /\ InodeOK(x, f)'
  <2>1. TableOK(x, f) /\ InodeOK(x, f)
    BY DEF DestInv
  <2>2. TableOK(x, f)'
    <3> SUFFICES ASSUME fdt'[x][f] # None PROVE TableOK(x, f)'
      BY DEF TableOK
    <3>1. fdt'[x] = fdt[x] /\ fdt[x][f] \in Socks /\ ~(last /\ x = p)
      BY <1>2, Typed DEF Base
    <3>2. owner[fdt[x][f]] = x => owner'[fdt[x][f]] = x
      BY <1>2, <3>1
    <3> QED BY <1>1, <2>1, <3>1, <3>2 DEF TableOK
  <2>3. InodeOK(x, f)'
    <3> DEFINE s == tracker.fd_inode[<<x, f>>]
    <3> SUFFICES ASSUME s # None PROVE InodeOK(x, f)'
      BY <1>1 DEF InodeOK
    <3>1. s \in Socks
      BY Typed DEF Base
    <3>2. owner'[s] \in {owner[s], None}
      BY <1>2, <3>1
    <3>3. \A g \in Fds : fdt'[x][g] = s => fdt[x][g] = s
      BY <1>2
    <3> HIDE DEF s
    <3> QED BY <1>1, <2>1, <3>2, <3>3 DEF InodeOK, s
  <2> QED BY <2>2, <2>3
<1>9. ASSUME NEW u \in Tids PROVE WantOK(u)' /\ ShutOK(u)'
  <2>0. WantOK(u) /\ ShutOK(u)
    BY DEF DestInv
  <2>1. CASE call[u] = NoCall
    BY <1>1, <2>1, NoCallFd DEF WantOK, ShutOK
  <2>2. CASE call[u] # NoCall
    <3>1. u # t /\ tgid[u] \in Tids /\ fdt'[tgid[u]] = fdt[tgid[u]]
          /\ ~(last /\ tgid[u] = p)
      <4>1. u # t /\ tgid[u] \in Tids
        BY <1>1, <2>2, Typed DEF Base, TypeInv, TaskOK, Idle
      <4>2. ~(last /\ tgid[u] = p)
        BY <1>3, <2>2
      <4> QED BY <1>2, <4>1, <4>2
    <3>2. SockOf(u)' = SockOf(u)
      BY <1>1, <3>1 DEF SockOf
    <3>3. SockOf(u) \in Socks /\ owner[SockOf(u)] = tgid[u] =>
             owner'[SockOf(u)] = tgid[u]
      BY <1>2, <3>1
    <3>4. call[u].op = "connect" => SockOf(u) \in Socks
      BY ConnectTyped DEF Base, DirectInv, Judged
    <3>5. WantOK(u)'
      BY <1>1, <2>0, <3>2, <3>3, <3>4 DEF WantOK, Pending
    <3>6. call[u].op = "close" => SockOf(u) \in Socks \cup {None}
      BY <3>1, Typed DEF Base, TypeInv, TaskOK, SockOf
    <3>7. SockOf(u) \in Socks /\ owner'[SockOf(u)] = tgid[u] =>
             owner[SockOf(u)] = tgid[u]
      BY <1>2, <3>1, Typed DEF Base
    <3>8. ShutOK(u)'
      BY <1>1, <2>0, <3>1, <3>2, <3>6, <3>7 DEF ShutOK, Proxied
    <3> QED BY <3>5, <3>8
  <2> QED BY <2>1, <2>2
<1>10. RightDestination'
  BY <1>1 DEF DestInv, RightDestination
<1> QED BY <1>4, <1>5, <1>6, <1>7, <1>8, <1>9, <1>10 DEF DestInv

(* What a program must keep to for DestInv.                                *)
OneTarget == "retarget" \notin Allow /\ "inherit" \notin Allow

LEMMA ProgramDest ==
    ASSUME Disciplined, OneTarget, Base, DestInv, NEW t \in Tids, ProgramStep(t)
    PROVE  DestInv'
<1>0. UNCHANGED <<tracerVars, proxyVars>>
  BY DEF ProgramStep
<1>1. ASSUME NEW b \in Bufs, NEW a \in Dests, StoreSockaddr(t, b, a)
      PROVE  DestInv'
  <2>1. /\ UNCHANGED <<tgid, pc, call, fdt, kind, peer, asked, owner, client>>
        /\ UNCHANGED thread_states /\ SameDests
    BY <1>0, <1>1 DEF StoreSockaddr, tracerVars, proxyVars, SameDests
  <2>2. WroteOK'
    <3>1. wrote' = [wrote EXCEPT ![tgid[t]][b] = a] /\ a # Local
      BY <1>1 DEF StoreSockaddr, Dests
    <3> QED BY <3>1, Typed DEF Base, DestInv, WroteOK
  <2>3. WantOK(t)' /\ ShutOK(t)'
    <3>1. WantOK(t) /\ ShutOK(t)
      BY DEF DestInv
    <3> QED BY <2>1, <3>1
            DEF WantOK, ShutOK, SockOf, Pending, SameDests, Proxied
  <2>4. SameFd(call'[t], call[t]) /\ (Alive(t) => Alive(t)')
        /\ \A u \in Tids : Pending(u)' = Pending(u)
    BY <2>1 DEF SameFd, Alive, Pending
  <2> QED BY <2>1, <2>2, <2>3, <2>4, DestCall
<1>2. ASSUME NEW k \in Kinds, CallSocket(t, k)
      PROVE  DestInv'
  <2> DEFINE c == [NoCall EXCEPT !.op = "socket", !.kind = k]
  <2>1. c \in Calls /\ c.op = "socket"
    BY DEF NoCall, Calls, Ops
  <2> QED BY <1>0, <1>2, <2>1, TrapDest DEF CallSocket
<1>3. ASSUME NEW fd \in Fds, NEW b \in Bufs, CallConnect(t, fd, b)
      PROVE  DestInv'
  <2>1. PICK v \in BOOLEAN :
          Trap(t, [[NoCall EXCEPT !.op = "connect", !.fd = fd, !.buf = b,
                        !.want = wrote[tgid[t]][b]] EXCEPT !.valid = v])
    BY <1>3 DEF CallConnect
  <2> DEFINE c == [[NoCall EXCEPT !.op = "connect", !.fd = fd, !.buf = b,
                        !.want = wrote[tgid[t]][b]] EXCEPT !.valid = v]
             s == fdt[tgid[t]][fd]
  <2>2. wrote[tgid[t]][b] \in Addrs /\ wrote[tgid[t]][b] # Local
    <3>1. tgid[t] \in Tids /\ wrote[tgid[t]][b] # None
      BY <1>3 DEF CallConnect, Base, TypeInv, TypeOK, KernelTypeOK, TaskOK
    <3> QED BY <3>1, Typed DEF Base, DestInv, WroteOK
  <2>3. /\ c \in Calls /\ c.op = "connect" /\ c.fd = fd
        /\ c.want = wrote[tgid[t]][b]
    BY <2>2 DEF NoCall, Calls, Ops
  <2>4. /\ peer[s] = None \/ asked[s] = wrote[tgid[t]][b]
        /\ owner[s] = tgid[t] /\ UNCHANGED wrote
    BY <1>3 DEF CallConnect, OneTarget
  <2> HIDE DEF c
  <2> QED BY <1>0, <2>1, <2>2, <2>3, <2>4, TrapDest DEF c, Dests
<1>4. ASSUME NEW fd \in Fds, CallClose(t, fd)
      PROVE  DestInv'
  <2> DEFINE c == [NoCall EXCEPT !.op = "close", !.fd = fd]
  <2>1. c \in Calls /\ c.op = "close"
    BY DEF NoCall, Calls, Ops
  <2> QED BY <1>0, <1>4, <2>1, TrapDest DEF CallClose
<1>5. ASSUME NEW k \in Clones, CallClone(t, k)
      PROVE  DestInv'
  <2>1. PICK v \in BOOLEAN :
          Trap(t, [NoCall EXCEPT !.op = k.op, !.thread = k.thread,
                                 !.untraced = k.untraced, !.valid = v])
    BY <1>5 DEF CallClone
  <2> DEFINE c == [NoCall EXCEPT !.op = k.op, !.thread = k.thread,
                                 !.untraced = k.untraced, !.valid = v]
  <2>2. k \in [op : {"clone", "clone3"}, thread : BOOLEAN, untraced : BOOLEAN]
    BY KernelAssumption
  <2>3. c \in Calls /\ c.op \in {"clone", "clone3"}
    BY <2>2 DEF NoCall, Calls, Ops
  <2>4. UNCHANGED wrote
    BY <1>5 DEF CallClone
  <2> HIDE DEF c
  <2> QED BY <1>0, <2>1, <2>3, <2>4, TrapDest DEF c
<1>6. ASSUME NEW fd \in Fds \cup {None}, CallOther(t, fd)
      PROVE  DestInv'
  <2> DEFINE c == [NoCall EXCEPT !.op = "other", !.fd = fd]
  <2>1. c \in Calls /\ c.op = "other"
    BY DEF NoCall, Calls, Ops
  <2> QED BY <1>0, <1>6, <2>1, TrapDest DEF CallOther
<1>7. CASE Exit(t)
  BY <1>0, <1>7, ExitDest
<1> QED BY <1>1, <1>2, <1>3, <1>4, <1>5, <1>6, <1>7 DEF ProgramStep, Program

LEMMA FinishEffect ==
    ASSUME Base, NEW t \in Tids, NEW c, Finish(t, c), pc[t] = "kernel",
           UNCHANGED <<tracerVars, proxyVars>>
    PROVE  /\ \/ call'[t] = c /\ pc'[t] = "exit"
              \/ call'[t] = NoCall /\ pc'[t] = "user"
           /\ \A u \in Tids : u # t => call'[u] = call[u] /\ pc'[u] = pc[u]
           /\ UNCHANGED <<thread_states, tracker, client>> /\ SameDests
           /\ \A u \in Tids : Alive(u) => Alive(u)'
           /\ \A u \in Tids : Pending(u)' = Pending(u)
           /\ Alive(t)'
<1>1. /\ call'[t] = IF how[t] = "syscall" THEN c ELSE NoCall
      /\ pc'[t] = IF how[t] = "syscall" THEN "exit" ELSE "user"
      /\ \A u \in Tids : u # t => call'[u] = call[u] /\ pc'[u] = pc[u]
      /\ UNCHANGED <<thread_states, tracker, client>>
  BY Typed DEF Base, Finish, AtExit, tracerVars, proxyVars
<1> QED BY <1>1 DEF SameDests, Alive, Pending

LEMMA CallFails ==
    ASSUME Base, DestInv, NEW t \in Tids, pc[t] = "kernel",
           call[t].op # "close", Finish(t, [call[t] EXCEPT !.ret = "error"]),
           UNCHANGED <<tgid, fdt, kind, peer, asked, owner, wrote>>,
           UNCHANGED <<tracerVars, proxyVars>>
    PROVE  DestInv'
<1> DEFINE c == [call[t] EXCEPT !.ret = "error"]
<1>1. SameFd(c, call[t]) /\ Finish(t, c)
  BY Typed DEF Base, Calls, SameFd
<1> HIDE DEF c
<1>2. /\ call'[t] = c \/ call'[t] = NoCall
      /\ \A u \in Tids : u # t => call'[u] = call[u] /\ pc'[u] = pc[u]
      /\ UNCHANGED client /\ SameDests
      /\ \A u \in Tids : Pending(u)' = Pending(u)
      /\ Alive(t)'
  BY <1>1, FinishEffect
<1>3. WantOK(t)'
  <2>1. WantOK(t)
    BY DEF DestInv
  <2>2. CASE call'[t] = NoCall
    BY <2>2, NoCallFd DEF WantOK
  <2>3. CASE call'[t] = c
    BY <1>1, <1>2, <2>1, <2>3 DEF WantOK, SameFd, SockOf, SameDests
  <2> QED BY <1>2, <2>2, <2>3
<1>4. ShutOK(t)' /\ WroteOK'
  BY <1>1, <1>2, NoCallFd DEF ShutOK, SameFd, DestInv, WroteOK
<1> QED BY <1>2, <1>3, <1>4, DestCall

LEMMA DoSocketDest ==
    ASSUME Base, DestInv, NEW t \in Tids, pc[t] = "kernel",
           call[t].op = "socket", NEW s \in Socks, NEW f \in Fds,
           kind[s] = None, fdt[tgid[t]][f] = None,
           kind' = [kind EXCEPT ![s] = call[t].kind],
           owner' = [owner EXCEPT ![s] = tgid[t]],
           fdt' = [fdt EXCEPT ![tgid[t]][f] = s],
           Finish(t, [call[t] EXCEPT !.fd = f, !.ret = "ok"]),
           UNCHANGED <<tgid, peer, asked, wrote, tracerVars, proxyVars>>
    PROVE  DestInv'
<1> DEFINE p == tgid[t]
           c == [call[t] EXCEPT !.fd = f, !.ret = "ok"]
<1>1. /\ p \in Tids /\ tgid[p] = p /\ c.op = "socket" /\ call[t].kind \in Kinds
      /\ Finish(t, c)
  BY Typed
  DEF Base, TypeInv, TaskOK, Calls, ReapInv, GroupOK, DirectInv, Created
<1>2. /\ \A x \in Socks : x # s => kind'[x] = kind[x] /\ owner'[x] = owner[x]
      /\ kind'[s] # None /\ owner'[s] = p /\ s # None
      /\ fdt'[p][f] = s
      /\ \A x \in Tids, y \in Fds : ~(x = p /\ y = f) => fdt'[x][y] = fdt[x][y]
  BY <1>1, Typed DEF Base
<1> HIDE DEF c
<1>3. /\ call'[t] = c \/ call'[t] = NoCall
      /\ \A u \in Tids : u # t => call'[u] = call[u] /\ pc'[u] = pc[u]
      /\ UNCHANGED <<client, tracker>>
      /\ \A u \in Tids : Alive(u) => Alive(u)'
      /\ \A u \in Tids : Pending(u)' = Pending(u)
      /\ Alive(t)'
  BY <1>1, FinishEffect
<1>4. call'[t].op \notin {"connect", "close"}
  BY <1>1, <1>3, NoCallFd
<1>5. /\ \A x \in Tids, y \in Fds : fdt[x][y] # s
      /\ peer[s] = None /\ ~Proxied(s) /\ ~Proxied(s)'
      /\ client[s].at = "none"
      /\ \A x \in Tids, y \in Fds : tracker.fd_inode[<<x, y>>] # s
  <2>1. /\ \A x \in Tids, y \in Fds : fdt[x][y] # s
        /\ peer[s] = None
    BY <1>2 DEF Base, DirectInv, Created
  <2>2. ~Proxied(s)
    BY <2>1 DEF DestInv, ProxOK
  <2>3. ASSUME NEW x \in Tids, NEW y \in Fds PROVE tracker.fd_inode[<<x, y>>] # s
    <3>1. InodeOK(x, y)
      BY DEF DestInv
    <3> QED BY <1>2, <3>1 DEF InodeOK
  <2> QED BY <1>3, <2>1, <2>2, <2>3 DEF Proxied
<1>6. ASSUME NEW x \in Socks PROVE OwnerOK(x)'
  <2>1. CASE x = s
    BY <1>1, <1>2, <1>3, <2>1 DEF OwnerOK
  <2>2. CASE x # s
    <3>1. OwnerOK(x)
      BY DEF DestInv
    <3> QED BY <1>2, <1>3, <2>2, <3>1 DEF OwnerOK
  <2> QED BY <2>1, <2>2
<1>7. ASSUME NEW x \in Socks PROVE ProxOK(x)'
  <2>1. CASE x = s
    BY <1>5, <2>1 DEF ProxOK
  <2>2. CASE x # s
    <3>1. ProxOK(x) /\ owner[x] \in Tids \cup {None}
      BY Typed DEF DestInv, Base
    <3>2. \A y \in Tids, g \in Fds : fdt'[y][g] = x => fdt[y][g] = x
      BY <1>2, <2>2
    <3>3. Kept(x)' => Kept(x)
      <4> SUFFICES ASSUME Kept(x)' PROVE Kept(x)
        OBVIOUS
      <4>1. PICK g \in Fds : /\ owner'[x] # None /\ fdt'[owner'[x]][g] = x
                             /\ \A u \in Tids : tgid'[u] = owner'[x] =>
                                   ~(call'[u].op = "close" /\ call'[u].fd = g)
        BY DEF Kept
      <4>2. owner[x] # None /\ fdt[owner[x]][g] = x
        BY <1>2, <2>2, <3>1, <3>2, <4>1
      <4>3. \A u \in Tids : tgid[u] = owner[x] =>
               ~(call[u].op = "close" /\ call[u].fd = g)
        BY <1>2, <1>3, <2>2, <4>1
      <4> QED BY <4>2, <4>3 DEF Kept
    <3> QED BY <1>3, <3>1, <3>2, <3>3 DEF ProxOK, Proxied
  <2> QED BY <2>1, <2>2
<1>8. ASSUME NEW x \in Socks PROVE ClientOK(x)'
  <2>1. ClientOK(x)
    BY DEF DestInv
  <2>2. x # s /\ Holders(x) = {} => Holders(x)' = {}
    BY <1>2 DEF Holders
  <2> QED BY <1>3, <1>5, <2>1, <2>2 DEF ClientOK
<1>9. ASSUME NEW x \in Tids, NEW y \in Fds PROVE TableOK(x, y)' /\ InodeOK(x, y)'
  <2>0. TableOK(x, y) /\ InodeOK(x, y)
    BY DEF DestInv
  <2>1. TableOK(x, y)'
    <3>1. CASE x = p /\ y = f
      BY <1>2, <1>5, <3>1 DEF TableOK
    <3>2. CASE ~(x = p /\ y = f)
      <4>1. fdt'[x][y] = fdt[x][y] /\ fdt[x][y] \in Socks \cup {None}
            /\ fdt[x][y] # s
        BY <1>2, <1>5, <3>2, Typed DEF Base
      <4>2. \A g \in Fds : fdt'[x][g] = fdt[x][y] => fdt[x][g] = fdt[x][y]
        BY <1>2, <4>1
      <4> QED BY <1>2, <1>3, <2>0, <4>1, <4>2 DEF TableOK
    <3> QED BY <3>1, <3>2
  <2>2. InodeOK(x, y)'
    <3> DEFINE z == tracker.fd_inode[<<x, y>>]
    <3>1. z \in Socks \cup {None} /\ z # s
      BY <1>5, Typed DEF Base
    <3>2. \A g \in Fds : fdt'[x][g] = z => fdt[x][g] = z
      BY <1>2, <3>1
    <3> HIDE DEF z
    <3> QED BY <1>2, <1>3, <2>0, <3>1, <3>2 DEF InodeOK, z
  <2> QED BY <2>1, <2>2
<1>10. ASSUME NEW u \in Tids PROVE WantOK(u)' /\ ShutOK(u)'
  <2>0. WantOK(u) /\ ShutOK(u)
    BY DEF DestInv
  <2>1. CASE u = t
    BY <1>4, <2>1 DEF WantOK, ShutOK
  <2>2. CASE u # t
    <3>1. call[u].op \in {"connect", "close"} =>
             call[u].fd \in Fds /\ tgid[u] \in Tids
      BY Typed, NoCallFd DEF Base, TypeInv, TaskOK, Idle
    <3>2. call[u].op = "connect" =>
             SockOf(u)' = SockOf(u) /\ SockOf(u) \in Socks /\ SockOf(u) # s
      <4>1. call[u].op = "connect" => SockOf(u) # None
        BY DEF Base, DirectInv, Judged
      <4> QED BY <1>2, <1>3, <1>5, <2>2, <3>1, <4>1, Typed DEF Base, SockOf
    <3>3. WantOK(u)'
      BY <1>2, <1>3, <2>0, <2>2, <3>2 DEF WantOK
    <3>4. call[u].op = "close" =>
             \/ SockOf(u)' = s
             \/ /\ SockOf(u)' = SockOf(u) /\ SockOf(u) # s
                /\ SockOf(u) \in Socks \cup {None}
      BY <1>2, <1>3, <1>5, <2>2, <3>1, Typed DEF Base, SockOf
    <3>5. ShutOK(u)'
      BY <1>2, <1>3, <1>5, <2>0, <2>2, <3>4 DEF ShutOK, Proxied
    <3> QED BY <3>3, <3>5
  <2> QED BY <2>1, <2>2
<1>11. RightDestination' /\ WroteOK'
  BY <1>3 DEF DestInv, RightDestination, WroteOK
<1> QED BY <1>6, <1>7, <1>8, <1>9, <1>10, <1>11 DEF DestInv

LEMMA DoCloseDest ==
    ASSUME Base, DestInv, NEW t \in Tids, DoClose(t),
           UNCHANGED <<tracerVars, proxyVars>>
    PROVE  DestInv'
<1> DEFINE p == tgid[t]
           fd == call[t].fd
           c == [call[t] EXCEPT !.ret = "ok"]
<1>1. /\ p \in Tids /\ p # None /\ call[t].op \in {"close", "other"}
      /\ SameFd(c, call[t]) /\ Finish(t, c) /\ pc[t] = "kernel"
      /\ UNCHANGED <<tgid, kind, peer, asked, owner, wrote>>
  BY Typed DEF DoClose, Base, TypeInv, TaskOK, Calls, SameFd
<1>2. /\ \A f \in Fds : fdt'[p][f] = IF f = fd THEN None ELSE fdt[p][f]
      /\ \A x \in Tids : x # p => fdt'[x] = fdt[x]
  BY <1>1, Typed DEF DoClose, Base
<1> HIDE DEF c
<1>3. /\ (call'[t] = c /\ pc'[t] = "exit") \/ call'[t] = NoCall
      /\ \A u \in Tids : u # t => call'[u] = call[u] /\ pc'[u] = pc[u]
      /\ UNCHANGED <<client, tracker>>
      /\ \A u \in Tids : Alive(u) => Alive(u)'
      /\ \A u \in Tids : Pending(u)' = Pending(u)
  BY <1>1, FinishEffect
<1>4. ASSUME NEW s \in Socks PROVE OwnerOK(s)'
  <2>1. OwnerOK(s)
    BY DEF DestInv
  <2> QED BY <1>1, <1>3, <2>1 DEF OwnerOK
<1>5. \A x \in Tids, f \in Fds : fdt'[x][f] # None =>
         fdt'[x][f] = fdt[x][f] /\ (x = p => f # fd)
  BY <1>2
<1>6. ASSUME NEW s \in Socks PROVE ProxOK(s)'
  <2>1. ProxOK(s) /\ s # None /\ owner[s] \in Tids \cup {None}
    BY Typed DEF DestInv, Base
  <2>2. Kept(s)' => Kept(s)
    <3> SUFFICES ASSUME Kept(s)' PROVE Kept(s)
      OBVIOUS
    <3>1. PICK f \in Fds :
             /\ owner'[s] # None /\ fdt'[owner'[s]][f] = s
             /\ \A u \in Tids : tgid'[u] = owner'[s] =>
                   ~(call'[u].op = "close" /\ call'[u].fd = f)
      BY DEF Kept
    <3>2. fdt[owner[s]][f] = s /\ (owner[s] = p => f # fd)
      BY <1>1, <1>5, <2>1, <3>1
    <3>3. \A u \in Tids : tgid[u] = owner[s] =>
             ~(call[u].op = "close" /\ call[u].fd = f)
      BY <1>1, <1>3, <3>1, <3>2
    <3> QED BY <1>1, <3>1, <3>2, <3>3 DEF Kept
  <2>3. \A x \in Tids, f \in Fds : fdt'[x][f] = s => fdt[x][f] = s
    BY <1>5, <2>1
  <2> QED BY <1>1, <1>3, <2>1, <2>2, <2>3 DEF ProxOK, Proxied
<1>7. ASSUME NEW s \in Socks PROVE ClientOK(s)'
  <2>1. ClientOK(s) /\ s # None
    BY Typed DEF DestInv, Base
  <2>2. Holders(s) = {} => Holders(s)' = {}
    BY <1>5, <2>1 DEF Holders
  <2> QED BY <1>3, <2>1, <2>2 DEF ClientOK
<1>8. ASSUME NEW x \in Tids, NEW f \in Fds PROVE TableOK(x, f)' /\ InodeOK(x, f)'
  <2>0. TableOK(x, f) /\ InodeOK(x, f)
    BY DEF DestInv
  <2>1. TableOK(x, f)'
    BY <1>1, <1>3, <1>5, <2>0 DEF TableOK
  <2>2. InodeOK(x, f)'
    BY <1>1, <1>3, <1>5, <2>0 DEF InodeOK
  <2> QED BY <2>1, <2>2
<1>9. ASSUME NEW u \in Tids PROVE WantOK(u)' /\ ShutOK(u)'
  <2>0. WantOK(u) /\ ShutOK(u)
    BY DEF DestInv
  <2>1. CASE u = t
    <3>1. call'[t].op # "connect"
      BY <1>1, <1>3, NoCallFd DEF SameFd
    <3>2. call'[t].op = "close" =>
             /\ call[t].op = "close" /\ call'[t].fd = fd /\ pc'[t] = "exit"
      BY <1>1, <1>3, NoCallFd DEF SameFd
    <3>3. call[t].op = "close" => fd \in Fds
      BY DEF Base, TypeInv, TaskOK
    <3>4. call'[t].op = "close" => SockOf(t)' = None
      BY <1>1, <1>2, <3>2, <3>3 DEF SockOf
    <3> QED BY <2>1, <3>1, <3>2, <3>4 DEF WantOK, ShutOK
  <2>2. CASE u # t
    <3>1. call[u].op \in {"connect", "close"} =>
             call[u].fd \in Fds /\ tgid[u] \in Tids
      BY Typed, NoCallFd DEF Base, TypeInv, TaskOK, Idle
    <3>2. call[u].op = "connect" => SockOf(u)' = SockOf(u)
      <4>1. call[u].op = "connect" /\ tgid[u] = p => call[u].fd # fd
        BY <1>1, <2>2 DEF Base, DirectInv, FdExclusive, OnFd
      <4> QED BY <1>1, <1>2, <1>3, <2>2, <3>1, <4>1 DEF SockOf
    <3>3. WantOK(u)'
      BY <1>1, <1>3, <2>0, <2>2, <3>2 DEF WantOK
    <3>4. call[u].op = "close" => SockOf(u)' \in {SockOf(u), None}
      BY <1>1, <1>2, <1>3, <2>2, <3>1 DEF SockOf
    <3>5. ShutOK(u)'
      BY <1>1, <1>3, <2>0, <2>2, <3>4 DEF ShutOK, Proxied
    <3> QED BY <3>3, <3>5
  <2> QED BY <2>1, <2>2
<1>10. RightDestination' /\ WroteOK'
  BY <1>1, <1>3 DEF DestInv, RightDestination, WroteOK
<1> QED BY <1>4, <1>6, <1>7, <1>8, <1>9, <1>10 DEF DestInv

(* Two connects in progress are on two sockets.                            *)
LEMMA Apart ==
    ASSUME Base, DestInv, NEW t \in Tids, NEW u \in Tids, t # u,
           call[t].op = "connect",
           call[u].op \in {"connect", "close"} /\ call[u].fd \in Fds,
           owner[SockOf(u)] = tgid[u]
    PROVE  SockOf(t) # SockOf(u)
<1>1. /\ call[t].fd \in Fds /\ tgid[t] \in Tids /\ tgid[t] # None
      /\ SockOf(t) # None
  BY ConnectTyped DEF Base, DirectInv, Judged
<1>2. TableOK(tgid[t], call[t].fd) /\ WantOK(t)
  BY <1>1 DEF DestInv
<1>3. ASSUME SockOf(t) = SockOf(u) PROVE FALSE
  <2>1. tgid[u] = tgid[t]
    BY <1>2, <1>3 DEF WantOK
  <2>2. call[u].fd = call[t].fd
    BY <1>1, <1>2, <1>3, <2>1 DEF TableOK, SockOf
  <2> QED BY <1>1, <2>1, <2>2 DEF Base, DirectInv, FdExclusive, OnFd
<1> QED BY <1>3

(* A connect in the kernel finds the local proxy's address in its buffer   *)
(* only if the tracer put it there for this very call.                     *)
LEMMA LocalIfRedirected ==
    ASSUME Base, WroteOK, NEW t \in Tids, call[t].op = "connect",
           mem[tgid[t]][call[t].buf] = Local
    PROVE  Pending(t) # NoRestore
<1> DEFINE p == tgid[t]
           b == call[t].buf
<1>1. p \in Tids /\ p # None /\ b \in Bufs
  BY ConnectTyped DEF Base, TypeInv, TaskOK
<1>2. wrote[p][b] # Local
  BY <1>1 DEF WroteOK
<1>3. PICK u \in Tids : Redirected(u, p, b)
  BY <1>1, <1>2 DEF Base, BufInv, MemOK
<1>4. u = t
  BY <1>1, <1>3 DEF Base, BufInv, BufExclusive, Redirected
<1> QED BY <1>3, <1>4 DEF Redirected

LEMMA DoConnectDest ==
    ASSUME Base, DestInv, NEW t \in Tids, pc[t] = "kernel",
           call[t].op = "connect", NEW a, a = mem[tgid[t]][call[t].buf],
           peer' = [peer EXCEPT ![SockOf(t)] = a],
           asked' = [asked EXCEPT ![SockOf(t)] = call[t].want],
           Finish(t, [call[t] EXCEPT !.ret = "ok"]),
           UNCHANGED <<tgid, fdt, kind, owner, wrote, tracerVars, proxyVars>>
    PROVE  DestInv'
<1> DEFINE p == tgid[t]
           s == SockOf(t)
           w == call[t].want
           fd == call[t].fd
           c == [call[t] EXCEPT !.ret = "ok"]
<1>1. /\ p \in Tids /\ fd \in Fds /\ s \in Socks /\ SameFd(c, call[t])
      /\ Finish(t, c)
  BY Typed, ConnectTyped DEF Base, DirectInv, Judged, SameFd, Calls
<1>2. /\ w \in Dests /\ w # None /\ owner[s] = p
      /\ peer[s] = None \/ asked[s] = w
      /\ Pending(t) # NoRestore =>
            /\ tracker.inode_dest[s] = w
            /\ tracker.fd_dest[<<p, fd>>] \in {None, w}
  BY Typed DEF DestInv, WantOK, Dests, Base
<1>3. /\ peer'[s] = a /\ asked'[s] = w
      /\ \A x \in Socks : x # s => peer'[x] = peer[x] /\ asked'[x] = asked[x]
  BY <1>1, Typed DEF Base
<1>4. a # None
  <2>1. call[t].buf \in Bufs /\ w = wrote[p][call[t].buf]
    BY DEF Base, TypeInv, TaskOK, BufInv, ConnectOK
  <2>2. a = w \/ a = Local
    BY <1>1, <2>1 DEF Base, BufInv, MemOK
  <2> QED BY <1>2, <2>2, Typed DEF Base
<1>5. a = Local => Pending(t) # NoRestore
  BY LocalIfRedirected DEF DestInv
<1> HIDE DEF c, s, w
<1>6. /\ call'[t] = c \/ call'[t] = NoCall
      /\ \A u \in Tids : u # t => call'[u] = call[u] /\ pc'[u] = pc[u]
      /\ UNCHANGED <<client, tracker>>
      /\ \A u \in Tids : Alive(u) => Alive(u)'
      /\ \A u \in Tids : Pending(u)' = Pending(u)
  BY <1>1, FinishEffect
<1>7. ASSUME NEW x \in Socks PROVE OwnerOK(x)'
  <2>1. OwnerOK(x)
    BY DEF DestInv
  <2> QED BY <1>6, <2>1 DEF OwnerOK
<1>8. \A x \in Socks : Kept(x)' => Kept(x)
  <2> SUFFICES ASSUME NEW x \in Socks, Kept(x)' PROVE Kept(x)
    OBVIOUS
  <2>1. PICK f \in Fds :
           /\ owner[x] # None /\ fdt[owner[x]][f] = x
           /\ \A u \in Tids : tgid[u] = owner[x] =>
                 ~(call'[u].op = "close" /\ call'[u].fd = f)
    BY DEF Kept
  <2>2. \A u \in Tids : tgid[u] = owner[x] =>
           ~(call[u].op = "close" /\ call[u].fd = f)
    BY <1>6, <2>1
  <2> QED BY <2>1, <2>2 DEF Kept
<1>9. ASSUME NEW x \in Socks PROVE ProxOK(x)'
  <2>1. ProxOK(x)
    BY DEF DestInv
  <2>2. CASE x # s
    BY <1>3, <1>6, <1>8, <2>1, <2>2 DEF ProxOK, Proxied
  <2>3. CASE x = s /\ Proxied(s)
    <3>1. asked'[s] = asked[s] /\ peer'[s] # None
      BY <1>2, <1>3, <1>4, <2>1, <2>3 DEF ProxOK
    <3> QED BY <1>6, <1>8, <2>1, <2>3, <3>1 DEF ProxOK
  <2>4. CASE x = s /\ ~Proxied(s)
    <3> SUFFICES ASSUME Proxied(x)' PROVE ProxOK(x)'
      BY DEF ProxOK
    <3>1. Pending(t) # NoRestore
      BY <1>3, <1>5, <1>6, <2>4 DEF Proxied
    <3>2. tracker.inode_dest[s] = w /\ tracker.fd_dest[<<p, fd>>] \in {None, w}
      BY <1>2, <3>1
    <3>3. ASSUME NEW q \in Tids, NEW f \in Fds, fdt[q][f] = s,
                 tracker.fd_dest[<<q, f>>] # None
          PROVE  q = p /\ f = fd
      <4>1. TableOK(q, f) /\ TableOK(p, fd) /\ s # None
        BY <1>1, Typed DEF DestInv, Base
      <4>2. q = p
        BY <1>2, <3>3, <4>1 DEF TableOK
      <4> QED BY <1>1, <3>3, <4>1, <4>2 DEF TableOK, SockOf, s
    <3>4. \A q \in Tids, f \in Fds :
             fdt[q][f] = s => tracker.fd_dest[<<q, f>>] \in {None, w}
      BY <3>2, <3>3
    <3> QED BY <1>2, <1>3, <1>4, <1>6, <2>4, <3>2, <3>4 DEF ProxOK
  <2> QED BY <2>2, <2>3, <2>4
<1>10. \A x \in Socks : ClientOK(x)'
  BY <1>6 DEF DestInv, ClientOK, Holders
<1>11. ASSUME NEW x \in Tids, NEW f \in Fds PROVE TableOK(x, f)' /\ InodeOK(x, f)'
  <2>0. TableOK(x, f) /\ InodeOK(x, f)
    BY DEF DestInv
  <2>1. TableOK(x, f)'
    BY <1>6, <2>0 DEF TableOK
  <2>2. InodeOK(x, f)'
    BY <1>6, <2>0 DEF InodeOK
  <2> QED BY <2>1, <2>2
<1>12. ASSUME NEW u \in Tids PROVE WantOK(u)' /\ ShutOK(u)'
  <2>0. WantOK(u) /\ ShutOK(u)
    BY DEF DestInv
  <2>1. CASE u = t
    <3>1. CASE call'[t] = NoCall
      BY <2>1, <3>1, NoCallFd DEF WantOK, ShutOK
    <3>2. CASE call'[t] = c
      <4>1. SockOf(t)' = s /\ call'[t].op = "connect" /\ call'[t].want = w
            /\ call'[t].fd = fd
        BY <1>1, <3>2 DEF SockOf, SameFd, s, w
      <4> QED BY <1>2, <1>3, <1>6, <2>1, <4>1 DEF WantOK, ShutOK
    <3> QED BY <1>6, <3>1, <3>2
  <2>2. CASE u # t
    <3>1. SockOf(u)' = SockOf(u)
      BY <1>6, <2>2 DEF SockOf
    <3>2. call[u].op \in {"connect", "close"} =>
             call[u].fd \in Fds /\ tgid[u] \in Tids
             /\ SockOf(u) \in Socks \cup {None}
      BY Typed, NoCallFd DEF Base, TypeInv, TaskOK, Idle, SockOf
    <3>3. call[u].op = "connect" => SockOf(u) # s /\ SockOf(u) \in Socks
      BY <2>0, <2>2, <3>2, Apart DEF WantOK, s, Base, DirectInv, Judged
    <3>4. WantOK(u)'
      BY <1>3, <1>6, <2>0, <2>2, <3>1, <3>3 DEF WantOK
    <3>5. call[u].op = "close" /\ owner[SockOf(u)] = tgid[u] => SockOf(u) # s
      BY <2>2, <3>2, Apart DEF s
    <3>6. ShutOK(u)'
      BY <1>3, <1>6, <2>0, <2>2, <3>1, <3>2, <3>5 DEF ShutOK, Proxied
    <3> QED BY <3>4, <3>6
  <2> QED BY <2>1, <2>2
<1>13. RightDestination'
  <2> SUFFICES ASSUME NEW x \in Socks, client[x].at = "proxying"
               PROVE  client[x].dest = asked'[x]
    BY <1>6 DEF RightDestination
  <2>1. client[x].dest = asked[x] /\ ProxOK(x) /\ Proxied(x)
    BY DEF DestInv, RightDestination, Proxied
  <2> QED BY <1>2, <1>3, <2>1 DEF ProxOK
<1>14. WroteOK'
  BY DEF DestInv, WroteOK
<1> QED BY <1>7, <1>9, <1>10, <1>11, <1>12, <1>13, <1>14 DEF DestInv

(* A tid that is free belongs to no thread group and has no records.       *)
LEMMA FreeTid ==
    ASSUME Base, NEW c \in Tids, pc[c] = "none"
    PROVE  /\ tgid[c] = None /\ call[c] = NoCall /\ \A u \in Tids : tgid[u] # c
           /\ \A f \in Fds : /\ tracker.fd_dest[<<c, f>>] = None
                             /\ tracker.fd_inode[<<c, f>>] = None
<1>1. tgid[c] = None /\ call[c] = NoCall /\ c # None
  BY Typed DEF Base, TypeInv, TaskOK, Idle
<1>2. \A u \in Tids : tgid[u] # c
  BY <1>1 DEF Base, ReapInv, GroupOK
<1>3. \A f \in Fds : ~Known(<<c, f>>)
  BY <1>1 DEF Base, ReapInv
<1> QED BY <1>1, <1>2, <1>3 DEF Known

LEMMA DoCloneDest ==
    ASSUME Base, DestInv, NEW t \in Tids, pc[t] = "kernel",
           call[t].op \in {"clone", "clone3"}, NEW c \in Tids, pc[c] = "none",
           NEW q, q = (IF call[t].thread THEN tgid[t] ELSE c),
           tgid' = [tgid EXCEPT ![c] = q],
           fdt' = [fdt EXCEPT ![q] = fdt[tgid[t]]],
           wrote' = [wrote EXCEPT ![q] = wrote[tgid[t]]],
           pc' = [pc EXCEPT ![c] = "newborn", ![t] = "event"],
           call' = [call EXCEPT ![t].child = c, ![t].ret = "ok"],
           UNCHANGED <<kind, peer, asked, owner, tracerVars, proxyVars>>
    PROVE  DestInv'
<1> DEFINE p == tgid[t]
<1>1. /\ p \in Tids /\ p # None /\ c # t /\ c # None /\ p # c
      /\ tgid[c] = None /\ call[c] = NoCall /\ \A u \in Tids : tgid[u] # c
      /\ \A f \in Fds : /\ tracker.fd_dest[<<c, f>>] = None
                        /\ tracker.fd_inode[<<c, f>>] = None
  BY FreeTid, Typed DEF Base, TypeInv, TaskOK
<1>2. /\ \A u \in Tids : u # c => tgid'[u] = tgid[u]
      /\ tgid'[c] = q
      /\ \A x \in Tids : x # c => fdt'[x] = fdt[x] /\ wrote'[x] = wrote[x]
      /\ fdt'[c] \in {fdt[p], fdt[c]} /\ wrote'[c] \in {wrote[p], wrote[c]}
      /\ \A u \in Tids : u # c /\ u # t => pc'[u] = pc[u]
      /\ pc'[t] = "event" /\ pc'[c] = "newborn"
  BY <1>1, Typed DEF Base
<1>3. /\ \A u \in Tids : SameFd(call'[u], call[u])
      /\ UNCHANGED <<client, tracker, thread_states>>
  BY Typed DEF Base, Calls, SameFd, tracerVars, proxyVars
<1>4. \A u \in Tids : Alive(u) => u # c /\ Alive(u)'
  BY <1>2 DEF Alive
<1>5. ASSUME NEW s \in Socks PROVE OwnerOK(s)' /\ owner[s] # c
  <2>1. OwnerOK(s)
    BY DEF DestInv
  <2>2. owner[s] # c
    BY <1>1, <2>1 DEF OwnerOK
  <2> QED BY <1>2, <1>4, <2>1, <2>2 DEF OwnerOK
<1>6. ASSUME NEW s \in Socks PROVE ProxOK(s)'
  <2>1. ProxOK(s) /\ s # None /\ owner[s] \in Tids \cup {None}
    BY Typed DEF DestInv, Base
  <2>2. Kept(s)' => Kept(s)
    <3> SUFFICES ASSUME Kept(s)' PROVE Kept(s)
      OBVIOUS
    <3>1. PICK f \in Fds :
             /\ owner'[s] # None /\ fdt'[owner'[s]][f] = s
             /\ \A u \in Tids : tgid'[u] = owner'[s] =>
                   ~(call'[u].op = "close" /\ call'[u].fd = f)
      BY DEF Kept
    <3>2. owner'[s] = owner[s] /\ owner[s] # None /\ fdt[owner[s]][f] = s
      BY <1>2, <1>5, <2>1, <3>1
    <3>3. ASSUME NEW u \in Tids, tgid[u] = owner[s]
          PROVE  ~(call[u].op = "close" /\ call[u].fd = f)
      <4>1. tgid'[u] = owner'[s]
        BY <1>1, <1>2, <3>2, <3>3
      <4>2. SameFd(call'[u], call[u])
        BY <1>3
      <4> QED BY <3>1, <4>1, <4>2 DEF SameFd
    <3> QED BY <3>2, <3>3 DEF Kept
  <2>3. \A x \in Tids, f \in Fds : fdt'[x][f] = s =>
           x = c \/ fdt[x][f] = s
    BY <1>2
  <2> QED BY <1>1, <1>3, <2>1, <2>2, <2>3 DEF ProxOK, Proxied
<1>7. ASSUME NEW s \in Socks PROVE ClientOK(s)'
  <2>1. ClientOK(s)
    BY DEF DestInv
  <2>2. Holders(s) = {} => Holders(s)' = {}
    BY <1>1, <1>2 DEF Holders
  <2> QED BY <1>3, <2>1, <2>2 DEF ClientOK
<1>8. ASSUME NEW x \in Tids, NEW f \in Fds PROVE TableOK(x, f)' /\ InodeOK(x, f)'
  <2>0. TableOK(x, f) /\ InodeOK(x, f) /\ TableOK(p, f)
    BY <1>1 DEF DestInv
  <2>1. CASE x = c
    BY <1>1, <1>2, <1>3, <2>0, <2>1 DEF TableOK, InodeOK
  <2>2. CASE x # c
    BY <1>2, <1>3, <2>0, <2>2 DEF TableOK, InodeOK
  <2> QED BY <2>1, <2>2
<1>9. ASSUME NEW u \in Tids PROVE WantOK(u)' /\ ShutOK(u)'
  <2>0. WantOK(u) /\ ShutOK(u)
    BY DEF DestInv
  <2>1. CASE call[u].op \notin {"connect", "close"}
    BY <1>3, <2>1 DEF WantOK, ShutOK, SameFd
  <2>2. CASE call[u].op \in {"connect", "close"}
    <3>1. u # c /\ u # t /\ tgid[u] \in Tids /\ tgid[u] # c
      BY <1>1, <2>2, Typed, NoCallFd DEF Base, TypeInv, TaskOK, Idle
    <3>2. SockOf(u)' = SockOf(u)
      <4>1. tgid'[u] = tgid[u] /\ fdt'[tgid[u]] = fdt[tgid[u]]
        BY <1>2, <3>1
      <4>2. call'[u].fd = call[u].fd
        BY <1>3 DEF SameFd
      <4> QED BY <4>1, <4>2 DEF SockOf
    <3> QED BY <1>2, <1>3, <2>0, <3>1, <3>2
            DEF WantOK, ShutOK, SameFd, Proxied, Pending
  <2> QED BY <2>1, <2>2
<1>10. RightDestination'
  BY <1>3 DEF DestInv, RightDestination
<1>11. WroteOK'
  BY <1>1, <1>2 DEF DestInv, WroteOK
<1> QED BY <1>5, <1>6, <1>7, <1>8, <1>9, <1>10, <1>11 DEF DestInv

LEMMA KernelDest ==
    ASSUME Base, DestInv, NEW t \in Tids, KernelStep(t)
    PROVE  DestInv'
<1>0. UNCHANGED <<tracerVars, proxyVars>>
  BY DEF KernelStep
<1>1. Execute(t) /\ pc[t] = "kernel" /\ ~call[t].untraced
  BY DEF KernelStep, Execute, DoSocket, DoConnect, DoClose, DoClone,
         Base, PhaseInv, TracedOK
<1>2. CASE DoSocket(t)
  <2>1. call[t].op = "socket" /\ UNCHANGED <<tgid, peer, asked, wrote>>
    BY <1>2 DEF DoSocket
  <2>2. CASE /\ Finish(t, [call[t] EXCEPT !.ret = "error"])
             /\ UNCHANGED <<kind, owner, fdt>>
    BY <1>0, <1>1, <2>1, <2>2, CallFails
  <2>3. ASSUME NEW s \in Socks, NEW f \in Fds,
               kind[s] = None, LowestFree(tgid[t], f),
               kind' = [kind EXCEPT ![s] = call[t].kind],
               owner' = [owner EXCEPT ![s] = tgid[t]],
               fdt' = [fdt EXCEPT ![tgid[t]][f] = s],
               Finish(t, [call[t] EXCEPT !.fd = f, !.ret = "ok"])
        PROVE  DestInv'
    BY <1>0, <1>1, <2>1, <2>3, DoSocketDest DEF LowestFree
  <2> QED BY <1>2, <2>2, <2>3 DEF DoSocket
<1>3. CASE DoConnect(t)
  <2>1. /\ call[t].op = "connect"
        /\ UNCHANGED <<tgid, fdt, kind, owner, wrote>>
    BY <1>3 DEF DoConnect
  <2>2. CASE /\ Finish(t, [call[t] EXCEPT !.ret = "error"])
             /\ UNCHANGED <<peer, asked>>
    BY <1>0, <1>1, <2>1, <2>2, CallFails
  <2>3. CASE /\ peer' = [peer EXCEPT ![SockOf(t)] = mem[tgid[t]][call[t].buf]]
             /\ asked' = [asked EXCEPT ![SockOf(t)] = call[t].want]
             /\ Finish(t, [call[t] EXCEPT !.ret = "ok"])
    BY <1>0, <1>1, <2>1, <2>3, DoConnectDest
  <2> QED BY <1>3, <2>2, <2>3 DEF DoConnect, SockOf
<1>4. CASE DoClose(t)
  BY <1>0, <1>4, DoCloseDest
<1>5. CASE DoClone(t)
  <2>1. /\ call[t].op \in {"clone", "clone3"}
        /\ UNCHANGED <<kind, peer, asked, owner>>
    BY <1>5 DEF DoClone
  <2>2. CASE /\ Finish(t, [call[t] EXCEPT !.ret = "error"])
             /\ UNCHANGED <<tgid, fdt, wrote>>
    BY <1>0, <1>1, <2>1, <2>2, CallFails
  <2>3. ASSUME NEW c \in Tids, NEW q, q = (IF call[t].thread THEN tgid[t] ELSE c),
               pc[c] = "none",
               tgid' = [tgid EXCEPT ![c] = q],
               fdt' = [fdt EXCEPT ![q] = fdt[tgid[t]]],
               wrote' = [wrote EXCEPT ![q] = wrote[tgid[t]]],
               pc' = [pc EXCEPT ![c] = "newborn", ![t] = "event"],
               call' = [call EXCEPT ![t].child = c, ![t].ret = "ok"]
        PROVE  DestInv'
    BY <1>0, <1>1, <2>1, <2>3, DoCloneDest
  <2> QED BY <1>1, <1>5, <2>2, <2>3 DEF DoClone
<1> QED BY <1>1, <1>2, <1>3, <1>4, <1>5 DEF Execute

(* A stopped task is resumed, its destinations as they were.               *)
LEMMA ResumeDest ==
    ASSUME Base, DestInv, NEW t \in Tids, NEW st, NEW c,
           resume_tracee(t, st, c), SameDests, UNCHANGED proxyVars,
           \/ /\ pc[t] \in {"entry", "seccomp"} /\ SameFd(c, call[t])
              /\ c.op = "connect" => st.pending_connect_restore = NoRestore
           \/ pc[t] = "exit"
           \/ pc[t] \in {"event", "newborn"} /\ c = call[t] /\ st = thread_states[t]
    PROVE  DestInv'
<1> DEFINE at == ResumeAt(pc[t], c, resume_request(st))
<1>1. /\ UNCHANGED <<tgid, fdt, kind, peer, asked, owner, wrote, client>>
      /\ pc'[t] = at /\ thread_states'[t] = st
      /\ call'[t] = IF at = "user" THEN NoCall ELSE c
      /\ \A u \in Tids : u # t => /\ call'[u] = call[u] /\ pc'[u] = pc[u]
                                  /\ thread_states'[u] = thread_states[u]
  BY DEF Base, TypeInv, TypeOK, KernelTypeOK, TracerTypeOK, resume_tracee,
         proxyVars
<1>2. /\ at \notin {"none", "zombie", "event"}
      /\ pc[t] \in {"entry", "seccomp"} => at \notin {"user", "exit"}
      /\ pc[t] = "exit" => at = "user"
  BY DEF ResumeAt, AtExit, AfterEntry
<1> HIDE DEF at
<1>3. Alive(t)' /\ WroteOK' /\ \A u \in Tids : u # t => Pending(u)' = Pending(u)
  BY <1>1, <1>2 DEF Alive, DestInv, WroteOK, Pending
<1>4. WantOK(t) /\ ShutOK(t)
  BY DEF DestInv
<1>5. CASE call'[t] = NoCall
  <2>1. WantOK(t)' /\ ShutOK(t)'
    BY <1>5, NoCallFd DEF WantOK, ShutOK
  <2>2. CASE pc[t] = "exit" \/ call[t].op # "close"
    BY <1>1, <1>3, <1>4, <2>1, <2>2, DestCall DEF ShutOK
  <2>3. CASE pc[t] # "exit" /\ call[t].op = "close"
    <3>1. pc[t] # "event" /\ pc[t] # "newborn"
      BY <1>4, <2>3, NoCallFd DEF ShutOK, Base, TypeInv, TaskOK, Idle
    <3>2. SameFd(call'[t], call[t])
      BY <1>1, <1>2, <2>3, <3>1
    <3> QED BY <1>1, <1>3, <2>1, <3>2, DestCall
  <2> QED BY <2>2, <2>3
<1>6. CASE call'[t] # NoCall
  <2>1. call'[t] = c /\ pc[t] # "exit"
    BY <1>1, <1>2, <1>6
  <2>2. SameFd(c, call[t])
    BY <2>1 DEF SameFd
  <2>3. SockOf(t)' = SockOf(t)
    BY <1>1, <2>1, <2>2 DEF SockOf, SameFd
  <2>4. WantOK(t)'
    <3>1. call'[t].op = "connect" =>
             Pending(t)' = NoRestore \/ Pending(t)' = Pending(t)
      BY <1>1, <2>1 DEF Pending
    <3> QED BY <1>1, <1>4, <2>1, <2>2, <2>3, <3>1
            DEF WantOK, SameFd, SameDests
  <2>5. ShutOK(t)'
    <3>1. call[t].op = "close" => pc[t] \in {"entry", "seccomp"}
      BY <1>4, <2>1, NoCallFd DEF ShutOK, Base, TypeInv, TaskOK, Idle
    <3> QED BY <1>1, <1>2, <2>1, <2>2, <3>1 DEF ShutOK, SameFd
  <2> QED BY <1>1, <1>3, <2>1, <2>2, <2>4, <2>5, DestCall
<1> QED BY <1>5, <1>6

(* An error of run() changes nothing.                                      *)
LEMMA ErrorDest ==
    ASSUME Base, DestInv, UNCHANGED <<kernelVars, tracker, thread_states, client>>
    PROVE  DestInv'
<1>1. /\ UNCHANGED <<tgid, pc, call, fdt, kind, peer, asked, owner, wrote>>
      /\ UNCHANGED <<client, tracker, thread_states>>
  BY DEF kernelVars
<1> QED BY <1>1
        DEF DestInv, WroteOK, OwnerOK, ProxOK, ClientOK, TableOK, InodeOK,
            WantOK, ShutOK, RightDestination, Proxied, Kept, Holders, Alive,
            SockOf, Pending

LEMMA CloseEnterDest ==
    ASSUME Base, DestInv, NEW t \in Tids, pc[t] \in {"entry", "seccomp"},
           call[t].op = "close",
           Closed(tracker', tracker, t, tgid[t], call[t].fd),
           UNCHANGED <<tgid, call, fdt, kind, peer, asked, owner, wrote, client>>,
           pc'[t] \in {"seccomp", "kernel"},
           \A u \in Tids : u # t => pc'[u] = pc[u],
           \A u \in Tids : Pending(u)' = Pending(u)
    PROVE  DestInv'
<1> DEFINE p  == tgid[t]
           fd == call[t].fd
           z  == tracker.fd_inode[<<p, fd>>]
<1>1. p \in Tids /\ p # None /\ fd \in Fds
  BY Typed DEF Base, TypeInv, TaskOK
<1>2. /\ \A k \in Tids \X Fds :
            /\ tracker'.fd_dest[k] \in {None, tracker.fd_dest[k]}
            /\ tracker'.fd_inode[k] \in {None, tracker.fd_inode[k]}
      /\ \A x \in Socks : tracker'.inode_dest[x]
                            = IF x = z THEN None ELSE tracker.inode_dest[x]
  BY Typed DEF Closed, Base
<1>3. \A x \in Tids, f \in Fds : InodeOK(x, f) /\ TableOK(x, f)
  BY DEF DestInv
<1>4. z # None => owner[z] \in {p, None} /\ \A f \in Fds : fdt[p][f] = z => f = fd
  BY <1>1, <1>3 DEF InodeOK
<1> HIDE DEF z
<1>5. \A u \in Tids : Alive(u) => Alive(u)'
  BY DEF Alive
<1>6. ASSUME NEW x \in Socks PROVE OwnerOK(x)' /\ ClientOK(x)'
  <2>1. OwnerOK(x) /\ ClientOK(x)
    BY DEF DestInv
  <2> QED BY <1>5, <2>1 DEF OwnerOK, ClientOK, Holders
<1>7. ASSUME NEW x \in Socks PROVE ProxOK(x)'
  <2>1. ProxOK(x) /\ x # None
    BY Typed DEF DestInv, Base
  <2>2. Kept(x)' = Kept(x)
    BY DEF Kept
  <2>3. Kept(x) => x # z
    BY <1>1, <1>4, <2>1 DEF Kept
  <2>4. \A q \in Tids, f \in Fds : <<q, f>> \in Tids \X Fds
    OBVIOUS
  <2> QED BY <1>2, <2>1, <2>2, <2>3, <2>4 DEF ProxOK, Proxied
<1>8. ASSUME NEW x \in Tids, NEW f \in Fds PROVE TableOK(x, f)' /\ InodeOK(x, f)'
  <2>1. <<x, f>> \in Tids \X Fds
    OBVIOUS
  <2>2. TableOK(x, f)'
    BY <1>2, <1>3, <2>1 DEF TableOK
  <2>3. InodeOK(x, f)'
    BY <1>2, <1>3, <2>1 DEF InodeOK
  <2> QED BY <2>2, <2>3
<1>9. ASSUME NEW u \in Tids PROVE WantOK(u)'
  <2> SUFFICES ASSUME call[u].op = "connect" PROVE WantOK(u)'
    BY DEF WantOK
  <2>1. WantOK(u) /\ u # t
    BY DEF DestInv
  <2>2. /\ call[u].fd \in Fds /\ tgid[u] \in Tids /\ tgid[u] # None
        /\ SockOf(u) \in Socks /\ SockOf(u) # None
    BY ConnectTyped, Typed DEF Base, DirectInv, Judged
  <2>3. SockOf(u) # z
    <3>1. ASSUME SockOf(u) = z PROVE FALSE
      <4>1. tgid[u] = p
        BY <1>4, <2>1, <2>2, <3>1 DEF WantOK
      <4>2. call[u].fd = fd
        BY <1>4, <2>2, <3>1, <4>1 DEF SockOf
      <4> QED BY <2>1, <2>2, <4>1, <4>2 DEF Base, DirectInv, FdExclusive, OnFd
    <3> QED BY <3>1
  <2>4. tracker'.inode_dest[SockOf(u)] = tracker.inode_dest[SockOf(u)]
    BY <1>2, <2>2, <2>3
  <2>5. tracker'.fd_dest[<<tgid[u], call[u].fd>>]
           \in {None, tracker.fd_dest[<<tgid[u], call[u].fd>>]}
    BY <1>2, <2>2
  <2>6. SockOf(u)' = SockOf(u)
    BY DEF SockOf
  <2> QED BY <2>1, <2>4, <2>5, <2>6 DEF WantOK
<1>10. ASSUME NEW u \in Tids PROVE ShutOK(u)'
  <2>1. ShutOK(u)
    BY DEF DestInv
  <2> QED BY <2>1 DEF ShutOK, SockOf, Proxied
<1>11. RightDestination' /\ WroteOK'
  BY DEF DestInv, RightDestination, WroteOK
<1> QED BY <1>6, <1>7, <1>8, <1>9, <1>10, <1>11 DEF DestInv

LEMMA RedirectDest ==
    ASSUME Base, DestInv, NEW t \in Tids, pc[t] \in {"entry", "seccomp"},
           call[t].op = "connect",
           NEW s, s = SockOf(t), NEW w, w = call[t].want,
           NEW key, key = <<tgid[t], call[t].fd>>,
           tracker'.fd_dest = [tracker.fd_dest EXCEPT ![key] = w],
           tracker'.fd_inode = [tracker.fd_inode EXCEPT ![key] = s],
           tracker'.inode_dest = [tracker.inode_dest EXCEPT ![s] = w],
           UNCHANGED <<tgid, call, fdt, kind, peer, asked, owner, wrote, client>>,
           pc'[t] \in {"seccomp", "kernel"},
           \A u \in Tids : u # t => pc'[u] = pc[u],
           \A u \in Tids : u # t => Pending(u)' = Pending(u)
    PROVE  DestInv'
<1>1. /\ tgid[t] \in Tids /\ tgid[t] # None /\ call[t].fd \in Fds
      /\ s \in Socks /\ s # None /\ key \in Tids \X Fds
  BY ConnectTyped, Typed DEF Base, DirectInv, Judged
<1>2. w \in Dests /\ owner[s] = tgid[t] /\ (peer[s] = None \/ asked[s] = w)
  BY DEF DestInv, WantOK
<1>3. kind[s] # None /\ fdt[tgid[t]][call[t].fd] = s
  BY <1>1 DEF Base, DirectInv, Created, SockOf
<1>4. /\ tracker'.fd_dest[key] = w /\ tracker'.fd_inode[key] = s
      /\ tracker'.inode_dest[s] = w
      /\ \A k \in Tids \X Fds : k # key =>
            /\ tracker'.fd_dest[k] = tracker.fd_dest[k]
            /\ tracker'.fd_inode[k] = tracker.fd_inode[k]
      /\ \A x \in Socks : x # s => tracker'.inode_dest[x] = tracker.inode_dest[x]
  BY <1>1, Typed DEF Base
<1>5. \A x \in Tids, f \in Fds :
         /\ InodeOK(x, f) /\ TableOK(x, f) /\ <<x, f>> \in Tids \X Fds
         /\ <<x, f>> = key => x = tgid[t] /\ f = call[t].fd /\ fdt[x][f] = s
  BY <1>3 DEF DestInv
<1>6. ASSUME NEW x \in Socks PROVE OwnerOK(x)' /\ ClientOK(x)'
  <2>1. OwnerOK(x) /\ ClientOK(x)
    BY DEF DestInv
  <2>2. \A u \in Tids : Alive(u) => Alive(u)'
    BY DEF Alive
  <2> QED BY <2>1, <2>2 DEF OwnerOK, ClientOK, Holders
<1>7. ASSUME NEW x \in Socks PROVE ProxOK(x)'
  <2>1. ProxOK(x) /\ Kept(x)' = Kept(x) /\ Proxied(x)' = Proxied(x)
    BY DEF DestInv, Kept, Proxied
  <2>2. CASE x = s
    <3> SUFFICES ASSUME Proxied(x) PROVE ProxOK(x)'
      BY <2>1 DEF ProxOK
    <3>1. peer[x] # None /\ asked[x] = w
      BY <1>2, <2>1, <2>2 DEF ProxOK
    <3>2. \A q \in Tids, f \in Fds :
             fdt[q][f] = x => tracker'.fd_dest[<<q, f>>] \in {None, asked[x]}
      BY <1>4, <1>5, <2>1, <3>1 DEF ProxOK
    <3>3. w # None
      BY <1>2, Typed DEF Dests, Base
    <3> QED BY <1>4, <2>2, <3>1, <3>2, <3>3 DEF ProxOK
  <2>3. CASE x # s
    <3>1. \A q \in Tids, f \in Fds : fdt[q][f] = x =>
             tracker'.fd_dest[<<q, f>>] = tracker.fd_dest[<<q, f>>]
      BY <1>4, <1>5, <2>3
    <3> QED BY <1>4, <2>1, <2>3, <3>1 DEF ProxOK
  <2> QED BY <2>2, <2>3
<1>8. ASSUME NEW x \in Tids, NEW f \in Fds PROVE TableOK(x, f)' /\ InodeOK(x, f)'
  <2>0. InodeOK(x, f) /\ TableOK(x, f) /\ <<x, f>> \in Tids \X Fds
    BY <1>5
  <2>1. CASE <<x, f>> = key
    <3>1. x = tgid[t] /\ f = call[t].fd /\ fdt[x][f] = s
      BY <1>5, <2>1
    <3>2. \A g \in Fds : fdt[x][g] = s => g = f
      BY <1>1, <2>0, <3>1 DEF TableOK
    <3>3. TableOK(x, f)'
      BY <1>2, <3>1, <3>2 DEF TableOK
    <3>4. InodeOK(x, f)'
      BY <1>2, <1>3, <1>4, <2>1, <3>1, <3>2 DEF InodeOK
    <3> QED BY <3>3, <3>4
  <2>2. CASE <<x, f>> # key
    BY <1>4, <2>0, <2>2 DEF TableOK, InodeOK
  <2> QED BY <2>1, <2>2
<1>9. ASSUME NEW u \in Tids PROVE WantOK(u)'
  <2> SUFFICES ASSUME call[u].op = "connect" PROVE WantOK(u)'
    BY DEF WantOK
  <2>1. WantOK(u) /\ SockOf(u)' = SockOf(u)
    BY DEF DestInv, SockOf
  <2>2. CASE u = t
    BY <1>2, <1>4, <2>1, <2>2 DEF WantOK
  <2>3. CASE u # t
    <3>1. /\ call[u].fd \in Fds /\ tgid[u] \in Tids /\ SockOf(u) \in Socks
      BY ConnectTyped, Typed DEF Base, DirectInv, Judged
    <3>2. SockOf(u) # s
      BY <1>1, <1>2, <2>3, Apart
    <3>3. <<tgid[u], call[u].fd>> # key
      BY <1>5, <3>1, <3>2 DEF SockOf
    <3>4. /\ tracker'.inode_dest[SockOf(u)] = tracker.inode_dest[SockOf(u)]
          /\ tracker'.fd_dest[<<tgid[u], call[u].fd>>]
               = tracker.fd_dest[<<tgid[u], call[u].fd>>]
      BY <1>4, <3>1, <3>2, <3>3
    <3> QED BY <2>1, <2>3, <3>4 DEF WantOK
  <2> QED BY <2>2, <2>3
<1>10. ASSUME NEW u \in Tids PROVE ShutOK(u)'
  <2>1. ShutOK(u)
    BY DEF DestInv
  <2> QED BY <2>1 DEF ShutOK, SockOf, Proxied
<1>11. RightDestination' /\ WroteOK'
  BY DEF DestInv, RightDestination, WroteOK
<1> QED BY <1>6, <1>7, <1>8, <1>9, <1>10, <1>11 DEF DestInv

(* Which destinations cleanup_process takes along: those of a thread group *)
(* that has no live thread any more.                                       *)
LEMMA ForgetsTheDead ==
    ASSUME Base, NEW t \in Tids, OnExited(t)
    PROVE  /\ \A k \in Tids \X Fds :
                 /\ tracker'.fd_dest[k] \in {None, tracker.fd_dest[k]}
                 /\ tracker'.fd_inode[k] \in {None, tracker.fd_inode[k]}
           /\ \A x \in Socks :
                 \/ tracker'.inode_dest[x] = tracker.inode_dest[x]
                 \/ /\ tracker'.inode_dest[x] = None
                    /\ \E g \in Tids, f \in Fds :
                          /\ tracker.fd_inode[<<g, f>>] = x
                          /\ \A u \in Tids : Alive(u) => tgid[u] # g
<1> DEFINE proc == [tgid EXCEPT ![t] = None]
           g    == resolve_tgid(tracker, proc, t)
<1>1. /\ pc[t] = "zombie" /\ tracker' = cleanup_process(tracker, proc, t)
      /\ t = tgid[t] => Siblings(t) = {}
  BY DEF OnExited
<1>2. /\ tracker \in Tracker /\ proc \in Proc /\ tgid[t] \in Tids
      /\ \A u \in Tids : proc[u] = IF u = t THEN None ELSE tgid[u]
  BY <1>1, Typed DEF Base, TypeInv, TypeOK, TracerTypeOK, TaskOK, Proc
<1>3. g = t \/ g = tgid[t]
  BY <1>2 DEF Base, ReapInv, resolve_tgid, read_tgid_from_proc_status
<1> HIDE DEF proc
<1>4. Cleaned(tracker', tracker, proc, t, g)
  BY <1>1, <1>2, CleanupEffect
<1> HIDE DEF g
<1>5. CASE TaskForgotten(tracker', tracker, t)
  BY <1>5 DEF TaskForgotten, SameKeys
<1>6. CASE (t = g \/ proc[g] = None) /\ GroupForgotten(tracker', tracker, t, g)
  <2>1. ASSUME NEW u \in Tids, Alive(u), tgid[u] = g PROVE FALSE
    <3>1. u # t /\ tgid[g] = g /\ g \in Tids /\ g # None
      BY <1>1, <1>2, <1>3, <2>1, Typed DEF Alive, Base, ReapInv, GroupOK
    <3>2. CASE g = t
      BY <1>1, <2>1, <3>1, <3>2 DEF Siblings
    <3>3. CASE g # t
      BY <1>2, <1>6, <3>1, <3>3
    <3> QED BY <3>2, <3>3
  <2>2. \A k \in Tids \X Fds :
           /\ tracker'.fd_dest[k] \in {None, tracker.fd_dest[k]}
           /\ tracker'.fd_inode[k] \in {None, tracker.fd_inode[k]}
    BY <1>6 DEF GroupForgotten
  <2>3. ASSUME NEW x \in Socks,
               tracker'.inode_dest[x] # tracker.inode_dest[x]
        PROVE  /\ tracker'.inode_dest[x] = None
               /\ \E h \in Tids, f \in Fds :
                     /\ tracker.fd_inode[<<h, f>>] = x
                     /\ \A u \in Tids : Alive(u) => tgid[u] # h
    <3>1. /\ tracker'.inode_dest[x] = None
          /\ \E k \in Tids \X Fds : k[1] = g /\ tracker.fd_inode[k] = x
      BY <1>6, <2>3 DEF GroupForgotten
    <3>2. PICK h \in Tids, f \in Fds : h = g /\ tracker.fd_inode[<<h, f>>] = x
      BY <3>1
    <3> QED BY <2>1, <3>1, <3>2
  <2> QED BY <2>2, <2>3
<1> QED BY <1>4, <1>5, <1>6 DEF Cleaned

LEMMA OnExitedDest ==
    ASSUME Base, DestInv, NEW t \in Tids, OnExited(t), UNCHANGED proxyVars
    PROVE  DestInv'
<1>1. /\ pc[t] = "zombie" /\ call[t] = NoCall /\ tgid'[t] = None
      /\ t = tgid[t] => Siblings(t) = {}
      /\ UNCHANGED <<call, fdt, kind, peer, asked, owner, wrote, client>>
      /\ \A u \in Tids : u # t => /\ tgid'[u] = tgid[u] /\ pc'[u] = pc[u]
                                  /\ thread_states'[u] = thread_states[u]
  BY DEF OnExited, proxyVars, Base, TypeInv, TypeOK, KernelTypeOK,
         TracerTypeOK, TaskOK, Idle
<1>2. \A x \in Tids, f \in Fds :
         /\ tracker'.fd_dest[<<x, f>>] \in {None, tracker.fd_dest[<<x, f>>]}
         /\ tracker'.fd_inode[<<x, f>>] \in {None, tracker.fd_inode[<<x, f>>]}
  <2>1. \A x \in Tids, f \in Fds : <<x, f>> \in Tids \X Fds
    OBVIOUS
  <2> QED BY <2>1, ForgetsTheDead
<1>3. \A u \in Tids : Alive(u) => u # t /\ Alive(u)' /\ tgid'[u] = tgid[u]
  BY <1>1 DEF Alive
<1>4. ASSUME NEW x \in Socks, owner[x] # None
      PROVE  /\ tracker'.inode_dest[x] = tracker.inode_dest[x]
             /\ owner[x] # t
  <2>1. PICK u \in Tids : Alive(u) /\ tgid[u] = owner[x] /\ tgid[owner[x]] = owner[x]
    BY <1>4 DEF DestInv, OwnerOK
  <2>2. owner[x] # t
    BY <1>1, <1>3, <2>1 DEF Siblings
  <2>3. ASSUME NEW g \in Tids, NEW f \in Fds, tracker.fd_inode[<<g, f>>] = x,
               \A v \in Tids : Alive(v) => tgid[v] # g
        PROVE  FALSE
    <3>1. InodeOK(g, f) /\ x # None
      BY Typed DEF DestInv, Base
    <3>2. owner[x] = g
      BY <1>4, <2>3, <3>1 DEF InodeOK
    <3> QED BY <2>1, <2>3, <3>2
  <2>4. \/ tracker'.inode_dest[x] = tracker.inode_dest[x]
        \/ \E g \in Tids, f \in Fds :
              /\ tracker.fd_inode[<<g, f>>] = x
              /\ \A v \in Tids : Alive(v) => tgid[v] # g
    BY ForgetsTheDead
  <2> QED BY <2>2, <2>3, <2>4
<1>5. ASSUME NEW x \in Socks PROVE OwnerOK(x)' /\ ClientOK(x)'
  <2>1. OwnerOK(x) /\ ClientOK(x)
    BY DEF DestInv
  <2>2. OwnerOK(x)'
    BY <1>1, <1>3, <1>4, <2>1 DEF OwnerOK
  <2> QED BY <1>1, <2>1, <2>2 DEF ClientOK, Holders
<1>6. ASSUME NEW x \in Socks PROVE ProxOK(x)'
  <2>1. ProxOK(x) /\ Proxied(x)' = Proxied(x)
    BY <1>1 DEF DestInv, Proxied
  <2>2. tracker'.inode_dest[x] \in {None, tracker.inode_dest[x]}
    BY ForgetsTheDead
  <2>3. ASSUME Kept(x)'
        PROVE  Kept(x) /\ tracker'.inode_dest[x] = tracker.inode_dest[x]
    <3>1. PICK f \in Fds :
             /\ owner'[x] # None /\ fdt'[owner'[x]][f] = x
             /\ \A u \in Tids : tgid'[u] = owner'[x] =>
                   ~(call'[u].op = "close" /\ call'[u].fd = f)
      BY <2>3 DEF Kept
    <3>2. owner[x] # None /\ fdt[owner[x]][f] = x
      BY <1>1, <3>1
    <3>3. ASSUME NEW u \in Tids, tgid[u] = owner[x]
          PROVE  ~(call[u].op = "close" /\ call[u].fd = f)
      <4>1. u = t => call[u].op # "close"
        BY <1>1, NoCallFd
      <4>2. u # t => tgid'[u] = owner'[x] /\ call'[u] = call[u]
        BY <1>1, <3>3
      <4> QED BY <3>1, <4>1, <4>2
    <3> QED BY <1>4, <3>2, <3>3 DEF Kept
  <2> QED BY <1>1, <1>2, <2>1, <2>2, <2>3 DEF ProxOK
<1>7. ASSUME NEW x \in Tids, NEW f \in Fds PROVE TableOK(x, f)' /\ InodeOK(x, f)'
  <2>1. TableOK(x, f) /\ InodeOK(x, f)
    BY DEF DestInv
  <2>2. TableOK(x, f)'
    BY <1>1, <1>2, <2>1 DEF TableOK
  <2>3. InodeOK(x, f)'
    BY <1>1, <1>2, <2>1 DEF InodeOK
  <2> QED BY <2>2, <2>3
<1>8. ASSUME NEW u \in Tids PROVE WantOK(u)' /\ ShutOK(u)'
  <2>0. WantOK(u) /\ ShutOK(u)
    BY DEF DestInv
  <2>1. CASE call[u].op \notin {"connect", "close"}
    BY <1>1, <2>1 DEF WantOK, ShutOK
  <2>2. CASE call[u].op \in {"connect", "close"}
    <3>1. u # t /\ tgid[u] \in Tids /\ tgid[u] # None /\ call[u].fd \in Fds
      BY <1>1, <2>2, Typed, NoCallFd DEF Base, TypeInv, TaskOK, Idle
    <3>2. SockOf(u)' = SockOf(u) /\ Pending(u)' = Pending(u)
      BY <1>1, <3>1 DEF SockOf, Pending
    <3>3. call[u].op = "connect" =>
             tracker'.inode_dest[SockOf(u)] = tracker.inode_dest[SockOf(u)]
      <4>1. call[u].op = "connect" => SockOf(u) \in Socks
        BY ConnectTyped DEF Base, DirectInv, Judged
      <4> QED BY <1>4, <2>0, <3>1, <4>1 DEF WantOK
    <3>4. WantOK(u)'
      BY <1>1, <1>2, <2>0, <3>1, <3>2, <3>3 DEF WantOK
    <3>5. ShutOK(u)'
      BY <1>1, <2>0, <3>1, <3>2 DEF ShutOK, Proxied
    <3> QED BY <3>4, <3>5
  <2> QED BY <2>1, <2>2
<1>9. RightDestination' /\ WroteOK'
  BY <1>1 DEF DestInv, RightDestination, WroteOK
<1> QED BY <1>5, <1>6, <1>7, <1>8, <1>9 DEF DestInv

(* What a handler at an entry leaves behind: the call goes on.             *)
LEMMA EnteredEffect ==
    ASSUME TypeInv, NEW t \in Tids, pc[t] \in {"entry", "seccomp"},
           NEW st \in ThreadState, NEW c, Entered(t, st, c)
    PROVE  /\ resume_tracee(t, [st EXCEPT !.phase = "Exiting"], c)
           /\ [st EXCEPT !.phase = "Exiting"].pending_connect_restore
                = st.pending_connect_restore
           /\ UNCHANGED <<tgid, fdt, kind, peer, asked, owner, wrote>>
           /\ pc'[t] \in {"seccomp", "kernel"} /\ call'[t] = c
           /\ Pending(t)' = st.pending_connect_restore
           /\ \A u \in Tids : u # t => /\ call'[u] = call[u] /\ pc'[u] = pc[u]
                                       /\ Pending(u)' = Pending(u)
<1> DEFINE ex == [st EXCEPT !.phase = "Exiting"]
           at == ResumeAt(pc[t], c, resume_request(ex))
<1>1. resume_tracee(t, ex, c) /\ at \in {"seccomp", "kernel"}
  BY DEF Entered, ResumeAt, AfterEntry
<1>2. ex.pending_connect_restore = st.pending_connect_restore
  BY DEF ThreadState
<1>3. /\ UNCHANGED <<tgid, fdt, kind, peer, asked, owner, wrote>>
      /\ pc'[t] = at /\ thread_states'[t] = ex
      /\ call'[t] = IF at = "user" THEN NoCall ELSE c
      /\ \A u \in Tids : u # t => /\ call'[u] = call[u] /\ pc'[u] = pc[u]
                                  /\ thread_states'[u] = thread_states[u]
  BY <1>1 DEF TypeInv, TypeOK, KernelTypeOK, TracerTypeOK, resume_tracee
<1> HIDE DEF at, ex
<1> QED BY <1>1, <1>2, <1>3 DEF Pending, ex

LEMMA EnterDest ==
    ASSUME Base, DestInv, NEW t \in Tids, pc[t] \in {"entry", "seccomp"},
           handle_syscall_enter(t), UNCHANGED proxyVars
    PROVE  DestInv'
<1>1. /\ call[t] \in Calls /\ thread_states[t] \in ThreadState
      /\ SameFd(call[t], call[t]) /\ UNCHANGED client
      /\ TypeInv /\ PhaseInv /\ ReapInv /\ BufInv
      /\ Pending(t) = NoRestore
  BY NotPending
  DEF Base, TypeInv, TypeOK, KernelTypeOK, TracerTypeOK, PhaseInv, PhaseOK,
      SameFd, proxyVars
<1>2. /\ resolve_tgid(tracker, tgid, t) = tgid[t] /\ tgid[t] \in Tids
      /\ tgid[t] # None /\ tracker \in Tracker /\ tgid \in Proc
  BY <1>1, ResolveRight
<1>3. CASE return_err(t)
  BY <1>1, <1>3, ErrorDest DEF return_err
(* A handler that leaves the destinations alone.                           *)
<1>4. ASSUME NEW st \in ThreadState, NEW c, Entered(t, st, c),
             SameFd(c, call[t]), SameDests,
             c.op = "connect" => st.pending_connect_restore = NoRestore
      PROVE  DestInv'
  <2> DEFINE ex == [st EXCEPT !.phase = "Exiting"]
  <2>1. /\ resume_tracee(t, ex, c)
        /\ ex.pending_connect_restore = st.pending_connect_restore
    BY <1>1, <1>4, EnteredEffect
  <2> HIDE DEF ex
  <2> QED BY <1>4, <2>1, ResumeDest
<1>5. CASE call[t].op = "socket" /\ handle_socket_enter(t)
  <2>1. /\ tracker' = socket_enter(tracker, t, call[t].kind)
        /\ Entered(t, thread_states[t], call[t])
    BY <1>5 DEF handle_socket_enter
  <2>2. call[t].kind \in Kinds
    BY <1>5 DEF Base, DirectInv, Created
  <2>3. SameKeys(socket_enter(tracker, t, call[t].kind), tracker)
    <3>1. call[t].kind \in Kinds \cup {None}
      BY <2>2
    <3> QED BY <1>2, <3>1, SocketEnterEffect
  <2>4. SameDests
    BY <2>1, <2>3 DEF SameKeys, SameDests
  <2> QED BY <1>1, <1>4, <1>5, <2>1, <2>4
<1>6. CASE call[t].op = "close" /\ handle_close_enter(t)
  <2>1. /\ tracker' = close_enter(tracker, tgid, t, call[t].fd)
        /\ Entered(t, thread_states[t], call[t])
    BY <1>6 DEF handle_close_enter
  <2>2. call[t].fd \in Fds
    BY <1>6 DEF Base, TypeInv, TaskOK
  <2>3. Closed(tracker', tracker, t, tgid[t], call[t].fd)
    BY <1>2, <2>1, <2>2, CloseEnterEffect
  <2>4. /\ UNCHANGED <<tgid, fdt, kind, peer, asked, owner, wrote>>
        /\ pc'[t] \in {"seccomp", "kernel"} /\ call'[t] = call[t]
        /\ Pending(t)' = thread_states[t].pending_connect_restore
        /\ \A u \in Tids : u # t => /\ call'[u] = call[u] /\ pc'[u] = pc[u]
                                    /\ Pending(u)' = Pending(u)
    BY <1>1, <2>1, EnteredEffect
  <2>5. UNCHANGED call
    <3>1. call \in [Tids -> Calls] /\ call' \in [Tids -> Calls]
      BY <1>1, <2>1 DEF TypeInv, TypeOK, KernelTypeOK, Entered, resume_tracee, Calls, NoCall, Ops
    <3> QED BY <2>4, <3>1
  <2>6. \A u \in Tids : Pending(u)' = Pending(u)
    BY <1>1, <2>4 DEF Pending
  <2> QED BY <1>1, <1>6, <2>3, <2>4, <2>5, <2>6, CloseEnterDest
<1>7. CASE \/ call[t].op = "clone" /\ handle_clone_enter(t)
           \/ call[t].op = "clone3" /\ handle_clone3_enter(t)
  <2> DEFINE c == [call[t] EXCEPT !.untraced = FALSE]
  <2>1. SameFd(c, call[t])
    BY <1>1 DEF Calls, SameFd
  <2>2. return_err(t) \/ (Entered(t, thread_states[t], c) /\ UNCHANGED tracker)
    BY <1>7 DEF handle_clone_enter, handle_clone3_enter
  <2> HIDE DEF c
  <2>3. c.op # "connect"
    BY <1>7, <2>1 DEF SameFd
  <2> QED BY <1>1, <1>3, <1>4, <2>1, <2>2, <2>3 DEF SameDests
<1>8. CASE call[t].op = "other" /\ handle_other_enter(t)
  BY <1>1, <1>4, <1>8 DEF handle_other_enter, SameDests
<1>9. CASE call[t].op = "connect" /\ handle_connect_enter(t)
  <2>1. CASE ConnectPasses(t)
    <3>1. PICK st \in ThreadState : /\ st.pending_connect_restore = NoRestore
                                    /\ Entered(t, st, call[t])
      BY <2>1 DEF ConnectPasses
    <3>2. SameDests
      BY <2>1 DEF ConnectPasses, SameDests
    <3> QED BY <1>1, <1>4, <3>1, <3>2
  <2>2. CASE ConnectRedirects(t)
    <3>1. PICK st \in ThreadState : Entered(t, st, call[t])
      BY <2>2 DEF ConnectRedirects
    <3>2. /\ UNCHANGED <<tgid, fdt, kind, peer, asked, owner, wrote>>
          /\ pc'[t] \in {"seccomp", "kernel"} /\ call'[t] = call[t]
          /\ \A u \in Tids : u # t => /\ call'[u] = call[u] /\ pc'[u] = pc[u]
                                      /\ Pending(u)' = Pending(u)
      BY <1>1, <3>1, EnteredEffect
    <3>3. UNCHANGED call
      <4>1. call \in [Tids -> Calls] /\ call' \in [Tids -> Calls]
        BY <1>1, <3>1 DEF TypeInv, TypeOK, KernelTypeOK, Entered, resume_tracee, Calls, NoCall, Ops
      <4> QED BY <3>2, <4>1
    <3>4. /\ mem[tgid[t]][call[t].buf] = call[t].want /\ call[t].want # None
          /\ SockOf(t) # None
      <4>1. mem[tgid[t]][call[t].buf] = call[t].want
        BY <1>1, <1>9, DestIsWanted
      <4>2. call[t].want \in Dests
        BY <1>9 DEF DestInv, WantOK
      <4> QED BY <1>1, <1>9, <4>1, <4>2, Typed DEF Base, DirectInv, Judged, Dests
    <3>5. PICK s, w, key :
            /\ s = SockOf(t) /\ w = call[t].want
            /\ key = <<tgid[t], call[t].fd>>
      OBVIOUS
    <3>6. /\ tracker'.fd_dest = [tracker.fd_dest EXCEPT ![key] = w]
          /\ tracker'.fd_inode = [tracker.fd_inode EXCEPT ![key] = s]
          /\ tracker'.inode_dest = [tracker.inode_dest EXCEPT ![s] = w]
      BY <2>2, <3>4, <3>5 DEF ConnectRedirects, SockOf
    <3> QED BY <1>1, <1>9, <3>2, <3>3, <3>5, <3>6, RedirectDest
  <2> QED BY <1>1, <1>3, <1>9, <2>1, <2>2, ConnectEffect
<1> QED BY <1>5, <1>6, <1>7, <1>8, <1>9 DEF handle_syscall_enter

LEMMA TracerDest ==
    ASSUME Base, DestInv, NEW t \in Tids, TracerStep(t)
    PROVE  DestInv'
<1>0. UNCHANGED proxyVars /\ PhaseOK(t) /\ TypeInv /\ ReapInv
  BY DEF TracerStep, Base, PhaseInv
<1>1. CASE OnSeccompEvent(t)
  BY <1>0, <1>1, EnterDest DEF OnSeccompEvent
<1>2. CASE OnSyscallStop(t)
  <2>1. CASE pc[t] = "entry"
    BY <1>0, <1>2, <2>1, EnterDest DEF OnSyscallStop, PhaseOK
  <2>2. CASE pc[t] = "exit"
    <3>1. handle_syscall_exit(t)
      BY <1>0, <1>2, <2>2 DEF OnSyscallStop, PhaseOK
    <3>2. SameDests
      <4>1. call[t].fd \in Fds \cup {None} /\ tracker \in Tracker /\ tgid \in Proc
        BY <1>0, <2>2, ResolveRight
        DEF TypeInv, TypeOK, KernelTypeOK, Calls
      <4>2. CASE \E fd \in Fds \cup {None} : tracker' = socket_exit(tracker, tgid, t, fd)
        <5>1. PICK fd \in Fds \cup {None} :
                 tracker' = socket_exit(tracker, tgid, t, fd)
          BY <4>2
        <5>2. PICK n : n = socket_exit(tracker, tgid, t, fd)
          OBVIOUS
        <5>3. /\ n.fd_dest = tracker.fd_dest /\ n.fd_inode = tracker.fd_inode
              /\ n.inode_dest = tracker.inode_dest
          BY <4>1, <5>2, SocketExitDests
        <5> QED BY <5>1, <5>2, <5>3 DEF SameDests
      <4> QED BY <3>1, <4>1, <4>2 DEF handle_syscall_exit, SameDests
    <3>3. PICK st, c : resume_tracee(t, st, c)
      BY <3>1 DEF handle_syscall_exit
    <3> QED BY <1>0, <2>2, <3>2, <3>3, ResumeDest
  <2> QED BY <1>2, <2>1, <2>2 DEF OnSyscallStop
<1>3. CASE OnCloneEvent(t) \/ OnNewborn(t)
  <2>1. /\ resume_tracee(t, thread_states[t], call[t]) /\ SameDests
        /\ pc[t] \in {"event", "newborn"}
    BY <1>3 DEF OnCloneEvent, OnNewborn, SameDests
  <2> QED BY <1>0, <2>1, ResumeDest
<1>4. CASE OnExited(t)
  BY <1>0, <1>4, OnExitedDest
<1> QED BY <1>1, <1>2, <1>3, <1>4 DEF TracerStep, Tracer

(* Whatever way the destination of a served connection is looked up, it is *)
(* the one that was asked for; while the connection is Kept, it is found.  *)
LEMMA FoundRight ==
    ASSUME Base, DestInv, NEW s \in Socks, client[s].at = "match",
           NEW d \in Found(tracker, s)
    PROVE  d \in {None, asked[s]} /\ (d = None => ~Kept(s))
<1>1. /\ ProxOK(s) /\ ClientOK(s) /\ Proxied(s) /\ s # None
      /\ s \in Socks /\ owner[s] \in Tids \cup {None}
  BY Typed DEF DestInv, Proxied, Base
<1>2. CASE client[s].inode = None
  <2>1. d = None
    BY <1>2 DEF Found
  <2>2. ~Kept(s)
    BY <1>1, <1>2 DEF ClientOK, Holders, Kept
  <2> QED BY <2>1, <2>2
<1>3. CASE client[s].inode = s /\ tracker.inode_dest[s] # None
  BY <1>1, <1>3 DEF Found, get_by_inode, ProxOK
<1>4. CASE client[s].inode = s /\ tracker.inode_dest[s] = None
  <2>1. ~Kept(s)
    BY <1>1, <1>4 DEF ProxOK
  <2>2. CASE pid_fds_by_inode(s) = {}
    BY <1>1, <1>4, <2>1, <2>2 DEF Found, get_by_inode
  <2>3. CASE pid_fds_by_inode(s) # {}
    <3>1. PICK k \in pid_fds_by_inode(s) : d = get_by_pid_fd(tracker, k[1], k[2])
      BY <1>1, <1>4, <2>3 DEF Found, get_by_inode
    <3>2. k[1] \in Tids /\ k[2] \in Fds /\ fdt[k[1]][k[2]] = s
      BY <3>1 DEF pid_fds_by_inode
    <3> QED BY <1>1, <2>1, <3>1, <3>2 DEF ProxOK, get_by_pid_fd
  <2> QED BY <2>2, <2>3
<1> QED BY <1>1, <1>2, <1>3, <1>4 DEF ClientOK

LEMMA ProxyDest ==
    ASSUME Base, DestInv, NEW s \in Socks, ProxyStep(s)
    PROVE  DestInv'
<1>1. /\ UNCHANGED <<tgid, pc, call, fdt, kind, peer, asked, owner, wrote>>
      /\ UNCHANGED <<tracker, thread_states>>
  BY DEF ProxyStep, kernelVars, tracerVars
<1>2. /\ client[s] \in Clients /\ DOMAIN client = Socks
      /\ \A x \in Socks : client[x] \in Clients
  BY Typed DEF Base
<1>3. /\ \A x \in Socks : client'[x].at # "none" =>
                              peer[x] = Local \/ client[x].at # "none"
      /\ \A x \in Socks : /\ client'[x].inode \in {None, x}
                          /\ client'[x].at = "match" /\ client'[x].inode = None =>
                                Holders(x) = {}
      /\ \A x \in Socks : client'[x].at = "proxying" =>
                              client'[x].dest = asked[x]
  <2>0. /\ \A x \in Socks : client[x].inode \in {None, x}
        /\ \A x \in Socks : client[x].at = "match" /\ client[x].inode = None =>
                               Holders(x) = {}
        /\ \A x \in Socks : client[x].at = "proxying" => client[x].dest = asked[x]
    BY DEF DestInv, ClientOK, RightDestination
  <2>1. CASE Accept(s)
    BY <1>2, <2>0, <2>1 DEF Accept, Waiting, Clients
  <2>2. CASE FindInode(s)
    <3>1. find_inode_by_conn(s) \in {None, s}
          /\ (find_inode_by_conn(s) = None => Holders(s) = {})
      BY Typed DEF find_inode_by_conn, Base
    <3> QED BY <1>2, <2>0, <2>2, <3>1 DEF FindInode, Clients
  <2>3. CASE Match(s)
    <3>1. client[s].at = "match"
      BY <2>3 DEF Match
    <3>2. PICK d \in Found(tracker, s) :
            \/ /\ d # None
               /\ client' = [client EXCEPT ![s].at = "proxying", ![s].dest = d]
            \/ client' = [client EXCEPT ![s].at = "find", ![s].attempt = @ + 1]
            \/ client' = [client EXCEPT ![s].at = "dropped"]
      BY <2>3 DEF Match
    <3>3. d \in {None, asked[s]}
      BY <3>1, FoundRight
    <3> QED BY <1>2, <2>0, <3>1, <3>2, <3>3 DEF Clients
  <2>4. CASE AcceptFails(s)
    <3>1. \A x \in Socks : client'[x] = IF Waiting(x)
                                  THEN [client[x] EXCEPT !.at = "dropped"]
                                  ELSE client[x]
      BY <2>4 DEF AcceptFails
    <3>2. ASSUME NEW x \in Socks
          PROVE  \/ client'[x] = client[x]
                 \/ /\ peer[x] = Local /\ client'[x].at = "dropped"
                    /\ client'[x].inode = client[x].inode
      BY <1>2, <3>1 DEF Waiting, Clients
    <3> QED BY <2>0, <3>2
  <2> QED BY <2>1, <2>2, <2>3, <2>4 DEF ProxyStep, LocalProxyTask
<1>4. \A x \in Socks : Proxied(x)' => Proxied(x)
  BY <1>1, <1>3 DEF Proxied
<1>5. ASSUME NEW x \in Socks PROVE OwnerOK(x)' /\ ProxOK(x)' /\ ClientOK(x)'
  <2>1. OwnerOK(x) /\ ProxOK(x)
    BY DEF DestInv
  <2>2. OwnerOK(x)'
    BY <1>1, <2>1 DEF OwnerOK, Alive
  <2>3. ProxOK(x)'
    BY <1>1, <1>4, <2>1 DEF ProxOK, Kept
  <2>4. ClientOK(x)'
    BY <1>1, <1>3 DEF ClientOK, Holders
  <2> QED BY <2>2, <2>3, <2>4
<1>6. ASSUME NEW p \in Tids, NEW f \in Fds PROVE TableOK(p, f)' /\ InodeOK(p, f)'
  <2>1. TableOK(p, f) /\ InodeOK(p, f)
    BY DEF DestInv
  <2> QED BY <1>1, <2>1 DEF TableOK, InodeOK
<1>7. ASSUME NEW u \in Tids PROVE WantOK(u)' /\ ShutOK(u)'
  <2>1. WantOK(u) /\ ShutOK(u)
    BY DEF DestInv
  <2>2. WantOK(u)'
    BY <1>1, <2>1 DEF WantOK, SockOf, Pending
  <2>3. call[u].op = "close" => SockOf(u) \in Socks \cup {None}
    <3>1. call[u].op = "close" => tgid[u] \in Tids /\ call[u].fd \in Fds
      BY NoCallFd, Typed DEF Base, TypeInv, TaskOK, Idle
    <3> QED BY <3>1, Typed DEF SockOf, Base
  <2>4. ShutOK(u)'
    <3>1. SockOf(u)' = SockOf(u)
      BY <1>1 DEF SockOf
    <3> QED BY <1>1, <1>4, <2>1, <2>3, <3>1 DEF ShutOK
  <2> QED BY <2>2, <2>4
<1>8. RightDestination' /\ WroteOK'
  BY <1>1, <1>3 DEF RightDestination, DestInv, WroteOK
<1> QED BY <1>5, <1>6, <1>7, <1>8 DEF DestInv

LEMMA DestInit == Init => DestInv
<1> SUFFICES ASSUME Init PROVE DestInv
  OBVIOUS
<1>1. /\ \A t \in Tids : call[t] = NoCall
      /\ \A p \in Tids, f \in Fds : fdt[p][f] = None
      /\ \A p \in Tids, b \in Bufs : wrote[p][b] = None
      /\ \A s \in Socks : /\ peer[s] = None /\ owner[s] = None
                          /\ client[s] = NoClient
      /\ tracker = new
  BY DEF Init, KernelInit, TracerInit, ProxyInit, NoFds, NoMem
<1>2. \A p \in Tids, f \in Fds : tracker.fd_inode[<<p, f>>] = None
  BY <1>1 DEF new
<1>3. WroteOK
  BY <1>1, TrackerAssumption, KernelAssumption DEF WroteOK
<1>4. \A s \in Socks : /\ client[s].at = "none" /\ client[s].inode = None
                       /\ peer[s] # Local
  BY <1>1, TrackerAssumption, KernelAssumption DEF NoClient
<1>5. ASSUME NEW s \in Socks PROVE OwnerOK(s) /\ ProxOK(s) /\ ClientOK(s)
  BY <1>1, <1>4 DEF OwnerOK, ProxOK, ClientOK, Proxied
<1>6. ASSUME NEW p \in Tids, NEW f \in Fds PROVE TableOK(p, f) /\ InodeOK(p, f)
  BY <1>1, <1>2 DEF TableOK, InodeOK
<1>7. ASSUME NEW t \in Tids PROVE WantOK(t) /\ ShutOK(t)
  <2>1. call[t].op = "none"
    BY <1>1, NoCallFd
  <2> QED BY <2>1 DEF WantOK, ShutOK
<1>8. RightDestination
  BY <1>4 DEF RightDestination
<1> QED BY <1>3, <1>5, <1>6, <1>7, <1>8 DEF DestInv

LEMMA DestStep ==
    ASSUME Disciplined, OneTarget, Base, DestInv, [Next]_vars
    PROVE  DestInv'
<1>1. CASE UNCHANGED vars
  BY <1>1, ErrorDest DEF vars, tracerVars, proxyVars
<1>2. CASE \E t \in Tids : ProgramStep(t) \/ KernelStep(t) \/ TracerStep(t)
  BY <1>2, ProgramDest, KernelDest, TracerDest
<1>3. CASE \E s \in Socks : ProxyStep(s)
  BY <1>3, ProxyDest
<1> QED BY <1>1, <1>2, <1>3 DEF Next, Terminated

(* Everything that holds without OneTarget.                                *)
LEMMA BaseInvariant ==
    ASSUME Disciplined
    PROVE  Spec => []Base
<1>1. TypeInv /\ PhaseInv /\ BufInv /\ DirectInv /\ [Next]_vars => DirectInv'
  BY DirectStep
<1>2. NotShared
  BY DEF Disciplined
<1>3. Spec => [](TypeInv /\ PhaseInv /\ BufInv)
  BY <1>2, BufInvariant
<1> QED BY <1>1, <1>3, DirectInit, ReapInvariant, PTL DEF Spec, Base

LEMMA DestInvariant ==
    ASSUME Disciplined, OneTarget
    PROVE  Spec => [](Base /\ DestInv)
<1>1. Base /\ DestInv /\ [Next]_vars => DestInv'
  BY DestStep
<1> QED BY <1>1, DestInit, BaseInvariant, PTL DEF Spec

(* A connection that the local proxy serves goes where the program asked:  *)
(* the destination handle_client finds, by inode or by descriptor and at   *)
(* whichever attempt, is the one passed to the connect() that made the     *)
(* connection, whatever the program's other threads and processes open,    *)
(* close, fork, connect and leave meanwhile, in both modes, also when a    *)
(* descriptor goes unseen and when accept() fails, if the program connects *)
(* a socket to one address only and from the process that created it.      *)
THEOREM ServedAsAsked ==
    ASSUME "shareBuf" \notin Allow, "shareFd" \notin Allow,
           "forkInConnect" \notin Allow, "retarget" \notin Allow,
           "inherit" \notin Allow
    PROVE  Spec => []RightDestination
<1>1. Disciplined /\ OneTarget
  BY DEF Disciplined, NotShared, OneTarget
<1>2. DestInv => RightDestination
  BY DEF DestInv
<1> QED BY <1>1, <1>2, DestInvariant, PTL

(* The local proxy hangs up only on a connection whose owner has let go of *)
(* it or is in the close() that does: no close(), exit, fork or connect of *)
(* another process or thread ever removes the destination of a connection  *)
(* that is in use, and /proc/net/tcp never hides its inode (close_enter,   *)
(* cleanup_process and the retries of handle_client).                      *)
THEOREM KeptConnectionsAreServed ==
    ASSUME "shareBuf" \notin Allow, "shareFd" \notin Allow,
           "forkInConnect" \notin Allow, "retarget" \notin Allow,
           "inherit" \notin Allow, "acceptFails" \notin Allow
    PROVE  Spec => DropOnlyAfterClose
<1>1. Disciplined /\ OneTarget
  BY DEF Disciplined, NotShared, OneTarget
<1>2. ASSUME Base, DestInv, [Next]_vars, NEW s \in Socks,
             client[s].at # "dropped", client'[s].at = "dropped"
      PROVE  ~Kept(s)
  <2>1. PICK x \in Socks : ProxyStep(x)
    <3>1. ~UNCHANGED proxyVars
      BY <1>2 DEF proxyVars
    <3>2. ~UNCHANGED vars
      BY <3>1 DEF vars
    <3> QED BY <1>2, <3>1, <3>2
            DEF Next, ProgramStep, KernelStep, TracerStep, Terminated
  <2>2. client \in [Socks -> Clients]
    BY <1>2, Typed DEF Base
  <2>3. ~Accept(x) /\ ~FindInode(x)
    BY <1>2, <2>2 DEF Accept, FindInode, Clients
  <2>4. Match(x)
    BY <2>1, <2>3 DEF ProxyStep, LocalProxyTask, AcceptFails
  <2>5. PICK d \in Found(tracker, x) :
          \/ client' = [client EXCEPT ![x].at = "proxying", ![x].dest = d]
          \/ client' = [client EXCEPT ![x].at = "find", ![x].attempt = @ + 1]
          \/ d = None /\ client' = [client EXCEPT ![x].at = "dropped"]
    BY <2>4 DEF Match
  <2>6. d = None /\ x = s
    BY <1>2, <2>2, <2>5 DEF Clients
  <2> QED BY <1>2, <2>4, <2>6, FoundRight DEF Match
<1>3. Base /\ DestInv /\ [Next]_vars =>
         [\A s \in Socks : client[s].at # "dropped" /\ client'[s].at = "dropped" =>
                              ~Kept(s)]_vars
  BY <1>2
<1> QED BY <1>1, <1>3, DestInvariant, PTL DEF Spec, DropOnlyAfterClose
-----------------------------------------------------------------------------
(* The refinement.  The outside sees a connection change only when the     *)
(* kernel connects it or a task of the local proxy settles it.             *)

LEMMA SeenSame ==
    ASSUME UNCHANGED <<peer, asked, client>>,
           \A s \in Socks : peer[s] # None => kind'[s] = kind[s]
    PROVE  \A s \in Socks : ConnectionOf(s)' = ConnectionOf(s)
BY DEF ConnectionOf, Outcome, To

LEMMA KernelSeen ==
    ASSUME Base, NEW t \in Tids, KernelStep(t), ~DoConnect(t)
    PROVE  \A s \in Socks : ConnectionOf(s)' = ConnectionOf(s)
<1>1. UNCHANGED client /\ (DoSocket(t) \/ DoClose(t) \/ DoClone(t))
  BY DEF KernelStep, Execute, proxyVars
<1>2. UNCHANGED <<peer, asked>>
  <2>1. DoSocket(t) => UNCHANGED <<peer, asked>>
    BY DEF DoSocket
  <2>2. DoClose(t) \/ DoClone(t) => UNCHANGED <<peer, asked>>
    BY DEF DoClose, DoClone
  <2> QED BY <1>1, <2>1, <2>2
<1>3. ASSUME NEW s \in Socks, peer[s] # None PROVE kind'[s] = kind[s]
  <2>1. CASE DoSocket(t)
    <3>1. kind[s] # None
      BY <1>3 DEF Base, DirectInv, Created
    <3>2. \/ UNCHANGED kind
          \/ \E x \in Socks : /\ kind[x] = None
                              /\ kind' = [kind EXCEPT ![x] = call[t].kind]
      BY <2>1 DEF DoSocket
    <3> QED BY <3>1, <3>2, Typed DEF Base
  <2>2. CASE DoClose(t) \/ DoClone(t)
    BY <2>2 DEF DoClose, DoClone
  <2> QED BY <1>1, <2>1, <2>2
<1> QED BY <1>1, <1>2, <1>3, SeenSame

(* An AF_INET or AF_INET6 stream is connected once, to the address it was  *)
(* asked for or to the local proxy, as that address is exempt or not.      *)
LEMMA ConnectSeen ==
    ASSUME CanProbe, ~DisableIpv6, Base, DestInv, DirectInv', NEW t \in Tids,
           DoConnect(t), UNCHANGED client
    PROVE  \/ \A x \in Socks : ConnectionOf(x)' = ConnectionOf(x)
           \/ \E s \in Socks, d \in Dests :
                 /\ ConnectionOf(s) = [way |-> "none"]
                 /\ ConnectionOf(s)' = To(IF d \in ExemptDests THEN "direct"
                                          ELSE "pending", d)
                 /\ \A x \in Socks : x # s => ConnectionOf(x)' = ConnectionOf(x)
<1>0. UNCHANGED kind
  BY DEF DoConnect
<1>1. CASE UNCHANGED <<peer, asked>>
  BY <1>0, <1>1, SeenSame
<1>2. CASE ~UNCHANGED <<peer, asked>>
  <2>1. call[t].op = "connect"
    BY DEF DoConnect
  <2>2. PICK s, a, w :
          /\ s = SockOf(t) /\ w = call[t].want
          /\ s # None /\ ~(is_stream_type(kind[s]) /\ peer[s] # None)
          /\ peer' = [peer EXCEPT ![s] = a] /\ asked' = [asked EXCEPT ![s] = w]
    <3>1. \/ UNCHANGED <<peer, asked>>
          \/ /\ SockOf(t) # None
             /\ ~(is_stream_type(kind[SockOf(t)]) /\ peer[SockOf(t)] # None)
             /\ peer' = [peer EXCEPT ![SockOf(t)] = mem[tgid[t]][call[t].buf]]
             /\ asked' = [asked EXCEPT ![SockOf(t)] = call[t].want]
      BY DEF DoConnect, SockOf
    <3> QED BY <1>2, <3>1, Zenon
  <2>3. s \in Socks /\ w \in Dests
    BY <2>1, <2>2, ConnectTyped DEF Base, DestInv, WantOK
  <2>4. /\ peer'[s] = a /\ asked'[s] = w
        /\ \A x \in Socks : x # s => peer'[x] = peer[x] /\ asked'[x] = asked[x]
    BY <2>2, <2>3, Typed DEF Base
  <2>5. ASSUME NEW x \in Socks, x # s PROVE ConnectionOf(x)' = ConnectionOf(x)
    BY <1>0, <2>4, <2>5 DEF ConnectionOf, Outcome, To
  <2>6. CASE ~is_stream_inet_socket(kind[s])
    <3>1. ConnectionOf(s)' = ConnectionOf(s)
      BY <1>0, <2>6 DEF ConnectionOf
    <3> QED BY <2>5, <3>1
  <2>7. CASE is_stream_inet_socket(kind[s])
    <3>1. peer[s] = None /\ ConnectionOf(s) = [way |-> "none"]
      BY <2>2, <2>7 DEF is_stream_inet_socket, ConnectionOf
    <3>2. CASE a = None
      <4>1. ConnectionOf(s)' = ConnectionOf(s)
        BY <2>4, <3>1, <3>2 DEF ConnectionOf
      <4> QED BY <2>5, <4>1
    <3>3. CASE a # None
      <4>1. IF Exempt(w) THEN peer'[s] = w ELSE peer'[s] = Local
        BY <1>0, <2>3, <2>4, <2>7, <3>3
        DEF DirectInv, DirectWhenSeen, DirectOnlyIfExempt
      <4>2. client'[s].at = "none"
        <5>1. ProxOK(s)
          BY <2>3 DEF DestInv
        <5> QED BY <3>1, <5>1 DEF ProxOK, Proxied
      <4>3. w # Local /\ w # None /\ Local # None
        BY <2>3, Typed DEF Dests, Base
      <4>4. CASE Exempt(w)
        <5>1. ConnectionOf(s)' = To("direct", w)
          BY <1>0, <2>4, <2>7, <4>1, <4>3, <4>4 DEF ConnectionOf, To
        <5>2. w \in ExemptDests
          BY <2>3, <4>4 DEF ExemptDests
        <5> QED BY <2>3, <2>5, <3>1, <5>1, <5>2
      <4>5. CASE ~Exempt(w)
        <5>1. ConnectionOf(s)' = To("pending", w)
          BY <1>0, <2>4, <2>7, <4>1, <4>2, <4>3, <4>5
          DEF ConnectionOf, Outcome, To
        <5>2. w \notin ExemptDests
          BY <4>5 DEF ExemptDests
        <5> QED BY <2>3, <2>5, <3>1, <5>1, <5>2
      <4> QED BY <4>4, <4>5
    <3> QED BY <3>2, <3>3
  <2> QED BY <2>6, <2>7
<1> QED BY <1>1, <1>2

LEMMA ProxySeen ==
    ASSUME "acceptFails" \notin Allow, Base, DestInv, NEW s \in Socks,
           ProxyStep(s)
    PROVE  /\ \A x \in Socks : x # s => ConnectionOf(x)' = ConnectionOf(x)
           /\ \/ ConnectionOf(s)' = ConnectionOf(s)
              \/ /\ ConnectionOf(s) = To("pending", asked[s])
                 /\ ConnectionOf(s)' \in {To("carried", asked[s]),
                                          To("lost", asked[s])}
<1>1. /\ UNCHANGED <<peer, asked, kind>> /\ client \in [Socks -> Clients]
      /\ Accept(s) \/ FindInode(s) \/ Match(s)
  BY Typed
  DEF Base, ProxyStep, LocalProxyTask, AcceptFails, kernelVars, tracerVars
<1>2. \A x \in Socks : x # s => client'[x] = client[x]
  BY <1>1 DEF Accept, FindInode, Match
<1>3. ASSUME NEW x \in Socks, x # s PROVE ConnectionOf(x)' = ConnectionOf(x)
  BY <1>1, <1>2, <1>3 DEF ConnectionOf, Outcome, To
<1>4. CASE Accept(s) \/ FindInode(s)
  <2>1. /\ client[s].at \notin {"proxying", "dropped"}
        /\ client'[s].at \notin {"proxying", "dropped"}
    BY <1>1, <1>4 DEF Accept, FindInode, Waiting, Clients
  <2>2. ConnectionOf(s)' = ConnectionOf(s)
    BY <1>1, <2>1 DEF ConnectionOf, Outcome, To
  <2> QED BY <1>3, <2>2
<1>5. CASE Match(s)
  <2>1. client[s].at = "match"
    BY <1>5 DEF Match
  <2>2. PICK d \in Found(tracker, s) :
          \/ /\ d # None
             /\ client' = [client EXCEPT ![s].at = "proxying", ![s].dest = d]
          \/ client' = [client EXCEPT ![s].at = "find", ![s].attempt = @ + 1]
          \/ client' = [client EXCEPT ![s].at = "dropped"]
    BY <1>5 DEF Match
  <2>3. d \in {None, asked[s]}
    BY <2>1, FoundRight
  <2>4. \/ client'[s].at = "proxying" /\ client'[s].dest = asked[s]
        \/ client'[s].at = "find"
        \/ client'[s].at = "dropped"
    BY <1>1, <2>2, <2>3 DEF Clients
  <2>5. CASE peer[s] # Local \/ ~is_stream_inet_socket(kind[s])
    <3>1. ConnectionOf(s)' = ConnectionOf(s)
      BY <1>1, <2>5 DEF ConnectionOf
    <3> QED BY <1>3, <3>1
  <2>6. CASE peer[s] = Local /\ is_stream_inet_socket(kind[s])
    <3>0. peer[s] # None
      BY <2>6, Typed DEF Base
    <3>1. ConnectionOf(s) = To("pending", asked[s])
      BY <2>1, <2>6, <3>0 DEF ConnectionOf, Outcome
    <3>2. ConnectionOf(s)' \in {To("carried", asked[s]), To("lost", asked[s]),
                                To("pending", asked[s])}
      BY <1>1, <2>4, <2>6, <3>0 DEF ConnectionOf, Outcome, To
    <3> QED BY <1>3, <3>1, <3>2
  <2> QED BY <2>5, <2>6
<1> QED BY <1>1, <1>4, <1>5

LEMMA RefinementStep ==
    ASSUME Disciplined, OneTarget, "acceptFails" \notin Allow,
           CanProbe, ~DisableIpv6, Base, DestInv, [Next]_vars
    PROVE  [TC!Next]_[s \in Socks |-> ConnectionOf(s)]
<1> DEFINE conn == [s \in Socks |-> ConnectionOf(s)]
<1>0. \A s \in Socks : conn[s] = ConnectionOf(s) /\ conn'[s] = ConnectionOf(s)'
  OBVIOUS
<1>1. CASE \A s \in Socks : ConnectionOf(s)' = ConnectionOf(s)
  <2>1. conn' = conn
    BY <1>1
  <2> QED BY <2>1
(* One connection changes: it is made, carried or lost.                    *)
<1>2. ASSUME NEW s \in Socks, NEW new_conn, ConnectionOf(s)' = new_conn,
             \A x \in Socks : x # s => ConnectionOf(x)' = ConnectionOf(x)
      PROVE  conn' = [conn EXCEPT ![s] = new_conn]
  BY <1>2
<1>3. ASSUME NEW t \in Tids, DoConnect(t), KernelStep(t)
      PROVE  [TC!Next]_conn
  <2>1. DirectInv' /\ UNCHANGED client
    BY <1>3, DirectStep DEF Base, KernelStep, proxyVars
  <2>2. CASE \A x \in Socks : ConnectionOf(x)' = ConnectionOf(x)
    BY <1>1, <2>2
  <2>3. ASSUME NEW s \in Socks, NEW d \in Dests,
               ConnectionOf(s) = [way |-> "none"],
               ConnectionOf(s)' = To(IF d \in ExemptDests THEN "direct"
                                     ELSE "pending", d),
               \A x \in Socks : x # s => ConnectionOf(x)' = ConnectionOf(x)
        PROVE  TC!Next
    <3>1. conn[s] = TC!NoConn
      BY <2>3 DEF TC!NoConn
    <3>2. conn' = [conn EXCEPT ![s] =
                      TC!To(IF d \in ExemptDests THEN "direct" ELSE "pending", d)]
      BY <1>2, <2>3 DEF TC!To, To
    <3>3. TC!Connect(s, d)
      BY <3>1, <3>2 DEF TC!Connect
    <3> QED BY <3>3 DEF TC!Next
  <2> QED BY <1>3, <2>1, <2>2, <2>3, ConnectSeen
<1>4. ASSUME NEW s \in Socks, ProxyStep(s)
      PROVE  [TC!Next]_conn
  <2>1. CASE ConnectionOf(s)' = ConnectionOf(s)
    BY <1>1, <1>4, <2>1, ProxySeen
  <2>2. ASSUME ConnectionOf(s) = To("pending", asked[s]), NEW w,
               w \in {"carried", "lost"}, ConnectionOf(s)' = To(w, asked[s]),
               \A x \in Socks : x # s => ConnectionOf(x)' = ConnectionOf(x)
        PROVE  TC!Next
    <3>1. conn[s].way = "pending" /\ conn[s].dest = asked[s]
      BY <2>2 DEF To
    <3>2. conn' = [conn EXCEPT ![s] = TC!To(w, conn[s].dest)]
      BY <1>2, <2>2, <3>1 DEF TC!To, To
    <3>3. TC!Carry(s) \/ TC!Lose(s)
      BY <2>2, <3>1, <3>2 DEF TC!Carry, TC!Lose
    <3> QED BY <3>3 DEF TC!Next
  <2> QED BY <1>4, <2>1, <2>2, ProxySeen
<1>5. CASE \E t \in Tids : KernelStep(t)
  BY <1>1, <1>3, <1>5, KernelSeen
<1>6. ASSUME NEW t \in Tids, ProgramStep(t) \/ TracerStep(t)
      PROVE  UNCHANGED <<peer, asked, client, kind>>
  <2>1. CASE ProgramStep(t)
    BY <2>1
    DEF ProgramStep, Program, StoreSockaddr, CallSocket, CallConnect,
        CallClose, CallClone, CallOther, Exit, Trap, proxyVars
  <2>2. CASE TracerStep(t)
    <3>1. \/ return_err(t) \/ (\E st, c : resume_tracee(t, st, c))
          \/ OnExited(t)
      BY <2>2, EnterShape
      DEF TracerStep, Tracer, OnSeccompEvent, OnSyscallStop, OnCloneEvent,
          OnNewborn, handle_syscall_exit, Base
    <3> QED BY <2>2, <3>1
            DEF TracerStep, return_err, resume_tracee, OnExited, kernelVars,
                proxyVars
  <2> QED BY <1>6, <2>1, <2>2
<1>7. CASE UNCHANGED vars
  BY <1>1, <1>7, SeenSame DEF vars, kernelVars, proxyVars
<1> QED BY <1>1, <1>4, <1>5, <1>6, <1>7, SeenSame DEF Next, Terminated

(* proxec is a transparent proxy: seen from outside, every step of the     *)
(* program, the kernel, the tracer and the local proxy's tasks is one of   *)
(* connect, carry and lose of TransparentConnect, or nothing.  A TCP       *)
(* connection is made directly exactly when its destination is exempt, is  *)
(* otherwise carried to the destination the program asked for or lost, and *)
(* never changes its way, its destination or its outcome (the handlers,    *)
(* SocketTracker and handle_client together).                              *)
THEOREM TransparentProxy ==
    ASSUME "shareBuf" \notin Allow, "shareFd" \notin Allow,
           "forkInConnect" \notin Allow, "retarget" \notin Allow,
           "inherit" \notin Allow, "acceptFails" \notin Allow,
           CanProbe, ~DisableIpv6
    PROVE  Spec => Implements
<1>1. Disciplined /\ OneTarget
  BY DEF Disciplined, NotShared, OneTarget
<1>2. Init => TC!Init
  <2> SUFFICES ASSUME Init PROVE TC!Init
    OBVIOUS
  <2>1. \A s \in Socks : peer[s] = None
    BY DEF Init, KernelInit
  <2>2. \A s \in Socks : ConnectionOf(s) = [way |-> "none"]
    BY <2>1 DEF ConnectionOf
  <2> QED BY <2>2 DEF TC!Init, TC!NoConn
<1>3. Base /\ DestInv /\ [Next]_vars => [TC!Next]_[s \in Socks |-> ConnectionOf(s)]
  BY <1>1, RefinementStep
<1> QED BY <1>1, <1>2, <1>3, DestInvariant, PTL DEF Spec, Implements, TC!Spec
=============================================================================
