--------------------------- MODULE RedirectProofs ---------------------------
(***************************************************************************)
(* The main promise of proxec: no TCP connection of the program leaves the *)
(* machine around the proxy (DirectOnlyIfExempt), for every number of      *)
(* threads, processes, descriptors, sockets and addresses, in both tracing *)
(* modes.  The kernel must grant pidfd_getfd, IPv6 must not be disabled,   *)
(* and the program must not share a sockaddr or a descriptor between two   *)
(* calls at a time, nor fork during a connect().  The tracer decides at    *)
(* the entry, the kernel reads the buffer and the descriptor later: the    *)
(* invariant carries the decision (Judged) from one to the other.          *)
(***************************************************************************)
EXTENDS TaskProofs

(***************************************************************************)
(* The program's socket addresses survive the redirection: BufferRestored, *)
(* for every number of threads, processes, sockets and buffers, of a       *)
(* program that does not pass one sockaddr to two connects at a time and   *)
(* does not fork while a sibling thread connects.  Both conditions are     *)
(* needed.  BufferRestored is not inductive: what the tracer writes back   *)
(* must be what the program stored (ConnectOK), and no other task may use  *)
(* the buffer meanwhile (BufExclusive, GroupOK).                           *)
(***************************************************************************)

Pending(t) == thread_states[t].pending_connect_restore
Redirected(t, p, b) == tgid[t] = p /\ InConnect(t, b) /\ Pending(t) # NoRestore

BufExclusive ==
    \A t, u \in Tids :
        t # u /\ tgid[t] # None /\ tgid[u] = tgid[t] /\ call[t].op = "connect" =>
            ~InConnect(u, call[t].buf) /\ ~InFork(u)

ConnectOK(t) ==
    /\ call[t].op = "connect" =>
          call[t].want = wrote[tgid[t]][call[t].buf]
    /\ Pending(t) # NoRestore =>
          /\ thread_states[t].phase = "Exiting"
          /\ call[t].op = "connect"
          /\ Pending(t) = [addr_ptr |-> call[t].buf, dest |-> call[t].want]

MemOK ==
    \A p \in Tids, b \in Bufs :
        /\ (\A t \in Tids : ~Redirected(t, p, b)) => mem[p][b] = wrote[p][b]
        /\ (\E t \in Tids : Redirected(t, p, b)) => mem[p][b] = Local

BufInv == GroupOK /\ BufExclusive /\ (\A t \in Tids : ConnectOK(t)) /\ MemOK

(* The parts of a call that BufInv looks at.                               *)
SameCall(c, d) ==
    /\ c.op = d.op /\ c.buf = d.buf /\ c.want = d.want
    /\ c.thread = d.thread

NotShared == "shareBuf" \notin Allow /\ "forkInConnect" \notin Allow

(* A step that changes only what BufInv does not look at.                  *)
LEMMA BufFrame ==
    ASSUME TypeInv, BufInv,
           UNCHANGED <<tgid, mem, wrote>>,
           \A u \in Tids : SameCall(call'[u], call[u]),
           \A u \in Tids : thread_states'[u] = thread_states[u]
    PROVE  BufInv'
<1> USE DEF SameCall
<1>1. GroupOK'
  BY DEF BufInv, GroupOK
<1>2. BufExclusive'
  BY DEF BufInv, BufExclusive, InConnect, InFork
<1>3. \A t \in Tids : ConnectOK(t)'
  BY DEF BufInv, ConnectOK, Pending
<1>4. MemOK'
  BY DEF BufInv, MemOK, Redirected, InConnect, Pending
<1> QED BY <1>1, <1>2, <1>3, <1>4 DEF BufInv

(* One task changes its call, and no restore is pending for it.            *)
LEMMA BufCall ==
    ASSUME TypeInv, BufInv, NEW t \in Tids, NEW c,
           Pending(t) = NoRestore,
           UNCHANGED <<tgid, mem, wrote>>,
           call'[t] = c,
           \A u \in Tids : u # t => call'[u] = call[u],
           \A u \in Tids : thread_states'[u] = thread_states[u],
           c.op = "connect" =>
              /\ c.want = wrote[tgid[t]][c.buf]
              /\ \A u \in Siblings(t) : ~InConnect(u, c.buf) /\ ~InFork(u),
           c.op \in {"clone", "clone3"} /\ ~c.thread =>
              \A u \in Siblings(t) : call[u].op # "connect"
    PROVE  BufInv'
<1>1. GroupOK'
  BY DEF BufInv, GroupOK
<1>2. BufExclusive'
  BY DEF BufInv, BufExclusive, InConnect, InFork, Siblings
<1>3. \A u \in Tids : ConnectOK(u)'
  BY DEF BufInv, ConnectOK, Pending
<1>4. \A u \in Tids, p \in Tids, b \in Bufs :
         Redirected(u, p, b)' <=> Redirected(u, p, b)
  BY DEF Redirected, InConnect, Pending
<1>5. MemOK'
  BY <1>4 DEF BufInv, MemOK
<1> QED BY <1>1, <1>2, <1>3, <1>5 DEF BufInv

(* Outside a handled call no restore is pending.                           *)
LEMMA NotPending ==
    ASSUME BufInv, NEW t \in Tids, thread_states[t].phase # "Exiting"
    PROVE  Pending(t) = NoRestore
BY DEF BufInv, ConnectOK

LEMMA TrapBuf ==
    ASSUME TypeInv, PhaseInv, BufInv, NEW t \in Tids, NEW c \in Calls,
           Trap(t, c), UNCHANGED <<mem, wrote, tracerVars>>,
           c.op = "connect" =>
              /\ c.want = wrote[tgid[t]][c.buf]
              /\ \A u \in Siblings(t) : ~InConnect(u, c.buf) /\ ~InFork(u),
           c.op \in {"clone", "clone3"} /\ ~c.thread =>
              \A u \in Siblings(t) : call[u].op # "connect"
    PROVE  BufInv'
<1>1. Pending(t) = NoRestore
  BY NotPending DEF Trap, PhaseInv, PhaseOK, Idle
<1>2. /\ call'[t] = c /\ UNCHANGED <<tgid, mem, wrote, thread_states>>
      /\ \A u \in Tids : u # t => call'[u] = call[u]
  BY DEF Trap, TypeInv, TypeOK, KernelTypeOK, tracerVars
<1> QED BY <1>1, <1>2, BufCall

LEMMA FinishBuf ==
    ASSUME TypeInv, PhaseInv, BufInv, NEW t \in Tids, NEW c \in Calls,
           Finish(t, c), pc[t] = "kernel", SameCall(c, call[t]),
           UNCHANGED <<tgid, mem, wrote, tracerVars>>
    PROVE  BufInv'
<1>1. /\ UNCHANGED <<tgid, mem, wrote, thread_states>>
      /\ call'[t] = IF how[t] = "syscall" THEN c ELSE NoCall
      /\ \A u \in Tids : u # t => call'[u] = call[u]
  BY DEF Finish, TypeInv, TypeOK, KernelTypeOK, tracerVars
<1>2. CASE how[t] = "syscall"
  BY <1>1, <1>2, BufFrame DEF SameCall
<1>3. CASE how[t] # "syscall"
  <2>1. Pending(t) = NoRestore
    BY <1>3, NotPending DEF PhaseInv, PhaseOK
  <2> QED BY <1>1, <1>3, <2>1, NoCallTraced, BufCall
<1> QED BY <1>2, <1>3

LEMMA ProgramBuf ==
    ASSUME NotShared, TypeInv, PhaseInv, BufInv, NEW t \in Tids, ProgramStep(t)
    PROVE  BufInv'
<1>0. UNCHANGED tracerVars
  BY DEF ProgramStep
<1>1. ASSUME NEW b \in Bufs, NEW a \in Dests, StoreSockaddr(t, b, a)
      PROVE  BufInv'
  <2> DEFINE g == tgid[t]
  <2>1. /\ g \in Tids /\ call[t] = NoCall
        /\ \A u \in Tids : tgid[u] = g => ~InConnect(u, b)
    BY <1>1, NoCallTraced
    DEF StoreSockaddr, TypeInv, TypeOK, KernelTypeOK, TaskOK, Idle, InConnect,
        Siblings
  <2>2. /\ UNCHANGED <<tgid, call, thread_states>>
        /\ mem'[g][b] = a /\ wrote'[g][b] = a
        /\ \A p \in Tids, x \in Bufs : ~(p = g /\ x = b) =>
              mem'[p][x] = mem[p][x] /\ wrote'[p][x] = wrote[p][x]
    BY <1>0, <1>1, <2>1
    DEF StoreSockaddr, TypeInv, TypeOK, KernelTypeOK, tracerVars
  <2>3. GroupOK' /\ BufExclusive'
    BY <2>2 DEF BufInv, GroupOK, BufExclusive, InConnect, InFork
  <2>4. ASSUME NEW u \in Tids PROVE ConnectOK(u)'
    <3>1. call[u].op = "connect" =>
            /\ call[u].buf \in Bufs /\ tgid[u] \in Tids
            /\ ~(tgid[u] = g /\ call[u].buf = b)
      BY <2>1, NoCallTraced
      DEF TypeInv, TypeOK, KernelTypeOK, TaskOK, Idle, InConnect
    <3> QED BY <2>2, <3>1 DEF BufInv, ConnectOK, Pending
  <2>5. MemOK'
    BY <2>1, <2>2 DEF BufInv, MemOK, Redirected, InConnect, Pending
  <2> QED BY <2>3, <2>4, <2>5 DEF BufInv
<1>2. ASSUME NEW k \in Kinds, CallSocket(t, k)
      PROVE  BufInv'
  <2> DEFINE c == [NoCall EXCEPT !.op = "socket", !.kind = k]
  <2>1. c \in Calls /\ c.op = "socket"
    BY DEF NoCall, Calls, Ops
  <2> QED BY <1>0, <1>2, <2>1, TrapBuf DEF CallSocket
<1>3. ASSUME NEW fd \in Fds, NEW b \in Bufs, CallConnect(t, fd, b)
      PROVE  BufInv'
  <2>1. PICK v \in BOOLEAN :
          Trap(t, [[NoCall EXCEPT !.op = "connect", !.fd = fd, !.buf = b,
                        !.want = wrote[tgid[t]][b]] EXCEPT !.valid = v])
    BY <1>3 DEF CallConnect
  <2> DEFINE c == [[NoCall EXCEPT !.op = "connect", !.fd = fd, !.buf = b,
                        !.want = wrote[tgid[t]][b]] EXCEPT !.valid = v]
  <2>2. wrote[tgid[t]][b] \in Addrs \cup {None}
    <3>1. tgid[t] \in Tids
      BY <1>3 DEF CallConnect, TypeInv, TypeOK, KernelTypeOK, TaskOK
    <3> QED BY <3>1 DEF TypeInv, TypeOK, KernelTypeOK
  <2>3. /\ c \in Calls /\ c.op = "connect" /\ c.buf = b
        /\ c.want = wrote[tgid[t]][b]
    BY <2>2 DEF NoCall, Calls, Ops
  <2>4. /\ UNCHANGED <<mem, wrote>>
        /\ \A u \in Siblings(t) : ~InConnect(u, b) /\ ~InFork(u)
    BY <1>3 DEF CallConnect, NotShared
  <2> HIDE DEF c
  <2> QED BY <1>0, <2>1, <2>3, <2>4, TrapBuf DEF c
<1>4. ASSUME NEW fd \in Fds, CallClose(t, fd)
      PROVE  BufInv'
  <2> DEFINE c == [NoCall EXCEPT !.op = "close", !.fd = fd]
  <2>1. c \in Calls /\ c.op = "close"
    BY DEF NoCall, Calls, Ops
  <2> QED BY <1>0, <1>4, <2>1, TrapBuf DEF CallClose
<1>5. ASSUME NEW k \in Clones, CallClone(t, k)
      PROVE  BufInv'
  <2>1. PICK v \in BOOLEAN :
          Trap(t, [NoCall EXCEPT !.op = k.op, !.thread = k.thread,
                                 !.untraced = k.untraced, !.valid = v])
    BY <1>5 DEF CallClone
  <2> DEFINE c == [NoCall EXCEPT !.op = k.op, !.thread = k.thread,
                                 !.untraced = k.untraced, !.valid = v]
  <2>2. k \in [op : {"clone", "clone3"}, thread : BOOLEAN, untraced : BOOLEAN]
    BY KernelAssumption
  <2>3. c \in Calls /\ c.op \in {"clone", "clone3"} /\ c.thread = k.thread
    BY <2>2 DEF NoCall, Calls, Ops
  <2>4. /\ UNCHANGED <<mem, wrote>>
        /\ k.thread \/ \A u \in Siblings(t) : call[u].op # "connect"
    BY <1>5 DEF CallClone, NotShared
  <2> HIDE DEF c
  <2> QED BY <1>0, <2>1, <2>3, <2>4, TrapBuf DEF c
<1>6. ASSUME NEW fd \in Fds \cup {None}, CallOther(t, fd)
      PROVE  BufInv'
  <2> DEFINE c == [NoCall EXCEPT !.op = "other", !.fd = fd]
  <2>1. c \in Calls /\ c.op = "other"
    BY DEF NoCall, Calls, Ops
  <2> QED BY <1>0, <1>6, <2>1, TrapBuf DEF CallOther
<1>7. CASE Exit(t)
  <2> DEFINE g == tgid[t]
             last == \A u \in Siblings(t) : pc[u] = "zombie"
  <2>1. /\ g \in Tids /\ call[t] = NoCall
        /\ UNCHANGED <<tgid, call, thread_states>>
    BY <1>0, <1>7
    DEF Exit, TypeInv, TypeOK, KernelTypeOK, TaskOK, Idle, tracerVars
  <2>2. CASE ~last
    <3>1. mem' = mem /\ wrote' = wrote
      BY <1>7, <2>2 DEF Exit, TypeInv, TypeOK, KernelTypeOK
    <3> QED BY <2>1, <3>1, BufFrame DEF SameCall
  <2>3. CASE last
    <3>1. \A u \in Tids : tgid[u] = g => call[u] = NoCall
      BY <2>1, <2>3 DEF Siblings, TypeInv, TaskOK, Idle
    <3>2. /\ \A b \in Bufs : mem'[g][b] = wrote'[g][b]
          /\ \A p \in Tids : p # g => mem'[p] = mem[p] /\ wrote'[p] = wrote[p]
      BY <1>7, <2>1, <2>3 DEF Exit, TypeInv, TypeOK, KernelTypeOK
    <3>3. GroupOK' /\ BufExclusive'
      BY <2>1 DEF BufInv, GroupOK, BufExclusive, InConnect, InFork
    <3>4. ASSUME NEW u \in Tids PROVE ConnectOK(u)'
      <4>1. call[u].op = "connect" => tgid[u] \in Tids /\ tgid[u] # g
        BY <3>1, NoCallTraced DEF TypeInv, TypeOK, KernelTypeOK, TaskOK, Idle
      <4> QED BY <2>1, <3>2, <4>1 DEF BufInv, ConnectOK, Pending
    <3>5. MemOK'
      BY <2>1, <3>1, <3>2, NoCallTraced
      DEF BufInv, MemOK, Redirected, InConnect, Pending
    <3> QED BY <3>3, <3>4, <3>5 DEF BufInv
  <2> QED BY <2>2, <2>3
<1> QED BY <1>1, <1>2, <1>3, <1>4, <1>5, <1>6, <1>7 DEF ProgramStep, Program

LEMMA KernelBuf ==
    ASSUME TypeInv, PhaseInv, BufInv, NEW t \in Tids, KernelStep(t)
    PROVE  BufInv'
<1>0. UNCHANGED tracerVars
  BY DEF KernelStep
<1>1. Execute(t) /\ pc[t] = "kernel"
  BY DEF KernelStep, Execute, DoSocket, DoConnect, DoClose, DoClone
<1>2. call[t] \in Calls /\ tgid[t] \in Tids /\ ~call[t].untraced
  BY <1>1 DEF TypeInv, TypeOK, KernelTypeOK, TaskOK, PhaseInv, TracedOK
<1>3. ASSUME NEW c, SameCall(c, call[t]), c \in Calls, Finish(t, c),
             UNCHANGED <<tgid, mem, wrote>>
      PROVE  BufInv'
  BY <1>0, <1>1, <1>3, FinishBuf
<1>4. \A r \in {"ok", "error"} :
         /\ [call[t] EXCEPT !.ret = r] \in Calls
         /\ SameCall([call[t] EXCEPT !.ret = r], call[t])
  BY <1>2 DEF Calls, SameCall
<1>5. CASE DoSocket(t)
  <2>1. \A f \in Fds :
          /\ [call[t] EXCEPT !.fd = f, !.ret = "ok"] \in Calls
          /\ SameCall([call[t] EXCEPT !.fd = f, !.ret = "ok"], call[t])
    BY <1>2 DEF Calls, SameCall
  <2>2. /\ UNCHANGED <<tgid, mem, wrote>>
        /\ \/ \E f \in Fds : Finish(t, [call[t] EXCEPT !.fd = f, !.ret = "ok"])
           \/ Finish(t, [call[t] EXCEPT !.ret = "error"])
    BY <1>5 DEF DoSocket
  <2> QED BY <1>3, <1>4, <2>1, <2>2
<1>6. CASE DoConnect(t) \/ DoClose(t)
  <2>1. /\ UNCHANGED <<tgid, mem, wrote>>
        /\ \E r \in {"ok", "error"} : Finish(t, [call[t] EXCEPT !.ret = r])
    BY <1>6 DEF DoConnect, DoClose
  <2> QED BY <1>3, <1>4, <2>1
<1>7. CASE DoClone(t)
  <2>1. CASE /\ Finish(t, [call[t] EXCEPT !.ret = "error"])
             /\ UNCHANGED <<tgid, mem, wrote>>
    BY <1>3, <1>4, <2>1
  <2>2. ASSUME NEW c \in Tids, pc[c] = "none", NEW q \in Tids,
               q = IF call[t].thread THEN tgid[t] ELSE c,
               tgid' = [tgid EXCEPT ![c] = q],
               mem' = [mem EXCEPT ![q] = mem[tgid[t]]],
               wrote' = [wrote EXCEPT ![q] = wrote[tgid[t]]],
               call' = [call EXCEPT ![t].child = c, ![t].ret = "ok"]
        PROVE  BufInv'
    <3> DEFINE p == tgid[t]
    <3>1. /\ c # t /\ tgid[c] = None /\ call[c] = NoCall /\ None \notin Tids
          /\ tgid[p] = p /\ p # c
      BY <1>1, <1>2, <2>2, TrackerAssumption
      DEF TypeInv, TaskOK, Idle, BufInv, GroupOK
    <3>2. \A u \in Tids : tgid[u] # c
      BY <2>2, <3>1 DEF BufInv, GroupOK
    <3>3. /\ \A u \in Tids : SameCall(call'[u], call[u])
          /\ thread_states' = thread_states
          /\ tgid'[c] = q /\ \A u \in Tids : u # c => tgid'[u] = tgid[u]
      BY <1>0, <2>2
      DEF TypeInv, TypeOK, KernelTypeOK, Calls, SameCall, tracerVars
    <3>4. Pending(c) = NoRestore
      BY <2>2, NotPending DEF PhaseInv, PhaseOK, Idle
    <3>5. call[t].op \in {"clone", "clone3"}
      BY <1>7 DEF DoClone
    <3>6. ~call[t].thread =>
            \A u \in Tids : tgid[u] = p => call[u].op # "connect"
      BY <1>2, <3>1, <3>5 DEF BufInv, BufExclusive, InFork
    <3>7. GroupOK'
      BY <1>2, <2>2, <3>1, <3>2, <3>3 DEF BufInv, GroupOK
    <3>8. BufExclusive'
      <4> SUFFICES ASSUME NEW x \in Tids, NEW y \in Tids, x # y,
                          tgid'[x] # None, tgid'[y] = tgid'[x],
                          call'[x].op = "connect"
                   PROVE  ~InConnect(y, call[x].buf)' /\ ~InFork(y)'
        BY DEF BufExclusive
      <4>1. x # c
        BY <3>1, <3>3, NoCallTraced DEF SameCall
      <4>2. CASE y = c
        BY <3>1, <3>3, <4>2, NoCallTraced DEF SameCall, InConnect, InFork
      <4>3. CASE y # c
        <5>1. ~InConnect(y, call[x].buf) /\ ~InFork(y)
          BY <3>3, <4>1, <4>3 DEF BufInv, BufExclusive, SameCall
        <5> QED BY <3>3, <5>1 DEF SameCall, InConnect, InFork
      <4> QED BY <4>2, <4>3
    <3>9. /\ mem'[q] = mem[p] /\ wrote'[q] = wrote[p]
          /\ \A x \in Tids : x # c => mem'[x] = mem[x] /\ wrote'[x] = wrote[x]
      BY <1>2, <2>2 DEF TypeInv, TypeOK, KernelTypeOK
    <3>10. ASSUME NEW u \in Tids PROVE ConnectOK(u)'
      <4>1. CASE u = c
        BY <3>1, <3>3, <3>4, <4>1, NoCallTraced DEF ConnectOK, Pending, SameCall
      <4>2. CASE u # c
        <5>1. call[u].op = "connect" => tgid[u] \in Tids
          BY NoCallTraced DEF TypeInv, TypeOK, KernelTypeOK, TaskOK, Idle
        <5> QED BY <3>2, <3>3, <3>9, <4>2, <5>1
                DEF BufInv, ConnectOK, Pending, SameCall
      <4> QED BY <4>1, <4>2
    <3>11. \A u \in Tids, x \in Tids, b \in Bufs :
              Redirected(u, x, b)' <=> Redirected(u, x, b)
      <4>1. ASSUME NEW x \in Tids, NEW b \in Bufs
            PROVE  Redirected(c, x, b)' <=> Redirected(c, x, b)
        BY <3>3, <3>4 DEF Redirected, Pending
      <4>2. ASSUME NEW u \in Tids, u # c, NEW x \in Tids, NEW b \in Bufs
            PROVE  Redirected(u, x, b)' <=> Redirected(u, x, b)
        BY <3>3, <4>2 DEF Redirected, Pending, InConnect, SameCall
      <4> QED BY <4>1, <4>2
    <3>12. MemOK'
      <4>1. ASSUME NEW x \in Tids, NEW b \in Bufs, x # c
            PROVE  /\ (\A u \in Tids : ~Redirected(u, x, b)') =>
                         mem'[x][b] = wrote'[x][b]
                   /\ (\E u \in Tids : Redirected(u, x, b)') => mem'[x][b] = Local
        BY <3>9, <3>11, <4>1 DEF BufInv, MemOK
      <4>2. ASSUME NEW b \in Bufs
            PROVE  /\ (\A u \in Tids : ~Redirected(u, c, b)') =>
                         mem'[c][b] = wrote'[c][b]
                   /\ (\E u \in Tids : Redirected(u, c, b)') => mem'[c][b] = Local
        <5>1. \A u \in Tids : ~Redirected(u, c, b)
          BY <3>2 DEF Redirected
        <5>2. CASE call[t].thread
          <6>1. mem'[c] = mem[c] /\ wrote'[c] = wrote[c]
            BY <2>2, <3>1, <5>2 DEF TypeInv, TypeOK, KernelTypeOK
          <6> QED BY <3>11, <5>1, <6>1 DEF BufInv, MemOK
        <5>3. CASE ~call[t].thread
          <6>1. \A u \in Tids : ~Redirected(u, p, b)
            BY <3>6, <5>3 DEF Redirected, InConnect
          <6>2. mem[p][b] = wrote[p][b]
            BY <1>2, <6>1 DEF BufInv, MemOK
          <6> QED BY <2>2, <3>9, <3>11, <5>1, <5>3, <6>2
        <5> QED BY <5>2, <5>3
      <4> QED BY <4>1, <4>2 DEF MemOK
    <3> QED BY <3>7, <3>8, <3>10, <3>12 DEF BufInv
  <2> QED BY <1>2, <1>7, <2>1, <2>2 DEF DoClone
<1> QED BY <1>1, <1>5, <1>6, <1>7 DEF Execute

(* At the entry of a connect() the buffer holds what the program stored:   *)
(* no restore is pending for the task and no other task has rewritten it.  *)
LEMMA DestIsWanted ==
    ASSUME TypeInv, PhaseInv, BufInv, NEW t \in Tids,
           call[t].op = "connect", pc[t] \in {"entry", "seccomp"}
    PROVE  /\ call[t].buf \in Bufs
           /\ call[t].want = wrote[tgid[t]][call[t].buf]
           /\ mem[tgid[t]][call[t].buf] = call[t].want
<1> DEFINE p == tgid[t]
           b == call[t].buf
<1>1. p \in Tids /\ b \in Bufs /\ call[t].want = wrote[p][b]
  BY DEF TypeInv, TypeOK, KernelTypeOK, TaskOK, BufInv, ConnectOK
<1>2. ~Redirected(t, p, b)
  BY NotPending DEF PhaseInv, PhaseOK, Redirected
<1>3. ASSUME NEW u \in Tids, u # t, tgid[u] = p PROVE ~InConnect(u, b)
  BY <1>1, <1>3, TrackerAssumption DEF BufInv, BufExclusive
<1>4. \A u \in Tids : ~Redirected(u, p, b)
  BY <1>2, <1>3 DEF Redirected
<1> QED BY <1>1, <1>4 DEF BufInv, MemOK

(* What the handlers at an entry do to the buffers and to the restore.     *)
LEMMA EnterBuf ==
    ASSUME TypeInv, PhaseInv, BufInv, NEW t \in Tids,
           handle_syscall_enter(t), pc[t] \in {"entry", "seccomp"}
    PROVE  BufInv'
<1>1. /\ call[t] \in Calls /\ thread_states[t] \in ThreadState
      /\ TaskOK(t) /\ PhaseOK(t) /\ TracedOK(t) /\ tgid[t] \in Tids
  BY DEF TypeInv, TypeOK, KernelTypeOK, TracerTypeOK, PhaseInv, TaskOK
<1>2. Pending(t) = NoRestore
  BY <1>1, NotPending DEF PhaseOK
<1>3. CASE return_err(t)
  BY <1>3, BufFrame DEF return_err, kernelVars, SameCall
<1>4. ASSUME NEW st, NEW c, Entered(t, st, c)
      PROVE  /\ UNCHANGED <<tgid, wrote>>
             /\ thread_states'[t] = [st EXCEPT !.phase = "Exiting"]
             /\ call'[t] = c
             /\ \A u \in Tids : u # t => /\ call'[u] = call[u]
                                         /\ thread_states'[u] = thread_states[u]
  <2> DEFINE ex == [st EXCEPT !.phase = "Exiting"]
  <2>1. resume_tracee(t, ex, c)
    BY <1>4 DEF Entered
  <2>2. ResumeAt(pc[t], c, resume_request(ex)) # "user"
    BY DEF ResumeAt, AfterEntry
  <2> QED BY <2>1, <2>2, ResumeFrame
(* A handler that leaves the buffers alone.                                *)
<1>5. ASSUME NEW st \in ThreadState, NEW c \in Calls, Entered(t, st, c),
             st.pending_connect_restore = NoRestore, SameCall(c, call[t]),
             UNCHANGED mem
      PROVE  BufInv'
  <2>1. thread_states'[t].pending_connect_restore = NoRestore
    <3>1. thread_states'[t] = [st EXCEPT !.phase = "Exiting"]
      BY <1>4, <1>5
    <3>2. [st EXCEPT !.phase = "Exiting"].pending_connect_restore = NoRestore
      BY <1>5 DEF ThreadState
    <3> QED BY <3>1, <3>2
  <2>2. /\ \A u \in Tids : SameCall(call'[u], call[u])
        /\ Pending(t)' = NoRestore
        /\ \A u \in Tids : u # t => thread_states'[u] = thread_states[u]
        /\ UNCHANGED <<tgid, wrote, mem>>
    <3>1. /\ UNCHANGED <<tgid, wrote, mem>> /\ call'[t] = c
          /\ \A u \in Tids : u # t => /\ call'[u] = call[u]
                                      /\ thread_states'[u] = thread_states[u]
      BY <1>4, <1>5
    <3> QED BY <1>5, <2>1, <3>1 DEF SameCall, Pending
  <2>3. GroupOK' /\ BufExclusive'
    BY <2>2 DEF BufInv, GroupOK, BufExclusive, InConnect, InFork, SameCall
  <2>4. \A u \in Tids : ConnectOK(u)'
    <3>1. ConnectOK(t)'
      BY <2>2 DEF BufInv, ConnectOK, SameCall
    <3>2. ASSUME NEW u \in Tids, u # t PROVE ConnectOK(u)'
      BY <2>2, <3>2 DEF BufInv, ConnectOK, SameCall, Pending
    <3> QED BY <3>1, <3>2
  <2>5. ASSUME NEW u \in Tids, NEW x \in Tids, NEW y \in Bufs
        PROVE  Redirected(u, x, y)' <=> Redirected(u, x, y)
    <3>1. CASE u = t
      BY <1>2, <2>2, <3>1 DEF Redirected
    <3>2. CASE u # t
      BY <2>2, <3>2 DEF Redirected, InConnect, SameCall, Pending
    <3> QED BY <3>1, <3>2
  <2>6. MemOK'
    BY <2>2, <2>5 DEF BufInv, MemOK
  <2> QED BY <2>3, <2>4, <2>6 DEF BufInv
<1>6. CASE \/ call[t].op = "clone" /\ handle_clone_enter(t)
           \/ call[t].op = "clone3" /\ handle_clone3_enter(t)
  <2> DEFINE c == [call[t] EXCEPT !.untraced = FALSE]
  <2>1. c \in Calls /\ SameCall(c, call[t])
    BY <1>1 DEF Calls, SameCall
  <2>2. \/ return_err(t)
        \/ Entered(t, thread_states[t], c) /\ UNCHANGED mem
    BY <1>6 DEF handle_clone_enter, handle_clone3_enter
  <2> HIDE DEF c
  <2> QED BY <1>1, <1>2, <1>3, <1>5, <2>1, <2>2 DEF Pending
<1>7. CASE \/ call[t].op = "socket" /\ handle_socket_enter(t)
           \/ call[t].op = "close" /\ handle_close_enter(t)
           \/ call[t].op = "other" /\ handle_other_enter(t)
  <2>1. Entered(t, thread_states[t], call[t]) /\ UNCHANGED mem
    BY <1>7 DEF handle_socket_enter, handle_close_enter, handle_other_enter
  <2> QED BY <1>1, <1>2, <1>5, <2>1 DEF Pending, SameCall
<1>8. CASE call[t].op = "connect" /\ handle_connect_enter(t)
  <2> DEFINE b    == call[t].buf
             p    == tgid[t]
             dest == mem[p][b]
             st   == [thread_states[t] EXCEPT
                        !.pending_connect_restore = NoRestore]
             forced == [st EXCEPT !.forced_connect_errno = TRUE]
             restore == [st EXCEPT !.pending_connect_restore =
                            [addr_ptr |-> b, dest |-> dest]]
  <2>1. \/ return_err(t)
        \/ Entered(t, st, call[t]) /\ UNCHANGED mem
        \/ Entered(t, forced, call[t]) /\ UNCHANGED mem
        \/ /\ Entered(t, restore, call[t])
           /\ mem' = [mem EXCEPT ![p][b] = Local]
    BY <1>8 DEF handle_connect_enter
  <2>2. /\ st \in ThreadState /\ st.pending_connect_restore = NoRestore
        /\ forced \in ThreadState /\ forced.pending_connect_restore = NoRestore
    BY <1>1 DEF ThreadState, NoRestore
  <2>3. CASE Entered(t, restore, call[t]) /\ mem' = [mem EXCEPT ![p][b] = Local]
    <3>1. b \in Bufs /\ b # None /\ call[t].want = wrote[p][b]
      BY <1>8, DestIsWanted, KernelAssumption
    <3>3. dest = call[t].want
      BY <1>8, DestIsWanted
    <3>4. /\ Pending(t)' = [addr_ptr |-> b, dest |-> call[t].want]
          /\ thread_states'[t].phase = "Exiting"
          /\ Pending(t)' # NoRestore
      <4>1. thread_states'[t] = [restore EXCEPT !.phase = "Exiting"]
        BY <1>4, <2>3
      <4>2. [restore EXCEPT !.phase = "Exiting"].pending_connect_restore
              = [addr_ptr |-> b, dest |-> dest]
            /\ [restore EXCEPT !.phase = "Exiting"].phase = "Exiting"
        BY <1>1 DEF ThreadState
      <4> QED BY <3>1, <3>3, <4>1, <4>2 DEF Pending, NoRestore
    <3>5. /\ UNCHANGED <<tgid, wrote>>
          /\ \A u \in Tids : call'[u] = call[u]
          /\ \A u \in Tids : u # t => thread_states'[u] = thread_states[u]
      BY <1>4, <2>3
    <3>6. /\ mem'[p][b] = Local
          /\ \A x \in Tids, y \in Bufs : ~(x = p /\ y = b) => mem'[x][y] = mem[x][y]
      BY <1>1, <2>3, <3>1 DEF TypeInv, TypeOK, KernelTypeOK
    <3>7. GroupOK' /\ BufExclusive'
      BY <3>5 DEF BufInv, GroupOK, BufExclusive, InConnect, InFork
    <3>8. \A u \in Tids : ConnectOK(u)'
      <4>1. ConnectOK(t)'
        BY <1>8, <3>1, <3>4, <3>5 DEF ConnectOK
      <4>2. \A u \in Tids : u # t => ConnectOK(u)'
        BY <3>5 DEF BufInv, ConnectOK, Pending
      <4> QED BY <4>1, <4>2
    <3>9. ASSUME NEW u \in Tids, NEW x \in Tids, NEW y \in Bufs,
                 ~(x = p /\ y = b)
          PROVE  Redirected(u, x, y)' <=> Redirected(u, x, y)
      <4>1. CASE u = t
        BY <3>5, <3>9, <4>1 DEF Redirected, InConnect
      <4>2. CASE u # t
        BY <3>5, <4>2 DEF Redirected, InConnect, Pending
      <4> QED BY <4>1, <4>2
    <3>10. MemOK'
      <4> SUFFICES ASSUME NEW x \in Tids, NEW y \in Bufs
                   PROVE  /\ (\A u \in Tids : ~Redirected(u, x, y)') =>
                                mem'[x][y] = wrote'[x][y]
                          /\ (\E u \in Tids : Redirected(u, x, y)') =>
                                mem'[x][y] = Local
        BY DEF MemOK
      <4>1. CASE x = p /\ y = b
        <5>1. \E u \in Tids : Redirected(u, x, y)'
          BY <1>8, <3>4, <3>5, <4>1 DEF Redirected, InConnect
        <5> QED BY <3>6, <4>1, <5>1
      <4>2. CASE ~(x = p /\ y = b)
        BY <3>5, <3>6, <3>9, <4>2 DEF BufInv, MemOK
      <4> QED BY <4>1, <4>2
    <3> QED BY <3>7, <3>8, <3>10 DEF BufInv
  <2> HIDE DEF st, forced, restore
  <2>4. SameCall(call[t], call[t])
    BY DEF SameCall
  <2> QED BY <1>1, <1>3, <1>5, <2>1, <2>2, <2>3, <2>4
<1> QED BY <1>6, <1>7, <1>8 DEF handle_syscall_enter

LEMMA ExitBuf ==
    ASSUME TypeInv, PhaseInv, BufInv, NEW t \in Tids,
           handle_syscall_exit(t), pc[t] = "exit"
    PROVE  BufInv'
<1> DEFINE p == tgid[t]
           b == call[t].buf
           r == thread_states[t].pending_connect_restore
<1>1. /\ p \in Tids /\ thread_states[t] \in ThreadState /\ ConnectOK(t)
      /\ TaskOK(t) /\ None \notin Tids
  BY TrackerAssumption
  DEF TypeInv, TypeOK, KernelTypeOK, TracerTypeOK, TaskOK, BufInv
<1>2. /\ UNCHANGED <<tgid, wrote>> /\ call'[t] = NoCall
      /\ Pending(t)' = NoRestore
      /\ \A u \in Tids : u # t => /\ call'[u] = call[u]
                                  /\ thread_states'[u] = thread_states[u]
      /\ mem' = restored(t)
  <2>1. PICK c : resume_tracee(t, exited_state(thread_states[t]), c)
    BY DEF handle_syscall_exit
  <2>2. ResumeAt(pc[t], c, resume_request(exited_state(thread_states[t]))) = "user"
    BY DEF ResumeAt
  <2>3. exited_state(thread_states[t]).pending_connect_restore = NoRestore
    BY <1>1 DEF exited_state, ThreadState
  <2> QED BY <2>1, <2>2, <2>3, ResumeFrame DEF Pending, handle_syscall_exit
<1>3. GroupOK'
  BY <1>2 DEF BufInv, GroupOK
<1>4. BufExclusive'
  BY <1>2, NoCallTraced DEF BufInv, BufExclusive, InConnect, InFork
<1>5. \A u \in Tids : ConnectOK(u)'
  <2>1. ConnectOK(t)'
    BY <1>2, NoCallTraced DEF ConnectOK
  <2>2. ASSUME NEW u \in Tids, u # t PROVE ConnectOK(u)'
    BY <1>2, <2>2 DEF BufInv, ConnectOK, Pending
  <2> QED BY <2>1, <2>2
<1>6. ASSUME NEW x \in Tids, NEW y \in Bufs
      PROVE  ~Redirected(t, x, y)'
  BY <1>2 DEF Redirected
<1>7. ASSUME NEW u \in Tids, u # t, NEW x \in Tids, NEW y \in Bufs
      PROVE  Redirected(u, x, y)' <=> Redirected(u, x, y)
  BY <1>2, <1>7 DEF Redirected, InConnect, Pending
<1>8. CASE r = NoRestore
  <2>1. mem' = mem
    BY <1>2, <1>8 DEF restored
  <2>2. ASSUME NEW x \in Tids, NEW y \in Bufs
        PROVE  ~Redirected(t, x, y)
    BY <1>8 DEF Redirected, Pending
  <2>3. MemOK'
    BY <1>2, <1>6, <1>7, <2>1, <2>2 DEF BufInv, MemOK
  <2> QED BY <1>3, <1>4, <1>5, <2>3 DEF BufInv
<1>9. CASE r # NoRestore
  <2>1. /\ call[t].op = "connect" /\ b \in Bufs
        /\ r = [addr_ptr |-> b, dest |-> wrote[p][b]]
    BY <1>1, <1>9 DEF ConnectOK, Pending, TaskOK
  <2>2. mem' = [mem EXCEPT ![p][b] = wrote[p][b]]
    BY <1>2, <1>9, <2>1 DEF restored
  <2>3. /\ mem'[p][b] = wrote[p][b]
        /\ \A x \in Tids, y \in Bufs : ~(x = p /\ y = b) => mem'[x][y] = mem[x][y]
    BY <1>1, <2>1, <2>2 DEF TypeInv, TypeOK, KernelTypeOK
  <2>4. ASSUME NEW u \in Tids, u # t PROVE ~Redirected(u, p, b)
    BY <1>1, <2>1, <2>4 DEF BufInv, BufExclusive, Redirected
  <2>5. MemOK'
    <3> SUFFICES ASSUME NEW x \in Tids, NEW y \in Bufs
                 PROVE  /\ (\A u \in Tids : ~Redirected(u, x, y)') =>
                              mem'[x][y] = wrote'[x][y]
                        /\ (\E u \in Tids : Redirected(u, x, y)') =>
                              mem'[x][y] = Local
      BY DEF MemOK
    <3>1. CASE x = p /\ y = b
      <4>1. \A u \in Tids : ~Redirected(u, x, y)'
        BY <1>6, <1>7, <2>4, <3>1
      <4> QED BY <1>2, <2>3, <3>1, <4>1
    <3>2. CASE ~(x = p /\ y = b)
      <4>1. ~Redirected(t, x, y)
        BY <3>2 DEF Redirected, InConnect
      <4> QED BY <1>2, <1>6, <1>7, <2>3, <3>2, <4>1 DEF BufInv, MemOK
    <3> QED BY <3>1, <3>2
  <2> QED BY <1>3, <1>4, <1>5, <2>5 DEF BufInv
<1> QED BY <1>8, <1>9

LEMMA TracerBuf ==
    ASSUME TypeInv, PhaseInv, BufInv, NEW t \in Tids, TracerStep(t)
    PROVE  BufInv'
<1>1. PhaseOK(t) /\ TaskOK(t)
  BY DEF PhaseInv, TypeInv
<1>2. CASE OnSeccompEvent(t)
  BY <1>2, EnterBuf DEF OnSeccompEvent
<1>3. CASE OnSyscallStop(t)
  BY <1>1, <1>3, EnterBuf, ExitBuf DEF OnSyscallStop, PhaseOK
<1>4. CASE OnCloneEvent(t) \/ OnNewborn(t)
  <2>1. /\ resume_tracee(t, thread_states[t], call[t])
        /\ UNCHANGED mem /\ pc[t] \in {"event", "newborn"}
    BY <1>4 DEF OnCloneEvent, OnNewborn
  <2>2. /\ UNCHANGED <<tgid, wrote, mem>>
        /\ \A u \in Tids : thread_states'[u] = thread_states[u]
        /\ call'[t] = call[t] \/ call'[t] = NoCall
        /\ \A u \in Tids : u # t => call'[u] = call[u]
    BY <2>1, ResumeFrame
  <2>3. CASE call'[t] = call[t]
    BY <2>2, <2>3, BufFrame DEF SameCall
  <2>4. CASE call'[t] = NoCall /\ Pending(t) = NoRestore
    BY <2>2, <2>4, NoCallTraced, BufCall
  <2>5. CASE call'[t] = NoCall /\ Pending(t) # NoRestore
    <3>1. call'[t] # call[t] /\ thread_states[t].phase = "Exiting"
      BY <2>5, NoCallTraced DEF BufInv, ConnectOK
    <3>2. pc[t] = "event"
      BY <1>1, <2>1, <3>1 DEF PhaseOK, Idle
    <3>3. ResumeAt(pc[t], call[t], resume_request(thread_states[t])) = "exit"
      BY <3>1, <3>2 DEF ResumeAt, resume_request, AtExit
    <3> QED BY <2>1, <2>5, <3>1, <3>3, ResumeFrame
  <2> QED BY <2>2, <2>3, <2>4, <2>5
<1>5. CASE OnExited(t)
  <2>1. /\ pc[t] = "zombie" /\ tgid'[t] = None
        /\ UNCHANGED <<call, mem, wrote>>
        /\ Pending(t)' = NoRestore /\ Pending(t) = NoRestore
        /\ \A u \in Tids : u # t => /\ tgid'[u] = tgid[u]
                                    /\ thread_states'[u] = thread_states[u]
    <3>1. Pending(t) = NoRestore
      BY <1>1, <1>5, NotPending DEF OnExited, PhaseOK, Idle
    <3>2. thread_states'[t] = DefaultState
      BY <1>5 DEF OnExited, TypeInv, TypeOK, TracerTypeOK
    <3> QED BY <1>5, <3>1, <3>2
            DEF OnExited, TypeInv, TypeOK, KernelTypeOK, TracerTypeOK, Pending,
                DefaultState
  <2>2. call[t] = NoCall /\ None \notin Tids
    BY <1>1, <2>1, TrackerAssumption DEF TaskOK, Idle
  <2>3. \A u \in Tids : u # t => tgid[u] # t
    <3>1. CASE t = tgid[t]
      BY <1>5, <3>1 DEF OnExited, Siblings
    <3>2. CASE t # tgid[t]
      BY <2>2, <3>2 DEF BufInv, GroupOK
    <3> QED BY <3>1, <3>2
  <2>4. GroupOK'
    BY <2>1, <2>2, <2>3 DEF BufInv, GroupOK, TypeInv, TypeOK, KernelTypeOK
  <2>5. BufExclusive'
    <3> SUFFICES ASSUME NEW x \in Tids, NEW y \in Tids, x # y,
                        tgid'[x] # None, tgid'[y] = tgid'[x],
                        call'[x].op = "connect"
                 PROVE  ~InConnect(y, call[x].buf)' /\ ~InFork(y)'
      BY DEF BufExclusive
    <3>1. x # t /\ y # t
      BY <2>1
    <3> QED BY <2>1, <3>1 DEF BufInv, BufExclusive, InConnect, InFork
  <2>6. \A u \in Tids : ConnectOK(u)'
    <3>1. ConnectOK(t)'
      BY <2>1, <2>2, NoCallTraced DEF ConnectOK
    <3>2. ASSUME NEW u \in Tids, u # t PROVE ConnectOK(u)'
      BY <2>1, <3>2 DEF BufInv, ConnectOK, Pending
    <3> QED BY <3>1, <3>2
  <2>7. ASSUME NEW u \in Tids, NEW x \in Tids, NEW y \in Bufs
        PROVE  Redirected(u, x, y)' <=> Redirected(u, x, y)
    <3>1. CASE u = t
      BY <2>1, <3>1 DEF Redirected
    <3>2. CASE u # t
      BY <2>1, <3>2 DEF Redirected, InConnect, Pending
    <3> QED BY <3>1, <3>2
  <2>8. MemOK'
    BY <2>1, <2>7 DEF BufInv, MemOK
  <2> QED BY <2>4, <2>5, <2>6, <2>8 DEF BufInv
<1> QED BY <1>2, <1>3, <1>4, <1>5 DEF TracerStep, Tracer

LEMMA BufStep ==
    ASSUME NotShared, TypeInv, PhaseInv, BufInv, [Next]_vars
    PROVE  BufInv'
<1>1. CASE UNCHANGED <<kernelVars, tracerVars>>
  BY <1>1, BufFrame DEF kernelVars, tracerVars, SameCall
<1>2. CASE \E t \in Tids : ProgramStep(t) \/ KernelStep(t) \/ TracerStep(t)
  BY <1>2, ProgramBuf, KernelBuf, TracerBuf
<1> QED BY <1>1, <1>2 DEF Next, ProxyStep, Terminated, vars

LEMMA BufInit == Init => BufInv
<1> SUFFICES ASSUME Init PROVE BufInv
  OBVIOUS
<1>1. /\ tgid = [t \in Tids |-> IF t = Main THEN Main ELSE None]
      /\ \A t \in Tids : call[t] = NoCall /\ Pending(t) = NoRestore
      /\ \A p \in Tids : mem[p] = NoMem /\ wrote[p] = NoMem
  BY DEF Init, KernelInit, TracerInit, Pending, DefaultState
<1>2. GroupOK
  BY <1>1, KernelAssumption DEF GroupOK
<1>3. BufExclusive /\ \A t \in Tids : ConnectOK(t)
  BY <1>1, NoCallTraced DEF BufExclusive, ConnectOK
<1>4. MemOK
  BY <1>1 DEF MemOK, Redirected
<1> QED BY <1>2, <1>3, <1>4 DEF BufInv

LEMMA BufInvariant ==
    ASSUME NotShared
    PROVE  Spec => [](TypeInv /\ PhaseInv /\ BufInv)
<1>1. TypeInv /\ PhaseInv /\ BufInv /\ [Next]_vars => BufInv'
  BY BufStep
<1> QED BY <1>1, BufInit, PhaseInvariant, PTL DEF Spec

(* The program never sees its sockaddr rewritten outside the connect() it  *)
(* passed it to, whatever its threads and processes do meanwhile, if no    *)
(* two of them pass the same buffer at once and none forks during a        *)
(* connect() (handle_connect_enter against handle_syscall_exit).           *)
THEOREM BuffersAreRestored ==
    ASSUME "shareBuf" \notin Allow, "forkInConnect" \notin Allow
    PROVE  Spec => []BufferRestored
<1>1. NotShared
  BY DEF NotShared
<1>2. TypeInv /\ PhaseInv /\ BufInv => BufferRestored
  <2> SUFFICES ASSUME TypeInv, PhaseInv, BufInv, NEW p \in Tids, NEW b \in Bufs,
                      mem[p][b] # wrote[p][b]
               PROVE  \E t \in Tids : Redirecting(t, p, b)
    BY DEF BufferRestored
  <2>1. PICK t \in Tids : Redirected(t, p, b)
    BY DEF BufInv, MemOK
  <2>2. thread_states[t].phase = "Exiting" /\ Pending(t).addr_ptr = b
    BY <2>1 DEF BufInv, ConnectOK, Redirected, InConnect
  <2>3. Alive(t)
    BY <2>2 DEF PhaseInv, PhaseOK, Idle, Alive
  <2> QED BY <2>1, <2>2, <2>3 DEF Redirecting, Redirected, Handled, Pending
<1> QED BY <1>1, <1>2, BufInvariant, PTL
-----------------------------------------------------------------------------

SockOf(t) == fdt[tgid[t]][call[t].fd]

FdExclusive ==
    \A t, u \in Tids :
        t # u /\ tgid[t] # None /\ tgid[u] = tgid[t] /\ call[t].op = "connect" =>
            ~OnFd(u, call[t].fd)

(* A socket that is in a table, connected or being made has its kind.      *)
Created ==
    /\ \A p \in Tids, f \in Fds : fdt[p][f] # None => kind[fdt[p][f]] # None
    /\ \A s \in Socks : peer[s] # None => kind[s] # None
    /\ \A t \in Tids : call[t].op = "socket" => call[t].kind \in Kinds

(* What the tracer has decided about a connect it has seen.                *)
Judged(t) ==
    call[t].op = "connect" =>
        /\ SockOf(t) # None
        /\ pc[t] = "kernel" => thread_states[t].phase = "Exiting"
        /\ thread_states[t].phase = "Exiting" =>
              IF Pending(t) # NoRestore THEN ~Exempt(call[t].want)
              ELSE CanProbe /\ ~DisableIpv6 =>
                      Exempt(call[t].want) \/ ~is_stream_type(kind[SockOf(t)])

DirectWhenSeen == CanProbe /\ ~DisableIpv6 => DirectOnlyIfExempt

DirectInv ==
    FdExclusive /\ Created /\ (\A t \in Tids : Judged(t)) /\ DirectWhenSeen

(* What a program must keep to for DirectInv.                              *)
Disciplined == NotShared /\ "shareFd" \notin Allow

(* The parts of a call that DirectInv looks at.                            *)
SameFd(c, d) == c.op = d.op /\ c.fd = d.fd /\ c.want = d.want /\ c.kind = d.kind

LEMMA NoCallFd == NoCall.fd = None /\ NoCall.op = "none"
BY DEF NoCall

LEMMA ConnectTyped ==
    ASSUME TypeInv, NEW t \in Tids, call[t].op = "connect"
    PROVE  /\ call[t].fd \in Fds /\ call[t].fd # None /\ tgid[t] \in Tids
           /\ tgid[t] # None
           /\ SockOf(t) \in Socks \cup {None}
<1>1. call[t].fd \in Fds /\ tgid[t] \in Tids
  BY NoCallFd DEF TypeInv, TypeOK, KernelTypeOK, TaskOK, Idle
<1>2. call[t].fd # None /\ tgid[t] # None
  BY <1>1, TrackerAssumption
<1>3. fdt \in [Tids -> [Fds -> Socks \cup {None}]]
  BY DEF TypeInv, TypeOK, KernelTypeOK
<1>4. SockOf(t) \in Socks \cup {None}
  BY <1>1, <1>3 DEF SockOf
<1> QED BY <1>1, <1>2, <1>4

(* No socket is created, connected or closed, and calls keep what matters. *)
LEMMA DirectFrame ==
    ASSUME TypeInv, DirectInv,
           UNCHANGED <<tgid, fdt, kind, peer, asked>>,
           \A u \in Tids : SameFd(call'[u], call[u]),
           \A u \in Tids : thread_states'[u] = thread_states[u],
           \A u \in Tids : pc'[u] = "kernel" => pc[u] = "kernel"
    PROVE  DirectInv'
<1> USE DEF SameFd
<1>1. FdExclusive'
  BY DEF DirectInv, FdExclusive, OnFd
<1>2. Created'
  BY DEF DirectInv, Created
<1>3. ASSUME NEW t \in Tids PROVE Judged(t)'
  BY DEF DirectInv, Judged, SockOf, Pending
<1>4. DirectWhenSeen'
  BY DEF DirectInv, DirectWhenSeen, DirectOnlyIfExempt
<1> QED BY <1>1, <1>2, <1>3, <1>4 DEF DirectInv

(* One task changes its call, not to or from a handled connect.            *)
LEMMA DirectCall ==
    ASSUME TypeInv, DirectInv, NEW t \in Tids, NEW c,
           UNCHANGED <<tgid, fdt, kind, peer, asked>>,
           call'[t] = c,
           \A u \in Tids : u # t =>
              /\ call'[u] = call[u] /\ pc'[u] = pc[u]
              /\ thread_states'[u] = thread_states[u],
           c.op = "socket" => c.kind \in Kinds,
           c.op = "connect" =>
              /\ fdt[tgid[t]][c.fd] # None /\ pc'[t] # "kernel"
              /\ thread_states'[t].phase # "Exiting"
              /\ \A u \in Siblings(t) : ~OnFd(u, c.fd),
           c.op # "socket" => c.fd = None \/ \A u \in Siblings(t) : ~OnFd(u, c.fd)
    PROVE  DirectInv'
<1>1. FdExclusive'
  <2> SUFFICES ASSUME NEW x \in Tids, NEW y \in Tids, x # y, tgid[x] # None,
                      tgid[y] = tgid[x], call'[x].op = "connect"
               PROVE  ~(call'[y].op # "socket" /\ call'[y].fd = call'[x].fd)
    BY DEF FdExclusive, OnFd
  <2>1. CASE x = t
    BY <2>1 DEF Siblings, OnFd
  <2>2. CASE y = t
    <3>1. call[x].fd # None /\ x \in Siblings(t) /\ call'[x] = call[x]
      BY <2>2, ConnectTyped DEF Siblings
    <3> QED BY <2>2, <3>1 DEF OnFd
  <2>3. CASE x # t /\ y # t
    BY <2>3 DEF DirectInv, FdExclusive, OnFd
  <2> QED BY <2>1, <2>2, <2>3
<1>2. Created'
  BY DEF DirectInv, Created
<1>3. \A u \in Tids : Judged(u)'
  <2>1. Judged(t)'
    BY DEF Judged, SockOf
  <2>2. ASSUME NEW u \in Tids, u # t PROVE Judged(u)'
    BY <2>2 DEF DirectInv, Judged, SockOf, Pending
  <2> QED BY <2>1, <2>2
<1>4. DirectWhenSeen'
  BY DEF DirectInv, DirectWhenSeen, DirectOnlyIfExempt
<1> QED BY <1>1, <1>2, <1>3, <1>4 DEF DirectInv

LEMMA TrapDirect ==
    ASSUME TypeInv, PhaseInv, DirectInv, NEW t \in Tids, NEW c \in Calls,
           Trap(t, c), UNCHANGED tracerVars,
           c.op = "socket" => c.kind \in Kinds,
           c.op = "connect" =>
              fdt[tgid[t]][c.fd] # None /\ \A u \in Siblings(t) : ~OnFd(u, c.fd),
           c.op # "socket" => c.fd = None \/ \A u \in Siblings(t) : ~OnFd(u, c.fd)
    PROVE  DirectInv'
<1>1. /\ call'[t] = c /\ UNCHANGED <<tgid, fdt, kind, peer, asked>>
      /\ thread_states' = thread_states
      /\ \A u \in Tids : u # t => call'[u] = call[u] /\ pc'[u] = pc[u]
      /\ pc'[t] = IF how[t] = "syscall" THEN "entry" ELSE AfterEntry(c)
      /\ pc[t] = "user" /\ PhaseOK(t)
  BY DEF Trap, TypeInv, TypeOK, KernelTypeOK, tracerVars, PhaseInv
<1>2. thread_states'[t].phase # "Exiting"
  BY <1>1 DEF PhaseOK, Idle
<1>3. c.op = "connect" => pc'[t] # "kernel"
  BY <1>1, KernelAssumption DEF PhaseOK, AfterEntry, Filtered
<1> QED BY <1>1, <1>2, <1>3, DirectCall

LEMMA ProgramDirect ==
    ASSUME Disciplined, TypeInv, PhaseInv, DirectInv, NEW t \in Tids,
           ProgramStep(t)
    PROVE  DirectInv'
<1>0. UNCHANGED tracerVars
  BY DEF ProgramStep
<1>1. ASSUME NEW b \in Bufs, NEW a \in Dests, StoreSockaddr(t, b, a)
      PROVE  DirectInv'
  BY <1>0, <1>1, DirectFrame DEF StoreSockaddr, tracerVars, SameFd
<1>2. ASSUME NEW k \in Kinds, CallSocket(t, k)
      PROVE  DirectInv'
  <2> DEFINE c == [NoCall EXCEPT !.op = "socket", !.kind = k]
  <2>1. c \in Calls /\ c.op = "socket" /\ c.kind = k
    BY DEF NoCall, Calls, Ops
  <2> QED BY <1>0, <1>2, <2>1, TrapDirect DEF CallSocket
<1>3. ASSUME NEW fd \in Fds, NEW b \in Bufs, CallConnect(t, fd, b)
      PROVE  DirectInv'
  <2>1. PICK v \in BOOLEAN :
          Trap(t, [[NoCall EXCEPT !.op = "connect", !.fd = fd, !.buf = b,
                        !.want = wrote[tgid[t]][b]] EXCEPT !.valid = v])
    BY <1>3 DEF CallConnect
  <2> DEFINE c == [[NoCall EXCEPT !.op = "connect", !.fd = fd, !.buf = b,
                        !.want = wrote[tgid[t]][b]] EXCEPT !.valid = v]
  <2>2. wrote[tgid[t]][b] \in Addrs \cup {None}
    <3>1. tgid[t] \in Tids
      BY <1>3 DEF CallConnect, TypeInv, TypeOK, KernelTypeOK, TaskOK
    <3> QED BY <3>1 DEF TypeInv, TypeOK, KernelTypeOK
  <2>3. c \in Calls /\ c.op = "connect" /\ c.fd = fd
    BY <2>2 DEF NoCall, Calls, Ops
  <2>4. /\ fdt[tgid[t]][fd] # None
        /\ \A u \in Siblings(t) : ~OnFd(u, fd)
    BY <1>3 DEF CallConnect, Disciplined, FdFree
  <2> HIDE DEF c
  <2> QED BY <1>0, <2>1, <2>3, <2>4, TrapDirect DEF c
<1>4. ASSUME NEW fd \in Fds, CallClose(t, fd)
      PROVE  DirectInv'
  <2> DEFINE c == [NoCall EXCEPT !.op = "close", !.fd = fd]
  <2>1. c \in Calls /\ c.op = "close" /\ c.fd = fd
    BY DEF NoCall, Calls, Ops
  <2>2. \A u \in Siblings(t) : ~OnFd(u, fd)
    BY <1>4 DEF CallClose, Disciplined, FdFree
  <2> QED BY <1>0, <1>4, <2>1, <2>2, TrapDirect DEF CallClose
<1>5. ASSUME NEW k \in Clones, CallClone(t, k)
      PROVE  DirectInv'
  <2>1. PICK v \in BOOLEAN :
          Trap(t, [NoCall EXCEPT !.op = k.op, !.thread = k.thread,
                                 !.untraced = k.untraced, !.valid = v])
    BY <1>5 DEF CallClone
  <2> DEFINE c == [NoCall EXCEPT !.op = k.op, !.thread = k.thread,
                                 !.untraced = k.untraced, !.valid = v]
  <2>2. k \in [op : {"clone", "clone3"}, thread : BOOLEAN, untraced : BOOLEAN]
    BY KernelAssumption
  <2>3. c \in Calls /\ c.op \in {"clone", "clone3"} /\ c.fd = None
    BY <2>2 DEF NoCall, Calls, Ops
  <2> HIDE DEF c
  <2> QED BY <1>0, <2>1, <2>3, TrapDirect DEF c
<1>6. ASSUME NEW fd \in Fds \cup {None}, CallOther(t, fd)
      PROVE  DirectInv'
  <2> DEFINE c == [NoCall EXCEPT !.op = "other", !.fd = fd]
  <2>1. c \in Calls /\ c.op = "other" /\ c.fd = fd
    BY DEF NoCall, Calls, Ops
  <2>2. fd = None \/ \A u \in Siblings(t) : ~OnFd(u, fd)
    BY <1>6 DEF CallOther, Disciplined, FdFree
  <2> QED BY <1>0, <1>6, <2>1, <2>2, TrapDirect DEF CallOther
<1>7. CASE Exit(t)
  <2> DEFINE g == tgid[t]
             last == \A u \in Siblings(t) : pc[u] = "zombie"
  <2>1. /\ g \in Tids /\ call[t] = NoCall /\ pc'[t] = "zombie"
        /\ UNCHANGED <<tgid, call, kind, peer, asked, thread_states>>
        /\ \A u \in Tids : u # t => pc'[u] = pc[u]
    BY <1>0, <1>7
    DEF Exit, TypeInv, TypeOK, KernelTypeOK, TaskOK, Idle, tracerVars
  <2>2. CASE ~last
    <3>1. fdt' = fdt
      BY <1>7, <2>2 DEF Exit, TypeInv, TypeOK, KernelTypeOK
    <3> QED BY <2>1, <3>1, DirectFrame DEF SameFd
  <2>3. CASE last
    <3>1. \A u \in Tids : tgid[u] = g => call[u] = NoCall
      BY <2>1, <2>3 DEF Siblings, TypeInv, TaskOK, Idle
    <3>2. /\ fdt'[g] = NoFds
          /\ \A p \in Tids : p # g => fdt'[p] = fdt[p]
      BY <1>7, <2>1, <2>3 DEF Exit, TypeInv, TypeOK, KernelTypeOK
    <3>3. FdExclusive'
      BY <2>1 DEF DirectInv, FdExclusive, OnFd
    <3>4. Created'
      BY <2>1, <3>2 DEF DirectInv, Created, NoFds
    <3>5. ASSUME NEW u \in Tids PROVE Judged(u)'
      <4>1. call[u].op = "connect" => tgid[u] \in Tids /\ tgid[u] # g /\ u # t
        BY <2>1, <3>1, NoCallFd, ConnectTyped
      <4> QED BY <2>1, <3>2, <4>1 DEF DirectInv, Judged, SockOf, Pending
    <3>6. DirectWhenSeen'
      BY <2>1 DEF DirectInv, DirectWhenSeen, DirectOnlyIfExempt
    <3> QED BY <3>3, <3>4, <3>5, <3>6 DEF DirectInv
  <2> QED BY <2>2, <2>3
<1> QED BY <1>1, <1>2, <1>3, <1>4, <1>5, <1>6, <1>7 DEF ProgramStep, Program

(* The kernel ends a call of t; the sockets may change as the case says.   *)
LEMMA FinishDirect ==
    ASSUME TypeInv, PhaseInv, DirectInv, NEW t \in Tids, NEW c,
           Finish(t, c), pc[t] = "kernel", UNCHANGED <<tgid, tracerVars>>,
           c.op = call[t].op, c.want = call[t].want, c.kind = call[t].kind,
           c.op # "socket" => c.fd = call[t].fd
    PROVE  /\ FdExclusive'
           /\ \A u \in Tids : call'[u].op = "socket" => call'[u].kind \in Kinds
           /\ UNCHANGED <<tgid, thread_states>>
           /\ \A u \in Tids : u # t => call'[u] = call[u]
           /\ \A u \in Tids : pc'[u] = "kernel" => pc[u] = "kernel"
           /\ call'[t].op = "connect" => call'[t].fd = call[t].fd
                                         /\ call'[t].want = call[t].want
                                         /\ call[t].op = "connect"
<1>1. /\ call'[t] = IF how[t] = "syscall" THEN c ELSE NoCall
      /\ UNCHANGED <<tgid, thread_states>>
      /\ \A u \in Tids : u # t => call'[u] = call[u] /\ pc'[u] = pc[u]
  BY DEF Finish, TypeInv, TypeOK, KernelTypeOK, tracerVars
<1>2. FdExclusive'
  <2> SUFFICES ASSUME NEW x \in Tids, NEW y \in Tids, x # y, tgid[x] # None,
                      tgid[y] = tgid[x], call'[x].op = "connect"
               PROVE  ~(call'[y].op # "socket" /\ call'[y].fd = call'[x].fd)
    BY <1>1 DEF FdExclusive, OnFd
  <2>1. call[x].op = "connect" /\ call'[x].fd = call[x].fd
    BY <1>1, NoCallFd
  <2>2. call[x].fd # None
    BY <2>1, ConnectTyped
  <2>3. ~OnFd(y, call[x].fd)
    BY <2>1 DEF DirectInv, FdExclusive
  <2>4. CASE y # t
    BY <1>1, <2>1, <2>3, <2>4 DEF OnFd
  <2>5. CASE y = t
    BY <1>1, <2>1, <2>2, <2>3, <2>5, NoCallFd DEF OnFd
  <2> QED BY <2>4, <2>5
<1>3. \A u \in Tids : call'[u].op = "socket" => call'[u].kind \in Kinds
  BY <1>1, NoCallFd DEF DirectInv, Created
<1> QED BY <1>1, <1>2, <1>3, NoCallFd

(* Only the descriptor tables and the kinds of new sockets change.         *)
LEMMA JudgedFrame ==
    ASSUME TypeInv, DirectInv, NEW u \in Tids,
           UNCHANGED <<tgid, thread_states>>,
           call'[u].op = "connect" => /\ call[u].op = "connect"
                                      /\ call'[u].fd = call[u].fd
                                      /\ call'[u].want = call[u].want,
           pc'[u] = "kernel" => pc[u] = "kernel",
           call[u].op = "connect" => /\ fdt'[tgid[u]][call[u].fd] = SockOf(u)
                                     /\ kind'[SockOf(u)] = kind[SockOf(u)]
    PROVE  Judged(u)'
BY DEF DirectInv, Judged, SockOf, Pending

LEMMA KernelDirect ==
    ASSUME Disciplined, TypeInv, PhaseInv, BufInv, DirectInv, NEW t \in Tids,
           KernelStep(t)
    PROVE  DirectInv'
<1>0. UNCHANGED tracerVars
  BY DEF KernelStep
<1>1. Execute(t) /\ pc[t] = "kernel"
  BY DEF KernelStep, Execute, DoSocket, DoConnect, DoClose, DoClone
<1> DEFINE p == tgid[t]
<1>2. /\ call[t] \in Calls /\ p \in Tids /\ p # None /\ ~call[t].untraced
      /\ fdt \in [Tids -> [Fds -> Socks \cup {None}]]
      /\ kind \in [Socks -> Kinds \cup {None}]
      /\ peer \in [Socks -> Addrs \cup {None}]
      /\ asked \in [Socks -> Addrs \cup {None}]
      /\ None \notin Tids \cup Socks \cup Addrs \cup Kinds
  BY <1>1, TrackerAssumption
  DEF TypeInv, TypeOK, KernelTypeOK, TaskOK, PhaseInv, TracedOK
<1>3. \A u \in Tids : call[u].op = "connect" =>
         /\ SockOf(u) \in Socks /\ kind[SockOf(u)] # None
         /\ call[u].fd \in Fds /\ tgid[u] \in Tids
  BY ConnectTyped DEF DirectInv, Judged, Created, SockOf
<1>4. \A r \in {"ok", "error"} :
         LET c == [call[t] EXCEPT !.ret = r]
         IN  /\ c.op = call[t].op /\ c.want = call[t].want
             /\ c.kind = call[t].kind /\ c.fd = call[t].fd
  BY <1>2 DEF Calls
<1>5. CASE DoSocket(t)
  <2>0. UNCHANGED <<tgid, peer, asked>> /\ call[t].op = "socket"
    BY <1>5 DEF DoSocket
  <2>1. ASSUME NEW s \in Socks, NEW f \in Fds,
               kind[s] = None, fdt[p][f] = None,
               kind' = [kind EXCEPT ![s] = call[t].kind],
               fdt' = [fdt EXCEPT ![p][f] = s],
               Finish(t, [call[t] EXCEPT !.fd = f, !.ret = "ok"])
        PROVE  DirectInv'
    <3> DEFINE c == [call[t] EXCEPT !.fd = f, !.ret = "ok"]
    <3>1. c.op = "socket" /\ c.want = call[t].want /\ c.kind = call[t].kind
      BY <1>2, <2>0 DEF Calls
    <3> HIDE DEF c
    <3>2. /\ FdExclusive'
          /\ \A u \in Tids : call'[u].op = "socket" => call'[u].kind \in Kinds
          /\ UNCHANGED <<tgid, thread_states>>
          /\ \A u \in Tids : u # t => call'[u] = call[u]
          /\ \A u \in Tids : pc'[u] = "kernel" => pc[u] = "kernel"
          /\ call'[t].op # "connect"
      BY <1>0, <1>1, <2>0, <2>1, <3>1, FinishDirect DEF c
    <3>3. call[t].kind \in Kinds
      BY <2>0 DEF DirectInv, Created
    <3>4. /\ kind'[s] = call[t].kind /\ \A x \in Socks : x # s => kind'[x] = kind[x]
          /\ fdt'[p][f] = s
          /\ \A x \in Tids, y \in Fds : ~(x = p /\ y = f) => fdt'[x][y] = fdt[x][y]
      BY <1>2, <2>1
    <3>5. Created'
      <4>1. \A x \in Socks : kind[x] # None => kind'[x] # None
        BY <1>2, <3>3, <3>4
      <4>2. ASSUME NEW x \in Tids, NEW y \in Fds, fdt'[x][y] # None
            PROVE  kind'[fdt'[x][y]] # None
        <5>1. CASE x = p /\ y = f
          BY <1>2, <3>3, <3>4, <5>1
        <5>2. CASE ~(x = p /\ y = f)
          BY <1>2, <3>4, <4>1, <4>2, <5>2 DEF DirectInv, Created
        <5> QED BY <5>1, <5>2
      <4> QED BY <2>0, <3>2, <4>1, <4>2 DEF DirectInv, Created
    <3>6. ASSUME NEW u \in Tids PROVE Judged(u)'
      <4>1. call[u].op = "connect" => /\ fdt'[tgid[u]][call[u].fd] = SockOf(u)
                                      /\ kind'[SockOf(u)] = kind[SockOf(u)]
        BY <1>2, <1>3, <2>1, <3>4 DEF SockOf
      <4> QED BY <3>2, <4>1, JudgedFrame
    <3>7. DirectWhenSeen'
      BY <2>0, <2>1, <3>4 DEF DirectInv, Created, DirectWhenSeen, DirectOnlyIfExempt
    <3> QED BY <3>2, <3>5, <3>6, <3>7 DEF DirectInv
  <2>2. ASSUME Finish(t, [call[t] EXCEPT !.ret = "error"]),
               UNCHANGED <<kind, fdt>>
        PROVE  DirectInv'
    <3>1. /\ FdExclusive'
          /\ \A u \in Tids : call'[u].op = "socket" => call'[u].kind \in Kinds
          /\ UNCHANGED <<tgid, thread_states>>
          /\ \A u \in Tids : u # t => call'[u] = call[u]
          /\ \A u \in Tids : pc'[u] = "kernel" => pc[u] = "kernel"
          /\ call'[t].op # "connect"
      BY <1>0, <1>1, <1>4, <2>0, <2>2, FinishDirect
    <3>2. Created' /\ DirectWhenSeen'
      BY <2>0, <2>2, <3>1 DEF DirectInv, Created, DirectWhenSeen, DirectOnlyIfExempt
    <3>3. \A u \in Tids : Judged(u)'
      BY <2>2, <3>1, JudgedFrame DEF SockOf
    <3> QED BY <3>1, <3>2, <3>3 DEF DirectInv
  <2> QED BY <1>5, <2>1, <2>2 DEF DoSocket, LowestFree
<1>6. CASE DoConnect(t)
  <2> DEFINE s == SockOf(t)
             a == mem[p][call[t].buf]
             w == call[t].want
  <2>0. UNCHANGED <<tgid, fdt, kind>> /\ call[t].op = "connect"
    BY <1>6 DEF DoConnect
  <2>1. PICK r \in {"ok", "error"} : Finish(t, [call[t] EXCEPT !.ret = r])
    BY <1>6 DEF DoConnect
  <2>2. /\ FdExclusive'
        /\ \A u \in Tids : call'[u].op = "socket" => call'[u].kind \in Kinds
        /\ UNCHANGED <<tgid, thread_states>>
        /\ \A u \in Tids : u # t => call'[u] = call[u]
        /\ \A u \in Tids : pc'[u] = "kernel" => pc[u] = "kernel"
        /\ call'[t].op = "connect" => call'[t].fd = call[t].fd
                                      /\ call'[t].want = call[t].want
    BY <1>0, <1>1, <1>4, <2>0, <2>1, FinishDirect
  <2>3. \A u \in Tids : Judged(u)'
    BY <2>0, <2>2, JudgedFrame DEF SockOf
  <2>4. s \in Socks /\ kind[s] # None
    BY <1>3, <2>0
  <2>5. \/ peer' = [peer EXCEPT ![s] = a] /\ asked' = [asked EXCEPT ![s] = w]
           /\ ~(is_stream_type(kind[s]) /\ peer[s] # None)
        \/ UNCHANGED <<peer, asked>>
    BY <1>6 DEF DoConnect, SockOf
  <2>6. Created'
    BY <1>2, <2>0, <2>2, <2>4, <2>5 DEF DirectInv, Created
  <2>7. CanProbe /\ ~DisableIpv6 /\ is_stream_type(kind[s]) =>
           IF Exempt(w) THEN a = w ELSE a = Local
    <3>1. thread_states[t].phase = "Exiting"
      BY <1>1, <2>0 DEF DirectInv, Judged
    <3>2. /\ call[t].buf \in Bufs /\ w = wrote[p][call[t].buf]
      BY <2>0 DEF TypeInv, TaskOK, BufInv, ConnectOK
    <3>3. CASE Pending(t) # NoRestore
      <4>1. Redirected(t, p, call[t].buf)
        BY <2>0, <3>3 DEF Redirected, InConnect
      <4> QED BY <1>2, <2>0, <3>1, <3>2, <3>3, <4>1
              DEF BufInv, MemOK, DirectInv, Judged
    <3>4. CASE Pending(t) = NoRestore
      <4>1. \A u \in Tids : ~Redirected(u, p, call[t].buf)
        BY <1>2, <2>0, <3>4 DEF Redirected, BufInv, BufExclusive
      <4>2. a = w
        BY <1>2, <3>2, <4>1 DEF BufInv, MemOK
      <4> QED BY <2>0, <3>1, <3>4, <4>2 DEF DirectInv, Judged
    <3> QED BY <3>3, <3>4
  <2>8. DirectWhenSeen'
    <3> SUFFICES ASSUME CanProbe /\ ~DisableIpv6, NEW x \in Socks,
                        peer'[x] # None, is_stream_inet_socket(kind[x])
                 PROVE  IF Exempt(asked'[x]) THEN peer'[x] = asked'[x]
                        ELSE peer'[x] = Local
      BY <2>0 DEF DirectWhenSeen, DirectOnlyIfExempt, Exempt, Skipped
    <3>1. CASE peer'[x] = peer[x] /\ asked'[x] = asked[x]
      BY <3>1 DEF DirectInv, DirectWhenSeen, DirectOnlyIfExempt
    <3>2. CASE x = s /\ peer'[x] = a /\ asked'[x] = w
      BY <2>7, <3>2 DEF is_stream_inet_socket
    <3> QED BY <1>2, <2>4, <2>5, <3>1, <3>2
  <2> QED BY <2>2, <2>3, <2>6, <2>8 DEF DirectInv
<1>7. CASE DoClose(t)
  <2>0. /\ UNCHANGED <<tgid, kind, peer, asked>>
        /\ call[t].op \in {"close", "other"}
        /\ Finish(t, [call[t] EXCEPT !.ret = "ok"])
        /\ fdt' = [fdt EXCEPT ![p] =
                     [f \in Fds |-> IF f = call[t].fd THEN None ELSE @[f]]]
    BY <1>7 DEF DoClose
  <2>1. /\ FdExclusive'
        /\ \A u \in Tids : call'[u].op = "socket" => call'[u].kind \in Kinds
        /\ UNCHANGED <<tgid, thread_states>>
        /\ \A u \in Tids : u # t => call'[u] = call[u]
        /\ \A u \in Tids : pc'[u] = "kernel" => pc[u] = "kernel"
        /\ call'[t].op # "connect"
    BY <1>0, <1>1, <1>4, <2>0, FinishDirect
  <2>2. /\ \A f \in Fds : fdt'[p][f] = IF f = call[t].fd THEN None ELSE fdt[p][f]
        /\ \A x \in Tids : x # p => fdt'[x] = fdt[x]
    BY <1>2, <2>0
  <2>3. Created'
    BY <2>0, <2>1, <2>2 DEF DirectInv, Created
  <2>4. ASSUME NEW u \in Tids PROVE Judged(u)'
    <3>1. call[u].op = "connect" => fdt'[tgid[u]][call[u].fd] = SockOf(u)
      <4>1. call[u].op = "connect" /\ tgid[u] = p => call[u].fd # call[t].fd
        BY <1>2, <2>0 DEF DirectInv, FdExclusive, OnFd
      <4> QED BY <1>3, <2>2, <4>1 DEF SockOf
    <3> QED BY <2>0, <2>1, <3>1, JudgedFrame
  <2>5. DirectWhenSeen'
    BY <2>0 DEF DirectInv, DirectWhenSeen, DirectOnlyIfExempt
  <2> QED BY <2>1, <2>3, <2>4, <2>5 DEF DirectInv
<1>8. CASE DoClone(t)
  <2>0. /\ UNCHANGED <<kind, peer, asked>>
        /\ call[t].op \in {"clone", "clone3"}
    BY <1>8 DEF DoClone
  <2>1. ASSUME Finish(t, [call[t] EXCEPT !.ret = "error"]), UNCHANGED <<tgid, fdt>>
        PROVE  DirectInv'
    <3>1. /\ FdExclusive'
          /\ \A u \in Tids : call'[u].op = "socket" => call'[u].kind \in Kinds
          /\ UNCHANGED <<tgid, thread_states>>
          /\ \A u \in Tids : u # t => call'[u] = call[u]
          /\ \A u \in Tids : pc'[u] = "kernel" => pc[u] = "kernel"
          /\ call'[t].op # "connect"
      BY <1>0, <1>1, <1>4, <2>0, <2>1, FinishDirect
    <3>2. Created' /\ DirectWhenSeen'
      BY <2>0, <2>1, <3>1 DEF DirectInv, Created, DirectWhenSeen, DirectOnlyIfExempt
    <3>3. \A u \in Tids : Judged(u)'
      BY <2>0, <2>1, <3>1, JudgedFrame DEF SockOf
    <3> QED BY <3>1, <3>2, <3>3 DEF DirectInv
  <2>2. ASSUME NEW c \in Tids, pc[c] = "none", NEW q \in Tids,
               q = IF call[t].thread THEN p ELSE c,
               tgid' = [tgid EXCEPT ![c] = q],
               fdt' = [fdt EXCEPT ![q] = fdt[p]],
               pc' = [pc EXCEPT ![c] = "newborn", ![t] = "event"],
               call' = [call EXCEPT ![t].child = c, ![t].ret = "ok"]
        PROVE  DirectInv'
    <3>1. /\ c # t /\ tgid[c] = None /\ call[c] = NoCall
          /\ \A u \in Tids : tgid[u] # c
      BY <1>1, <1>2, <2>2 DEF TypeInv, TaskOK, Idle, BufInv, GroupOK
    <3>2. /\ \A u \in Tids : SameFd(call'[u], call[u])
          /\ thread_states' = thread_states
          /\ \A u \in Tids : u # c => tgid'[u] = tgid[u]
          /\ \A u \in Tids : pc'[u] = "kernel" => pc[u] = "kernel"
      BY <1>0, <2>2
      DEF TypeInv, TypeOK, KernelTypeOK, Calls, SameFd, tracerVars
    <3>3. \A x \in Tids : x # c => fdt'[x] = fdt[x]
      BY <1>2, <2>2
    <3>4. fdt'[c] = fdt[p] \/ fdt'[c] = fdt[c]
      BY <1>2, <2>2
    <3>5. FdExclusive'
      <4> SUFFICES ASSUME NEW x \in Tids, NEW y \in Tids, x # y,
                          tgid'[x] # None, tgid'[y] = tgid'[x],
                          call'[x].op = "connect"
                   PROVE  ~(call'[y].op # "socket" /\ call'[y].fd = call'[x].fd)
        BY DEF FdExclusive, OnFd
      <4>1. x # c /\ call[x].op = "connect" /\ call'[x].fd = call[x].fd
            /\ call[x].fd # None
        BY <3>1, <3>2, NoCallFd, ConnectTyped DEF SameFd
      <4>2. CASE y = c
        BY <3>1, <3>2, <4>1, <4>2, NoCallFd DEF SameFd
      <4>3. CASE y # c
        BY <3>2, <4>1, <4>3 DEF SameFd, DirectInv, FdExclusive, OnFd
      <4> QED BY <4>2, <4>3
    <3>6. Created'
      BY <1>2, <2>0, <3>2, <3>3, <3>4 DEF DirectInv, Created, SameFd
    <3>7. ASSUME NEW u \in Tids PROVE Judged(u)'
      <4>1. CASE u = c
        BY <3>1, <3>2, <4>1, NoCallFd DEF Judged, SameFd
      <4>2. CASE u # c
        <5>1. call[u].op = "connect" => SockOf(u)' = SockOf(u)
          BY <1>3, <3>1, <3>2, <3>3, <4>2 DEF SockOf, SameFd
        <5> QED BY <2>0, <3>2, <5>1 DEF DirectInv, Judged, Pending, SameFd
      <4> QED BY <4>1, <4>2
    <3>8. DirectWhenSeen'
      BY <2>0 DEF DirectInv, DirectWhenSeen, DirectOnlyIfExempt
    <3> QED BY <3>5, <3>6, <3>7, <3>8 DEF DirectInv
  <2> QED BY <1>2, <1>8, <2>1, <2>2 DEF DoClone
<1> QED BY <1>1, <1>5, <1>6, <1>7, <1>8 DEF Execute

(* The entry handlers: a connect() leaves them judged.                     *)
LEMMA EnterDirect ==
    ASSUME Disciplined, TypeInv, PhaseInv, BufInv, DirectInv, NEW t \in Tids,
           handle_syscall_enter(t), pc[t] \in {"entry", "seccomp"}
    PROVE  DirectInv'
<1>1. /\ call[t] \in Calls /\ thread_states[t] \in ThreadState
      /\ tgid[t] \in Tids /\ tgid[t] # None /\ Judged(t)
  BY TrackerAssumption
  DEF TypeInv, TypeOK, KernelTypeOK, TracerTypeOK, TaskOK, DirectInv
<1>2. CASE return_err(t)
  BY <1>2, DirectFrame DEF return_err, kernelVars, SameFd
<1>3. ASSUME NEW st, NEW c, Entered(t, st, c)
      PROVE  /\ UNCHANGED <<tgid, fdt, kind, peer, asked>>
             /\ thread_states'[t] = [st EXCEPT !.phase = "Exiting"]
             /\ call'[t] = c
             /\ \A u \in Tids : u # t => /\ call'[u] = call[u]
                                         /\ thread_states'[u] = thread_states[u]
                                         /\ pc'[u] = pc[u]
  <2> DEFINE ex == [st EXCEPT !.phase = "Exiting"]
  <2>1. resume_tracee(t, ex, c)
    BY <1>3 DEF Entered
  <2>2. ResumeAt(pc[t], c, resume_request(ex)) # "user"
    BY DEF ResumeAt, AfterEntry
  <2>3. /\ UNCHANGED <<tgid, fdt, kind, peer, asked>>
        /\ \A u \in Tids : u # t => pc'[u] = pc[u]
    BY <2>1 DEF resume_tracee, TypeInv, TypeOK, KernelTypeOK
  <2> QED BY <2>1, <2>2, <2>3, ResumeFrame
(* What a handler's answer has to be for the invariant to go on.           *)
<1>4. ASSUME NEW st \in ThreadState, NEW c, Entered(t, st, c),
             SameFd(c, call[t]),
             call[t].op = "connect" =>
                IF st.pending_connect_restore # NoRestore
                THEN ~Exempt(call[t].want)
                ELSE CanProbe /\ ~DisableIpv6 =>
                        Exempt(call[t].want) \/ ~is_stream_type(kind[SockOf(t)])
      PROVE  DirectInv'
  <2>1. /\ UNCHANGED <<tgid, fdt, kind, peer, asked>>
        /\ thread_states'[t].phase = "Exiting"
        /\ Pending(t)' = st.pending_connect_restore
        /\ \A u \in Tids : SameFd(call'[u], call[u])
        /\ \A u \in Tids : u # t => /\ thread_states'[u] = thread_states[u]
                                    /\ pc'[u] = pc[u]
    <3>1. /\ [st EXCEPT !.phase = "Exiting"].phase = "Exiting"
          /\ [st EXCEPT !.phase = "Exiting"].pending_connect_restore
               = st.pending_connect_restore
      BY <1>4 DEF ThreadState
    <3>2. /\ UNCHANGED <<tgid, fdt, kind, peer, asked>>
          /\ thread_states'[t] = [st EXCEPT !.phase = "Exiting"]
          /\ call'[t] = c
          /\ \A u \in Tids : u # t => /\ call'[u] = call[u]
                                      /\ thread_states'[u] = thread_states[u]
                                      /\ pc'[u] = pc[u]
      BY <1>3, <1>4
    <3> QED BY <1>4, <3>1, <3>2 DEF Pending, SameFd
  <2>2. FdExclusive'
    BY <2>1 DEF DirectInv, FdExclusive, OnFd, SameFd
  <2>3. Created'
    BY <2>1 DEF DirectInv, Created, SameFd
  <2>4. Judged(t)'
    BY <1>1, <1>4, <2>1 DEF Judged, SockOf, SameFd
  <2>5. ASSUME NEW u \in Tids, u # t PROVE Judged(u)'
    BY <2>1, <2>5 DEF DirectInv, Judged, SockOf, Pending, SameFd
  <2>6. DirectWhenSeen'
    BY <2>1 DEF DirectInv, DirectWhenSeen, DirectOnlyIfExempt
  <2> QED BY <2>2, <2>3, <2>4, <2>5, <2>6 DEF DirectInv
<1>5. CASE \/ call[t].op = "clone" /\ handle_clone_enter(t)
           \/ call[t].op = "clone3" /\ handle_clone3_enter(t)
  <2> DEFINE c == [call[t] EXCEPT !.untraced = FALSE]
  <2>1. SameFd(c, call[t])
    BY <1>1 DEF Calls, SameFd
  <2>2. return_err(t) \/ Entered(t, thread_states[t], c)
    BY <1>5 DEF handle_clone_enter, handle_clone3_enter
  <2> HIDE DEF c
  <2> QED BY <1>1, <1>2, <1>4, <1>5, <2>1, <2>2
<1>6. CASE \/ call[t].op = "socket" /\ handle_socket_enter(t)
           \/ call[t].op = "close" /\ handle_close_enter(t)
           \/ call[t].op = "other" /\ handle_other_enter(t)
  <2>1. Entered(t, thread_states[t], call[t]) /\ SameFd(call[t], call[t])
    BY <1>6
    DEF handle_socket_enter, handle_close_enter, handle_other_enter, SameFd
  <2> QED BY <1>1, <1>4, <1>6, <2>1
<1>7. CASE call[t].op = "connect" /\ handle_connect_enter(t)
  <2> DEFINE b    == call[t].buf
             dest == mem[tgid[t]][b]
             st   == [thread_states[t] EXCEPT
                        !.pending_connect_restore = NoRestore]
             forced == [st EXCEPT !.forced_connect_errno = TRUE]
             restore == [st EXCEPT !.pending_connect_restore =
                            [addr_ptr |-> b, dest |-> dest]]
             probe == probe_socket_is_stream(t, call[t].fd)
  <2>1. \/ return_err(t)
        \/ Entered(t, st, call[t]) /\ (Exempt(dest) \/ ~probe)
        \/ Entered(t, forced, call[t]) /\ DisableIpv6
        \/ Entered(t, restore, call[t]) /\ ~Exempt(dest)
    BY <1>7 DEF handle_connect_enter, Exempt
  <2>2. dest = call[t].want /\ b \in Bufs /\ b # None /\ dest \in Addrs \cup {None}
    <3>1. dest = call[t].want /\ b \in Bufs
      BY <1>7, DestIsWanted
    <3>2. dest \in Addrs \cup {None}
      BY <1>1, <3>1 DEF TypeInv, TypeOK, KernelTypeOK
    <3> QED BY <3>1, <3>2, KernelAssumption
  <2>3. CanProbe /\ ~probe => ~is_stream_type(kind[SockOf(t)])
    BY <1>1, <1>7
    DEF probe_socket_is_stream, Judged, SockOf,
        read_tgid_from_proc_status
  <2>4. /\ st \in ThreadState /\ st.pending_connect_restore = NoRestore
        /\ forced \in ThreadState /\ forced.pending_connect_restore = NoRestore
    BY <1>1 DEF ThreadState, NoRestore
  <2>5. restore \in ThreadState /\ restore.pending_connect_restore # NoRestore
    <3> HIDE DEF dest, b
    <3> QED BY <1>1, <2>2 DEF ThreadState, NoRestore
  <2>6. SameFd(call[t], call[t])
    BY DEF SameFd
  <2> HIDE DEF st, forced, restore, probe, dest
  <2> QED BY <1>2, <1>4, <2>1, <2>2, <2>3, <2>4, <2>5, <2>6
<1> QED BY <1>5, <1>6, <1>7 DEF handle_syscall_enter

LEMMA TracerDirect ==
    ASSUME Disciplined, TypeInv, PhaseInv, BufInv, DirectInv, NEW t \in Tids,
           TracerStep(t)
    PROVE  DirectInv'
<1>1. PhaseOK(t) /\ TaskOK(t)
  BY DEF PhaseInv, TypeInv
<1>2. CASE OnSeccompEvent(t)
  BY <1>2, EnterDirect DEF OnSeccompEvent
(* The call of t is over, or goes on as it was.                            *)
<1>3. ASSUME NEW st, NEW c, resume_tracee(t, st, c),
             \/ st = thread_states[t] /\ c = call[t]
             \/ ResumeAt(pc[t], c, resume_request(st)) = "user",
             pc[t] # "entry", pc[t] # "seccomp"
      PROVE  DirectInv'
  <2>1. /\ UNCHANGED <<tgid, fdt, kind, peer, asked>>
        /\ \A u \in Tids : u # t => /\ call'[u] = call[u] /\ pc'[u] = pc[u]
                                    /\ thread_states'[u] = thread_states[u]
        /\ pc'[t] # "kernel"
        /\ thread_states'[t] = st
        /\ call'[t] = c \/ call'[t] = NoCall
        /\ call'[t] # NoCall => ResumeAt(pc[t], c, resume_request(st)) # "user"
    <3>1. pc'[t] = ResumeAt(pc[t], c, resume_request(st))
      BY <1>3 DEF resume_tracee, TypeInv, TypeOK, KernelTypeOK
    <3>2. pc'[t] # "kernel"
      BY <1>3, <3>1 DEF ResumeAt, AtExit
    <3>3. /\ UNCHANGED <<tgid, fdt, kind, peer, asked>>
          /\ \A u \in Tids : u # t => pc'[u] = pc[u]
      BY <1>3 DEF resume_tracee, TypeInv, TypeOK, KernelTypeOK
    <3> QED BY <1>3, <3>2, <3>3, ResumeFrame
  <2>2. CASE call'[t] = NoCall
    BY <2>1, <2>2, NoCallFd, DirectCall
  <2>3. CASE call'[t] # NoCall
    BY <1>3, <2>1, <2>3, DirectFrame DEF SameFd
  <2> QED BY <2>2, <2>3
<1>4. CASE OnSyscallStop(t)
  <2>1. CASE pc[t] = "entry"
    BY <1>1, <1>4, <2>1, EnterDirect DEF OnSyscallStop, PhaseOK
  <2>2. CASE pc[t] = "exit"
    <3>1. PICK c : resume_tracee(t, exited_state(thread_states[t]), c)
      BY <1>1, <1>4, <2>2 DEF OnSyscallStop, PhaseOK, handle_syscall_exit
    <3>2. ResumeAt(pc[t], c, resume_request(exited_state(thread_states[t])))
            = "user"
      BY <2>2 DEF ResumeAt
    <3> QED BY <1>3, <2>2, <3>1, <3>2
  <2> QED BY <1>4, <2>1, <2>2 DEF OnSyscallStop
<1>5. CASE OnCloneEvent(t) \/ OnNewborn(t)
  BY <1>3, <1>5 DEF OnCloneEvent, OnNewborn
<1>6. CASE OnExited(t)
  <2>1. /\ tgid'[t] = None /\ call[t] = NoCall
        /\ UNCHANGED <<call, fdt, kind, peer, asked>>
        /\ \A u \in Tids : u # t => /\ tgid'[u] = tgid[u] /\ pc'[u] = pc[u]
                                    /\ thread_states'[u] = thread_states[u]
    BY <1>1, <1>6
    DEF OnExited, TaskOK, Idle, TypeInv, TypeOK, KernelTypeOK, TracerTypeOK
  <2>2. FdExclusive'
    <3> SUFFICES ASSUME NEW x \in Tids, NEW y \in Tids, x # y, tgid'[x] # None,
                        tgid'[y] = tgid'[x], call'[x].op = "connect"
                 PROVE  ~(call'[y].op # "socket" /\ call'[y].fd = call'[x].fd)
      BY DEF FdExclusive, OnFd
    <3>1. x # t /\ y # t
      BY <2>1
    <3> QED BY <2>1, <3>1 DEF DirectInv, FdExclusive, OnFd
  <2>3. Created'
    BY <2>1 DEF DirectInv, Created
  <2>4. Judged(t)'
    BY <2>1, NoCallFd DEF Judged
  <2>5. ASSUME NEW u \in Tids, u # t PROVE Judged(u)'
    BY <2>1, <2>5 DEF DirectInv, Judged, SockOf, Pending
  <2>6. DirectWhenSeen'
    BY <2>1 DEF DirectInv, DirectWhenSeen, DirectOnlyIfExempt
  <2> QED BY <2>2, <2>3, <2>4, <2>5, <2>6 DEF DirectInv
<1> QED BY <1>2, <1>4, <1>5, <1>6 DEF TracerStep, Tracer

LEMMA DirectStep ==
    ASSUME Disciplined, TypeInv, PhaseInv, BufInv, DirectInv, [Next]_vars
    PROVE  DirectInv'
<1>1. CASE UNCHANGED <<kernelVars, tracerVars>>
  BY <1>1, DirectFrame DEF kernelVars, tracerVars, SameFd
<1>2. CASE \E t \in Tids : ProgramStep(t) \/ KernelStep(t) \/ TracerStep(t)
  BY <1>2, ProgramDirect, KernelDirect, TracerDirect
<1> QED BY <1>1, <1>2 DEF Next, ProxyStep, Terminated, vars

LEMMA DirectInit == Init => DirectInv
<1> SUFFICES ASSUME Init PROVE DirectInv
  OBVIOUS
<1>1. /\ \A t \in Tids : call[t] = NoCall
      /\ \A p \in Tids, f \in Fds : fdt[p][f] = None
      /\ \A s \in Socks : peer[s] = None
  BY DEF Init, KernelInit, NoFds
<1> QED BY <1>1, NoCallFd
        DEF DirectInv, FdExclusive, Created, Judged, DirectWhenSeen, DirectOnlyIfExempt

(* No TCP connection of the program leaves the machine around the proxy    *)
(* unless its address is exempt: handle_connect_enter redirects every      *)
(* connect() of a stream socket, in both modes and for every interleaving  *)
(* of the program's threads and processes with the tracer, if the kernel   *)
(* grants pidfd_getfd, IPv6 is not disabled, and no two calls at a time    *)
(* share a sockaddr or a descriptor and none forks during a connect().     *)
THEOREM NoDirectConnections ==
    ASSUME "shareBuf" \notin Allow, "shareFd" \notin Allow,
           "forkInConnect" \notin Allow, CanProbe, ~DisableIpv6
    PROVE  Spec => []DirectOnlyIfExempt
<1>1. Disciplined /\ NotShared
  BY DEF Disciplined, NotShared
<1>2. TypeInv /\ PhaseInv /\ BufInv /\ DirectInv /\ [Next]_vars => DirectInv'
  BY <1>1, DirectStep
<1>3. DirectInv => DirectOnlyIfExempt
  BY DEF DirectInv, DirectWhenSeen
<1> QED BY <1>1, <1>2, <1>3, DirectInit, BufInvariant, PTL DEF Spec
=============================================================================
