------------------------------- MODULE Kernel -------------------------------
(***************************************************************************)
(* The world proxec works in, modelled from how its code uses it: the      *)
(* traced program (threads, processes, file descriptors, the buffers that  *)
(* hold its socket addresses), the system calls that matter to proxec, and *)
(* the places where Linux stops a traced task and hands it to the tracer.  *)
(* A task's life is its `pc':                                              *)
(*                                                                         *)
(*   none     no such task                                                 *)
(*   newborn  stopped by the SIGSTOP that an auto-attached child gets      *)
(*   user     running the program                                          *)
(*   entry    in a syscall-entry-stop     (only after PTRACE_SYSCALL)      *)
(*   seccomp  in a PTRACE_EVENT_SECCOMP stop                               *)
(*   kernel   the system call is about to be executed                      *)
(*   event    in the PTRACE_EVENT_CLONE/FORK stop of its clone             *)
(*   exit     in a syscall-exit-stop      (only after PTRACE_SYSCALL)      *)
(*   zombie   dead, its status not collected                               *)
(*   wild     running without a tracer                                     *)
(*                                                                         *)
(* What a legal program may do that proxec does not expect is switched on  *)
(* by Allow:                                                               *)
(*   shareBuf       two threads pass one sockaddr to connect() at once     *)
(*   shareFd        two threads use one descriptor at once                 *)
(*   closeUnseen    a descriptor goes without close(): dup2, close_range,  *)
(*                  FD_CLOEXEC at exec                                     *)
(*   closeEarly     a descriptor is closed before the socket() that made   *)
(*                  it has returned, by a sibling that knows the number    *)
(*   retarget       connect() on a connected socket, to another address    *)
(*   inherit        connect() by a process that did not create the socket  *)
(*   forkInConnect  fork() while a sibling thread is in connect()          *)
(*   badPointer     connect() or clone3() with an unreadable pointer       *)
(* and of the kernel:                                                      *)
(*   acceptFails    accept() returns an error, EMFILE say                  *)
(***************************************************************************)
EXTENDS SocketTracker, FiniteSets

CONSTANTS
    Main,         \* the task proxec started
    Bufs,         \* sockaddr buffers of a process
    Local,        \* the address the local proxy listens on
    Inet6,        \* the IPv6 addresses
    OtherFamily,  \* the addresses of neither IP family
    UseSeccomp,   \* is the seccomp filter installed?
    Clones,       \* the clone calls the program makes
    Allow         \* see above

Behaviours == {"shareBuf", "shareFd", "closeUnseen", "closeEarly", "retarget",
               "inherit", "forkInConnect", "badPointer", "acceptFails"}

ASSUME KernelAssumption ==
    /\ Main \in Tids
    /\ None \notin Bufs
    /\ Local \in Addrs /\ Local \notin Inet6 \cup OtherFamily
    /\ UseSeccomp \in BOOLEAN
    /\ Clones \subseteq [op : {"clone", "clone3"}, thread : BOOLEAN,
                         untraced : BOOLEAN]
    /\ Allow \subseteq Behaviours

VARIABLES
    tgid,   \* the thread group of a task, None if there is no such task
    pc,     \* where the task is
    call,   \* the system call it is in
    how,    \* how the tracer last resumed it: PTRACE_CONT or PTRACE_SYSCALL
    fdt,    \* per thread group, the descriptor table
    kind,   \* the kind of a socket, None before it is created
    peer,   \* the address the kernel connected a socket to
    mem,    \* per thread group, the contents of the sockaddr buffers
    asked,  \* history: the address the program passed for `peer'
    owner,  \* history: the process that created a socket, until it dies
    wrote   \* history: what the program itself last stored in a buffer

kernelVars ==
    <<tgid, pc, call, how, fdt, kind, peer, mem, asked, owner, wrote>>

Dests == Addrs \ {Local}
PCs == {"none", "newborn", "user", "entry", "seccomp", "kernel", "event",
        "exit", "zombie", "wild"}
Ops == {"none", "socket", "connect", "close", "clone", "clone3", "other"}

(* `fd' is the descriptor of connect and close, and the result of socket.  *)
(* `valid' tells whether the pointer argument can be read.                 *)
Calls == [op : Ops, fd : Fds \cup {None}, buf : Bufs \cup {None},
          kind : Kinds \cup {None}, thread : BOOLEAN, untraced : BOOLEAN,
          valid : BOOLEAN, want : Addrs \cup {None},
          child : Tids \cup {None},
          ret : {"none", "ok", "error", "EAFNOSUPPORT"}]

NoCall == [op |-> "none", fd |-> None, buf |-> None, kind |-> None,
           thread |-> FALSE, untraced |-> FALSE, valid |-> TRUE,
           want |-> None, child |-> None, ret |-> "none"]

KernelTypeOK ==
    /\ tgid \in [Tids -> Tids \cup {None}]
    /\ pc \in [Tids -> PCs]
    /\ call \in [Tids -> Calls]
    /\ how \in [Tids -> {"cont", "syscall"}]
    /\ fdt \in [Tids -> [Fds -> Socks \cup {None}]]
    /\ kind \in [Socks -> Kinds \cup {None}]
    /\ peer \in [Socks -> Addrs \cup {None}]
    /\ asked \in [Socks -> Addrs \cup {None}]
    /\ owner \in [Socks -> Tids \cup {None}]
    /\ mem \in [Tids -> [Bufs -> Addrs \cup {None}]]
    /\ wrote \in [Tids -> [Bufs -> Addrs \cup {None}]]

NoFds == [f \in Fds |-> None]
NoMem == [b \in Bufs |-> None]

(* The started program has passed its first exec: it runs, it is traced,   *)
(* and in ptrace mode it was last resumed with PTRACE_SYSCALL.             *)
KernelInit ==
    /\ tgid = [t \in Tids |-> IF t = Main THEN Main ELSE None]
    /\ pc = [t \in Tids |-> IF t = Main THEN "user" ELSE "none"]
    /\ call = [t \in Tids |-> NoCall]
    /\ how = [t \in Tids |-> IF t = Main /\ ~UseSeccomp
                             THEN "syscall" ELSE "cont"]
    /\ fdt = [t \in Tids |-> NoFds]
    /\ kind = [s \in Socks |-> None]
    /\ peer = [s \in Socks |-> None]
    /\ asked = [s \in Socks |-> None]
    /\ owner = [s \in Socks |-> None]
    /\ mem = [t \in Tids |-> NoMem]
    /\ wrote = [t \in Tids |-> NoMem]

Siblings(t) == {u \in Tids \ {t} : tgid[u] = tgid[t]}
Holders(s) == {p \in Tids : \E f \in Fds : fdt[p][f] = s}

-----------------------------------------------------------------------------
(* The stops Linux makes on the way into a call and out of it.             *)

(* The calls the filter answers with SECCOMP_RET_TRACE, as SeccompFilter   *)
(* derives them from the instructions (FilterSeesExactly, SocketsPass).    *)
Filtered(c) ==
    \/ c.op \in {"connect", "close", "clone3"}
    \/ c.op = "clone" /\ c.untraced

AfterEntry(c) == IF UseSeccomp /\ Filtered(c) THEN "seccomp" ELSE "kernel"

AtExit(h) == IF h = "syscall" THEN "exit" ELSE "user"

Trap(t, c) ==
    /\ pc[t] = "user"
    /\ call' = [call EXCEPT ![t] = c]
    /\ pc' = [pc EXCEPT ![t] = IF how[t] = "syscall" THEN "entry"
                               ELSE AfterEntry(c)]
    /\ UNCHANGED <<tgid, how, fdt, kind, peer, asked, owner>>

(* The call ends as c: at its exit stop, or back in the program.           *)
Finish(t, c) ==
    /\ pc' = [pc EXCEPT ![t] = AtExit(how[t])]
    /\ call' = [call EXCEPT ![t] = IF how[t] = "syscall" THEN c ELSE NoCall]

-----------------------------------------------------------------------------
(* What the program does.                                                  *)

InConnect(u, b) == call[u].op = "connect" /\ call[u].buf = b
InFork(u) == call[u].op \in {"clone", "clone3"} /\ ~call[u].thread
OnFd(u, fd) == call[u].op # "socket" /\ call[u].fd = fd
Opening(u, fd) == call[u].op = "socket" /\ call[u].fd = fd
FdFree(t, fd) == "shareFd" \in Allow \/ \A u \in Siblings(t) : ~OnFd(u, fd)

(* The program fills a buffer that no thread of it is passing to connect.  *)
StoreSockaddr(t, b, a) ==
    /\ pc[t] = "user" /\ wrote[tgid[t]][b] # a
    /\ \A u \in Siblings(t) : ~InConnect(u, b)
    /\ mem' = [mem EXCEPT ![tgid[t]][b] = a]
    /\ wrote' = [wrote EXCEPT ![tgid[t]][b] = a]
    /\ UNCHANGED <<tgid, pc, call, how, fdt, kind, peer, asked, owner>>

CallSocket(t, k) ==
    /\ Trap(t, [NoCall EXCEPT !.op = "socket", !.kind = k])
    /\ UNCHANGED <<mem, wrote>>

CallConnect(t, fd, b) ==
    LET p == tgid[t]
        s == fdt[p][fd]
        c == [NoCall EXCEPT !.op = "connect", !.fd = fd, !.buf = b,
                            !.want = wrote[p][b]]
    IN  /\ pc[t] = "user" /\ s # None /\ wrote[p][b] # None
        /\ FdFree(t, fd)
        /\ "retarget" \in Allow \/ peer[s] = None \/ asked[s] = wrote[p][b]
        /\ "inherit" \in Allow \/ owner[s] = p
        /\ \A u \in Siblings(t) : "shareBuf" \in Allow \/ ~InConnect(u, b)
        /\ \A u \in Siblings(t) : "forkInConnect" \in Allow \/ ~InFork(u)
        /\ \E v \in BOOLEAN :
              /\ v \/ "badPointer" \in Allow
              /\ Trap(t, [c EXCEPT !.valid = v])
        /\ UNCHANGED <<mem, wrote>>

CallClose(t, fd) ==
    /\ pc[t] = "user" /\ fdt[tgid[t]][fd] # None /\ FdFree(t, fd)
    /\ "closeEarly" \in Allow \/ \A u \in Siblings(t) : ~Opening(u, fd)
    /\ Trap(t, [NoCall EXCEPT !.op = "close", !.fd = fd])
    /\ UNCHANGED <<mem, wrote>>

(* fork and vfork take the path of a clone without CLONE_UNTRACED.         *)
CallClone(t, c) ==
    /\ pc[t] = "user"
    /\ \/ c.thread
       \/ "forkInConnect" \in Allow
       \/ \A u \in Siblings(t) : call[u].op # "connect"
    /\ \E v \in BOOLEAN :
          /\ v \/ (c.op = "clone3" /\ "badPointer" \in Allow)
          /\ Trap(t, [NoCall EXCEPT !.op = c.op, !.thread = c.thread,
                                    !.untraced = c.untraced, !.valid = v])
    /\ UNCHANGED <<mem, wrote>>

(* Any other call; with a descriptor, one that closes it unseen.  One that *)
(* changes nothing here is worth a step only where the tracer sees it.     *)
CallOther(t, fd) ==
    /\ pc[t] = "user"
    /\ fd = None => ~UseSeccomp
    /\ fd # None => /\ "closeUnseen" \in Allow
                    /\ fdt[tgid[t]][fd] # None /\ FdFree(t, fd)
    /\ Trap(t, [NoCall EXCEPT !.op = "other", !.fd = fd])
    /\ UNCHANGED <<mem, wrote>>
-----------------------------------------------------------------------------
(* What the kernel does with a call.                                       *)

LowestFree(p, f) ==
    fdt[p][f] = None /\ \A g \in Fds : fdt[p][g] = None => f <= g

DoSocket(t) ==
    LET p == tgid[t]
    IN  /\ pc[t] = "kernel" /\ call[t].op = "socket"
        /\ \/ \E s \in Socks, f \in Fds :
                 /\ kind[s] = None /\ LowestFree(p, f)
                 /\ kind' = [kind EXCEPT ![s] = call[t].kind]
                 /\ owner' = [owner EXCEPT ![s] = p]
                 /\ fdt' = [fdt EXCEPT ![p][f] = s]
                 /\ Finish(t, [call[t] EXCEPT !.fd = f, !.ret = "ok"])
           \/ /\ Finish(t, [call[t] EXCEPT !.ret = "error"])
              /\ UNCHANGED <<kind, owner, fdt>>
        /\ UNCHANGED <<tgid, how, peer, asked, mem, wrote>>

FamilyOf(a) ==
    IF a \in Inet6 THEN "inet6" ELSE IF a \in OtherFamily THEN "unix" ELSE "inet"

(* The kernel copies the address when it executes the call, not before. A  *)
(* stream socket connects once; an address of another family is refused;   *)
(* any connect may be refused by the other side.                           *)
DoConnect(t) ==
    LET p == tgid[t]
        s == fdt[p][call[t].fd]
        a == mem[p][call[t].buf]
    IN  /\ pc[t] = "kernel" /\ call[t].op = "connect"
        /\ \/ /\ s # None /\ kind[s].domain = FamilyOf(a)
              /\ ~(is_stream_type(kind[s]) /\ peer[s] # None)
              /\ peer' = [peer EXCEPT ![s] = a]
              /\ asked' = [asked EXCEPT ![s] = call[t].want]
              /\ Finish(t, [call[t] EXCEPT !.ret = "ok"])
           \/ /\ Finish(t, [call[t] EXCEPT !.ret = "error"])
              /\ UNCHANGED <<peer, asked>>
        /\ UNCHANGED <<tgid, how, fdt, kind, owner, mem, wrote>>

DoClose(t) ==
    /\ pc[t] = "kernel" /\ call[t].op \in {"close", "other"}
    /\ fdt' = [fdt EXCEPT ![tgid[t]] =
                  [f \in Fds |-> IF f = call[t].fd THEN None ELSE @[f]]]
    /\ Finish(t, [call[t] EXCEPT !.ret = "ok"])
    /\ UNCHANGED <<tgid, how, kind, peer, asked, owner, mem, wrote>>

(* A child that is traced starts in its SIGSTOP and its parent stops for   *)
(* the event; a child of CLONE_UNTRACED runs without the tracer.           *)
DoClone(t) ==
    LET p == tgid[t]
    IN  /\ pc[t] = "kernel" /\ call[t].op \in {"clone", "clone3"}
        /\ \/ \E c \in Tids :
                 LET q == IF call[t].thread THEN p ELSE c
                 IN /\ pc[c] = "none"
                    /\ tgid' = [tgid EXCEPT ![c] = q]
                    /\ fdt' = [fdt EXCEPT ![q] = fdt[p]]
                    /\ mem' = [mem EXCEPT ![q] = mem[p]]
                    /\ wrote' = [wrote EXCEPT ![q] = wrote[p]]
                    /\ IF call[t].untraced
                       THEN /\ pc' = [pc EXCEPT ![c] = "wild",
                                                ![t] = AtExit(how[t])]
                            /\ call' = [call EXCEPT ![t] =
                                  IF how[t] = "syscall"
                                  THEN [@ EXCEPT !.ret = "ok"] ELSE NoCall]
                       ELSE /\ pc' = [pc EXCEPT ![c] = "newborn",
                                                ![t] = "event"]
                            /\ call' = [call EXCEPT ![t].child = c,
                                                    ![t].ret = "ok"]
           \/ /\ Finish(t, [call[t] EXCEPT !.ret = "error"])
              /\ UNCHANGED <<tgid, fdt, mem, wrote>>
        /\ UNCHANGED <<how, kind, peer, asked, owner>>

(* A thread exits; with the last one go the descriptors and the memory.    *)
Exit(t) ==
    LET p == tgid[t]
        last == \A u \in Siblings(t) : pc[u] = "zombie"
    IN  /\ pc[t] = "user"
        /\ pc' = [pc EXCEPT ![t] = "zombie"]
        /\ fdt' = [fdt EXCEPT ![p] = IF last THEN NoFds ELSE @]
        /\ mem' = [mem EXCEPT ![p] = IF last THEN NoMem ELSE @]
        /\ wrote' = [wrote EXCEPT ![p] = IF last THEN NoMem ELSE @]
        /\ owner' = [s \in Socks |->
                        IF last /\ owner[s] = p THEN None ELSE owner[s]]
        /\ UNCHANGED <<tgid, call, how, kind, peer, asked>>

Program(t) ==
    \/ \E b \in Bufs, a \in Dests : StoreSockaddr(t, b, a)
    \/ \E k \in Kinds : CallSocket(t, k)
    \/ \E fd \in Fds, b \in Bufs : CallConnect(t, fd, b)
    \/ \E fd \in Fds : CallClose(t, fd)
    \/ \E c \in Clones : CallClone(t, c)
    \/ \E fd \in Fds \cup {None} : CallOther(t, fd)
    \/ Exit(t)

Execute(t) == DoSocket(t) \/ DoConnect(t) \/ DoClose(t) \/ DoClone(t)
=============================================================================
