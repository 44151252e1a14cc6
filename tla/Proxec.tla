------------------------------- MODULE Proxec -------------------------------
(***************************************************************************)
(* The running system: the traced program and the kernel, the tracer       *)
(* thread and the local proxy, which meet in the tracker, in the program's *)
(* memory and in the loopback connections.                                 *)
(***************************************************************************)
EXTENDS LocalProxy

vars == <<kernelVars, tracerVars, proxyVars>>

Init == KernelInit /\ TracerInit /\ ProxyInit

ProgramStep(t) == ~aborted /\ Program(t) /\ UNCHANGED <<tracerVars, proxyVars>>
KernelStep(t) ==
    /\ ~aborted /\ Execute(t)
    /\ listening \/ \A s \in Socks : peer'[s] = Local => peer[s] = Local
    /\ UNCHANGED <<tracerVars, proxyVars>>
TracerStep(t) == Tracer(t) /\ UNCHANGED proxyVars
ProxyStep(s) == LocalProxyTask(s) /\ UNCHANGED <<kernelVars, tracerVars>>

(* All tasks are gone, or run() has failed: nothing more is modelled.      *)
Terminated ==
    /\ aborted \/ \A t \in Tids : pc[t] = "none"
    /\ UNCHANGED vars

Next ==
    \/ \E t \in Tids : ProgramStep(t) \/ KernelStep(t) \/ TracerStep(t)
    \/ \E s \in Socks : ProxyStep(s)
    \/ Terminated

Spec == Init /\ [][Next]_vars

(* The kernel finishes calls, the tracer's loop comes round to every       *)
(* stopped task, the runtime polls every task.  The program owes nothing.  *)
Fairness ==
    /\ \A t \in Tids : WF_vars(KernelStep(t)) /\ WF_vars(TracerStep(t))
    /\ \A s \in Socks : WF_vars(ProxyStep(s))

FairSpec == Spec /\ Fairness
-----------------------------------------------------------------------------
TypeOK == KernelTypeOK /\ TracerTypeOK /\ ProxyTypeOK

(* The addresses that the code lets a program reach without the proxy.     *)
Exempt(a) == Skipped(a) \/ a = Upstream

Alive(t) == pc[t] \notin {"none", "zombie"}
Handled(t) == Alive(t) /\ thread_states[t].phase = "Exiting"

(* A connection the local proxy serves goes where the program asked: the   *)
(* destination the task found in the tracker, by inode or by descriptor,   *)
(* is the one passed to the connect() that made the connection             *)
(* (handle_client against handle_connect_enter).                           *)
RightDestination ==
    \A s \in Socks : client[s].at = "proxying" => client[s].dest = asked[s]

(* No TCP connection of the program leaves the machine around the proxy:   *)
(* a stream socket is connected to the local proxy, or to the address      *)
(* asked for if that one is exempt (handle_connect_enter; the kernel reads *)
(* the rewritten buffer only when it executes the call).                   *)
DirectOnlyIfExempt ==
    \A s \in Socks :
        peer[s] # None /\ is_stream_inet_socket(kind[s]) =>
            IF Exempt(asked[s]) THEN peer[s] = asked[s] ELSE peer[s] = Local

(* Only a socket created by socket(AF_INET or AF_INET6, SOCK_STREAM) is    *)
(* connected to the local proxy (the promise in the comment on             *)
(* SocketTracker).  SOCK_STREAM is type 1 of SOCK_TYPE_MASK, 15: the bit   *)
(* the code tests is also set in SOCK_RAW, 3, and SOCK_SEQPACKET, 5.       *)
CreatedAsStream(k) == k.domain \in {"inet", "inet6"} /\ k.type % 16 = 1
OnlyStreamsRedirected ==
    \A s \in Socks : peer[s] = Local => CreatedAsStream(kind[s])

(* The program never finds its sockaddr changed: outside a redirected      *)
(* connect of one of the process's threads each buffer holds what the      *)
(* program stored (write_sockaddr at entry, the restore at exit).          *)
Redirecting(t, p, b) ==
    /\ tgid[t] = p /\ Handled(t) /\ InConnect(t, b)
    /\ thread_states[t].pending_connect_restore.addr_ptr = b
BufferRestored ==
    \A p \in Tids, b \in Bufs :
        \/ mem[p][b] = wrote[p][b]
        \/ \E t \in Tids : Redirecting(t, p, b)

(* The tracer's phase is right at every stop: it takes an exit stop for an *)
(* exit and an entry or seccomp stop for an entry, for every task, also    *)
(* after clone, thread exit and reuse of a tid (handle_syscall_ptrace      *)
(* trusts its phase alone).                                                *)
PhaseAgrees ==
    \A t \in Tids :
        /\ pc[t] \in {"entry", "seccomp"} => thread_states[t].phase = "Entering"
        /\ pc[t] = "exit" => thread_states[t].phase = "Exiting"

(* Every task of the program is traced, also those cloned with             *)
(* CLONE_UNTRACED, and once it runs run() counts it in active_pids.        *)
AllTraced ==
    \A t \in Tids :
        /\ pc[t] # "wild"
        /\ pc[t] \notin {"none", "newborn"} => t \in active_pids

(* A tid that is free carries nothing over to the task that gets it next:  *)
(* no tracked descriptor, destination, pending call or thread group, as a  *)
(* thread or as a process (cleanup_process, cleanup_dead_tracee).          *)
NothingSurvivesReap ==
    \A t \in Tids : pc[t] = "none" =>
        /\ thread_states[t] = DefaultState
        /\ tracker.pending_socket[t] = None
        /\ \A u \in Tids : tracker.tid_to_tgid[u] # t
        /\ tracker.tid_to_tgid[t] = None
        /\ \A f \in Fds : /\ <<t, f>> \notin tracker.stream_fds
                          /\ tracker.fd_dest[<<t, f>>] = None
                          /\ tracker.fd_inode[<<t, f>>] = None

(* What the tracker says of a live process's descriptors is true: one that *)
(* it has marked is open and passes the code's test for a stream, and the  *)
(* inode bound to a descriptor is the socket behind it (socket_exit,       *)
(* bind_inode and close_enter against the descriptor table).               *)
TrackerMatchesFds ==
    \A t \in Tids, f \in Fds :
        LET p == tgid[t]
            s == fdt[p][f]
        IN  Alive(t) =>
              /\ <<p, f>> \in tracker.stream_fds =>
                    s # None /\ is_stream_type(kind[s])
              /\ tracker.fd_inode[<<p, f>>] \in {None, s}

(* The local proxy hangs up on a connection only once the process that     *)
(* owns it let go of the socket, or is in the close() that does: until     *)
(* then no other process or thread takes its destination away              *)
(* (close_enter and cleanup_process are what removes destinations).        *)
Kept(s) ==
    \E f \in Fds :
        /\ owner[s] # None /\ fdt[owner[s]][f] = s
        /\ \A t \in Tids : tgid[t] = owner[s] =>
              ~(call[t].op = "close" /\ call[t].fd = f)
DropOnlyAfterClose ==
    [][\A s \in Socks :
          client[s].at # "dropped" /\ client'[s].at = "dropped" =>
              ~Kept(s)]_vars

(* The local proxy serves every connection that was redirected to it: the  *)
(* destination is still on record when its task comes to look              *)
(* (close_enter removes it when the program calls close()).                *)
NeverHungUp == \A s \in Socks : client[s].at # "dropped"

(* No argument of a system call ends run(): the kernel answers a pointer   *)
(* it cannot read with EFAULT (read_sockaddr and read_u64 fail instead).   *)
TracerSurvives == ~aborted

(* Every call of the program returns: the tracer resumes every task it     *)
(* stops and no stop is left unanswered.                                   *)
CallsReturn ==
    \A t \in Tids :
        pc[t] \notin {"user", "none", "zombie"} ~> pc[t] \in {"user", "none", "zombie"}

(* Every connection to the local proxy is proxied or dropped in the end,   *)
(* also when accept() has failed and the listener is gone.                 *)
ClientsAnswered ==
    \A s \in Socks :
        peer[s] = Local ~> client[s].at \in {"proxying", "dropped"}
=============================================================================
