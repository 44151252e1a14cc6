--------------------------- MODULE SyscallTracer ---------------------------
(***************************************************************************)
(* The tracer thread: what run() of src/src/tracer/trace_loop.rs does with *)
(* a stopped task.  Each action is one turn of its loop for the status     *)
(* waitpid returned: it finds the tracee stopped, runs the handler, and    *)
(* resumes the tracee.  The handlers run while that tracee is stopped; its *)
(* sibling threads and the local proxy keep going between two turns.  The  *)
(* end of the loop and its shutdown are the subject of TraceLoop.          *)
(***************************************************************************)
EXTENDS Kernel

CONSTANTS
    Loopback,     \* addresses for which is_loopback() holds
    Unspecified,  \* addresses for which is_unspecified() holds
    PortZero,     \* addresses with port 0
    NoProxyAddrs, \* addresses for which no_proxy.should_bypass() holds
    Upstream,     \* the upstream proxy, proxy_addr
    DisableIpv6,  \* disable_ipv6
    CanProbe      \* does the kernel grant pidfd_getfd?

ASSUME TracerAssumption ==
    /\ DisableIpv6 \in BOOLEAN /\ CanProbe \in BOOLEAN
    /\ Local \in Loopback

VARIABLES
    thread_states,  \* HashMap<i32, ThreadState>; absent is the default
    active_pids,    \* HashSet<i32>
    aborted         \* has run() returned an error?

tracerVars == <<tracker, thread_states, active_pids, aborted>>

ThreadState ==
    [phase : {"Entering", "Exiting"},
     forced_connect_errno : BOOLEAN,    \* Some(EAFNOSUPPORT) or None
     pending_connect_restore :
        [addr_ptr : Bufs \cup {None}, dest : Addrs \cup {None}]]

NoRestore == [addr_ptr |-> None, dest |-> None]

DefaultState ==
    [phase |-> "Entering", forced_connect_errno |-> FALSE,
     pending_connect_restore |-> NoRestore]

TracerTypeOK ==
    /\ tracker \in Tracker
    /\ thread_states \in [Tids -> ThreadState]
    /\ active_pids \subseteq Tids
    /\ aborted \in BOOLEAN

TracerInit ==
    /\ tracker = new
    /\ thread_states = [t \in Tids |-> DefaultState]
    /\ active_pids = {Main}
    /\ aborted = FALSE

-----------------------------------------------------------------------------
(* resume_tracee: seccomp mode asks for a syscall-exit-stop only when a    *)
(* handler ran at the entry, ptrace mode always asks for the next stop.    *)

(* Faulty variant: ptrace mode forgotten.                                  *)
resume_request_seccomp_only(st) ==
    IF st.phase # "Exiting" THEN "cont" ELSE "syscall"

resume_request(st) ==
    IF UseSeccomp /\ st.phase # "Exiting" THEN "cont" ELSE "syscall"

(* Where the kernel takes a task that was stopped at `from'.               *)
ResumeAt(from, c, h) ==
    CASE from = "entry"   -> AfterEntry(c)
      [] from = "seccomp" -> "kernel"
      [] from = "event"   -> AtExit(h)
      [] OTHER            -> "user"

(* The turn ends with the thread state st, the registers c and a resume.   *)
resume_tracee(t, st, c) ==
    LET h  == resume_request(st)
        at == ResumeAt(pc[t], c, h)
    IN  /\ thread_states' = [thread_states EXCEPT ![t] = st]
        /\ how' = [how EXCEPT ![t] = h]
        /\ pc' = [pc EXCEPT ![t] = at]
        /\ call' = [call EXCEPT ![t] = IF at = "user" THEN NoCall ELSE c]
        /\ aborted' = FALSE
        /\ UNCHANGED <<tgid, fdt, kind, peer, asked, owner, wrote>>

(* A handler's error other than ESRCH makes run() return it.               *)
return_err(t) ==
    /\ aborted' = TRUE
    /\ UNCHANGED <<kernelVars, tracker, thread_states>>

Entered(t, st, c) == resume_tracee(t, [st EXCEPT !.phase = "Exiting"], c)

-----------------------------------------------------------------------------
(* handle_connect_enter: one disjunct per early return, in source order.   *)

Skipped(a) ==
    a \in OtherFamily \cup Loopback \cup Unspecified \cup PortZero
          \cup NoProxyAddrs

(* Faulty variant: no probe at all.                                        *)
probe_never(t, fd) == FALSE

probe_socket_is_stream(t, fd) ==
    LET s == fdt[read_tgid_from_proc_status(tgid, t)][fd]
    IN  CanProbe /\ s # None /\ is_stream_type(kind[s])

handle_connect_enter(t) ==
    LET fd    == call[t].fd
        buf   == call[t].buf
        p     == tgid[t]
        dest  == mem[p][buf]
        st    == [thread_states[t] EXCEPT
                    !.pending_connect_restore = NoRestore]
        known == is_stream_socket_fd(tracker, tgid, t, fd)
        probe == probe_socket_is_stream(t, fd)
        seen  == remember_tgid(tracker, tgid, t)
        mark  == IF known THEN seen
                 ELSE mark_stream_socket_fd(seen, tgid, t, fd)
        inode == fdt[p][fd]
        ins   == insert_dest(mark, tgid, t, fd, dest)
        block == dest \in Inet6 /\ DisableIpv6
    IN  \/ /\ ~call[t].valid
           /\ return_err(t)
        \/ /\ call[t].valid /\ Skipped(dest)
           /\ Entered(t, st, call[t])
           /\ UNCHANGED <<tracker, mem>>
        \/ /\ call[t].valid /\ ~Skipped(dest) /\ block
           /\ Entered(t, [st EXCEPT !.forced_connect_errno = TRUE], call[t])
           /\ UNCHANGED <<tracker, mem>>
        \/ /\ call[t].valid /\ ~Skipped(dest) /\ ~block
           /\ ~known /\ ~probe
           /\ tracker' = seen
           /\ Entered(t, st, call[t])
           /\ UNCHANGED mem
        \/ /\ call[t].valid /\ ~Skipped(dest) /\ ~block
           /\ known \/ probe
           /\ dest = Upstream
           /\ tracker' = mark
           /\ Entered(t, st, call[t])
           /\ UNCHANGED mem
        \/ /\ call[t].valid /\ ~Skipped(dest) /\ ~block
           /\ known \/ probe
           /\ dest # Upstream
           /\ tracker' = IF inode = None THEN ins
                         ELSE bind_inode(ins, tgid, t, fd, inode)
           /\ mem' = [mem EXCEPT ![p][buf] = Local]
           /\ Entered(t, [st EXCEPT !.pending_connect_restore =
                             [addr_ptr |-> buf, dest |-> dest]], call[t])

handle_socket_enter(t) ==
    /\ tracker' = socket_enter(tracker, t, call[t].kind)
    /\ Entered(t, thread_states[t], call[t])
    /\ UNCHANGED mem

handle_close_enter(t) ==
    /\ tracker' = close_enter(tracker, tgid, t, call[t].fd)
    /\ Entered(t, thread_states[t], call[t])
    /\ UNCHANGED mem

(* Faulty variant: the flags stay as they are.                             *)
handle_clone_enter_as_is(t) ==
    Entered(t, thread_states[t], call[t]) /\ UNCHANGED <<tracker, mem>>

(* Registers for clone, the clone_args in memory for clone3: either way    *)
(* the kernel executes the call without CLONE_UNTRACED.                    *)
handle_clone_enter(t) ==
    /\ Entered(t, thread_states[t], [call[t] EXCEPT !.untraced = FALSE])
    /\ UNCHANGED <<tracker, mem>>

handle_clone3_enter(t) ==
    \/ /\ ~call[t].valid
       /\ return_err(t)
    \/ /\ call[t].valid
       /\ Entered(t, thread_states[t], [call[t] EXCEPT !.untraced = FALSE])
       /\ UNCHANGED <<tracker, mem>>

handle_other_enter(t) ==
    /\ Entered(t, thread_states[t], call[t])
    /\ UNCHANGED <<tracker, mem>>

handle_syscall_enter(t) ==
    \/ call[t].op = "socket" /\ handle_socket_enter(t)
    \/ call[t].op = "connect" /\ handle_connect_enter(t)
    \/ call[t].op = "close" /\ handle_close_enter(t)
    \/ call[t].op = "clone" /\ handle_clone_enter(t)
    \/ call[t].op = "clone3" /\ handle_clone3_enter(t)
    \/ call[t].op = "other" /\ handle_other_enter(t)

(* The tracee's memory after the pending restore, if there is one.         *)
not_restored(t) == mem  \* faulty variant
restored(t) ==
    LET restore == thread_states[t].pending_connect_restore
    IN  IF restore = NoRestore THEN mem
        ELSE [mem EXCEPT ![tgid[t]][restore.addr_ptr] = restore.dest]

(* The restore and the errno are taken, and the phase turns.               *)
phase_kept(st) ==  \* faulty variant
    [st EXCEPT !.pending_connect_restore = NoRestore,
               !.forced_connect_errno = FALSE]
exited_state(st) ==
    [st EXCEPT !.phase = "Entering", !.pending_connect_restore = NoRestore,
               !.forced_connect_errno = FALSE]

handle_syscall_exit(t) ==
    LET st     == thread_states[t]
        ret_fd == IF call[t].ret = "ok" THEN call[t].fd ELSE None
    IN  /\ tracker' = IF call[t].op = "socket"
                      THEN socket_exit(tracker, tgid, t, ret_fd)
                      ELSE tracker
        /\ mem' = restored(t)
        /\ resume_tracee(t, exited_state(st),
              IF st.forced_connect_errno
              THEN [call[t] EXCEPT !.ret = "EAFNOSUPPORT"] ELSE call[t])
-----------------------------------------------------------------------------
(* The turns of the loop, one action per status of waitpid.                *)

(* WaitStatus::PtraceEvent(pid, _, PTRACE_EVENT_SECCOMP)                   *)
OnSeccompEvent(t) ==
    /\ ~aborted /\ pc[t] = "seccomp"
    /\ active_pids' = active_pids \cup {t}
    /\ handle_syscall_enter(t)

(* WaitStatus::PtraceSyscall(pid): the tracer tells the entry from the     *)
(* exit by its own phase, the two stops look alike.                        *)
OnSyscallStop(t) ==
    /\ ~aborted /\ pc[t] \in {"entry", "exit"}
    /\ active_pids' = active_pids \cup {t}
    /\ \/ thread_states[t].phase = "Entering" /\ handle_syscall_enter(t)
       \/ thread_states[t].phase = "Exiting" /\ handle_syscall_exit(t)

(* WaitStatus::PtraceEvent(pid, _, PTRACE_EVENT_CLONE | FORK | VFORK)      *)
OnCloneEvent(t) ==
    /\ ~aborted /\ pc[t] = "event"
    /\ active_pids' = active_pids \cup {t, call[t].child}
    /\ resume_tracee(t, thread_states[t], call[t])
    /\ UNCHANGED <<tracker, mem>>

(* Faulty variant: a child that the clone event announced is not resumed.  *)
OnNewborn_if_unknown(t) ==
    /\ ~aborted /\ pc[t] = "newborn" /\ t \notin active_pids
    /\ active_pids' = active_pids \cup {t}
    /\ resume_tracee(t, thread_states[t], call[t])
    /\ UNCHANGED <<tracker, mem>>

(* WaitStatus::Stopped(pid, SIGSTOP) of a new child.                       *)
OnNewborn(t) ==
    /\ ~aborted /\ pc[t] = "newborn"
    /\ active_pids' = active_pids \cup {t}
    /\ resume_tracee(t, thread_states[t], call[t])
    /\ UNCHANGED <<tracker, mem>>

(* WaitStatus::Exited(pid) or Signaled(pid): waitpid reaps the task, a     *)
(* group leader only after its threads, and cleanup_dead_tracee forgets    *)
(* it.                                                                     *)
OnExited(t) ==
    /\ ~aborted /\ pc[t] = "zombie"
    /\ t = tgid[t] => Siblings(t) = {}
    /\ LET proc == [tgid EXCEPT ![t] = None]
       IN  /\ tgid' = proc
           /\ tracker' = cleanup_process(tracker, proc, t)
    /\ pc' = [pc EXCEPT ![t] = "none"]
    /\ how' = [how EXCEPT ![t] = "cont"]
    /\ thread_states' = [thread_states EXCEPT ![t] = DefaultState]
    /\ active_pids' = active_pids \ {t}
    /\ UNCHANGED <<call, fdt, kind, peer, asked, owner, mem, wrote, aborted>>

Tracer(t) ==
    \/ OnSeccompEvent(t) \/ OnSyscallStop(t) \/ OnCloneEvent(t)
    \/ OnNewborn(t) \/ OnExited(t)
=============================================================================
