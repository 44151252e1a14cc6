--------------------------- MODULE SocketTracker ---------------------------
(***************************************************************************)
(* The shared map from tracee sockets to their original destinations       *)
(* (src/src/socket/tracker.rs).  The tracer writes it from its handlers    *)
(* and the tasks of the local proxy read it, each under one mutex.  The    *)
(* tracker is one value: every method is an operator that takes it,        *)
(* together with what the method reads from /proc, and returns the new     *)
(* tracker, so that a handler composes the methods it calls in order.      *)
(*                                                                         *)
(* A HashMap is a total function whose absent keys hold None.  A socket    *)
(* inode is the socket itself: inode numbers are not reused while proxec   *)
(* runs.  `proc' maps a task to its thread group, as /proc/<tid>/status    *)
(* does, and to None when /proc/<tid> does not exist.                      *)
(***************************************************************************)
EXTENDS Integers

CONSTANTS
    Tids,    \* task identifiers, of threads and of processes
    Fds,     \* file descriptors, numbered 0 .. n
    Socks,   \* sockets, named by their inodes
    Addrs,   \* socket addresses
    Kinds,   \* socket kinds: [domain : STRING, type : Nat]
    None     \* an absent key

ASSUME TrackerAssumption ==
    /\ None \notin Tids \cup Socks \cup Addrs \cup Kinds
    /\ Fds \subseteq Nat /\ None \notin Fds
    /\ Kinds \subseteq [domain : {"inet", "inet6", "unix"}, type : Nat]

VARIABLE tracker

Tracker ==
    [fd_dest        : [Tids \X Fds -> Addrs \cup {None}],
     inode_dest     : [Socks -> Addrs \cup {None}],
     fd_inode       : [Tids \X Fds -> Socks \cup {None}],
     tid_to_tgid    : [Tids -> Tids \cup {None}],
     pending_socket : [Tids -> Kinds \cup {None}],
     stream_fds     : SUBSET (Tids \X Fds)]

new ==
    [fd_dest        |-> [k \in Tids \X Fds |-> None],
     inode_dest     |-> [s \in Socks |-> None],
     fd_inode       |-> [k \in Tids \X Fds |-> None],
     tid_to_tgid    |-> [t \in Tids |-> None],
     pending_socket |-> [t \in Tids |-> None],
     stream_fds     |-> {}]

(* SOCK_STREAM is 1, and the code tests that bit of the type.              *)
is_stream_type(k) == k.type % 2 = 1

is_stream_inet_socket(k) ==
    /\ k.domain \in {"inet", "inet6"}
    /\ is_stream_type(k)

read_tgid_from_proc_status(proc, tid) ==
    IF proc[tid] = None THEN tid ELSE proc[tid]

resolve_tgid(tr, proc, tid) ==
    IF tr.tid_to_tgid[tid] # None
    THEN tr.tid_to_tgid[tid]
    ELSE read_tgid_from_proc_status(proc, tid)

(* Every method that resolves a thread group also remembers the answer.    *)
remember_tgid(tr, proc, tid) ==
    [tr EXCEPT !.tid_to_tgid[tid] = resolve_tgid(tr, proc, tid)]

socket_enter(tr, tid, kind) ==
    [tr EXCEPT !.pending_socket[tid] = kind]

mark_stream_socket_fd(tr, proc, tid, fd) ==
    LET key == <<resolve_tgid(tr, proc, tid), fd>>
    IN  [remember_tgid(tr, proc, tid) EXCEPT !.stream_fds = @ \cup {key}]

(* ret_fd is None when socket() failed.                                    *)
socket_exit(tr, proc, tid, ret_fd) ==
    LET pending == tr.pending_socket[tid]
        taken   == [tr EXCEPT !.pending_socket[tid] = None]
    IN  IF pending # None /\ ret_fd # None /\ is_stream_inet_socket(pending)
        THEN mark_stream_socket_fd(taken, proc, tid, ret_fd)
        ELSE taken

(* Faulty variants: the stream mark or the inode binding outlives the      *)
(* descriptor; the key is the descriptor's number alone.                   *)
close_enter_keeps_mark(tr, proc, tid, fd) ==
    LET key == <<resolve_tgid(tr, proc, tid), fd>>
    IN  [remember_tgid(tr, proc, tid) EXCEPT !.fd_dest[key] = None,
                                             !.fd_inode[key] = None]

close_enter_keeps_inode(tr, proc, tid, fd) ==
    LET key == <<resolve_tgid(tr, proc, tid), fd>>
    IN  [remember_tgid(tr, proc, tid) EXCEPT !.stream_fds = @ \ {key},
                                             !.fd_dest[key] = None]

close_enter_in_any_process(tr, proc, tid, fd) ==
    LET Hit(k) == k[2] = fd
    IN  [remember_tgid(tr, proc, tid) EXCEPT
            !.fd_dest = [k \in Tids \X Fds |-> IF Hit(k) THEN None ELSE @[k]],
            !.inode_dest = [s \in Socks |->
                IF \E k \in Tids \X Fds : Hit(k) /\ tr.fd_inode[k] = s
                THEN None ELSE @[s]]]

close_enter(tr, proc, tid, fd) ==
    LET key   == <<resolve_tgid(tr, proc, tid), fd>>
        inode == tr.fd_inode[key]
    IN  [remember_tgid(tr, proc, tid) EXCEPT
            !.stream_fds = @ \ {key},
            !.fd_dest[key] = None,
            !.fd_inode[key] = None,
            !.inode_dest = [s \in Socks |->
                               IF s = inode THEN None ELSE @[s]]]

is_stream_socket_fd(tr, proc, tid, fd) ==
    <<resolve_tgid(tr, proc, tid), fd>> \in tr.stream_fds

insert_dest(tr, proc, tid, fd, dest) ==
    LET key == <<resolve_tgid(tr, proc, tid), fd>>
    IN  [remember_tgid(tr, proc, tid) EXCEPT !.fd_dest[key] = dest]

(* Faulty variant: an inode keeps the first destination it was bound to.   *)
bind_inode_first_wins(tr, proc, tid, fd, inode) ==
    LET key == <<resolve_tgid(tr, proc, tid), fd>>
    IN  [remember_tgid(tr, proc, tid) EXCEPT
            !.inode_dest[inode] = IF @ = None THEN tr.fd_dest[key] ELSE @,
            !.fd_inode[key] = inode]

bind_inode(tr, proc, tid, fd, inode) ==
    LET key == <<resolve_tgid(tr, proc, tid), fd>>
    IN  [remember_tgid(tr, proc, tid) EXCEPT
            !.inode_dest[inode] = IF tr.fd_dest[key] # None
                                  THEN tr.fd_dest[key] ELSE @,
            !.fd_inode[key] = inode]

get_by_inode(tr, inode) == tr.inode_dest[inode]

get_by_pid_fd(tr, pid, fd) == tr.fd_dest[<<pid, fd>>]

(* cleanup_process once the thread group is known: its descriptors, their  *)
(* destinations and the tasks resolved to it go.                           *)
forget_group(tr, tgid) ==
    LET Mine(key) == key[1] = tgid
    IN  [tr EXCEPT
            !.fd_dest = [k \in Tids \X Fds |-> IF Mine(k) THEN None ELSE @[k]],
            !.inode_dest = [s \in Socks |->
                IF \E k \in Tids \X Fds : Mine(k) /\ tr.fd_inode[k] = s
                THEN None ELSE @[s]],
            !.fd_inode = [k \in Tids \X Fds |-> IF Mine(k) THEN None ELSE @[k]],
            !.stream_fds = {k \in @ : ~Mine(k)},
            !.tid_to_tgid = [t \in Tids |-> IF @[t] = tgid THEN None ELSE @[t]]]

forget_task(tr, tid) ==
    [tr EXCEPT !.pending_socket[tid] = None, !.tid_to_tgid[tid] = None]

(* Faulty variants: any thread takes the group's state along; none does.   *)
cleanup_process_by_any_thread(tr, proc, tid) ==
    forget_group(forget_task(tr, tid), resolve_tgid(tr, proc, tid))
cleanup_process_of_task_only(tr, proc, tid) == forget_task(tr, tid)

(* The state of the whole process goes only with the thread group: a       *)
(* thread's exit leaves it alone while /proc still shows the group.        *)
cleanup_process(tr, proc, tid) ==
    LET tgid == resolve_tgid(tr, proc, tid)
    IN  IF tid # tgid /\ proc[tgid] # None
        THEN forget_task(tr, tid)
        ELSE forget_group(forget_task(tr, tid), tgid)
=============================================================================
