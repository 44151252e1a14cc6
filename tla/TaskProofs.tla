----------------------------- MODULE TaskProofs -----------------------------
(***************************************************************************)
(* The tasks of the running system (Proxec), for every value of its        *)
(* constants.                                                              *)
(*                                                                         *)
(* Types: TypeOK is not inductive alone, since a handler that uses the     *)
(* thread group, the descriptor or the buffer of a stopped task relies on  *)
(* TaskOK, which says what a task has in each of its places.               *)
(*                                                                         *)
(* Phases: the tracer's idea of where a task is agrees with the kernel's,  *)
(* and no task escapes it.  PhaseAgrees is not inductive: it rests on how  *)
(* the task was last resumed (PhaseOK), since that decides where it stops  *)
(* next.  AllTraced rests on PhaseOK in turn: CLONE_UNTRACED is taken out  *)
(* only at a stop the tracer really gets.                                  *)
(*                                                                         *)
(* Reaping: the tracker resolves a task to its own thread group or not at  *)
(* all, and holds descriptors of groups that exist only (ReapInv); so      *)
(* cleanup_process finds all that a tid leaves behind.                     *)
(***************************************************************************)
EXTENDS Proxec, TLAPS

(***************************************************************************)
(* What the methods of the SocketTracker return: a tracker again, whatever *)
(* /proc says, with the thread group of the task resolved.                 *)
(***************************************************************************)

(* What /proc can say: a task's thread group, or that there is none.       *)
Proc == [Tids -> Tids \cup {None}]

(* A resolved thread group is a task, also when /proc has no entry.        *)
LEMMA ResolveType ==
    ASSUME NEW tr \in Tracker, NEW proc \in Proc, NEW t \in Tids
    PROVE  /\ resolve_tgid(tr, proc, t) \in Tids
           /\ read_tgid_from_proc_status(proc, t) \in Tids
BY DEF Tracker, Proc, resolve_tgid, read_tgid_from_proc_status

LEMMA RememberType ==
    ASSUME NEW tr \in Tracker, NEW proc \in Proc, NEW t \in Tids
    PROVE  remember_tgid(tr, proc, t) \in Tracker
BY ResolveType DEF Tracker, remember_tgid

LEMMA SocketEnterType ==
    ASSUME NEW tr \in Tracker, NEW t \in Tids, NEW k \in Kinds \cup {None}
    PROVE  socket_enter(tr, t, k) \in Tracker
BY DEF Tracker, socket_enter

LEMMA MarkType ==
    ASSUME NEW tr \in Tracker, NEW proc \in Proc, NEW t \in Tids, NEW fd \in Fds
    PROVE  mark_stream_socket_fd(tr, proc, t, fd) \in Tracker
<1> DEFINE key == <<resolve_tgid(tr, proc, t), fd>>
           rt  == remember_tgid(tr, proc, t)
           fds == rt.stream_fds \cup {key}
<1>1. rt \in Tracker /\ key \in Tids \X Fds
  BY ResolveType, RememberType
<1>2. fds \subseteq Tids \X Fds
  BY <1>1 DEF Tracker
<1>3. mark_stream_socket_fd(tr, proc, t, fd) = [rt EXCEPT !.stream_fds = fds]
  BY DEF mark_stream_socket_fd
<1> HIDE DEF rt, fds
<1> QED BY <1>1, <1>2, <1>3 DEF Tracker

LEMMA SocketExitType ==
    ASSUME NEW tr \in Tracker, NEW proc \in Proc, NEW t \in Tids,
           NEW fd \in Fds \cup {None}
    PROVE  socket_exit(tr, proc, t, fd) \in Tracker
<1> DEFINE taken == [tr EXCEPT !.pending_socket[t] = None]
<1>1. taken \in Tracker
  BY DEF Tracker
<1>2. fd # None => mark_stream_socket_fd(taken, proc, t, fd) \in Tracker
  BY <1>1, MarkType
<1> QED BY <1>1, <1>2 DEF socket_exit

LEMMA CloseEnterType ==
    ASSUME NEW tr \in Tracker, NEW proc \in Proc, NEW t \in Tids, NEW fd
    PROVE  close_enter(tr, proc, t, fd) \in Tracker
<1> DEFINE key == <<resolve_tgid(tr, proc, t), fd>>
           rt  == remember_tgid(tr, proc, t)
           fds == rt.stream_fds \ {key}
           dests == [rt.fd_dest EXCEPT ![key] = None]
           inodes == [rt.fd_inode EXCEPT ![key] = None]
           byinode == [s \in Socks |-> IF s = tr.fd_inode[key] THEN None
                                       ELSE rt.inode_dest[s]]
<1>1. rt \in Tracker
  BY RememberType
<1>2. /\ fds \subseteq Tids \X Fds
      /\ dests \in [Tids \X Fds -> Addrs \cup {None}]
      /\ inodes \in [Tids \X Fds -> Socks \cup {None}]
      /\ byinode \in [Socks -> Addrs \cup {None}]
  BY <1>1 DEF Tracker
<1>3. close_enter(tr, proc, t, fd)
        = [rt EXCEPT !.stream_fds = fds, !.fd_dest = dests,
                     !.fd_inode = inodes, !.inode_dest = byinode]
  BY <1>1 DEF close_enter, Tracker
<1> HIDE DEF rt, fds, dests, inodes, byinode
<1> QED BY <1>1, <1>2, <1>3 DEF Tracker

LEMMA InsertDestType ==
    ASSUME NEW tr \in Tracker, NEW proc \in Proc, NEW t \in Tids, NEW fd,
           NEW a \in Addrs \cup {None}
    PROVE  insert_dest(tr, proc, t, fd, a) \in Tracker
<1> DEFINE key == <<resolve_tgid(tr, proc, t), fd>>
           rt  == remember_tgid(tr, proc, t)
           dests == [rt.fd_dest EXCEPT ![key] = a]
<1>1. rt \in Tracker
  BY RememberType
<1>2. dests \in [Tids \X Fds -> Addrs \cup {None}]
  BY <1>1 DEF Tracker
<1>3. insert_dest(tr, proc, t, fd, a) = [rt EXCEPT !.fd_dest = dests]
  BY DEF insert_dest
<1> HIDE DEF rt, dests
<1> QED BY <1>1, <1>2, <1>3 DEF Tracker

LEMMA BindInodeType ==
    ASSUME NEW tr \in Tracker, NEW proc \in Proc, NEW t \in Tids,
           NEW fd \in Fds, NEW s \in Socks
    PROVE  bind_inode(tr, proc, t, fd, s) \in Tracker
<1>1. <<resolve_tgid(tr, proc, t), fd>> \in Tids \X Fds
  BY ResolveType
<1>2. tr.fd_dest[<<resolve_tgid(tr, proc, t), fd>>] \in Addrs \cup {None}
  BY <1>1 DEF Tracker
<1> DEFINE key == <<resolve_tgid(tr, proc, t), fd>>
           rt  == remember_tgid(tr, proc, t)
           bound == [rt.inode_dest EXCEPT
                       ![s] = IF tr.fd_dest[key] # None THEN tr.fd_dest[key]
                              ELSE rt.inode_dest[s]]
           fds == [rt.fd_inode EXCEPT ![key] = s]
<1>3. rt \in Tracker
  BY RememberType
<1>4. bound \in [Socks -> Addrs \cup {None}]
  BY <1>2, <1>3 DEF Tracker
<1>5. fds \in [Tids \X Fds -> Socks \cup {None}]
  BY <1>1, <1>3 DEF Tracker
<1>6. bind_inode(tr, proc, t, fd, s)
        = [rt EXCEPT !.inode_dest = bound, !.fd_inode = fds]
  BY <1>3 DEF bind_inode, Tracker
<1> HIDE DEF rt, bound, fds
<1> QED BY <1>3, <1>4, <1>5, <1>6 DEF Tracker

LEMMA CleanupType ==
    ASSUME NEW tr \in Tracker, NEW proc \in Proc, NEW t \in Tids
    PROVE  cleanup_process(tr, proc, t) \in Tracker
<1>1. forget_task(tr, t) \in Tracker
  BY DEF Tracker, forget_task
<1>2. ASSUME NEW x \in Tracker, NEW g \in Tids
      PROVE  forget_group(x, g) \in Tracker
  BY <1>2 DEF Tracker, forget_group
<1> QED BY <1>1, <1>2, ResolveType DEF cleanup_process

-----------------------------------------------------------------------------
(* What the methods leave in the tracker, field by field.                  *)

(* The method resolved task t to the thread group g, and nothing else that *)
(* is said of tasks has changed.                                           *)
Resolved(n, tr, t, g) ==
    /\ n.tid_to_tgid = [tr.tid_to_tgid EXCEPT ![t] = g]
    /\ n.pending_socket = tr.pending_socket

SameKeys(n, tr) ==
    /\ n.stream_fds = tr.stream_fds /\ n.fd_dest = tr.fd_dest
    /\ n.fd_inode = tr.fd_inode /\ n.inode_dest = tr.inode_dest

LEMMA RememberEffect ==
    ASSUME NEW tr \in Tracker, NEW proc \in Proc, NEW t \in Tids
    PROVE  /\ Resolved(remember_tgid(tr, proc, t), tr, t,
                       resolve_tgid(tr, proc, t))
           /\ SameKeys(remember_tgid(tr, proc, t), tr)
           /\ resolve_tgid(remember_tgid(tr, proc, t), proc, t)
                = resolve_tgid(tr, proc, t)
<1> DEFINE g == resolve_tgid(tr, proc, t)
           n == remember_tgid(tr, proc, t)
<1>1. g \in Tids /\ g # None
  BY ResolveType, TrackerAssumption
<1> HIDE DEF g
<1>2. n = [tr EXCEPT !.tid_to_tgid[t] = g]
  BY DEF remember_tgid, g
<1>3. n.tid_to_tgid = [tr.tid_to_tgid EXCEPT ![t] = g] /\ n.tid_to_tgid[t] = g
  BY <1>2 DEF Tracker
<1>4. SameKeys(n, tr) /\ n.pending_socket = tr.pending_socket
  BY <1>2 DEF Tracker, SameKeys
<1>5. resolve_tgid(n, proc, t) = g
  BY <1>1, <1>3 DEF resolve_tgid
<1> QED BY <1>3, <1>4, <1>5 DEF g, Resolved

LEMMA MarkEffect ==
    ASSUME NEW tr \in Tracker, NEW proc \in Proc, NEW t \in Tids, NEW fd \in Fds
    PROVE  LET g == resolve_tgid(tr, proc, t)
               n == mark_stream_socket_fd(tr, proc, t, fd)
           IN  /\ Resolved(n, tr, t, g)
               /\ n.stream_fds = tr.stream_fds \cup {<<g, fd>>}
               /\ n.fd_dest = tr.fd_dest /\ n.fd_inode = tr.fd_inode
               /\ n.inode_dest = tr.inode_dest
               /\ resolve_tgid(n, proc, t) = g
<1> DEFINE g  == resolve_tgid(tr, proc, t)
           rt == remember_tgid(tr, proc, t)
           n  == mark_stream_socket_fd(tr, proc, t, fd)
<1>1. /\ rt \in Tracker /\ Resolved(rt, tr, t, g) /\ SameKeys(rt, tr)
      /\ resolve_tgid(rt, proc, t) = g
  BY RememberType, RememberEffect
<1>2. n = [rt EXCEPT !.stream_fds = @ \cup {<<g, fd>>}]
  BY DEF mark_stream_socket_fd
<1> HIDE DEF rt, g, n
<1>3. /\ n.stream_fds = rt.stream_fds \cup {<<g, fd>>}
      /\ n.fd_dest = rt.fd_dest /\ n.fd_inode = rt.fd_inode
      /\ n.inode_dest = rt.inode_dest /\ n.tid_to_tgid = rt.tid_to_tgid
      /\ n.pending_socket = rt.pending_socket
  BY <1>1, <1>2 DEF Tracker
<1>4. resolve_tgid(n, proc, t) = g
  BY <1>1, <1>3 DEF resolve_tgid
<1> QED BY <1>1, <1>3, <1>4 DEF g, n, Resolved, SameKeys

LEMMA SocketEnterEffect ==
    ASSUME NEW tr \in Tracker, NEW t \in Tids, NEW k \in Kinds \cup {None}
    PROVE  LET n == socket_enter(tr, t, k)
           IN  /\ n.pending_socket = [tr.pending_socket EXCEPT ![t] = k]
               /\ n.tid_to_tgid = tr.tid_to_tgid
               /\ SameKeys(n, tr)
BY DEF socket_enter, Tracker, SameKeys

LEMMA SocketExitEffect ==
    ASSUME NEW tr \in Tracker, NEW proc \in Proc, NEW t \in Tids,
           NEW fd \in Fds \cup {None}
    PROVE  LET g == resolve_tgid(tr, proc, t)
               n == socket_exit(tr, proc, t, fd)
           IN  /\ n.pending_socket = [tr.pending_socket EXCEPT ![t] = None]
               /\ n.fd_dest = tr.fd_dest /\ n.fd_inode = tr.fd_inode
               /\ n.inode_dest = tr.inode_dest
               /\ \/ /\ n.tid_to_tgid = tr.tid_to_tgid
                     /\ n.stream_fds = tr.stream_fds
                  \/ /\ tr.pending_socket[t] # None /\ fd \in Fds
                     /\ n.tid_to_tgid = [tr.tid_to_tgid EXCEPT ![t] = g]
                     /\ n.stream_fds = tr.stream_fds \cup {<<g, fd>>}
<1> DEFINE g == resolve_tgid(tr, proc, t)
           taken == [tr EXCEPT !.pending_socket[t] = None]
           n == socket_exit(tr, proc, t, fd)
           m == mark_stream_socket_fd(taken, proc, t, fd)
<1>1. /\ taken \in Tracker /\ taken.tid_to_tgid = tr.tid_to_tgid
      /\ taken.pending_socket = [tr.pending_socket EXCEPT ![t] = None]
      /\ SameKeys(taken, tr)
  BY DEF Tracker, SameKeys
<1>2. resolve_tgid(taken, proc, t) = g
  BY <1>1 DEF resolve_tgid
<1>3. n = taken \/ (tr.pending_socket[t] # None /\ fd \in Fds /\ n = m)
  BY DEF socket_exit
<1> HIDE DEF taken, n, g
<1>4. fd \in Fds => /\ Resolved(m, taken, t, g)
                    /\ m.stream_fds = taken.stream_fds \cup {<<g, fd>>}
                    /\ m.fd_dest = taken.fd_dest /\ m.fd_inode = taken.fd_inode
                    /\ m.inode_dest = taken.inode_dest
  BY <1>1, <1>2, MarkEffect
<1> HIDE DEF m
<1>5. CASE n = taken
  BY <1>1, <1>5 DEF SameKeys, n, g
<1>6. CASE tr.pending_socket[t] # None /\ fd \in Fds /\ n = m
  BY <1>1, <1>4, <1>6 DEF SameKeys, Resolved, n, g
<1> QED BY <1>3, <1>5, <1>6

(* socket() binds no destination.                                          *)
LEMMA SocketExitDests ==
    ASSUME NEW tr \in Tracker, NEW proc \in Proc, NEW t \in Tids,
           NEW fd \in Fds \cup {None}, NEW n, n = socket_exit(tr, proc, t, fd)
    PROVE  /\ n.fd_dest = tr.fd_dest /\ n.fd_inode = tr.fd_inode
           /\ n.inode_dest = tr.inode_dest
<1> DEFINE taken == [tr EXCEPT !.pending_socket[t] = None]
           m == mark_stream_socket_fd(taken, proc, t, fd)
<1>1. taken \in Tracker /\ SameKeys(taken, tr)
  BY DEF Tracker, SameKeys
<1>2. n = taken \/ (fd \in Fds /\ n = m)
  BY DEF socket_exit
<1> HIDE DEF taken
<1>3. fd \in Fds => /\ m.fd_dest = taken.fd_dest /\ m.fd_inode = taken.fd_inode
                    /\ m.inode_dest = taken.inode_dest
  BY <1>1, MarkEffect
<1> HIDE DEF m
<1> QED BY <1>1, <1>2, <1>3 DEF SameKeys

(* close_enter for descriptor fd of thread group g.                        *)
Closed(n, tr, t, g, fd) ==
    /\ Resolved(n, tr, t, g)
    /\ n.stream_fds = tr.stream_fds \ {<<g, fd>>}
    /\ n.fd_dest = [tr.fd_dest EXCEPT ![<<g, fd>>] = None]
    /\ n.fd_inode = [tr.fd_inode EXCEPT ![<<g, fd>>] = None]
    /\ n.inode_dest = [s \in Socks |-> IF s = tr.fd_inode[<<g, fd>>] THEN None
                                       ELSE tr.inode_dest[s]]

LEMMA CloseEnterEffect ==
    ASSUME NEW tr \in Tracker, NEW proc \in Proc, NEW t \in Tids, NEW fd \in Fds
    PROVE  Closed(close_enter(tr, proc, t, fd), tr, t,
                  resolve_tgid(tr, proc, t), fd)
<1> DEFINE g   == resolve_tgid(tr, proc, t)
           key == <<g, fd>>
           rt  == remember_tgid(tr, proc, t)
           n   == close_enter(tr, proc, t, fd)
<1>1. rt \in Tracker /\ Resolved(rt, tr, t, g) /\ SameKeys(rt, tr)
  BY RememberType, RememberEffect
<1>2. n = [rt EXCEPT !.stream_fds = @ \ {key},
                     !.fd_dest[key] = None,
                     !.fd_inode[key] = None,
                     !.inode_dest = [s \in Socks |->
                         IF s = tr.fd_inode[key] THEN None ELSE @[s]]]
  BY DEF close_enter
<1> HIDE DEF rt, g, n, key
<1>3. /\ n.stream_fds = rt.stream_fds \ {key}
      /\ n.fd_dest = [rt.fd_dest EXCEPT ![key] = None]
      /\ n.fd_inode = [rt.fd_inode EXCEPT ![key] = None]
      /\ n.inode_dest = [s \in Socks |-> IF s = tr.fd_inode[key] THEN None
                                         ELSE rt.inode_dest[s]]
      /\ n.tid_to_tgid = rt.tid_to_tgid
      /\ n.pending_socket = rt.pending_socket
  BY <1>1, <1>2 DEF Tracker
<1> QED BY <1>1, <1>3 DEF Closed, g, n, key, Resolved, SameKeys

LEMMA InsertDestEffect ==
    ASSUME NEW tr \in Tracker, NEW proc \in Proc, NEW t \in Tids, NEW fd, NEW a
    PROVE  LET g == resolve_tgid(tr, proc, t)
               n == insert_dest(tr, proc, t, fd, a)
           IN  /\ Resolved(n, tr, t, g)
               /\ n.stream_fds = tr.stream_fds
               /\ n.fd_dest = [tr.fd_dest EXCEPT ![<<g, fd>>] = a]
               /\ n.fd_inode = tr.fd_inode /\ n.inode_dest = tr.inode_dest
               /\ resolve_tgid(n, proc, t) = g
<1> DEFINE g  == resolve_tgid(tr, proc, t)
           rt == remember_tgid(tr, proc, t)
           n  == insert_dest(tr, proc, t, fd, a)
<1>1. /\ rt \in Tracker /\ Resolved(rt, tr, t, g) /\ SameKeys(rt, tr)
      /\ resolve_tgid(rt, proc, t) = g
  BY RememberType, RememberEffect
<1>2. n = [rt EXCEPT !.fd_dest[<<g, fd>>] = a]
  BY DEF insert_dest
<1> HIDE DEF rt, g, n
<1>3. /\ n.stream_fds = rt.stream_fds
      /\ n.fd_dest = [rt.fd_dest EXCEPT ![<<g, fd>>] = a]
      /\ n.fd_inode = rt.fd_inode
      /\ n.inode_dest = rt.inode_dest /\ n.tid_to_tgid = rt.tid_to_tgid
      /\ n.pending_socket = rt.pending_socket
  BY <1>1, <1>2 DEF Tracker
<1>4. resolve_tgid(n, proc, t) = g
  BY <1>1, <1>3 DEF resolve_tgid
<1> QED BY <1>1, <1>3, <1>4 DEF g, n, Resolved, SameKeys

(* insert_dest followed by bind_inode: both indices name the destination.  *)
LEMMA BindEffect ==
    ASSUME NEW tr \in Tracker, NEW proc \in Proc, NEW t \in Tids,
           NEW fd \in Fds, NEW a \in Addrs \cup {None}, NEW s \in Socks,
           NEW g, g = resolve_tgid(tr, proc, t)
    PROVE  LET key == <<g, fd>>
               n   == bind_inode(insert_dest(tr, proc, t, fd, a), proc, t, fd, s)
           IN  /\ Resolved(n, tr, t, g)
               /\ n.stream_fds = tr.stream_fds
               /\ n.fd_dest = [tr.fd_dest EXCEPT ![key] = a]
               /\ n.fd_inode = [tr.fd_inode EXCEPT ![key] = s]
               /\ a # None => n.inode_dest = [tr.inode_dest EXCEPT ![s] = a]
<1> DEFINE key == <<g, fd>>
           ins == insert_dest(tr, proc, t, fd, a)
           rt  == remember_tgid(ins, proc, t)
           n   == bind_inode(ins, proc, t, fd, s)
<1>1. /\ ins \in Tracker /\ Resolved(ins, tr, t, g)
      /\ ins.stream_fds = tr.stream_fds
      /\ ins.fd_dest = [tr.fd_dest EXCEPT ![key] = a]
      /\ ins.fd_inode = tr.fd_inode /\ ins.inode_dest = tr.inode_dest
      /\ resolve_tgid(ins, proc, t) = g
  BY InsertDestType, InsertDestEffect
<1>2. key \in Tids \X Fds /\ g \in Tids
  BY ResolveType
<1>3. ins.fd_dest[key] = a
  BY <1>1, <1>2 DEF Tracker
<1> HIDE DEF ins
<1>4. rt \in Tracker /\ Resolved(rt, ins, t, g) /\ SameKeys(rt, ins)
  BY <1>1, RememberType, RememberEffect
<1> DEFINE d == IF a # None THEN a ELSE rt.inode_dest[s]
<1>5. n = [rt EXCEPT !.inode_dest[s] = d, !.fd_inode[key] = s]
  BY <1>1, <1>2, <1>3 DEF bind_inode
<1> HIDE DEF rt, n, key
<1>6. /\ n.stream_fds = rt.stream_fds /\ n.fd_dest = rt.fd_dest
      /\ n.fd_inode = [rt.fd_inode EXCEPT ![key] = s]
      /\ n.inode_dest = [rt.inode_dest EXCEPT ![s] = d]
      /\ n.tid_to_tgid = rt.tid_to_tgid
      /\ n.pending_socket = rt.pending_socket
  BY <1>4, <1>5 DEF Tracker
<1>7. [ins.tid_to_tgid EXCEPT ![t] = g] = [tr.tid_to_tgid EXCEPT ![t] = g]
  BY <1>1 DEF Resolved, Tracker
<1>8. Resolved(n, tr, t, g)
  BY <1>1, <1>4, <1>6, <1>7 DEF Resolved
<1> QED BY <1>1, <1>4, <1>6, <1>8 DEF n, key, ins, SameKeys

(* A thread's exit.                                                        *)
TaskForgotten(n, tr, t) ==
    /\ n.tid_to_tgid = [tr.tid_to_tgid EXCEPT ![t] = None]
    /\ SameKeys(n, tr)

(* The exit of a task that takes the records of thread group g along.      *)
GroupForgotten(n, tr, t, g) ==
    /\ n.tid_to_tgid = [u \in Tids |->
          IF u = t \/ tr.tid_to_tgid[u] = g THEN None ELSE tr.tid_to_tgid[u]]
    /\ n.stream_fds = {k \in tr.stream_fds : k[1] # g}
    /\ n.fd_dest = [k \in Tids \X Fds |->
          IF k[1] = g THEN None ELSE tr.fd_dest[k]]
    /\ n.fd_inode = [k \in Tids \X Fds |->
          IF k[1] = g THEN None ELSE tr.fd_inode[k]]
    /\ n.inode_dest = [s \in Socks |->
          IF \E k \in Tids \X Fds : k[1] = g /\ tr.fd_inode[k] = s
          THEN None ELSE tr.inode_dest[s]]

Cleaned(n, tr, proc, t, g) ==
    /\ n.pending_socket = [tr.pending_socket EXCEPT ![t] = None]
    /\ \/ t # g /\ proc[g] # None /\ TaskForgotten(n, tr, t)
       \/ (t = g \/ proc[g] = None) /\ GroupForgotten(n, tr, t, g)

LEMMA CleanupEffect ==
    ASSUME NEW tr \in Tracker, NEW proc \in Proc, NEW t \in Tids
    PROVE  Cleaned(cleanup_process(tr, proc, t), tr, proc, t,
                   resolve_tgid(tr, proc, t))
<1> DEFINE g  == resolve_tgid(tr, proc, t)
           ft == forget_task(tr, t)
           n  == cleanup_process(tr, proc, t)
<1>1. /\ ft \in Tracker
      /\ ft.pending_socket = [tr.pending_socket EXCEPT ![t] = None]
      /\ ft.tid_to_tgid = [tr.tid_to_tgid EXCEPT ![t] = None]
      /\ SameKeys(ft, tr)
  BY DEF Tracker, forget_task, SameKeys
<1>2. g \in Tids /\ g # None
  BY ResolveType, TrackerAssumption
<1>3. CASE t # g /\ proc[g] # None
  <2>1. n = ft
    BY <1>3 DEF cleanup_process
  <2> QED BY <1>1, <1>3, <2>1 DEF Cleaned, TaskForgotten
<1>4. CASE ~(t # g /\ proc[g] # None)
  <2>1. n = forget_group(ft, g)
    BY <1>4 DEF cleanup_process
  <2> HIDE DEF g, ft, n
  <2>2. /\ n.pending_socket = ft.pending_socket
        /\ n.tid_to_tgid = [u \in Tids |-> IF ft.tid_to_tgid[u] = g THEN None
                                           ELSE ft.tid_to_tgid[u]]
        /\ n.stream_fds = {k \in ft.stream_fds : k[1] # g}
        /\ n.fd_dest = [k \in Tids \X Fds |->
              IF k[1] = g THEN None ELSE ft.fd_dest[k]]
        /\ n.fd_inode = [k \in Tids \X Fds |->
              IF k[1] = g THEN None ELSE ft.fd_inode[k]]
        /\ n.inode_dest = [s \in Socks |->
              IF \E k \in Tids \X Fds : k[1] = g /\ ft.fd_inode[k] = s
              THEN None ELSE ft.inode_dest[s]]
    BY <1>1, <2>1 DEF Tracker, forget_group
  <2>3. n.tid_to_tgid = [u \in Tids |->
           IF u = t \/ tr.tid_to_tgid[u] = g THEN None ELSE tr.tid_to_tgid[u]]
    BY <1>1, <1>2, <2>2 DEF Tracker
  <2> QED BY <1>1, <1>4, <2>2, <2>3
      DEF SameKeys, Cleaned, GroupForgotten, g, n
<1> QED BY <1>3, <1>4
-----------------------------------------------------------------------------
(* The places in which a task is in no system call.                        *)
Idle == {"none", "newborn", "user", "zombie", "wild"}

TaskOK(t) ==
    /\ pc[t] = "none" <=> tgid[t] = None
    /\ pc[t] \in Idle => call[t] = NoCall
    /\ call[t].op = "connect" => call[t].fd \in Fds /\ call[t].buf \in Bufs
    /\ call[t].op = "close" => call[t].fd \in Fds
    /\ pc[t] = "event" => call[t].child \in Tids

TypeInv == TypeOK /\ \A t \in Tids : TaskOK(t)

LEMMA NoCallType == NoCall \in Calls
BY DEF NoCall, Calls, Ops

LEMMA TrapType ==
    ASSUME TypeInv, NEW t \in Tids, NEW c \in Calls, Trap(t, c),
           c.op = "connect" => c.fd \in Fds /\ c.buf \in Bufs,
           c.op = "close" => c.fd \in Fds,
           UNCHANGED <<mem, wrote, tracerVars, proxyVars>>
    PROVE  TypeInv'
<1> USE DEF TypeInv
<1>1. AfterEntry(c) \in {"seccomp", "kernel"}
  BY DEF AfterEntry
<1>2. KernelTypeOK'
  BY <1>1 DEF Trap, TypeOK, KernelTypeOK, PCs
<1>3. TracerTypeOK' /\ ProxyTypeOK'
  BY DEF Trap, TypeOK, TracerTypeOK, ProxyTypeOK, tracerVars, proxyVars
<1>4. ASSUME NEW u \in Tids PROVE TaskOK(u)'
  <2>1. CASE u = t
    BY <1>1, <2>1 DEF Trap, TypeOK, KernelTypeOK, TaskOK, Idle, PCs
  <2>2. CASE u # t
    BY <2>2 DEF Trap, TypeOK, KernelTypeOK, TaskOK
  <2> QED BY <2>1, <2>2
<1> QED BY <1>2, <1>3, <1>4 DEF TypeOK

LEMMA ProgramType ==
    ASSUME TypeInv, NEW t \in Tids, ProgramStep(t)
    PROVE  TypeInv'
<1> USE DEF TypeInv
<1>0. UNCHANGED <<tracerVars, proxyVars>>
  BY DEF ProgramStep
<1>1. ASSUME NEW b \in Bufs, NEW a \in Dests, StoreSockaddr(t, b, a)
      PROVE  TypeInv'
  <2>1. KernelTypeOK'
    BY <1>1 DEF StoreSockaddr, TypeOK, KernelTypeOK, Dests
  <2>2. TracerTypeOK' /\ ProxyTypeOK'
    BY <1>0 DEF TypeOK, TracerTypeOK, ProxyTypeOK, tracerVars, proxyVars
  <2>3. \A u \in Tids : TaskOK(u)'
    BY <1>1 DEF StoreSockaddr, TaskOK
  <2> QED BY <2>1, <2>2, <2>3 DEF TypeOK
<1>2. ASSUME NEW k \in Kinds, CallSocket(t, k)
      PROVE  TypeInv'
  <2> DEFINE c == [NoCall EXCEPT !.op = "socket", !.kind = k]
  <2>1. c \in Calls /\ c.op = "socket"
    BY DEF NoCall, Calls, Ops
  <2> QED BY <1>0, <1>2, <2>1, TrapType DEF CallSocket
<1>3. ASSUME NEW fd \in Fds, NEW b \in Bufs, CallConnect(t, fd, b)
      PROVE  TypeInv'
  <2>1. PICK v \in BOOLEAN :
          Trap(t, [[NoCall EXCEPT !.op = "connect", !.fd = fd, !.buf = b,
                        !.want = wrote[tgid[t]][b]] EXCEPT !.valid = v])
    BY <1>3 DEF CallConnect
  <2> DEFINE c == [[NoCall EXCEPT !.op = "connect", !.fd = fd, !.buf = b,
                        !.want = wrote[tgid[t]][b]] EXCEPT !.valid = v]
  <2>2. wrote[tgid[t]][b] \in Addrs \cup {None}
    <3>1. tgid[t] \in Tids
      BY <1>3 DEF CallConnect, TypeOK, KernelTypeOK, TaskOK
    <3> QED BY <3>1 DEF TypeOK, KernelTypeOK
  <2>3. c \in Calls /\ c.op = "connect" /\ c.fd = fd /\ c.buf = b
    BY <2>2 DEF NoCall, Calls, Ops
  <2>4. UNCHANGED <<mem, wrote>>
    BY <1>3 DEF CallConnect
  <2> HIDE DEF c
  <2> QED BY <1>0, <2>1, <2>3, <2>4, TrapType DEF c
<1>4. ASSUME NEW fd \in Fds, CallClose(t, fd)
      PROVE  TypeInv'
  <2> DEFINE c == [NoCall EXCEPT !.op = "close", !.fd = fd]
  <2>1. c \in Calls /\ c.op = "close" /\ c.fd = fd
    BY DEF NoCall, Calls, Ops
  <2> QED BY <1>0, <1>4, <2>1, TrapType DEF CallClose
<1>5. ASSUME NEW k \in Clones, CallClone(t, k)
      PROVE  TypeInv'
  <2>1. PICK v \in BOOLEAN :
          Trap(t, [NoCall EXCEPT !.op = k.op, !.thread = k.thread,
                                 !.untraced = k.untraced, !.valid = v])
    BY <1>5 DEF CallClone
  <2> DEFINE c == [NoCall EXCEPT !.op = k.op, !.thread = k.thread,
                                 !.untraced = k.untraced, !.valid = v]
  <2>2. k \in [op : {"clone", "clone3"}, thread : BOOLEAN, untraced : BOOLEAN]
    BY KernelAssumption
  <2>3. c \in Calls /\ c.op \in {"clone", "clone3"}
    BY <2>2 DEF NoCall, Calls, Ops
  <2>4. UNCHANGED <<mem, wrote>>
    BY <1>5 DEF CallClone
  <2> HIDE DEF c
  <2> QED BY <1>0, <2>1, <2>3, <2>4, TrapType DEF c
<1>6. ASSUME NEW fd \in Fds \cup {None}, CallOther(t, fd)
      PROVE  TypeInv'
  <2> DEFINE c == [NoCall EXCEPT !.op = "other", !.fd = fd]
  <2>1. c \in Calls /\ c.op = "other"
    BY DEF NoCall, Calls, Ops
  <2> QED BY <1>0, <1>6, <2>1, TrapType DEF CallOther
<1>7. CASE Exit(t)
  <2>1. tgid[t] \in Tids
    BY <1>7 DEF Exit, TypeOK, KernelTypeOK, TaskOK
  <2>2. KernelTypeOK'
    BY <1>7, <2>1 DEF Exit, TypeOK, KernelTypeOK, PCs, NoFds, NoMem
  <2>3. TracerTypeOK' /\ ProxyTypeOK'
    BY <1>0 DEF TypeOK, TracerTypeOK, ProxyTypeOK, tracerVars, proxyVars
  <2>4. \A u \in Tids : TaskOK(u)'
    BY <1>7 DEF Exit, TypeOK, KernelTypeOK, TaskOK, Idle
  <2> QED BY <2>2, <2>3, <2>4 DEF TypeOK
<1> QED BY <1>1, <1>2, <1>3, <1>4, <1>5, <1>6, <1>7 DEF ProgramStep, Program

(* The end of a system call.                                               *)
LEMMA FinishType ==
    ASSUME TypeInv, NEW t \in Tids, NEW c \in Calls, Finish(t, c),
           pc[t] = "kernel",
           c.op = "connect" => c.fd \in Fds /\ c.buf \in Bufs,
           c.op = "close" => c.fd \in Fds,
           UNCHANGED tgid
    PROVE  /\ pc' \in [Tids -> PCs]
           /\ call' \in [Tids -> Calls]
           /\ \A u \in Tids : TaskOK(u)'
<1> USE DEF TypeInv
<1>1. AtExit(how[t]) \in {"exit", "user"} /\ (how[t] # "syscall" => AtExit(how[t]) = "user")
      /\ (how[t] = "syscall" => AtExit(how[t]) = "exit")
  BY DEF AtExit
<1>2. pc' \in [Tids -> PCs] /\ call' \in [Tids -> Calls]
  BY <1>1, NoCallType DEF Finish, TypeOK, KernelTypeOK, PCs
<1>3. ASSUME NEW u \in Tids PROVE TaskOK(u)'
  <2>1. CASE u = t
    <3>1. pc'[t] = AtExit(how[t]) /\ call'[t] = IF how[t] = "syscall" THEN c ELSE NoCall
      BY DEF Finish, TypeOK, KernelTypeOK
    <3>2. tgid[t] # None
      BY DEF TaskOK
    <3>3. NoCall.op = "none"
      BY DEF NoCall
    <3> QED BY <1>1, <2>1, <3>1, <3>2, <3>3 DEF TaskOK, Idle
  <2>2. CASE u # t
    BY <2>2 DEF Finish, TypeOK, KernelTypeOK, TaskOK
  <2> QED BY <2>1, <2>2
<1> QED BY <1>2, <1>3

LEMMA KernelStepType ==
    ASSUME TypeInv, NEW t \in Tids, KernelStep(t)
    PROVE  TypeInv'
<1> USE DEF TypeInv
<1>0. TracerTypeOK' /\ ProxyTypeOK'
  BY DEF KernelStep, TypeOK, TracerTypeOK, ProxyTypeOK, tracerVars, proxyVars
<1>1. Execute(t) /\ pc[t] = "kernel"
  BY DEF KernelStep, Execute, DoSocket, DoConnect, DoClose, DoClone
<1>2. tgid[t] \in Tids /\ call[t] \in Calls
  BY <1>1 DEF TypeOK, KernelTypeOK, TaskOK
<1>3. CASE DoSocket(t)
  <2>1. [call[t] EXCEPT !.ret = "error"] \in Calls
    BY <1>2 DEF Calls
  <2>2. ASSUME NEW s \in Socks, NEW f \in Fds,
               kind' = [kind EXCEPT ![s] = call[t].kind],
               owner' = [owner EXCEPT ![s] = tgid[t]],
               fdt' = [fdt EXCEPT ![tgid[t]][f] = s],
               Finish(t, [call[t] EXCEPT !.fd = f, !.ret = "ok"])
        PROVE  TypeInv'
    <3> DEFINE c == [call[t] EXCEPT !.fd = f, !.ret = "ok"]
    <3>2. c \in Calls /\ c.op = "socket"
      BY <1>2, <1>3 DEF Calls, DoSocket
    <3>3. UNCHANGED <<tgid, how, peer, asked, mem, wrote>>
      BY <1>3 DEF DoSocket
    <3> HIDE DEF c
    <3>4. pc' \in [Tids -> PCs] /\ call' \in [Tids -> Calls]
          /\ \A u \in Tids : TaskOK(u)'
      BY <1>1, <2>2, <3>2, <3>3, FinishType DEF c
    <3>5. call[t].kind \in Kinds \cup {None}
      BY <1>2 DEF Calls
    <3>6. KernelTypeOK'
      BY <1>2, <2>2, <3>3, <3>4, <3>5 DEF TypeOK, KernelTypeOK
    <3> QED BY <1>0, <3>4, <3>6 DEF TypeOK
  <2>3. ASSUME Finish(t, [call[t] EXCEPT !.ret = "error"]),
               UNCHANGED <<kind, owner, fdt>>
        PROVE  TypeInv'
    <3> DEFINE c == [call[t] EXCEPT !.ret = "error"]
    <3>1. c \in Calls /\ c.op = "socket"
      BY <1>2, <1>3 DEF Calls, DoSocket
    <3>2. UNCHANGED <<tgid, how, peer, asked, mem, wrote>>
      BY <1>3 DEF DoSocket
    <3> HIDE DEF c
    <3>3. pc' \in [Tids -> PCs] /\ call' \in [Tids -> Calls]
          /\ \A u \in Tids : TaskOK(u)'
      BY <1>1, <2>3, <3>1, <3>2, FinishType DEF c
    <3>4. KernelTypeOK'
      BY <2>3, <3>2, <3>3 DEF TypeOK, KernelTypeOK
    <3> QED BY <1>0, <3>3, <3>4 DEF TypeOK
  <2> QED BY <1>3, <2>2, <2>3 DEF DoSocket
<1>4. CASE DoConnect(t)
  <2> DEFINE ok == [call[t] EXCEPT !.ret = "ok"]
             err == [call[t] EXCEPT !.ret = "error"]
  <2>1. /\ call[t].op = "connect" /\ call[t].fd \in Fds /\ call[t].buf \in Bufs
        /\ call[t].want \in Addrs \cup {None}
    BY <1>2, <1>4 DEF DoConnect, TaskOK, Calls
  <2>2. /\ ok \in Calls /\ ok.op = "connect" /\ ok.fd \in Fds /\ ok.buf \in Bufs
        /\ err \in Calls /\ err.op = "connect" /\ err.fd \in Fds /\ err.buf \in Bufs
    BY <1>2, <2>1 DEF Calls
  <2>3. UNCHANGED <<tgid, how, fdt, kind, owner, mem, wrote>>
    BY <1>4 DEF DoConnect
  <2>4. Finish(t, ok) \/ Finish(t, err)
    BY <1>4 DEF DoConnect
  <2> HIDE DEF ok, err
  <2>5. pc' \in [Tids -> PCs] /\ call' \in [Tids -> Calls]
        /\ \A u \in Tids : TaskOK(u)'
    BY <1>1, <2>2, <2>3, <2>4, FinishType
  <2>6. mem[tgid[t]][call[t].buf] \in Addrs \cup {None}
    BY <1>2, <2>1 DEF TypeOK, KernelTypeOK
  <2>7. peer' \in [Socks -> Addrs \cup {None}]
        /\ asked' \in [Socks -> Addrs \cup {None}]
    BY <1>4, <2>1, <2>6 DEF DoConnect, TypeOK, KernelTypeOK
  <2>8. KernelTypeOK'
    BY <2>3, <2>5, <2>7 DEF TypeOK, KernelTypeOK
  <2> QED BY <1>0, <2>5, <2>8 DEF TypeOK
<1>5. CASE DoClose(t)
  <2> DEFINE ok == [call[t] EXCEPT !.ret = "ok"]
  <2>1. /\ ok \in Calls /\ ok.op \in {"close", "other"}
        /\ ok.op = "close" => ok.fd \in Fds
    BY <1>2, <1>5 DEF Calls, DoClose, TaskOK
  <2>2. /\ UNCHANGED <<tgid, how, kind, peer, asked, owner, mem, wrote>>
        /\ Finish(t, ok)
    BY <1>5 DEF DoClose
  <2> HIDE DEF ok
  <2>3. pc' \in [Tids -> PCs] /\ call' \in [Tids -> Calls]
        /\ \A u \in Tids : TaskOK(u)'
    BY <1>1, <2>1, <2>2, FinishType
  <2>4. fdt' \in [Tids -> [Fds -> Socks \cup {None}]]
    BY <1>2, <1>5 DEF DoClose, TypeOK, KernelTypeOK
  <2>5. KernelTypeOK'
    BY <2>2, <2>3, <2>4 DEF TypeOK, KernelTypeOK
  <2> QED BY <1>0, <2>3, <2>5 DEF TypeOK
<1>6. CASE DoClone(t)
  <2> DEFINE ok == [call[t] EXCEPT !.ret = "ok"]
             err == [call[t] EXCEPT !.ret = "error"]
  <2>1. /\ ok \in Calls /\ ok.op \in {"clone", "clone3"}
        /\ err \in Calls /\ err.op \in {"clone", "clone3"}
    BY <1>2, <1>6 DEF Calls, DoClone
  <2>2. UNCHANGED <<how, kind, peer, asked, owner>>
    BY <1>6 DEF DoClone
  <2>3. ASSUME NEW c \in Tids, NEW q \in Tids, pc[c] = "none",
               tgid' = [tgid EXCEPT ![c] = q],
               fdt' = [fdt EXCEPT ![q] = fdt[tgid[t]]],
               mem' = [mem EXCEPT ![q] = mem[tgid[t]]],
               wrote' = [wrote EXCEPT ![q] = wrote[tgid[t]]],
               \/ /\ pc' = [pc EXCEPT ![c] = "wild", ![t] = AtExit(how[t])]
                  /\ call' = [call EXCEPT ![t] =
                                IF how[t] = "syscall" THEN ok ELSE NoCall]
               \/ /\ pc' = [pc EXCEPT ![c] = "newborn", ![t] = "event"]
                  /\ call' = [call EXCEPT ![t].child = c, ![t].ret = "ok"]
        PROVE  TypeInv'
    <3>1. AtExit(how[t]) = IF how[t] = "syscall" THEN "exit" ELSE "user"
      BY DEF AtExit
    <3>2. tgid' \in [Tids -> Tids \cup {None}]
      BY <2>3 DEF TypeOK, KernelTypeOK
    <3>3. fdt' \in [Tids -> [Fds -> Socks \cup {None}]]
          /\ mem' \in [Tids -> [Bufs -> Addrs \cup {None}]]
          /\ wrote' \in [Tids -> [Bufs -> Addrs \cup {None}]]
      BY <1>2, <2>3 DEF TypeOK, KernelTypeOK
    <3>4. pc' \in [Tids -> PCs]
      BY <2>3, <3>1 DEF TypeOK, KernelTypeOK, PCs
    <3>5. call'[t] \in Calls /\ call'[t].op \in {"none", "clone", "clone3"}
          /\ (pc'[t] = "event" => call'[t].child \in Tids)
          /\ (pc'[t] \in Idle => call'[t] = NoCall)
      <4> DEFINE told == [call[t] EXCEPT !.child = c, !.ret = "ok"]
      <4>1. told \in Calls /\ told.op \in {"clone", "clone3"} /\ told.child = c
        BY <1>2, <1>6 DEF Calls, DoClone
      <4>2. c # t
        BY <1>1, <2>3
      <4>3. \/ /\ pc'[t] = AtExit(how[t])
               /\ call'[t] = IF how[t] = "syscall" THEN ok ELSE NoCall
            \/ pc'[t] = "event" /\ call'[t] = told
        BY <2>3, <4>2 DEF TypeOK, KernelTypeOK
      <4>4. NoCall.op = "none"
        BY DEF NoCall
      <4> HIDE DEF told, ok
      <4> QED BY <2>1, <3>1, <4>1, <4>3, <4>4, NoCallType DEF Idle
    <3>6. call' \in [Tids -> Calls]
      BY <2>3, <3>5 DEF TypeOK, KernelTypeOK
    <3>7. ASSUME NEW u \in Tids PROVE TaskOK(u)'
      <4>1. CASE u = t
        <5>1. tgid'[t] # None /\ pc'[t] # "none"
          BY <1>1, <1>2, <2>3, <3>1, TrackerAssumption DEF TypeOK, KernelTypeOK
        <5> QED BY <3>5, <4>1, <5>1 DEF TaskOK
      <4>2. CASE u = c
        <5>1. c # t /\ tgid'[c] # None /\ pc'[c] \in {"wild", "newborn"}
          BY <1>1, <2>3, TrackerAssumption DEF TypeOK, KernelTypeOK
        <5>2. call'[c] = NoCall
          BY <2>3, <5>1 DEF TypeOK, KernelTypeOK, TaskOK, Idle
        <5> QED BY <4>2, <5>1, <5>2 DEF TaskOK, Idle, NoCall
      <4>3. CASE u # t /\ u # c
        <5>1. tgid'[u] = tgid[u] /\ pc'[u] = pc[u] /\ call'[u] = call[u]
          BY <2>3, <4>3 DEF TypeOK, KernelTypeOK
        <5> QED BY <5>1 DEF TaskOK
      <4> QED BY <4>1, <4>2, <4>3
    <3>8. KernelTypeOK'
      BY <2>2, <3>2, <3>3, <3>4, <3>6 DEF TypeOK, KernelTypeOK
    <3> QED BY <1>0, <3>7, <3>8 DEF TypeOK
  <2>4. ASSUME Finish(t, err), UNCHANGED <<tgid, fdt, mem, wrote>>
        PROVE  TypeInv'
    <3> HIDE DEF err
    <3>1. pc' \in [Tids -> PCs] /\ call' \in [Tids -> Calls]
          /\ \A u \in Tids : TaskOK(u)'
      BY <1>1, <2>1, <2>4, FinishType
    <3>2. KernelTypeOK'
      BY <2>2, <2>4, <3>1 DEF TypeOK, KernelTypeOK
    <3> QED BY <1>0, <3>1, <3>2 DEF TypeOK
  <2> QED BY <1>2, <1>6, <2>3, <2>4 DEF DoClone
<1> QED BY <1>1, <1>3, <1>4, <1>5, <1>6 DEF Execute

(* Resuming a stopped task, whatever the handler left in its registers.    *)
LEMMA ResumeType ==
    ASSUME TypeInv, NEW t \in Tids, NEW st \in ThreadState, NEW c \in Calls,
           pc[t] # "none",
           c.op = "connect" => c.fd \in Fds /\ c.buf \in Bufs,
           c.op = "close" => c.fd \in Fds,
           resume_tracee(t, st, c),
           tracker' \in Tracker,
           mem' \in [Tids -> [Bufs -> Addrs \cup {None}]],
           active_pids' \subseteq Tids,
           UNCHANGED proxyVars
    PROVE  TypeInv'
<1> USE DEF TypeInv
<1> DEFINE h  == resume_request(st)
           at == ResumeAt(pc[t], c, h)
<1>1. h \in {"cont", "syscall"}
  BY DEF resume_request
<1>2. at \in {"seccomp", "kernel", "exit", "user"}
  BY DEF ResumeAt, AfterEntry, AtExit
<1>3. /\ thread_states' = [thread_states EXCEPT ![t] = st]
      /\ how' = [how EXCEPT ![t] = h]
      /\ pc' = [pc EXCEPT ![t] = at]
      /\ call' = [call EXCEPT ![t] = IF at = "user" THEN NoCall ELSE c]
      /\ aborted' = FALSE
      /\ UNCHANGED <<tgid, fdt, kind, peer, asked, owner, wrote>>
  BY DEF resume_tracee
<1> HIDE DEF h, at
<1>4. KernelTypeOK'
  BY <1>1, <1>2, <1>3, NoCallType DEF TypeOK, KernelTypeOK, PCs
<1>5. TracerTypeOK' /\ ProxyTypeOK'
  BY <1>3 DEF TypeOK, TracerTypeOK, ProxyTypeOK, proxyVars
<1>6. ASSUME NEW u \in Tids PROVE TaskOK(u)'
  <2>1. CASE u = t
    <3>1. pc'[t] = at /\ call'[t] = (IF at = "user" THEN NoCall ELSE c)
          /\ tgid'[t] # None
      BY <1>3 DEF TypeOK, KernelTypeOK, TaskOK
    <3>2. NoCall.op = "none"
      BY DEF NoCall
    <3> QED BY <1>2, <2>1, <3>1, <3>2 DEF TaskOK, Idle
  <2>2. CASE u # t
    BY <1>3, <2>2 DEF TypeOK, KernelTypeOK, TaskOK
  <2> QED BY <2>1, <2>2
<1> QED BY <1>4, <1>5, <1>6 DEF TypeOK

(* A failed handler changes nothing but the flag and the set of pids.      *)
LEMMA ErrorType ==
    ASSUME TypeInv, NEW t \in Tids, return_err(t), active_pids' \subseteq Tids,
           UNCHANGED proxyVars
    PROVE  TypeInv'
<1> USE DEF TypeInv
<1>1. KernelTypeOK' /\ TracerTypeOK' /\ ProxyTypeOK'
  BY DEF return_err, kernelVars, TypeOK, KernelTypeOK, TracerTypeOK,
         ProxyTypeOK, proxyVars
<1>2. \A u \in Tids : TaskOK(u)'
  BY DEF return_err, kernelVars, TaskOK
<1> QED BY <1>1, <1>2 DEF TypeOK

(* The thread states the handlers produce.                                 *)
LEMMA ThreadStates ==
    ASSUME NEW st \in ThreadState
    PROVE  /\ [st EXCEPT !.phase = "Exiting"] \in ThreadState
           /\ [st EXCEPT !.pending_connect_restore = NoRestore] \in ThreadState
           /\ [st EXCEPT !.forced_connect_errno = TRUE] \in ThreadState
           /\ exited_state(st) \in ThreadState
           /\ DefaultState \in ThreadState
           /\ \A b \in Bufs, a \in Addrs \cup {None} :
                 [st EXCEPT !.pending_connect_restore =
                               [addr_ptr |-> b, dest |-> a]] \in ThreadState
BY DEF ThreadState, NoRestore, exited_state, DefaultState

LEMMA EnteredType ==
    ASSUME TypeInv, NEW t \in Tids, NEW st \in ThreadState, NEW c \in Calls,
           pc[t] # "none",
           c.op = "connect" => c.fd \in Fds /\ c.buf \in Bufs,
           c.op = "close" => c.fd \in Fds,
           Entered(t, st, c),
           tracker' \in Tracker,
           mem' \in [Tids -> [Bufs -> Addrs \cup {None}]],
           active_pids' \subseteq Tids,
           UNCHANGED proxyVars
    PROVE  TypeInv'
<1> DEFINE ex == [st EXCEPT !.phase = "Exiting"]
<1>1. ex \in ThreadState /\ resume_tracee(t, ex, c)
  BY ThreadStates DEF Entered
<1> HIDE DEF ex
<1> QED BY <1>1, ResumeType

LEMMA ConnectEnterType ==
    ASSUME TypeInv, NEW t \in Tids, pc[t] # "none", call[t].op = "connect",
           handle_connect_enter(t), active_pids' \subseteq Tids,
           UNCHANGED proxyVars
    PROVE  TypeInv'
<1> DEFINE fd    == call[t].fd
           buf   == call[t].buf
           p     == tgid[t]
           dest  == mem[p][buf]
           st    == [thread_states[t] EXCEPT
                       !.pending_connect_restore = NoRestore]
           known == is_stream_socket_fd(tracker, tgid, t, fd)
           seen  == remember_tgid(tracker, tgid, t)
           mark  == IF known THEN seen
                    ELSE mark_stream_socket_fd(seen, tgid, t, fd)
           inode == fdt[p][fd]
           ins   == insert_dest(mark, tgid, t, fd, dest)
           forced == [st EXCEPT !.forced_connect_errno = TRUE]
           restore == [st EXCEPT !.pending_connect_restore =
                          [addr_ptr |-> buf, dest |-> dest]]
<1>1. /\ p \in Tids /\ fd \in Fds /\ buf \in Bufs
      /\ call[t] \in Calls /\ thread_states[t] \in ThreadState
      /\ tracker \in Tracker /\ tgid \in Proc
      /\ mem \in [Tids -> [Bufs -> Addrs \cup {None}]]
      /\ fdt \in [Tids -> [Fds -> Socks \cup {None}]]
  BY DEF TypeInv, TypeOK, KernelTypeOK, TracerTypeOK, TaskOK, Proc
<1>2. dest \in Addrs \cup {None} /\ inode \in Socks \cup {None}
  BY <1>1
<1>3. st \in ThreadState
  BY <1>1, ThreadStates
<1>4. forced \in ThreadState /\ restore \in ThreadState
  <2> HIDE DEF st
  <2> QED BY <1>1, <1>2, <1>3, ThreadStates
<1>5. seen \in Tracker
  BY <1>1, RememberType
<1>6. mark \in Tracker
  BY <1>1, <1>5, MarkType
<1>7. ins \in Tracker
  BY <1>1, <1>2, <1>6, InsertDestType
<1>8. inode # None => bind_inode(ins, tgid, t, fd, inode) \in Tracker
  BY <1>1, <1>2, <1>7, BindInodeType
<1>9. [mem EXCEPT ![p][buf] = Local] \in [Tids -> [Bufs -> Addrs \cup {None}]]
  BY <1>1, KernelAssumption
<1>10. \/ return_err(t)
       \/ Entered(t, st, call[t]) /\ UNCHANGED <<tracker, mem>>
       \/ Entered(t, forced, call[t]) /\ UNCHANGED <<tracker, mem>>
       \/ Entered(t, st, call[t]) /\ tracker' = seen /\ UNCHANGED mem
       \/ Entered(t, st, call[t]) /\ tracker' = mark /\ UNCHANGED mem
       \/ /\ Entered(t, restore, call[t])
          /\ mem' = [mem EXCEPT ![p][buf] = Local]
          /\ tracker' = IF inode = None THEN ins
                        ELSE bind_inode(ins, tgid, t, fd, inode)
  BY DEF handle_connect_enter
<1> HIDE DEF dest, st, seen, mark, inode, ins, forced, restore
<1>11. CASE return_err(t)
  BY <1>11, ErrorType
<1>12. CASE ~return_err(t)
  <2>1. tracker' \in Tracker
        /\ mem' \in [Tids -> [Bufs -> Addrs \cup {None}]]
    BY <1>1, <1>5, <1>6, <1>7, <1>8, <1>9, <1>10, <1>12
  <2>2. Entered(t, st, call[t]) \/ Entered(t, forced, call[t])
          \/ Entered(t, restore, call[t])
    BY <1>10, <1>12
  <2> QED BY <1>1, <1>3, <1>4, <2>1, <2>2, EnteredType
<1> QED BY <1>11, <1>12

LEMMA EnterType ==
    ASSUME TypeInv, NEW t \in Tids, pc[t] # "none",
           handle_syscall_enter(t), active_pids' \subseteq Tids,
           UNCHANGED proxyVars
    PROVE  TypeInv'
<1>1. /\ call[t] \in Calls /\ thread_states[t] \in ThreadState
      /\ tracker \in Tracker /\ tgid \in Proc
      /\ mem \in [Tids -> [Bufs -> Addrs \cup {None}]]
      /\ TaskOK(t)
  BY DEF TypeInv, TypeOK, KernelTypeOK, TracerTypeOK, Proc
<1>2. CASE call[t].op = "socket" /\ handle_socket_enter(t)
  <2>1. call[t].kind \in Kinds \cup {None}
    BY <1>1 DEF Calls
  <2>2. tracker' \in Tracker /\ UNCHANGED mem
    BY <1>1, <1>2, <2>1, SocketEnterType DEF handle_socket_enter
  <2> QED BY <1>1, <1>2, <2>2, EnteredType DEF handle_socket_enter
<1>3. CASE call[t].op = "connect" /\ handle_connect_enter(t)
  BY <1>3, ConnectEnterType
<1>4. CASE call[t].op = "close" /\ handle_close_enter(t)
  <2>1. tracker' \in Tracker /\ UNCHANGED mem /\ call[t].fd \in Fds
    BY <1>1, <1>4, CloseEnterType DEF handle_close_enter, TaskOK
  <2> QED BY <1>1, <1>4, <2>1, EnteredType DEF handle_close_enter
<1>5. CASE \/ call[t].op = "clone" /\ handle_clone_enter(t)
           \/ call[t].op = "clone3" /\ handle_clone3_enter(t)
  <2> DEFINE c == [call[t] EXCEPT !.untraced = FALSE]
  <2>1. c \in Calls /\ c.op \in {"clone", "clone3"}
    BY <1>1, <1>5 DEF Calls
  <2>2. \/ return_err(t)
        \/ Entered(t, thread_states[t], c) /\ UNCHANGED <<tracker, mem>>
    BY <1>5 DEF handle_clone_enter, handle_clone3_enter
  <2> HIDE DEF c
  <2> QED BY <1>1, <2>1, <2>2, EnteredType, ErrorType
<1>6. CASE call[t].op = "other" /\ handle_other_enter(t)
  BY <1>1, <1>6, EnteredType DEF handle_other_enter
<1> QED BY <1>2, <1>3, <1>4, <1>5, <1>6 DEF handle_syscall_enter

LEMMA ExitType ==
    ASSUME TypeInv, NEW t \in Tids, pc[t] # "none",
           handle_syscall_exit(t), active_pids' \subseteq Tids,
           UNCHANGED proxyVars
    PROVE  TypeInv'
<1> DEFINE st     == thread_states[t]
           ret_fd == IF call[t].ret = "ok" THEN call[t].fd ELSE None
           forced == [call[t] EXCEPT !.ret = "EAFNOSUPPORT"]
           c      == IF st.forced_connect_errno THEN forced ELSE call[t]
<1>1. /\ call[t] \in Calls /\ st \in ThreadState
      /\ tracker \in Tracker /\ tgid \in Proc
      /\ mem \in [Tids -> [Bufs -> Addrs \cup {None}]]
      /\ TaskOK(t)
  BY DEF TypeInv, TypeOK, KernelTypeOK, TracerTypeOK, Proc
<1>2. /\ forced \in Calls /\ forced.op = call[t].op
      /\ forced.fd = call[t].fd /\ forced.buf = call[t].buf
      /\ ret_fd \in Fds \cup {None}
  BY <1>1 DEF Calls
<1>3. tracker' \in Tracker
  <2>1. socket_exit(tracker, tgid, t, ret_fd) \in Tracker
    BY <1>1, <1>2, SocketExitType
  <2> QED BY <1>1, <2>1 DEF handle_syscall_exit
<1>4. mem' \in [Tids -> [Bufs -> Addrs \cup {None}]]
  <2>1. st.pending_connect_restore.dest \in Addrs \cup {None}
    BY <1>1 DEF ThreadState
  <2> QED BY <1>1, <2>1 DEF handle_syscall_exit, restored
<1>5. exited_state(st) \in ThreadState
  BY <1>1, ThreadStates
<1>6. resume_tracee(t, exited_state(st), c)
  BY DEF handle_syscall_exit
<1>7. /\ c \in Calls
      /\ c.op = "connect" => c.fd \in Fds /\ c.buf \in Bufs
      /\ c.op = "close" => c.fd \in Fds
  <2> HIDE DEF forced
  <2> QED BY <1>1, <1>2 DEF TaskOK
<1> HIDE DEF c, st
<1> QED BY <1>3, <1>4, <1>5, <1>6, <1>7, ResumeType

LEMMA TracerStepType ==
    ASSUME TypeInv, NEW t \in Tids, TracerStep(t)
    PROVE  TypeInv'
<1>1. /\ call[t] \in Calls /\ thread_states[t] \in ThreadState
      /\ tracker \in Tracker /\ tgid \in Proc /\ active_pids \subseteq Tids
      /\ mem \in [Tids -> [Bufs -> Addrs \cup {None}]]
      /\ TaskOK(t)
  BY DEF TypeInv, TypeOK, KernelTypeOK, TracerTypeOK, Proc
<1>2. UNCHANGED proxyVars
  BY DEF TracerStep
<1>3. CASE OnSeccompEvent(t)
  BY <1>1, <1>2, <1>3, EnterType DEF OnSeccompEvent
<1>4. CASE OnSyscallStop(t)
  BY <1>1, <1>2, <1>4, EnterType, ExitType DEF OnSyscallStop
<1>5. CASE OnCloneEvent(t)
  <2>1. call[t].child \in Tids
    BY <1>1, <1>5 DEF OnCloneEvent, TaskOK
  <2> QED BY <1>1, <1>2, <1>5, <2>1, ResumeType DEF OnCloneEvent, TaskOK
<1>6. CASE OnNewborn(t)
  BY <1>1, <1>2, <1>6, ResumeType DEF OnNewborn, TaskOK
<1>7. CASE OnExited(t)
  <2> DEFINE proc == [tgid EXCEPT ![t] = None]
  <2>1. proc \in Proc
    BY <1>1 DEF Proc
  <2>2. cleanup_process(tracker, proc, t) \in Tracker
    BY <1>1, <2>1, CleanupType
  <2>3. /\ tgid' = proc /\ tracker' = cleanup_process(tracker, proc, t)
        /\ pc' = [pc EXCEPT ![t] = "none"]
        /\ how' = [how EXCEPT ![t] = "cont"]
        /\ thread_states' = [thread_states EXCEPT ![t] = DefaultState]
        /\ active_pids' = active_pids \ {t}
        /\ pc[t] = "zombie"
        /\ UNCHANGED <<call, fdt, kind, peer, asked, owner, mem, wrote, aborted>>
    BY <1>7 DEF OnExited
  <2> HIDE DEF proc
  <2>4. KernelTypeOK'
    BY <2>1, <2>3 DEF TypeInv, TypeOK, KernelTypeOK, PCs, Proc
  <2>5. TracerTypeOK' /\ ProxyTypeOK'
    BY <1>1, <1>2, <2>2, <2>3, ThreadStates
    DEF TypeInv, TypeOK, TracerTypeOK, ProxyTypeOK, proxyVars
  <2>6. ASSUME NEW u \in Tids PROVE TaskOK(u)'
    <3>1. CASE u = t
      BY <2>3, <3>1 DEF TypeInv, TypeOK, KernelTypeOK, TaskOK, Idle, NoCall, proc
    <3>2. CASE u # t
      BY <2>3, <3>2 DEF TypeInv, TypeOK, KernelTypeOK, TaskOK, proc
    <3> QED BY <3>1, <3>2
  <2> QED BY <2>4, <2>5, <2>6 DEF TypeInv, TypeOK
<1> QED BY <1>3, <1>4, <1>5, <1>6, <1>7 DEF TracerStep, Tracer

LEMMA ProxyStepType ==
    ASSUME TypeInv, NEW s \in Socks, ProxyStep(s)
    PROVE  TypeInv'
<1> USE DEF TypeInv
<1>1. KernelTypeOK' /\ TracerTypeOK' /\ \A u \in Tids : TaskOK(u)'
  BY DEF ProxyStep, kernelVars, tracerVars, TypeOK, KernelTypeOK,
         TracerTypeOK, TaskOK
<1>2. client[s] \in Clients /\ Attempts \in Nat \ {0}
  BY AttemptsAssumption DEF TypeOK, ProxyTypeOK
<1>3. ASSUME NEW c \in Clients, client' = [client EXCEPT ![s] = c],
             UNCHANGED listening
      PROVE  ProxyTypeOK'
  BY <1>3 DEF TypeOK, ProxyTypeOK
<1>4. CASE Accept(s) /\ UNCHANGED listening
  <2> DEFINE c == [client[s] EXCEPT !.at = "find"]
  <2>1. c \in Clients
    BY <1>2 DEF Clients
  <2>2. client' = [client EXCEPT ![s] = c]
    BY <1>4 DEF Accept
  <2> QED BY <1>1, <1>3, <1>4, <2>1, <2>2 DEF TypeOK
<1>5. CASE FindInode(s) /\ UNCHANGED listening
  <2> DEFINE c == [client[s] EXCEPT !.at = "match", !.inode = find_inode_by_conn(s)]
  <2>1. find_inode_by_conn(s) \in Socks \cup {None}
    BY DEF find_inode_by_conn
  <2>2. c \in Clients
    BY <1>2, <2>1 DEF Clients
  <2>3. client' = [client EXCEPT ![s] = c]
    BY <1>5 DEF FindInode, TypeOK, ProxyTypeOK
  <2> QED BY <1>1, <1>3, <1>5, <2>2, <2>3 DEF TypeOK
<1>6. CASE Match(s) /\ UNCHANGED listening
  <2>1. PICK d \in Found(tracker, s) :
          \/ /\ d # None
             /\ client' = [client EXCEPT ![s].at = "proxying", ![s].dest = d]
          \/ /\ d = None /\ client[s].attempt + 1 < Attempts
             /\ client' = [client EXCEPT ![s].at = "find", ![s].attempt = @ + 1]
          \/ /\ d = None /\ client[s].attempt + 1 = Attempts
             /\ client' = [client EXCEPT ![s].at = "dropped"]
    BY <1>6 DEF Match
  <2>2. d \in Addrs \cup {None}
    <3>1. client[s].inode \in Socks \cup {None} /\ tracker \in Tracker
      BY <1>2 DEF Clients, TypeOK, TracerTypeOK
    <3>2. ASSUME NEW i \in Socks
          PROVE  get_by_inode(tracker, i) \in Addrs \cup {None}
      BY <3>1 DEF Tracker, get_by_inode
    <3>3. ASSUME NEW k \in Tids \X Fds
          PROVE  get_by_pid_fd(tracker, k[1], k[2]) \in Addrs \cup {None}
      BY <3>1 DEF Tracker, get_by_pid_fd
    <3>4. pid_fds_by_inode(client[s].inode) \subseteq Tids \X Fds
      BY DEF pid_fds_by_inode
    <3> QED BY <2>1, <3>1, <3>2, <3>3, <3>4 DEF Found
  <2> DEFINE hit  == [client[s] EXCEPT !.at = "proxying", !.dest = d]
             miss == [client[s] EXCEPT !.at = "find",
                                       !.attempt = client[s].attempt + 1]
             drop == [client[s] EXCEPT !.at = "dropped"]
  <2>3. hit \in Clients /\ drop \in Clients
    BY <1>2, <2>2 DEF Clients
  <2>4. client[s].attempt + 1 < Attempts => miss \in Clients
    <3>1. client[s].attempt \in 0 .. Attempts - 1
      BY <1>2 DEF Clients
    <3>2. client[s].attempt + 1 < Attempts =>
            client[s].attempt + 1 \in 0 .. Attempts - 1
      BY <1>2, <3>1
    <3> QED BY <1>2, <3>2 DEF Clients
  <2>5. \/ client' = [client EXCEPT ![s] = hit]
        \/ /\ client[s].attempt + 1 < Attempts
           /\ client' = [client EXCEPT ![s] = miss]
        \/ client' = [client EXCEPT ![s] = drop]
    BY <2>1 DEF TypeOK, ProxyTypeOK
  <2> HIDE DEF hit, miss, drop
  <2> QED BY <1>1, <1>3, <1>6, <2>3, <2>4, <2>5 DEF TypeOK
<1>7. CASE AcceptFails(s)
  <2>1. \A z \in Socks : [client[z] EXCEPT !.at = "dropped"] \in Clients
    BY DEF TypeOK, ProxyTypeOK, Clients
  <2> QED BY <1>1, <1>7, <2>1 DEF AcceptFails, TypeOK, ProxyTypeOK
<1> QED BY <1>4, <1>5, <1>6, <1>7 DEF ProxyStep, LocalProxyTask

LEMMA TypeStep ==
    ASSUME TypeInv, [Next]_vars
    PROVE  TypeInv'
<1>1. CASE UNCHANGED vars
  <2>1. TypeOK'
    BY <1>1 DEF TypeInv, TypeOK, vars, KernelTypeOK, TracerTypeOK, ProxyTypeOK,
                kernelVars, tracerVars, proxyVars
  <2>2. \A t \in Tids : TaskOK(t)'
    BY <1>1 DEF TypeInv, vars, TaskOK, kernelVars
  <2> QED BY <2>1, <2>2 DEF TypeInv
<1>2. CASE Next
  BY <1>1, <1>2, ProgramType, KernelStepType, TracerStepType, ProxyStepType
  DEF Next, Terminated
<1> QED BY <1>1, <1>2

LEMMA TypeInvariant == Spec => []TypeInv
<1>1. Init => TypeInv
  <2> SUFFICES ASSUME Init PROVE TypeInv
    OBVIOUS
  <2> USE KernelAssumption, TrackerAssumption
      DEF Init, KernelInit, TracerInit, ProxyInit
  <2>1. KernelTypeOK
    BY NoCallType DEF KernelTypeOK, PCs, NoFds, NoMem
  <2>2. TracerTypeOK
    <3>1. new \in Tracker
      BY DEF Tracker, new
    <3>2. DefaultState \in ThreadState
      BY DEF ThreadState, DefaultState, NoRestore
    <3> QED BY <3>1, <3>2 DEF TracerTypeOK
  <2>3. ProxyTypeOK
    BY AttemptsAssumption DEF ProxyTypeOK, Clients, NoClient
  <2>4. \A t \in Tids : TaskOK(t)
    BY DEF TaskOK, NoCall, Idle
  <2> QED BY <2>1, <2>2, <2>3, <2>4 DEF TypeInv, TypeOK
<1>2. TypeInv /\ [Next]_vars => TypeInv'
  BY TypeStep
<1> QED BY <1>1, <1>2, PTL DEF Spec

(* TypeOK holds in every state of the running system, for every number of  *)
(* tasks, descriptors, sockets and buffers, whatever the program is        *)
(* allowed to do: no handler looks up a key that is not there, and the     *)
(* local proxy makes no more attempts than it should.                      *)
THEOREM ProxecTypeOK == Spec => []TypeOK
<1>1. TypeInv => TypeOK
  BY DEF TypeInv
<1> QED BY <1>1, TypeInvariant, PTL
-----------------------------------------------------------------------------
(* Phases.                                                                 *)

PhaseOK(t) ==
    /\ pc[t] \in Idle \cup {"entry", "seccomp"} =>
          thread_states[t].phase = "Entering"
    /\ pc[t] = "exit" => thread_states[t].phase = "Exiting"
    /\ pc[t] = "entry" => ~UseSeccomp
    /\ pc[t] = "user" => how[t] = IF UseSeccomp THEN "cont" ELSE "syscall"
    /\ pc[t] \in {"kernel", "event"} =>
          /\ how[t] = "syscall" <=> thread_states[t].phase = "Exiting"
          /\ UseSeccomp \/ thread_states[t].phase = "Exiting"

TracedOK(t) ==
    /\ pc[t] # "wild"
    /\ call[t].untraced => call[t].op \in {"clone", "clone3"}
    /\ pc[t] \in {"kernel", "event", "exit"} => ~call[t].untraced
    /\ pc[t] \notin {"none", "newborn"} => t \in active_pids

PhaseInv == \A t \in Tids : PhaseOK(t) /\ TracedOK(t)

(* A task that a step leaves alone keeps its part of the invariant.        *)
LEMMA PhaseFrame ==
    ASSUME NEW u \in Tids, PhaseOK(u), TracedOK(u),
           pc'[u] = pc[u], call'[u] = call[u], how'[u] = how[u],
           thread_states'[u] = thread_states[u],
           u \in active_pids => u \in active_pids'
    PROVE  PhaseOK(u)' /\ TracedOK(u)'
BY DEF PhaseOK, TracedOK

LEMMA NoCallTraced == NoCall.untraced = FALSE /\ NoCall.op = "none"
BY DEF NoCall

LEMMA TrapPhase ==
    ASSUME TypeInv, PhaseInv, NEW t \in Tids, NEW c \in Calls, Trap(t, c),
           c.untraced => c.op \in {"clone", "clone3"},
           UNCHANGED tracerVars
    PROVE  PhaseInv'
<1>1. /\ pc[t] = "user" /\ PhaseOK(t) /\ TracedOK(t)
      /\ call'[t] = c
      /\ pc'[t] = IF how[t] = "syscall" THEN "entry" ELSE AfterEntry(c)
      /\ how' = how /\ thread_states' = thread_states
      /\ active_pids' = active_pids
  BY DEF Trap, TypeInv, TypeOK, KernelTypeOK, PhaseInv, tracerVars
<1>2. UseSeccomp => pc'[t] \in {"seccomp", "kernel"}
                    /\ (pc'[t] = "kernel" => ~c.untraced)
  BY <1>1 DEF PhaseOK, AfterEntry, Filtered
<1>3. ~UseSeccomp => pc'[t] = "entry"
  BY <1>1 DEF PhaseOK
<1>4. UseSeccomp => how[t] = "cont"
  BY <1>1 DEF PhaseOK
<1>5. PhaseOK(t)' /\ TracedOK(t)'
  BY <1>1, <1>2, <1>3, <1>4 DEF PhaseOK, TracedOK, Idle
<1>6. ASSUME NEW u \in Tids, u # t PROVE PhaseOK(u)' /\ TracedOK(u)'
  <2>1. pc'[u] = pc[u] /\ call'[u] = call[u]
    BY <1>6 DEF Trap, TypeInv, TypeOK, KernelTypeOK
  <2> QED BY <1>1, <2>1, PhaseFrame DEF PhaseInv
<1> QED BY <1>5, <1>6 DEF PhaseInv

LEMMA FinishPhase ==
    ASSUME TypeInv, PhaseInv, NEW t \in Tids, NEW c \in Calls, Finish(t, c),
           pc[t] = "kernel", ~c.untraced, UNCHANGED <<how, tracerVars>>
    PROVE  PhaseInv'
<1>1. /\ PhaseOK(t) /\ TracedOK(t)
      /\ call'[t] = IF how[t] = "syscall" THEN c ELSE NoCall
      /\ pc'[t] = IF how[t] = "syscall" THEN "exit" ELSE "user"
      /\ how' = how /\ thread_states' = thread_states
      /\ active_pids' = active_pids /\ how[t] \in {"cont", "syscall"}
      /\ thread_states[t].phase \in {"Entering", "Exiting"}
  BY DEF Finish, AtExit, TypeInv, TypeOK, KernelTypeOK, TracerTypeOK,
         ThreadState, PhaseInv, tracerVars
<1>2. PhaseOK(t)' /\ TracedOK(t)'
  BY <1>1, NoCallTraced DEF PhaseOK, TracedOK, Idle
<1>3. ASSUME NEW u \in Tids, u # t PROVE PhaseOK(u)' /\ TracedOK(u)'
  <2>1. pc'[u] = pc[u] /\ call'[u] = call[u]
    BY <1>3 DEF Finish, TypeInv, TypeOK, KernelTypeOK
  <2> QED BY <1>1, <2>1, PhaseFrame DEF PhaseInv
<1> QED BY <1>2, <1>3 DEF PhaseInv

LEMMA ResumePhase ==
    ASSUME TypeInv, PhaseInv, NEW t \in Tids, NEW st \in ThreadState,
           NEW c \in Calls, resume_tracee(t, st, c),
           pc[t] \in {"entry", "seccomp", "event", "newborn", "exit"},
           pc[t] \in {"entry", "seccomp"} => st.phase = "Exiting",
           pc[t] = "event" => st.phase = thread_states[t].phase,
           pc[t] \in {"newborn", "exit"} => st.phase = "Entering",
           ~c.untraced,
           t \in active_pids', active_pids \subseteq active_pids'
    PROVE  PhaseInv'
<1> DEFINE h  == resume_request(st)
           at == ResumeAt(pc[t], c, h)
<1>1. /\ PhaseOK(t) /\ TracedOK(t)
      /\ thread_states'[t] = st /\ how'[t] = h /\ pc'[t] = at
      /\ call'[t] = IF at = "user" THEN NoCall ELSE c
      /\ thread_states[t].phase \in {"Entering", "Exiting"}
  BY DEF resume_tracee, TypeInv, TypeOK, KernelTypeOK, TracerTypeOK,
         ThreadState, PhaseInv
<1>2. h = IF UseSeccomp /\ st.phase # "Exiting" THEN "cont" ELSE "syscall"
  BY DEF resume_request
<1>3. pc[t] \in {"entry", "seccomp"} => at = "kernel"
  BY <1>1 DEF ResumeAt, AfterEntry, PhaseOK
<1>4. pc[t] = "event" => at = IF h = "syscall" THEN "exit" ELSE "user"
  BY DEF ResumeAt, AtExit
<1>5. pc[t] \in {"newborn", "exit"} => at = "user"
  BY DEF ResumeAt
<1> HIDE DEF h, at
<1>6. PhaseOK(t)'
  BY <1>1, <1>2, <1>3, <1>4, <1>5 DEF PhaseOK, Idle
<1>7. TracedOK(t)'
  BY <1>1, <1>3, <1>4, <1>5, NoCallTraced DEF TracedOK
<1>8. ASSUME NEW u \in Tids, u # t PROVE PhaseOK(u)' /\ TracedOK(u)'
  <2>1. /\ pc'[u] = pc[u] /\ call'[u] = call[u] /\ how'[u] = how[u]
        /\ thread_states'[u] = thread_states[u]
    BY <1>8 DEF resume_tracee, TypeInv, TypeOK, KernelTypeOK, TracerTypeOK
  <2> QED BY <2>1, PhaseFrame DEF PhaseInv
<1> QED BY <1>6, <1>7, <1>8 DEF PhaseInv

LEMMA ProgramPhase ==
    ASSUME TypeInv, PhaseInv, NEW t \in Tids, ProgramStep(t)
    PROVE  PhaseInv'
<1>0. UNCHANGED tracerVars
  BY DEF ProgramStep
<1>1. ASSUME NEW b \in Bufs, NEW a \in Dests, StoreSockaddr(t, b, a)
      PROVE  PhaseInv'
  BY <1>0, <1>1, PhaseFrame DEF StoreSockaddr, PhaseInv, tracerVars
<1>2. ASSUME NEW k \in Kinds, CallSocket(t, k)
      PROVE  PhaseInv'
  <2> DEFINE c == [NoCall EXCEPT !.op = "socket", !.kind = k]
  <2>1. c \in Calls /\ ~c.untraced
    BY DEF NoCall, Calls, Ops
  <2> QED BY <1>0, <1>2, <2>1, TrapPhase DEF CallSocket
<1>3. ASSUME NEW fd \in Fds, NEW b \in Bufs, CallConnect(t, fd, b)
      PROVE  PhaseInv'
  <2>1. PICK v \in BOOLEAN :
          Trap(t, [[NoCall EXCEPT !.op = "connect", !.fd = fd, !.buf = b,
                        !.want = wrote[tgid[t]][b]] EXCEPT !.valid = v])
    BY <1>3 DEF CallConnect
  <2> DEFINE c == [[NoCall EXCEPT !.op = "connect", !.fd = fd, !.buf = b,
                        !.want = wrote[tgid[t]][b]] EXCEPT !.valid = v]
  <2>2. wrote[tgid[t]][b] \in Addrs \cup {None}
    <3>1. tgid[t] \in Tids
      BY <1>3 DEF CallConnect, TypeInv, TypeOK, KernelTypeOK, TaskOK
    <3> QED BY <3>1 DEF TypeInv, TypeOK, KernelTypeOK
  <2>3. c \in Calls /\ ~c.untraced
    BY <2>2 DEF NoCall, Calls, Ops
  <2> HIDE DEF c
  <2> QED BY <1>0, <2>1, <2>3, TrapPhase DEF c
<1>4. ASSUME NEW fd \in Fds, CallClose(t, fd)
      PROVE  PhaseInv'
  <2> DEFINE c == [NoCall EXCEPT !.op = "close", !.fd = fd]
  <2>1. c \in Calls /\ ~c.untraced
    BY DEF NoCall, Calls, Ops
  <2> QED BY <1>0, <1>4, <2>1, TrapPhase DEF CallClose
<1>5. ASSUME NEW k \in Clones, CallClone(t, k)
      PROVE  PhaseInv'
  <2>1. PICK v \in BOOLEAN :
          Trap(t, [NoCall EXCEPT !.op = k.op, !.thread = k.thread,
                                 !.untraced = k.untraced, !.valid = v])
    BY <1>5 DEF CallClone
  <2> DEFINE c == [NoCall EXCEPT !.op = k.op, !.thread = k.thread,
                                 !.untraced = k.untraced, !.valid = v]
  <2>2. k \in [op : {"clone", "clone3"}, thread : BOOLEAN, untraced : BOOLEAN]
    BY KernelAssumption
  <2>3. c \in Calls /\ c.op \in {"clone", "clone3"}
    BY <2>2 DEF NoCall, Calls, Ops
  <2> HIDE DEF c
  <2> QED BY <1>0, <2>1, <2>3, TrapPhase DEF c
<1>6. ASSUME NEW fd \in Fds \cup {None}, CallOther(t, fd)
      PROVE  PhaseInv'
  <2> DEFINE c == [NoCall EXCEPT !.op = "other", !.fd = fd]
  <2>1. c \in Calls /\ ~c.untraced
    BY DEF NoCall, Calls, Ops
  <2> QED BY <1>0, <1>6, <2>1, TrapPhase DEF CallOther
<1>7. CASE Exit(t)
  <2>1. /\ pc[t] = "user" /\ pc'[t] = "zombie"
        /\ UNCHANGED <<call, how, thread_states, active_pids>>
        /\ \A u \in Tids : u # t => pc'[u] = pc[u]
    BY <1>0, <1>7 DEF Exit, TypeInv, TypeOK, KernelTypeOK, tracerVars
  <2>2. PhaseOK(t)' /\ TracedOK(t)'
    BY <2>1 DEF PhaseInv, PhaseOK, TracedOK, Idle
  <2>3. \A u \in Tids : u # t => PhaseOK(u)' /\ TracedOK(u)'
    BY <2>1, PhaseFrame DEF PhaseInv
  <2> QED BY <2>2, <2>3 DEF PhaseInv
<1> QED BY <1>1, <1>2, <1>3, <1>4, <1>5, <1>6, <1>7 DEF ProgramStep, Program

LEMMA KernelPhase ==
    ASSUME TypeInv, PhaseInv, NEW t \in Tids, KernelStep(t)
    PROVE  PhaseInv'
<1>0. UNCHANGED tracerVars
  BY DEF KernelStep
<1>1. Execute(t) /\ pc[t] = "kernel"
  BY DEF KernelStep, Execute, DoSocket, DoConnect, DoClose, DoClone
<1>2. /\ call[t] \in Calls /\ ~call[t].untraced /\ PhaseOK(t) /\ TracedOK(t)
      /\ tgid[t] \in Tids
  BY <1>1 DEF TypeInv, TypeOK, KernelTypeOK, TaskOK, PhaseInv, TracedOK
<1>3. ASSUME NEW f \in Fds, NEW r \in {"ok", "error"}
      PROVE  /\ [call[t] EXCEPT !.ret = r] \in Calls
             /\ ~[call[t] EXCEPT !.ret = r].untraced
             /\ [call[t] EXCEPT !.fd = f, !.ret = r] \in Calls
             /\ ~[call[t] EXCEPT !.fd = f, !.ret = r].untraced
  BY <1>2, <1>3 DEF Calls
<1>4. CASE DoSocket(t)
  <2>1. /\ UNCHANGED how
        /\ \/ \E f \in Fds : Finish(t, [call[t] EXCEPT !.fd = f, !.ret = "ok"])
           \/ Finish(t, [call[t] EXCEPT !.ret = "error"])
    BY <1>4 DEF DoSocket
  <2>2. [call[t] EXCEPT !.ret = "error"] \in Calls
        /\ ~[call[t] EXCEPT !.ret = "error"].untraced
    BY <1>2 DEF Calls
  <2> QED BY <1>0, <1>1, <1>3, <2>1, <2>2, FinishPhase
<1>5. CASE DoConnect(t) \/ DoClose(t)
  <2>1. /\ UNCHANGED how
        /\ \E r \in {"ok", "error"} : Finish(t, [call[t] EXCEPT !.ret = r])
    BY <1>5 DEF DoConnect, DoClose
  <2>2. \A r \in {"ok", "error"} : /\ [call[t] EXCEPT !.ret = r] \in Calls
                                   /\ ~[call[t] EXCEPT !.ret = r].untraced
    BY <1>2 DEF Calls
  <2> QED BY <1>0, <1>1, <2>1, <2>2, FinishPhase
<1>6. CASE DoClone(t)
  <2>1. CASE Finish(t, [call[t] EXCEPT !.ret = "error"])
    <3>1. /\ [call[t] EXCEPT !.ret = "error"] \in Calls
          /\ ~[call[t] EXCEPT !.ret = "error"].untraced
      BY <1>2 DEF Calls
    <3>2. UNCHANGED how
      BY <1>6 DEF DoClone
    <3> QED BY <1>0, <1>1, <2>1, <3>1, <3>2, FinishPhase
  <2>2. ASSUME NEW c \in Tids, pc[c] = "none",
               pc' = [pc EXCEPT ![c] = "newborn", ![t] = "event"],
               call' = [call EXCEPT ![t].child = c, ![t].ret = "ok"]
        PROVE  PhaseInv'
    <3>1. /\ c # t /\ pc'[c] = "newborn" /\ pc'[t] = "event"
          /\ UNCHANGED <<how, thread_states, active_pids>>
          /\ call'[c] = call[c] /\ call'[t].untraced = call[t].untraced
          /\ call'[t].op = call[t].op
      BY <1>0, <1>1, <1>2, <1>6, <2>2
      DEF DoClone, TypeInv, TypeOK, KernelTypeOK, tracerVars, Calls
    <3>2. PhaseOK(t)' /\ TracedOK(t)'
      BY <1>1, <1>2, <3>1 DEF PhaseOK, TracedOK, Idle
    <3>3. PhaseOK(c)' /\ TracedOK(c)'
      BY <2>2, <3>1 DEF PhaseInv, PhaseOK, TracedOK, Idle
    <3>4. \A u \in Tids : u # t /\ u # c => PhaseOK(u)' /\ TracedOK(u)'
      <4>1. \A u \in Tids : u # t /\ u # c => pc'[u] = pc[u] /\ call'[u] = call[u]
        BY <2>2 DEF TypeInv, TypeOK, KernelTypeOK
      <4> QED BY <3>1, <4>1, PhaseFrame DEF PhaseInv
    <3> QED BY <3>2, <3>3, <3>4 DEF PhaseInv
  <2> QED BY <1>2, <1>6, <2>1, <2>2 DEF DoClone
<1> QED BY <1>1, <1>4, <1>5, <1>6 DEF Execute

LEMMA ErrorPhase ==
    ASSUME PhaseInv, NEW t \in Tids, return_err(t),
           active_pids \subseteq active_pids'
    PROVE  PhaseInv'
BY PhaseFrame DEF return_err, kernelVars, PhaseInv

(* Every handler at an entry leaves the phase Exiting and the call without *)
(* CLONE_UNTRACED, or fails.                                               *)
LEMMA EnterShape ==
    ASSUME TypeInv, PhaseInv, NEW t \in Tids, handle_syscall_enter(t)
    PROVE  \/ return_err(t)
           \/ \E st \in ThreadState, c \in Calls :
                 st.phase = "Exiting" /\ ~c.untraced /\ resume_tracee(t, st, c)
<1>1. call[t] \in Calls /\ thread_states[t] \in ThreadState /\ TaskOK(t) /\ TracedOK(t)
  BY DEF TypeInv, TypeOK, KernelTypeOK, TracerTypeOK, PhaseInv
<1>2. ASSUME NEW st \in ThreadState, NEW c \in Calls, ~c.untraced,
             Entered(t, st, c)
      PROVE  \E x \in ThreadState, y \in Calls :
                 x.phase = "Exiting" /\ ~y.untraced /\ resume_tracee(t, x, y)
  <2>1. /\ [st EXCEPT !.phase = "Exiting"] \in ThreadState
        /\ [st EXCEPT !.phase = "Exiting"].phase = "Exiting"
    BY DEF ThreadState
  <2> QED BY <1>2, <2>1 DEF Entered
<1>3. CASE \/ call[t].op = "clone" /\ handle_clone_enter(t)
           \/ call[t].op = "clone3" /\ handle_clone3_enter(t)
  <2> DEFINE c == [call[t] EXCEPT !.untraced = FALSE]
  <2>1. c \in Calls /\ ~c.untraced
    BY <1>1 DEF Calls
  <2>2. return_err(t) \/ Entered(t, thread_states[t], c)
    BY <1>3 DEF handle_clone_enter, handle_clone3_enter
  <2> QED BY <1>1, <1>2, <2>1, <2>2
<1>4. CASE call[t].op = "connect" /\ handle_connect_enter(t)
  <2> DEFINE buf  == call[t].buf
             dest == mem[tgid[t]][buf]
             st   == [thread_states[t] EXCEPT
                        !.pending_connect_restore = NoRestore]
             forced == [st EXCEPT !.forced_connect_errno = TRUE]
             restore == [st EXCEPT !.pending_connect_restore =
                            [addr_ptr |-> buf, dest |-> dest]]
  <2>1. \/ return_err(t)
        \/ Entered(t, st, call[t])
        \/ Entered(t, forced, call[t])
        \/ Entered(t, restore, call[t])
    BY <1>4 DEF handle_connect_enter
  <2>2. ~call[t].untraced
    BY <1>1, <1>4 DEF TracedOK
  <2>3. buf \in Bufs
    BY <1>1, <1>4 DEF TaskOK
  <2>4. st \in ThreadState
    BY <1>1, ThreadStates
  <2>5. tgid[t] \in Tids => dest \in Addrs \cup {None}
    BY <2>3 DEF TypeInv, TypeOK, KernelTypeOK
  <2>6. tgid[t] \in Tids
    BY <1>1, <1>4 DEF TaskOK, TypeInv, TypeOK, KernelTypeOK, Idle, NoCall
  <2>7. forced \in ThreadState /\ restore \in ThreadState
    <3> HIDE DEF st, dest
    <3> QED BY <2>3, <2>4, <2>5, <2>6, ThreadStates
  <2> HIDE DEF st, forced, restore
  <2> QED BY <1>1, <1>2, <2>1, <2>2, <2>4, <2>7
<1>5. CASE \/ call[t].op = "socket" /\ handle_socket_enter(t)
           \/ call[t].op = "close" /\ handle_close_enter(t)
           \/ call[t].op = "other" /\ handle_other_enter(t)
  <2>1. ~call[t].untraced /\ Entered(t, thread_states[t], call[t])
    BY <1>1, <1>5 DEF TracedOK, handle_socket_enter, handle_close_enter,
                      handle_other_enter
  <2> QED BY <1>1, <1>2, <2>1
<1> QED BY <1>3, <1>4, <1>5 DEF handle_syscall_enter

LEMMA TracerPhase ==
    ASSUME TypeInv, PhaseInv, NEW t \in Tids, TracerStep(t)
    PROVE  PhaseInv'
<1>1. /\ call[t] \in Calls /\ thread_states[t] \in ThreadState
      /\ TaskOK(t) /\ PhaseOK(t) /\ TracedOK(t)
  BY DEF TypeInv, TypeOK, KernelTypeOK, TracerTypeOK, PhaseInv
<1>2. ASSUME pc[t] \in {"entry", "seccomp"}, handle_syscall_enter(t),
             active_pids' = active_pids \cup {t}
      PROVE  PhaseInv'
  BY <1>2, EnterShape, ErrorPhase, ResumePhase
<1>3. CASE OnSeccompEvent(t)
  BY <1>2, <1>3 DEF OnSeccompEvent
<1>4. CASE OnSyscallStop(t)
  <2>1. CASE thread_states[t].phase = "Entering"
    BY <1>1, <1>2, <1>4, <2>1 DEF OnSyscallStop, PhaseOK
  <2>2. CASE thread_states[t].phase = "Exiting"
    <3>1. pc[t] = "exit" /\ handle_syscall_exit(t) /\ t \in active_pids'
          /\ active_pids \subseteq active_pids'
      BY <1>1, <1>4, <2>2 DEF OnSyscallStop, PhaseOK
    <3> DEFINE st == exited_state(thread_states[t])
               forced == [call[t] EXCEPT !.ret = "EAFNOSUPPORT"]
    <3>2. st \in ThreadState /\ st.phase = "Entering"
      BY <1>1, ThreadStates DEF exited_state, ThreadState
    <3>3. forced \in Calls /\ ~forced.untraced /\ ~call[t].untraced
      BY <1>1, <3>1 DEF Calls, TracedOK
    <3>4. resume_tracee(t, st, forced) \/ resume_tracee(t, st, call[t])
      BY <3>1 DEF handle_syscall_exit
    <3> HIDE DEF st, forced
    <3> QED BY <1>1, <3>1, <3>2, <3>3, <3>4, ResumePhase
  <2> QED BY <1>4, <2>1, <2>2 DEF OnSyscallStop
<1>5. CASE OnCloneEvent(t)
  <2>1. ~call[t].untraced
    BY <1>1, <1>5 DEF OnCloneEvent, TracedOK
  <2> QED BY <1>1, <1>5, <2>1, ResumePhase DEF OnCloneEvent
<1>6. CASE OnNewborn(t)
  <2>1. ~call[t].untraced /\ thread_states[t].phase = "Entering"
    BY <1>1, <1>6, NoCallTraced DEF OnNewborn, TaskOK, PhaseOK, Idle
  <2> QED BY <1>1, <1>6, <2>1, ResumePhase DEF OnNewborn
<1>7. CASE OnExited(t)
  <2>1. /\ pc[t] = "zombie" /\ pc'[t] = "none" /\ call' = call
        /\ thread_states'[t] = DefaultState
        /\ active_pids' = active_pids \ {t}
        /\ \A u \in Tids : u # t => /\ pc'[u] = pc[u] /\ how'[u] = how[u]
                                    /\ thread_states'[u] = thread_states[u]
    BY <1>7 DEF OnExited, TypeInv, TypeOK, KernelTypeOK, TracerTypeOK
  <2>2. PhaseOK(t)' /\ TracedOK(t)'
    BY <1>1, <2>1 DEF PhaseOK, TracedOK, Idle, DefaultState
  <2>3. \A u \in Tids : u # t => PhaseOK(u)' /\ TracedOK(u)'
    BY <2>1, PhaseFrame DEF PhaseInv
  <2> QED BY <2>2, <2>3 DEF PhaseInv
<1> QED BY <1>3, <1>4, <1>5, <1>6, <1>7 DEF TracerStep, Tracer

LEMMA PhaseInvariant == Spec => [](TypeInv /\ PhaseInv)
<1>1. Init => PhaseInv
  <2> SUFFICES ASSUME Init, NEW t \in Tids PROVE PhaseOK(t) /\ TracedOK(t)
    BY DEF PhaseInv
  <2>1. /\ pc[t] = IF t = Main THEN "user" ELSE "none"
        /\ how[t] = IF t = Main /\ ~UseSeccomp THEN "syscall" ELSE "cont"
        /\ call[t] = NoCall /\ thread_states[t] = DefaultState
        /\ active_pids = {Main}
    BY DEF Init, KernelInit, TracerInit
  <2> QED BY <2>1, NoCallTraced DEF PhaseOK, TracedOK, DefaultState, Idle
<1>2. TypeInv /\ PhaseInv /\ [Next]_vars => PhaseInv'
  <2> SUFFICES ASSUME TypeInv, PhaseInv, [Next]_vars PROVE PhaseInv'
    OBVIOUS
  <2>1. CASE UNCHANGED <<kernelVars, tracerVars>>
    BY <2>1, PhaseFrame DEF PhaseInv, kernelVars, tracerVars
  <2>2. CASE \E t \in Tids : ProgramStep(t) \/ KernelStep(t) \/ TracerStep(t)
    BY <2>2, ProgramPhase, KernelPhase, TracerPhase
  <2> QED BY <2>1, <2>2 DEF Next, ProxyStep, Terminated, vars
<1> QED BY <1>1, <1>2, TypeInvariant, PTL DEF Spec

(* The tracer never takes an exit stop for an entry or an entry for an     *)
(* exit, in both tracing modes, for any number of threads and processes    *)
(* and whatever the program does (handle_syscall_ptrace, resume_tracee).   *)
THEOREM PhaseCorrect == Spec => []PhaseAgrees
<1>1. PhaseInv => PhaseAgrees
  BY DEF PhaseInv, PhaseOK, PhaseAgrees
<1> QED BY <1>1, PhaseInvariant, PTL

(* No task of the program ever runs without the tracer, and every one that *)
(* has left its first stop is in active_pids (handle_clone_enter,          *)
(* handle_clone3_enter and the filter's choice of the calls to trace).     *)
THEOREM NoTaskEscapes == Spec => []AllTraced
<1>1. PhaseInv => AllTraced
  BY DEF PhaseInv, TracedOK, AllTraced
<1> QED BY <1>1, PhaseInvariant, PTL
-----------------------------------------------------------------------------
(***************************************************************************)
(* A tid that is free carries nothing over to the task that gets it next   *)
(* (NothingSurvivesReap), whatever the program does.                       *)
(***************************************************************************)

(* A resume changes the call and the thread state of one task.             *)
LEMMA ResumeFrame ==
    ASSUME TypeInv, NEW t \in Tids, NEW st, NEW c, resume_tracee(t, st, c)
    PROVE  /\ UNCHANGED <<tgid, wrote>>
           /\ thread_states'[t] = st
           /\ \/ call'[t] = c /\ ResumeAt(pc[t], c, resume_request(st)) # "user"
              \/ call'[t] = NoCall
                 /\ ResumeAt(pc[t], c, resume_request(st)) = "user"
           /\ \A u \in Tids : u # t => /\ call'[u] = call[u]
                                       /\ thread_states'[u] = thread_states[u]
BY DEF resume_tracee, TypeInv, TypeOK, KernelTypeOK, TracerTypeOK

(* A thread group lives as long as its leader's identifier is taken.       *)
GroupOK == \A t \in Tids : tgid[t] # None => tgid[tgid[t]] = tgid[t]

(* The tracker says something about this descriptor.                       *)
Known(k) ==
    \/ k \in tracker.stream_fds
    \/ tracker.fd_dest[k] # None
    \/ tracker.fd_inode[k] # None

(* A task is resolved to its own thread group or not at all; descriptors   *)
(* are tracked under thread groups that exist.                             *)
ReapInv ==
    /\ GroupOK
    /\ \A t \in Tids : tracker.tid_to_tgid[t] \in {None, tgid[t]}
    /\ \A p \in Tids, f \in Fds : Known(<<p, f>>) => tgid[p] = p
    /\ \A t \in Tids : pc[t] = "none" => /\ tracker.pending_socket[t] = None
                                        /\ thread_states[t] = DefaultState

(* While a task lives, /proc and the cache give its thread group.          *)
LEMMA ResolveRight ==
    ASSUME TypeInv, ReapInv, NEW t \in Tids, pc[t] # "none"
    PROVE  /\ resolve_tgid(tracker, tgid, t) = tgid[t]
           /\ tgid[t] \in Tids /\ tgid[t] # None
           /\ tracker \in Tracker /\ tgid \in Proc
<1>1. /\ tgid[t] \in Tids /\ tgid[t] # None /\ tracker \in Tracker
      /\ tgid \in Proc
  BY TrackerAssumption
  DEF TypeInv, TypeOK, KernelTypeOK, TracerTypeOK, TaskOK, Proc
<1> QED BY <1>1 DEF ReapInv, resolve_tgid, read_tgid_from_proc_status

(* What a handler may do to the tracker, for a task of thread group p.     *)
Touches(t, p) ==
    /\ \A u \in Tids : u # t =>
          /\ tracker'.tid_to_tgid[u] = tracker.tid_to_tgid[u]
          /\ tracker'.pending_socket[u] = tracker.pending_socket[u]
    /\ tracker'.tid_to_tgid[t] \in {tracker.tid_to_tgid[t], p}
    /\ \A x \in Tids, f \in Fds :
          Known(<<x, f>>)' => Known(<<x, f>>) \/ x = p

(* handle_connect_enter's outcomes: an error; a call that goes on as it    *)
(* is; a redirection, of a descriptor that is known or probed as a stream. *)
ConnectPasses(t) ==
    \E st \in ThreadState :
        /\ st.pending_connect_restore = NoRestore
        /\ Entered(t, st, call[t]) /\ UNCHANGED mem
        /\ tracker'.pending_socket = tracker.pending_socket
        /\ \/ tracker'.tid_to_tgid = tracker.tid_to_tgid
           \/ tracker'.tid_to_tgid = [tracker.tid_to_tgid EXCEPT ![t] = tgid[t]]
        /\ tracker'.fd_dest = tracker.fd_dest
        /\ tracker'.fd_inode = tracker.fd_inode
        /\ tracker'.inode_dest = tracker.inode_dest
        /\ \/ tracker'.stream_fds = tracker.stream_fds
           \/ /\ probe_socket_is_stream(t, call[t].fd)
              /\ tracker'.stream_fds
                    = tracker.stream_fds \cup {<<tgid[t], call[t].fd>>}

ConnectRedirects(t) ==
    LET key  == <<tgid[t], call[t].fd>>
        s    == fdt[tgid[t]][call[t].fd]
        dest == mem[tgid[t]][call[t].buf]
    IN  /\ ~Exempt(dest)
        /\ \E st \in ThreadState :
              /\ st.pending_connect_restore
                    = [addr_ptr |-> call[t].buf, dest |-> dest]
              /\ Entered(t, st, call[t])
        /\ mem' = [mem EXCEPT ![tgid[t]][call[t].buf] = Local]
        /\ Resolved(tracker', tracker, t, tgid[t])
        /\ \/ key \in tracker.stream_fds
              /\ tracker'.stream_fds = tracker.stream_fds
           \/ /\ probe_socket_is_stream(t, call[t].fd)
              /\ tracker'.stream_fds = tracker.stream_fds \cup {key}
        /\ tracker'.fd_dest = [tracker.fd_dest EXCEPT ![key] = dest]
        /\ IF s = None
           THEN tracker'.fd_inode = tracker.fd_inode
           ELSE /\ tracker'.fd_inode = [tracker.fd_inode EXCEPT ![key] = s]
                /\ dest # None => tracker'.inode_dest
                                    = [tracker.inode_dest EXCEPT ![s] = dest]

LEMMA ConnectEffect ==
    ASSUME TypeInv, ReapInv, NEW t \in Tids, pc[t] \in {"entry", "seccomp"},
           call[t].op = "connect", handle_connect_enter(t)
    PROVE  return_err(t) \/ ConnectPasses(t) \/ ConnectRedirects(t)
<1> DEFINE fd   == call[t].fd
           b    == call[t].buf
           p    == tgid[t]
           dest == mem[p][b]
           st   == [thread_states[t] EXCEPT !.pending_connect_restore = NoRestore]
           forced == [st EXCEPT !.forced_connect_errno = TRUE]
           restore == [st EXCEPT !.pending_connect_restore =
                          [addr_ptr |-> b, dest |-> dest]]
           known == is_stream_socket_fd(tracker, tgid, t, fd)
           probe == probe_socket_is_stream(t, fd)
           seen  == remember_tgid(tracker, tgid, t)
           mark  == IF known THEN seen
                    ELSE mark_stream_socket_fd(seen, tgid, t, fd)
           s     == fdt[p][fd]
           ins   == insert_dest(mark, tgid, t, fd, dest)
           bound == IF s = None THEN ins ELSE bind_inode(ins, tgid, t, fd, s)
           key   == <<p, fd>>
<1>1. /\ resolve_tgid(tracker, tgid, t) = p /\ p \in Tids
      /\ tracker \in Tracker /\ tgid \in Proc
  BY ResolveRight
<1>2. /\ fd \in Fds /\ b \in Bufs /\ thread_states[t] \in ThreadState
      /\ dest \in Addrs \cup {None} /\ s \in Socks \cup {None}
  <2>1. fd \in Fds /\ b \in Bufs /\ thread_states[t] \in ThreadState
    BY DEF TypeInv, TypeOK, TracerTypeOK, TaskOK
  <2> QED BY <1>1, <2>1 DEF TypeInv, TypeOK, KernelTypeOK
<1>3. \/ return_err(t)
      \/ Entered(t, st, call[t]) /\ UNCHANGED <<tracker, mem>>
      \/ Entered(t, forced, call[t]) /\ UNCHANGED <<tracker, mem>>
      \/ Entered(t, st, call[t]) /\ UNCHANGED mem /\ tracker' = seen
      \/ Entered(t, st, call[t]) /\ UNCHANGED mem /\ (known \/ probe)
         /\ tracker' = mark
      \/ /\ Entered(t, restore, call[t]) /\ (known \/ probe) /\ ~Exempt(dest)
         /\ tracker' = bound
         /\ mem' = [mem EXCEPT ![p][b] = Local]
  BY DEF handle_connect_enter, Exempt
<1>4. /\ st \in ThreadState /\ st.pending_connect_restore = NoRestore
      /\ forced \in ThreadState /\ forced.pending_connect_restore = NoRestore
  BY <1>2 DEF ThreadState, NoRestore
<1>5. /\ restore \in ThreadState
      /\ restore.pending_connect_restore = [addr_ptr |-> b, dest |-> dest]
  <2> HIDE DEF dest, b
  <2> QED BY <1>2 DEF ThreadState, NoRestore
<1>6. /\ seen \in Tracker /\ Resolved(seen, tracker, t, p)
      /\ SameKeys(seen, tracker) /\ resolve_tgid(seen, tgid, t) = p
  BY <1>1, RememberType, RememberEffect
<1>7. known <=> key \in tracker.stream_fds
  BY <1>1 DEF is_stream_socket_fd
<1> HIDE DEF known, probe, seen, st, forced, restore, dest, s
<1>8. /\ mark \in Tracker /\ Resolved(mark, tracker, t, p)
      /\ mark.fd_dest = tracker.fd_dest /\ mark.fd_inode = tracker.fd_inode
      /\ mark.inode_dest = tracker.inode_dest
      /\ mark.stream_fds = IF known THEN tracker.stream_fds
                           ELSE tracker.stream_fds \cup {key}
      /\ resolve_tgid(mark, tgid, t) = p
  <2>1. CASE known
    BY <1>6, <2>1 DEF SameKeys
  <2>2. CASE ~known
    <3> DEFINE m == mark_stream_socket_fd(seen, tgid, t, fd)
    <3>1. /\ m \in Tracker /\ Resolved(m, seen, t, p)
          /\ m.stream_fds = seen.stream_fds \cup {key}
          /\ m.fd_dest = seen.fd_dest /\ m.fd_inode = seen.fd_inode
          /\ m.inode_dest = seen.inode_dest
          /\ resolve_tgid(m, tgid, t) = p
      BY <1>1, <1>2, <1>6, MarkType, MarkEffect
    <3>2. [seen.tid_to_tgid EXCEPT ![t] = p] = [tracker.tid_to_tgid EXCEPT ![t] = p]
      BY <1>1, <1>6 DEF Resolved, Tracker
    <3> QED BY <1>6, <2>2, <3>1, <3>2 DEF SameKeys, Resolved
  <2> QED BY <2>1, <2>2
<1> HIDE DEF mark
<1>9. /\ Resolved(bound, tracker, t, p)
      /\ bound.stream_fds = mark.stream_fds
      /\ bound.fd_dest = [tracker.fd_dest EXCEPT ![key] = dest]
      /\ IF s = None THEN bound.fd_inode = tracker.fd_inode
         ELSE /\ bound.fd_inode = [tracker.fd_inode EXCEPT ![key] = s]
              /\ dest # None => bound.inode_dest
                                  = [tracker.inode_dest EXCEPT ![s] = dest]
  <2>1. [mark.tid_to_tgid EXCEPT ![t] = p] = [tracker.tid_to_tgid EXCEPT ![t] = p]
    BY <1>1, <1>8 DEF Resolved, Tracker
  <2>2. CASE s = None
    <3>1. /\ Resolved(ins, mark, t, p) /\ ins.stream_fds = mark.stream_fds
          /\ ins.fd_dest = [mark.fd_dest EXCEPT ![key] = dest]
          /\ ins.fd_inode = mark.fd_inode
      BY <1>1, <1>8, InsertDestEffect
    <3> QED BY <1>8, <2>1, <2>2, <3>1 DEF Resolved
  <2>3. CASE s # None
    <3> DEFINE n == bind_inode(ins, tgid, t, fd, s)
    <3>1. /\ Resolved(n, mark, t, p) /\ n.stream_fds = mark.stream_fds
          /\ n.fd_dest = [mark.fd_dest EXCEPT ![key] = dest]
          /\ n.fd_inode = [mark.fd_inode EXCEPT ![key] = s]
          /\ dest # None => n.inode_dest = [mark.inode_dest EXCEPT ![s] = dest]
      <4>1. s \in Socks /\ dest \in Addrs \cup {None} /\ fd \in Fds
        BY <1>2, <2>3
      <4>2. mark \in Tracker /\ tgid \in Proc /\ p = resolve_tgid(mark, tgid, t)
        BY <1>1, <1>8
      <4> HIDE DEF fd, p
      <4> QED BY <4>1, <4>2, BindEffect
    <3> QED BY <1>8, <2>1, <2>3, <3>1 DEF Resolved
  <2> QED BY <2>2, <2>3
<1> HIDE DEF bound
<1>10. CASE /\ Entered(t, st, call[t]) \/ Entered(t, forced, call[t])
            /\ UNCHANGED <<tracker, mem>>
  BY <1>4, <1>10 DEF ConnectPasses
<1>11. CASE /\ Entered(t, st, call[t]) /\ UNCHANGED mem /\ tracker' = seen
  BY <1>4, <1>6, <1>11 DEF ConnectPasses, Resolved, SameKeys
<1>12. CASE /\ Entered(t, st, call[t]) /\ UNCHANGED mem /\ (known \/ probe)
            /\ tracker' = mark
  BY <1>4, <1>8, <1>12 DEF ConnectPasses, Resolved, probe
<1>13. CASE /\ Entered(t, restore, call[t]) /\ (known \/ probe) /\ ~Exempt(dest)
            /\ tracker' = bound
            /\ mem' = [mem EXCEPT ![p][b] = Local]
  BY <1>5, <1>7, <1>8, <1>9, <1>13 DEF ConnectRedirects, probe, dest, s
<1> QED BY <1>3, <1>10, <1>11, <1>12, <1>13

LEMMA EnterTouches ==
    ASSUME TypeInv, ReapInv, NEW t \in Tids, pc[t] \in {"entry", "seccomp"},
           handle_syscall_enter(t)
    PROVE  Touches(t, tgid[t])
<1>1. /\ resolve_tgid(tracker, tgid, t) = tgid[t] /\ tgid[t] \in Tids
      /\ tracker \in Tracker /\ tgid \in Proc
  BY ResolveRight
<1>2. CASE UNCHANGED tracker
  BY <1>2 DEF Touches, Known
<1>3. CASE call[t].op = "socket" /\ handle_socket_enter(t)
  <2>1. call[t].kind \in Kinds \cup {None}
    BY DEF TypeInv, TypeOK, KernelTypeOK, Calls
  <2>2. /\ tracker'.pending_socket
            = [tracker.pending_socket EXCEPT ![t] = call[t].kind]
        /\ tracker'.tid_to_tgid = tracker.tid_to_tgid
        /\ SameKeys(tracker', tracker)
    BY <1>1, <1>3, <2>1, SocketEnterEffect DEF handle_socket_enter
  <2>3. \A u \in Tids : u # t =>
           tracker'.pending_socket[u] = tracker.pending_socket[u]
    BY <1>1, <2>2 DEF Tracker
  <2> QED BY <2>2, <2>3 DEF Touches, SameKeys, Known
<1>4. CASE call[t].op = "close" /\ handle_close_enter(t)
  <2>1. call[t].fd \in Fds
    BY <1>4 DEF TypeInv, TaskOK
  <2>2. Closed(tracker', tracker, t, tgid[t], call[t].fd)
    <3>1. tracker' = close_enter(tracker, tgid, t, call[t].fd)
      BY <1>4 DEF handle_close_enter
    <3> QED BY <1>1, <2>1, <3>1, CloseEnterEffect
  <2>3. \A x \in Tids, f \in Fds : Known(<<x, f>>)' => Known(<<x, f>>)
    BY <1>1, <2>2 DEF Known, Tracker, Closed
  <2>4. /\ tracker'.tid_to_tgid[t] = tgid[t]
        /\ \A u \in Tids : u # t =>
              /\ tracker'.tid_to_tgid[u] = tracker.tid_to_tgid[u]
              /\ tracker'.pending_socket[u] = tracker.pending_socket[u]
    BY <1>1, <2>2 DEF Closed, Resolved, Tracker
  <2> QED BY <2>3, <2>4 DEF Touches
<1>5. CASE call[t].op = "connect" /\ handle_connect_enter(t)
  <2> DEFINE key == <<tgid[t], call[t].fd>>
  <2>0. call[t].fd \in Fds
    BY <1>5 DEF TypeInv, TaskOK
  <2>1. CASE ConnectPasses(t)
    <3>1. \A u \in Tids : u # t =>
             /\ tracker'.tid_to_tgid[u] = tracker.tid_to_tgid[u]
             /\ tracker'.pending_socket[u] = tracker.pending_socket[u]
      BY <1>1, <2>1 DEF ConnectPasses, Tracker
    <3>2. tracker'.tid_to_tgid[t] \in {tracker.tid_to_tgid[t], tgid[t]}
      BY <1>1, <2>1 DEF ConnectPasses, Tracker
    <3>3. /\ tracker'.fd_dest = tracker.fd_dest
          /\ tracker'.fd_inode = tracker.fd_inode
          /\ tracker'.stream_fds \subseteq tracker.stream_fds \cup {key}
      BY <2>1 DEF ConnectPasses
    <3>4. ASSUME NEW x \in Tids, NEW f \in Fds, Known(<<x, f>>)', x # tgid[t]
          PROVE  Known(<<x, f>>)
      BY <3>3, <3>4 DEF Known
    <3> QED BY <3>1, <3>2, <3>4 DEF Touches
  <2>2. CASE ConnectRedirects(t)
    <3>1. /\ Resolved(tracker', tracker, t, tgid[t])
          /\ tracker'.stream_fds \subseteq tracker.stream_fds \cup {key}
          /\ tracker'.fd_dest = [tracker.fd_dest EXCEPT
                                   ![key] = mem[tgid[t]][call[t].buf]]
          /\ \/ tracker'.fd_inode = tracker.fd_inode
             \/ tracker'.fd_inode = [tracker.fd_inode EXCEPT
                                        ![key] = fdt[tgid[t]][call[t].fd]]
      BY <2>2 DEF ConnectRedirects
    <3>2. /\ tracker'.tid_to_tgid[t] = tgid[t]
          /\ \A u \in Tids : u # t =>
                /\ tracker'.tid_to_tgid[u] = tracker.tid_to_tgid[u]
                /\ tracker'.pending_socket[u] = tracker.pending_socket[u]
      BY <1>1, <3>1 DEF Resolved, Tracker
    <3>3. ASSUME NEW x \in Tids, NEW f \in Fds, Known(<<x, f>>)', x # tgid[t]
          PROVE  Known(<<x, f>>)
      <4>1. /\ <<x, f>> \in Tids \X Fds /\ <<x, f>> # key
        BY <3>3
      <4>2. /\ tracker'.fd_dest[<<x, f>>] = tracker.fd_dest[<<x, f>>]
            /\ tracker'.fd_inode[<<x, f>>] = tracker.fd_inode[<<x, f>>]
            /\ <<x, f>> \in tracker'.stream_fds => <<x, f>> \in tracker.stream_fds
        BY <1>1, <3>1, <4>1 DEF Tracker
      <4> QED BY <3>3, <4>2 DEF Known
    <3> QED BY <3>2, <3>3 DEF Touches
  <2>3. CASE return_err(t)
    BY <1>2, <2>3 DEF return_err
  <2> QED BY <1>5, <2>1, <2>2, <2>3, ConnectEffect
<1>6. CASE \/ handle_clone_enter(t) \/ handle_clone3_enter(t)
           \/ handle_other_enter(t)
  BY <1>2, <1>6
  DEF handle_clone_enter, handle_clone3_enter, handle_other_enter, return_err
<1> QED BY <1>3, <1>4, <1>5, <1>6 DEF handle_syscall_enter

LEMMA ExitTouches ==
    ASSUME TypeInv, ReapInv, NEW t \in Tids, pc[t] = "exit",
           handle_syscall_exit(t)
    PROVE  Touches(t, tgid[t])
<1>1. /\ resolve_tgid(tracker, tgid, t) = tgid[t] /\ tgid[t] \in Tids
      /\ tracker \in Tracker /\ tgid \in Proc
  BY ResolveRight
<1>2. CASE UNCHANGED tracker
  BY <1>2 DEF Touches, Known
<1>3. CASE call[t].op = "socket"
  <2> DEFINE fd == IF call[t].ret = "ok" THEN call[t].fd ELSE None
  <2>1. fd \in Fds \cup {None}
    BY DEF TypeInv, TypeOK, KernelTypeOK, Calls
  <2>2. tracker' = socket_exit(tracker, tgid, t, fd)
    BY <1>3 DEF handle_syscall_exit
  <2> HIDE DEF fd
  <2>3. /\ tracker'.pending_socket = [tracker.pending_socket EXCEPT ![t] = None]
        /\ tracker'.fd_dest = tracker.fd_dest
        /\ tracker'.fd_inode = tracker.fd_inode
        /\ tracker'.stream_fds \subseteq tracker.stream_fds \cup {<<tgid[t], fd>>}
        /\ \/ tracker'.tid_to_tgid = tracker.tid_to_tgid
           \/ tracker'.tid_to_tgid = [tracker.tid_to_tgid EXCEPT ![t] = tgid[t]]
    BY <1>1, <2>1, <2>2, SocketExitEffect
  <2>4. /\ tracker'.tid_to_tgid[t] \in {tracker.tid_to_tgid[t], tgid[t]}
        /\ \A u \in Tids : u # t =>
              /\ tracker'.tid_to_tgid[u] = tracker.tid_to_tgid[u]
              /\ tracker'.pending_socket[u] = tracker.pending_socket[u]
    BY <1>1, <2>3 DEF Tracker
  <2>5. ASSUME NEW x \in Tids, NEW f \in Fds, Known(<<x, f>>)', x # tgid[t]
        PROVE  Known(<<x, f>>)
    BY <2>3, <2>5 DEF Known
  <2> QED BY <2>4, <2>5 DEF Touches
<1> QED BY <1>2, <1>3 DEF handle_syscall_exit

(* A handler keeps the invariant: it stores under a group that exists.     *)
LEMMA ReapHandled ==
    ASSUME TypeInv, ReapInv, NEW t \in Tids, pc[t] # "none", pc'[t] # "none",
           UNCHANGED tgid, Touches(t, tgid[t]),
           \A u \in Tids : u # t => /\ pc'[u] = pc[u]
                                    /\ thread_states'[u] = thread_states[u]
    PROVE  ReapInv'
<1>1. tgid[t] \in Tids /\ tgid[t] # None /\ tgid[tgid[t]] = tgid[t]
  BY ResolveRight DEF ReapInv, GroupOK
<1>2. GroupOK'
  BY DEF ReapInv, GroupOK
<1>3. \A u \in Tids : tracker'.tid_to_tgid[u] \in {None, tgid'[u]}
  BY DEF ReapInv, Touches
<1>4. \A p \in Tids, f \in Fds : Known(<<p, f>>)' => tgid'[p] = p
  BY <1>1 DEF ReapInv, Touches
<1>5. \A u \in Tids : pc'[u] = "none" => /\ tracker'.pending_socket[u] = None
                                        /\ thread_states'[u] = DefaultState
  BY DEF ReapInv, Touches
<1> QED BY <1>2, <1>3, <1>4, <1>5 DEF ReapInv

(* A step that leaves the tracker, the groups and the places in use alone. *)
LEMMA ReapFrame ==
    ASSUME ReapInv, UNCHANGED <<tgid, tracker, thread_states>>,
           \A u \in Tids : pc'[u] = "none" => pc[u] = "none"
    PROVE  ReapInv'
BY DEF ReapInv, GroupOK, Known

LEMMA ProgramReap ==
    ASSUME TypeInv, ReapInv, NEW t \in Tids, ProgramStep(t)
    PROVE  ReapInv'
<1>1. UNCHANGED <<tgid, tracker, thread_states>>
  BY DEF ProgramStep, Program, StoreSockaddr, CallSocket, CallConnect,
         CallClose, CallClone, CallOther, Exit, Trap, tracerVars
<1>2. UNCHANGED pc \/ (\E at \in PCs \ {"none"} : pc' = [pc EXCEPT ![t] = at])
  <2>1. ASSUME NEW c, Trap(t, c)
        PROVE  \E at \in PCs \ {"none"} : pc' = [pc EXCEPT ![t] = at]
    BY <2>1 DEF Trap, AfterEntry, PCs
  <2>2. CASE Exit(t)
    BY <2>2 DEF Exit, PCs
  <2>3. CASE \E b \in Bufs, a \in Dests : StoreSockaddr(t, b, a)
    BY <2>3 DEF StoreSockaddr
  <2>4. CASE \E c : Trap(t, c)
    BY <2>1, <2>4
  <2>5. \/ Exit(t) \/ (\E b \in Bufs, a \in Dests : StoreSockaddr(t, b, a))
        \/ \E c : Trap(t, c)
    BY DEF ProgramStep, Program, CallSocket, CallConnect, CallClose, CallClone,
           CallOther
  <2> QED BY <2>2, <2>3, <2>4, <2>5
<1>3. \A u \in Tids : pc'[u] = "none" => pc[u] = "none"
  BY <1>2 DEF TypeInv, TypeOK, KernelTypeOK
<1> QED BY <1>1, <1>3, ReapFrame

LEMMA KernelReap ==
    ASSUME TypeInv, PhaseInv, ReapInv, NEW t \in Tids, KernelStep(t)
    PROVE  ReapInv'
<1>0. UNCHANGED <<tracker, thread_states>>
  BY DEF KernelStep, tracerVars
<1>1. ASSUME NEW c, Finish(t, c), UNCHANGED tgid
      PROVE  ReapInv'
  <2>1. \A u \in Tids : pc'[u] = "none" => pc[u] = "none"
    BY <1>1 DEF Finish, AtExit, TypeInv, TypeOK, KernelTypeOK
  <2> QED BY <1>0, <1>1, <2>1, ReapFrame
<1>2. CASE DoSocket(t) \/ DoConnect(t) \/ DoClose(t)
  BY <1>1, <1>2 DEF DoSocket, DoConnect, DoClose
<1>3. CASE DoClone(t)
  <2>1. /\ pc[t] = "kernel" /\ tgid[t] \in Tids /\ ~call[t].untraced
        /\ None \notin Tids
    BY <1>3, TrackerAssumption
    DEF DoClone, TypeInv, TypeOK, KernelTypeOK, TaskOK, PhaseInv, TracedOK
  <2>2. ASSUME NEW c \in Tids, pc[c] = "none", NEW q \in Tids,
               q = tgid[t] \/ q = c, tgid' = [tgid EXCEPT ![c] = q],
               pc' = [pc EXCEPT ![c] = "newborn", ![t] = "event"]
        PROVE  ReapInv'
    <3>1. /\ tgid[c] = None /\ c # t /\ tgid'[c] = q
          /\ \A u \in Tids : u # c => tgid'[u] = tgid[u]
          /\ \A u \in Tids : pc'[u] = "none" => pc[u] = "none" /\ u # c
      BY <2>1, <2>2 DEF TypeInv, TypeOK, KernelTypeOK, TaskOK
    <3>2. tgid[tgid[t]] = tgid[t] /\ \A u \in Tids : tgid[u] # c
      BY <2>1, <2>2, <3>1 DEF ReapInv, GroupOK
    <3>3. GroupOK'
      BY <2>1, <2>2, <3>1, <3>2 DEF ReapInv, GroupOK
    <3>4. \A u \in Tids : tracker'.tid_to_tgid[u] \in {None, tgid'[u]}
      BY <1>0, <2>1, <3>1 DEF ReapInv
    <3>5. \A p \in Tids, f \in Fds : Known(<<p, f>>)' => tgid'[p] = p
      BY <1>0, <2>1, <3>1 DEF ReapInv, Known
    <3>6. \A u \in Tids : pc'[u] = "none" => /\ tracker'.pending_socket[u] = None
                                            /\ thread_states'[u] = DefaultState
      BY <1>0, <3>1 DEF ReapInv
    <3> QED BY <3>3, <3>4, <3>5, <3>6 DEF ReapInv
  <2>3. CASE Finish(t, [call[t] EXCEPT !.ret = "error"]) /\ UNCHANGED tgid
    BY <1>1, <2>3
  <2> QED BY <1>3, <2>1, <2>2, <2>3 DEF DoClone
<1> QED BY <1>2, <1>3 DEF KernelStep, Execute

LEMMA TracerReap ==
    ASSUME TypeInv, PhaseInv, ReapInv, NEW t \in Tids, TracerStep(t)
    PROVE  ReapInv'
<1>1. ASSUME NEW st, NEW c, resume_tracee(t, st, c), pc[t] # "none",
             Touches(t, tgid[t])
      PROVE  ReapInv'
  <2>1. /\ UNCHANGED tgid /\ pc'[t] = ResumeAt(pc[t], c, resume_request(st))
        /\ \A u \in Tids : u # t => /\ pc'[u] = pc[u]
                                    /\ thread_states'[u] = thread_states[u]
    BY <1>1 DEF resume_tracee, TypeInv, TypeOK, KernelTypeOK, TracerTypeOK
  <2>2. pc'[t] # "none"
    BY <2>1 DEF ResumeAt, AtExit, AfterEntry
  <2> QED BY <1>1, <2>1, <2>2, ReapHandled
<1>2. ASSUME pc[t] \in {"entry", "seccomp"}, handle_syscall_enter(t)
      PROVE  ReapInv'
  <2>1. CASE return_err(t)
    BY <2>1, ReapFrame DEF return_err, kernelVars
  <2>2. CASE \E st, c : resume_tracee(t, st, c)
    BY <1>1, <1>2, <2>2, EnterTouches
  <2> QED BY <1>2, <2>1, <2>2, EnterShape
<1>3. CASE OnSeccompEvent(t)
  BY <1>2, <1>3 DEF OnSeccompEvent
<1>4. CASE OnSyscallStop(t)
  <2>1. PhaseOK(t)
    BY DEF PhaseInv
  <2>2. CASE pc[t] = "entry"
    BY <1>2, <1>4, <2>1, <2>2 DEF OnSyscallStop, PhaseOK
  <2>3. CASE pc[t] = "exit"
    <3>1. handle_syscall_exit(t)
      BY <1>4, <2>1, <2>3 DEF OnSyscallStop, PhaseOK
    <3>2. \E st, c : resume_tracee(t, st, c)
      BY <3>1 DEF handle_syscall_exit
    <3> QED BY <1>1, <2>3, <3>1, <3>2, ExitTouches
  <2> QED BY <1>4, <2>2, <2>3 DEF OnSyscallStop
<1>5. CASE OnCloneEvent(t) \/ OnNewborn(t)
  <2>1. UNCHANGED tracker /\ pc[t] # "none"
    BY <1>5 DEF OnCloneEvent, OnNewborn
  <2>2. Touches(t, tgid[t])
    BY <2>1 DEF Touches, Known
  <2> QED BY <1>1, <1>5, <2>1, <2>2 DEF OnCloneEvent, OnNewborn
<1>6. CASE OnExited(t)
  <2> DEFINE proc == [tgid EXCEPT ![t] = None]
             g    == resolve_tgid(tracker, proc, t)
  <2>1. /\ pc[t] = "zombie" /\ tgid' = proc
        /\ tracker' = cleanup_process(tracker, proc, t)
        /\ t = tgid[t] => Siblings(t) = {}
    BY <1>6 DEF OnExited
  <2>2. /\ tracker \in Tracker /\ proc \in Proc /\ None \notin Tids
        /\ tgid \in [Tids -> Tids \cup {None}] /\ tgid[t] \in Tids
    BY <2>1, TrackerAssumption
    DEF TypeInv, TypeOK, KernelTypeOK, TracerTypeOK, TaskOK, Proc
  <2>3. /\ tgid'[t] = None /\ \A u \in Tids : u # t => tgid'[u] = tgid[u]
        /\ thread_states'[t] = DefaultState
        /\ \A u \in Tids : u # t => /\ pc'[u] = pc[u]
                                    /\ thread_states'[u] = thread_states[u]
    BY <1>6, <2>1, <2>2 DEF OnExited, TypeInv, TypeOK, KernelTypeOK, TracerTypeOK
  <2>4. \A u \in Tids : u # t => tgid[u] # t
    <3>1. CASE t = tgid[t]
      BY <2>1, <3>1 DEF Siblings
    <3>2. CASE t # tgid[t]
      BY <2>2, <3>2 DEF ReapInv, GroupOK
    <3> QED BY <3>1, <3>2
  <2>5. g = t \/ g = tgid[t]
    BY <2>2 DEF ReapInv, resolve_tgid, read_tgid_from_proc_status
  <2> HIDE DEF proc
  <2>6. Cleaned(tracker', tracker, proc, t, g)
    BY <2>1, <2>2, CleanupEffect
  <2> HIDE DEF g
  <2>6a. /\ tracker'.pending_socket = [tracker.pending_socket EXCEPT ![t] = None]
        /\ \A u \in Tids : tracker'.tid_to_tgid[u] \in {None, tracker.tid_to_tgid[u]}
        /\ tracker'.tid_to_tgid[t] = None
    BY <2>2, <2>6 DEF Cleaned, TaskForgotten, GroupForgotten, Tracker
  <2>7. /\ \A p \in Tids, f \in Fds : Known(<<p, f>>)' => Known(<<p, f>>)
        /\ t = tgid[t] => \A f \in Fds : ~Known(<<t, f>>)'
    <3>1. CASE TaskForgotten(tracker', tracker, t) /\ t # g
      BY <2>5, <3>1 DEF TaskForgotten, SameKeys, Known
    <3>2. CASE GroupForgotten(tracker', tracker, t, g)
      BY <2>5, <3>2 DEF GroupForgotten, Known
    <3> QED BY <2>6, <3>1, <3>2 DEF Cleaned
  <2>8. GroupOK'
    BY <2>2, <2>3, <2>4 DEF ReapInv, GroupOK
  <2>9. \A u \in Tids : tracker'.tid_to_tgid[u] \in {None, tgid'[u]}
    BY <2>3, <2>6a DEF ReapInv
  <2>10. \A p \in Tids, f \in Fds : Known(<<p, f>>)' => tgid'[p] = p
    BY <2>3, <2>7 DEF ReapInv
  <2>11. \A u \in Tids : pc'[u] = "none" => /\ tracker'.pending_socket[u] = None
                                           /\ thread_states'[u] = DefaultState
    BY <2>2, <2>3, <2>6a DEF ReapInv, Tracker
  <2> QED BY <2>8, <2>9, <2>10, <2>11 DEF ReapInv
<1> QED BY <1>3, <1>4, <1>5, <1>6 DEF TracerStep, Tracer

LEMMA ReapInvariant == Spec => [](TypeInv /\ PhaseInv /\ ReapInv)
<1>1. Init => ReapInv
  <2> SUFFICES ASSUME Init PROVE ReapInv
    OBVIOUS
  <2>1. /\ tgid = [t \in Tids |-> IF t = Main THEN Main ELSE None]
        /\ tracker = new /\ \A t \in Tids : thread_states[t] = DefaultState
    BY DEF Init, KernelInit, TracerInit
  <2>2. /\ tracker.stream_fds = {} /\ \A t \in Tids : tracker.tid_to_tgid[t] = None
        /\ \A t \in Tids : tracker.pending_socket[t] = None
        /\ \A p \in Tids, f \in Fds : ~Known(<<p, f>>)
    BY <2>1 DEF new, Known
  <2>3. GroupOK
    BY <2>1, KernelAssumption DEF GroupOK
  <2> QED BY <2>1, <2>2, <2>3 DEF ReapInv
<1>2. TypeInv /\ PhaseInv /\ ReapInv /\ [Next]_vars => ReapInv'
  <2> SUFFICES ASSUME TypeInv, PhaseInv, ReapInv, [Next]_vars PROVE ReapInv'
    OBVIOUS
  <2>1. CASE UNCHANGED <<kernelVars, tracerVars>>
    BY <2>1, ReapFrame DEF kernelVars, tracerVars
  <2>2. CASE \E t \in Tids : ProgramStep(t) \/ KernelStep(t) \/ TracerStep(t)
    BY <2>2, ProgramReap, KernelReap, TracerReap
  <2> QED BY <2>1, <2>2 DEF Next, ProxyStep, Terminated, vars
<1> QED BY <1>1, <1>2, PhaseInvariant, PTL DEF Spec

(* A tid that is free carries nothing over to the task that gets it next,  *)
(* whatever the program does and whether or not its thread group was ever  *)
(* resolved: cleanup_process leaves no descriptor, destination, pending    *)
(* call or thread group behind, although it cannot read the /proc entry of *)
(* the task it is called for any more.                                     *)
THEOREM ReapedCompletely == Spec => []NothingSurvivesReap
<1>1. TypeInv /\ ReapInv => NothingSurvivesReap
  <2> SUFFICES ASSUME TypeInv, ReapInv, NEW t \in Tids, pc[t] = "none"
               PROVE  /\ thread_states[t] = DefaultState
                      /\ tracker.pending_socket[t] = None
                      /\ \A u \in Tids : tracker.tid_to_tgid[u] # t
                      /\ tracker.tid_to_tgid[t] = None
                      /\ \A f \in Fds : ~Known(<<t, f>>)
    BY DEF NothingSurvivesReap, Known
  <2>1. tgid[t] = None /\ None \notin Tids
    BY TrackerAssumption DEF TypeInv, TaskOK
  <2> QED BY <2>1 DEF ReapInv, GroupOK
<1> QED BY <1>1, ReapInvariant, PTL
=============================================================================
