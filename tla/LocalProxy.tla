----------------------------- MODULE LocalProxy -----------------------------
(***************************************************************************)
(* The local proxy's tasks (run and handle_client of                       *)
(* src/src/proxy/local.rs): one per accepted connection, on the runtime's  *)
(* own threads, so that its reads of /proc and of the tracker interleave   *)
(* with the tracer and with the program.  A connection is named by the     *)
(* program's socket.  A task looks its destination up at most Attempts     *)
(* times: it reads the socket's inode from /proc/net/tcp, takes the lock   *)
(* and asks the tracker for it, by inode and else by a process that holds  *)
(* it.  The upstream handshake and the relay are not part of this module.  *)
(***************************************************************************)
EXTENDS SyscallTracer

CONSTANT Attempts
ASSUME AttemptsAssumption == Attempts \in Nat \ {0}

VARIABLES
    client,    \* per socket, the task that serves it
    listening  \* does the listener exist?

proxyVars == <<client, listening>>

Clients ==
    [at : {"none", "find", "match", "proxying", "dropped"},
     attempt : 0 .. Attempts - 1,
     inode : Socks \cup {None},
     dest : Addrs \cup {None}]

NoClient == [at |-> "none", attempt |-> 0, inode |-> None, dest |-> None]

ProxyTypeOK == client \in [Socks -> Clients] /\ listening \in BOOLEAN

ProxyInit == client = [s \in Socks |-> NoClient] /\ listening = TRUE

(* listener.accept(): a connection the program made to Local.  The backlog *)
(* is a queue, but no step looks at two connections, so any order will do. *)
Waiting(s) == peer[s] = Local /\ client[s].at = "none"

Accept(s) ==
    /\ ~aborted /\ listening /\ Waiting(s)
    /\ client' = [client EXCEPT ![s].at = "find"]

(* accept().await? ends run() and with it the listener: the connections    *)
(* nobody accepted are reset, the tasks that were spawned go on.           *)
AcceptFails(s) ==
    /\ ~aborted /\ listening /\ Waiting(s) /\ "acceptFails" \in Allow
    /\ listening' = FALSE
    /\ client' = [z \in Socks |-> IF Waiting(z)
                                  THEN [client[z] EXCEPT !.at = "dropped"]
                                  ELSE client[z]]

(* /proc/net/tcp shows inode 0 for a socket that no process holds.         *)
find_inode_by_conn(s) == IF Holders(s) = {} THEN None ELSE s

FindInode(s) ==
    /\ ~aborted /\ client[s].at = "find"
    /\ client' = [client EXCEPT ![s].at = "match",
                                ![s].inode = find_inode_by_conn(s)]

(* The (pid, fd) pairs whose /proc entry is this inode; the first one in   *)
(* directory order is taken.                                               *)
pid_fds_by_inode(s) == {k \in Tids \X Fds : fdt[k[1]][k[2]] = s}

Found(tr, s) ==
    IF client[s].inode = None THEN {None}
    ELSE LET i == client[s].inode
         IN  IF get_by_inode(tr, i) # None THEN {get_by_inode(tr, i)}
             ELSE IF pid_fds_by_inode(i) = {} THEN {None}
             ELSE {get_by_pid_fd(tr, k[1], k[2]) : k \in pid_fds_by_inode(i)}

(* Faulty variants: one attempt too many; attempts that are not counted.   *)
Match_off_by_one(s) ==
    /\ ~aborted /\ client[s].at = "match"
    /\ \E d \in Found(tracker, s) :
          client' = [client EXCEPT ![s].attempt = @ + 1,
                        ![s].at = IF d # None THEN "proxying" ELSE "find"]
Match_without_count(s) ==
    /\ ~aborted /\ client[s].at = "match"
    /\ \E d \in Found(tracker, s) :
          client' = [client EXCEPT ![s].dest = d,
                        ![s].at = IF d # None THEN "proxying" ELSE "find"]

Match(s) ==
    /\ ~aborted /\ client[s].at = "match"
    /\ \E d \in Found(tracker, s) :
         \/ /\ d # None
            /\ client' = [client EXCEPT ![s].at = "proxying", ![s].dest = d]
         \/ /\ d = None /\ client[s].attempt + 1 < Attempts
            /\ client' = [client EXCEPT ![s].at = "find",
                                        ![s].attempt = @ + 1]
         \/ /\ d = None /\ client[s].attempt + 1 = Attempts
            /\ client' = [client EXCEPT ![s].at = "dropped"]

LocalProxyTask(s) ==
    \/ (Accept(s) \/ FindInode(s) \/ Match(s)) /\ UNCHANGED listening
    \/ AcceptFails(s)
=============================================================================
