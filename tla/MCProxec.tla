------------------------------ MODULE MCProxec ------------------------------
(***************************************************************************)
(* Small instances of Proxec for TLC.                                      *)
(***************************************************************************)
EXTENDS ProxecRefinement, TLC

Stream4 == [domain |-> "inet", type |-> 1]
Datagram4 == [domain |-> "inet", type |-> 2]
Raw4 == [domain |-> "inet", type |-> 3]
Stream6 == [domain |-> "inet6", type |-> 1]
StreamUnix == [domain |-> "unix", type |-> 1]

OneStream == {Stream4}
OneRaw == {Raw4}
StreamAndDatagram == {Stream4, Datagram4}
AllKinds == {Stream4, Datagram4, Stream6, StreamUnix}

Thread3 == [op |-> "clone3", thread |-> TRUE, untraced |-> FALSE]
Fork == [op |-> "clone", thread |-> FALSE, untraced |-> FALSE]
UntracedFork == [op |-> "clone", thread |-> FALSE, untraced |-> TRUE]
UntracedThread3 == [op |-> "clone3", thread |-> TRUE, untraced |-> TRUE]

Threads == {Thread3}
UntracedThreads == {UntracedThread3}
Forks == {UntracedFork}
TracedForks == {Fork}
ThreadsAndForks == {Thread3, Fork}

(* Sockets are always interchangeable.                                     *)
SocketSymmetry == Permutations(Socks)

(* Sockets, buffers and, where no address is special, destinations are     *)
(* interchangeable.                                                        *)
Symmetry == Permutations(Socks) \cup Permutations(Bufs) \cup Permutations(Dests)
=============================================================================
