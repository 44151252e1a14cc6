------------------------- MODULE TransparentConnect -------------------------
(***************************************************************************)
(* What proxec promises to the TCP sockets of the program it runs, without *)
(* tracer, tracker, memory or tasks: a connection to an exempt destination *)
(* is made directly; any other is handed to the proxy, which carries it to *)
(* the destination the program asked for or gives it up.  A connection     *)
(* never changes its way, its destination or its outcome.                  *)
(***************************************************************************)
CONSTANTS
    Socks,       \* the program's TCP sockets
    Dests,       \* the destinations a program can ask for
    ExemptDests  \* the destinations that are reached without the proxy

VARIABLE conn  \* per socket, its connection

NoConn == [way |-> "none"]
To(w, d) == [way |-> w, dest |-> d]

Init == conn = [s \in Socks |-> NoConn]

(* connect() as the kernel sees it.                                        *)
Connect(s, d) ==
    /\ conn[s] = NoConn
    /\ conn' = [conn EXCEPT ![s] = To(IF d \in ExemptDests THEN "direct"
                                      ELSE "pending", d)]

(* The proxy takes the connection on, or drops it.                         *)
Carry(s) ==
    /\ conn[s].way = "pending"
    /\ conn' = [conn EXCEPT ![s] = To("carried", conn[s].dest)]

Lose(s) ==
    /\ conn[s].way = "pending"
    /\ conn' = [conn EXCEPT ![s] = To("lost", conn[s].dest)]

Next == \E s \in Socks : Carry(s) \/ Lose(s) \/ \E d \in Dests : Connect(s, d)

Spec == Init /\ [][Next]_conn
=============================================================================
