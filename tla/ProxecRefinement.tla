-------------------------- MODULE ProxecRefinement --------------------------
(***************************************************************************)
(* The composed system implements TransparentConnect.  The refinement      *)
(* mapping looks only at what the outside sees of an AF_INET or AF_INET6   *)
(* stream: the address the kernel connected it to, the address the program *)
(* asked for, and what the local proxy did with it.                        *)
(***************************************************************************)
EXTENDS Proxec

To(w, d) == [way |-> w, dest |-> d]

Outcome(s) ==
    CASE client[s].at = "proxying" -> To("carried", client[s].dest)
      [] client[s].at = "dropped" -> To("lost", asked[s])
      [] OTHER -> To("pending", asked[s])

ConnectionOf(s) ==
    IF peer[s] = None \/ ~is_stream_inet_socket(kind[s]) THEN [way |-> "none"]
    ELSE IF peer[s] = Local THEN Outcome(s)
    ELSE To("direct", peer[s])

ExemptDests == {d \in Dests : Exempt(d)}

TC == INSTANCE TransparentConnect
        WITH conn <- [s \in Socks |-> ConnectionOf(s)]

(* Whatever the threads of the program, the kernel, the tracer and the     *)
(* local proxy's tasks do and in whatever order, seen from outside each    *)
(* step is one of connect, carry and lose, or nothing at all: in           *)
(* particular a connection is never made to one address and carried to     *)
(* another, taken off the direct way, or revived after it was dropped      *)
(* (handle_connect_enter, SocketTracker and handle_client together).       *)
Implements == TC!Spec
=============================================================================
