-------------------------- MODULE MCSeccompFilter --------------------------
(***************************************************************************)
(* Calls for SeccompFilter: each system call the filter names and read(),  *)
(* with socket families, clone flags and socket types, flags set and not,  *)
(* and the upper half of the first argument clear, odd and as a pointer's. *)
(***************************************************************************)
EXTENDS SeccompFilter

CallData(nr, arg0, high0, arg1) ==
    [o \in Offsets |-> CASE o = 0 -> nr [] o = 16 -> arg0 [] o = 20 -> high0
                         [] o = 24 -> arg1 [] OTHER -> 0]

MCInputs ==
    {CallData(nr, a, h, b) :
        nr \in {0, CLOSE, SOCKET, CONNECT, CLONE, CLONE3},
        a \in {0, 1, INET, INET6, CLONE_UNTRACED, CLONE_UNTRACED + 17,
               2 * CLONE_UNTRACED},
        h \in {0, 1, 32766},
        b \in {1, 2, 3, 2049}}
=============================================================================
