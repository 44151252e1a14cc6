------------------------ MODULE SeccompFilterProofs ------------------------
(***************************************************************************)
(* The filter judges every call right, whatever its number and arguments:  *)
(* the theorems hold for every set of Inputs, where TLC tries a sample.    *)
(* The argument is a fact per instruction (At): what is known of the call  *)
(* and of the accumulator when the program counter is there.               *)
(***************************************************************************)
EXTENDS SeccompFilter, TLAPS

(* What holds when the next instruction is number i.                       *)
At(i) ==
    /\ i \in 1 .. 5 => acc = data[0]
    /\ i \in 2 .. 6 => data[0] # CLOSE
    /\ i \in 3 .. 6 => data[0] # CONNECT
    /\ i \in 4 .. 6 => data[0] # CLONE3
    /\ i \in 5 .. 6 => data[0] # CLONE
    /\ i = 6 => data[0] # SOCKET
    /\ i \in {7, 8} => data[0] = CLONE
    /\ i \in 9 .. 13 => data[0] = SOCKET
    /\ i \in {8, 10, 11} => acc = data[16]
    /\ i = 13 => acc = data[20]
    /\ i = 14 => IF data[0] = SOCKET THEN data[20] # 0 ELSE Documented(data)
    /\ i = 15 => data[0] = SOCKET \/ ~Documented(data)

FilterInv ==
    /\ TypeOK
    /\ At(ip)
    /\ verdict = "trace" => ip = 14
    /\ verdict = "allow" => ip \in {6, 15}

(* The instruction at each place, written out.                             *)
LEMMA Instructions ==
    /\ filter[1] = [code |-> "ld", k |-> 0, jt |-> 0, jf |-> 0]
    /\ filter[2] = [code |-> "jeq", k |-> 3, jt |-> 12, jf |-> 0]
    /\ filter[3] = [code |-> "jeq", k |-> 42, jt |-> 11, jf |-> 0]
    /\ filter[4] = [code |-> "jeq", k |-> 435, jt |-> 10, jf |-> 0]
    /\ filter[5] = [code |-> "jeq", k |-> 56, jt |-> 2, jf |-> 0]
    /\ filter[6] = [code |-> "jeq", k |-> 41, jt |-> 3, jf |-> 0]
    /\ filter[7] = [code |-> "allow", k |-> 0, jt |-> 0, jf |-> 0]
    /\ filter[8] = [code |-> "ld", k |-> 16, jt |-> 0, jf |-> 0]
    /\ filter[9] = [code |-> "jset", k |-> 8388608, jt |-> 5, jf |-> 6]
    /\ filter[10] = [code |-> "ld", k |-> 16, jt |-> 0, jf |-> 0]
    /\ filter[11] = [code |-> "jeq", k |-> 2, jt |-> 1, jf |-> 0]
    /\ filter[12] = [code |-> "jeq", k |-> 10, jt |-> 0, jf |-> 3]
    /\ filter[13] = [code |-> "ld", k |-> 20, jt |-> 0, jf |-> 0]
    /\ filter[14] = [code |-> "jset", k |-> 1, jt |-> 0, jf |-> 1]
    /\ filter[15] = [code |-> "trace", k |-> 0, jt |-> 0, jf |-> 0]
    /\ filter[16] = [code |-> "allow", k |-> 0, jt |-> 0, jf |-> 0]
BY DEF filter, bpf_stmt, bpf_jump, SECCOMP_RET_ALLOW, SECCOMP_RET_TRACE,
       CLOSE, CONNECT, CLONE3, CLONE, SOCKET, INET, INET6, STREAM,
       CLONE_UNTRACED

(* The words the program loads are naturals.                               *)
LEMMA Words ==
    ASSUME NEW d \in Inputs
    PROVE  d[0] \in Nat /\ d[16] \in Nat /\ d[20] \in Nat
<1>1. d \in [Offsets -> Nat]
  BY InputsAssumption
<1>2. 0 \in Offsets /\ 16 \in Offsets /\ 20 \in Offsets
  <2>1. /\ 0 = 4 * 0 /\ 16 = 4 * 4 /\ 20 = 4 * 5
        /\ 0 \in 0 .. 15 /\ 4 \in 0 .. 15 /\ 5 \in 0 .. 15
    OBVIOUS
  <2> QED BY <2>1 DEF Offsets
<1> QED BY <1>1, <1>2

LEMMA FilterStep ==
    ASSUME FilterInv, [Next]_vars
    PROVE  FilterInv'
<1> USE DEF FilterInv, TypeOK
<1>0. ip \in 0 .. 15 /\ data \in Inputs /\ acc \in Nat
  OBVIOUS
<1>1. data[0] \in Nat /\ data[16] \in Nat /\ data[20] \in Nat
  BY Words
<1>2. CASE Load
  <2>1. ip \in {0, 7, 9, 12}
    BY <1>0, <1>2, Instructions DEF Load, Instr
  <2>2. ip = 0 => acc' = data[0] /\ ip' = 1
    BY <1>2, Instructions DEF Load, Instr
  <2>3. ip \in {7, 9} => acc' = data[16] /\ ip' = ip + 1
    BY <1>2, Instructions DEF Load, Instr
  <2>4. ip = 12 => acc' = data[20] /\ ip' = 13
    BY <1>1, <1>2, Instructions DEF Load, Instr
  <2>5. data' = data /\ verdict' = verdict /\ verdict = "none"
    BY <1>2 DEF Load
  <2>6. acc' \in Nat /\ ip' \in 0 .. 15
    BY <1>1, <2>1, <2>2, <2>3, <2>4
  <2>7. At(ip)'
    BY <2>1, <2>2, <2>3, <2>4, <2>5 DEF At
  <2> QED BY <1>0, <2>5, <2>6, <2>7
<1>3. CASE Jump
  <2>1. ip \in {1, 2, 3, 4, 5, 8, 10, 11, 13}
    BY <1>0, <1>3, Instructions DEF Jump, Instr
  <2>2. data' = data /\ acc' = acc /\ verdict' = verdict /\ verdict = "none"
    BY <1>3 DEF Jump
  <2>3. ip \in {1, 2, 3} =>
           \/ ip' = 14 /\ data[0] \in {CLOSE, CONNECT, CLONE3}
           \/ /\ ip' = ip + 1
              /\ ip = 1 => data[0] # CLOSE
              /\ ip = 2 => data[0] # CONNECT
              /\ ip = 3 => data[0] # CLONE3
    BY <1>3, Instructions DEF Jump, Instr, Holds, At, CLOSE, CONNECT, CLONE3
  <2>4. ip = 4 => \/ ip' = 7 /\ data[0] = CLONE
                  \/ ip' = 5 /\ data[0] # CLONE
    BY <1>3, Instructions DEF Jump, Instr, Holds, At, CLONE
  <2>5. ip = 5 => \/ ip' = 9 /\ data[0] = SOCKET
                  \/ ip' = 6 /\ data[0] # SOCKET
    BY <1>3, Instructions DEF Jump, Instr, Holds, At, SOCKET
  <2>6. ip = 8 => \/ ip' = 14 /\ HasBit(data[16], CLONE_UNTRACED)
                  \/ ip' = 15 /\ ~HasBit(data[16], CLONE_UNTRACED)
    BY <1>3, Instructions DEF Jump, Instr, Holds, At, HasBit, CLONE_UNTRACED
  <2>7. ip = 10 => ip' \in {11, 12}
    BY <1>3, Instructions DEF Jump, Instr, Holds
  <2>8. ip = 11 => ip' \in {12, 15}
    BY <1>3, Instructions DEF Jump, Instr, Holds
  <2>9. ip = 13 => \/ ip' = 14 /\ data[20] # 0
                   \/ ip' = 15
    BY <1>3, Instructions DEF Jump, Instr, Holds, At
  <2>10. ip' \in 0 .. 15
    BY <2>1, <2>3, <2>4, <2>5, <2>6, <2>7, <2>8, <2>9
  <2>11. At(ip)'
    <3>1. CASE ip \in {1, 2, 3}
      BY <2>2, <2>3, <3>1 DEF At, Documented, SOCKET, CLOSE, CONNECT, CLONE3
    <3>2. CASE ip \in {4, 5}
      BY <2>2, <2>4, <2>5, <3>2 DEF At
    <3>3. CASE ip = 8
      BY <2>2, <2>6, <3>3 DEF At, Documented, SOCKET, CLONE, CLOSE, CONNECT,
                             CLONE3
    <3>4. CASE ip \in {10, 11, 13}
      BY <2>2, <2>7, <2>8, <2>9, <3>4
      DEF At, Documented, SOCKET, CLONE, CLOSE, CONNECT, CLONE3
    <3> QED BY <2>1, <3>1, <3>2, <3>3, <3>4
  <2> QED BY <1>0, <2>2, <2>10, <2>11
<1>4. CASE Return
  <2>1. ip \in {6, 14, 15}
    BY <1>0, <1>4, Instructions DEF Return, Instr
  <2>2. verdict' = IF ip = 14 THEN "trace" ELSE "allow"
    BY <1>4, <2>1, Instructions DEF Return, Instr
  <2> QED BY <1>4, <2>1, <2>2 DEF Return, At
<1>5. CASE Halted \/ UNCHANGED vars
  BY <1>5 DEF Halted, vars, At
<1> QED BY <1>2, <1>3, <1>4, <1>5 DEF Next

LEMMA FilterInvariant == Spec => []FilterInv
<1>1. Init => FilterInv
  BY DEF Init, FilterInv, TypeOK, At
<1>2. FilterInv /\ [Next]_vars => FilterInv'
  BY FilterStep
<1> QED BY <1>1, <1>2, PTL DEF Spec

(* The program never leaves its sixteen instructions and every load is of  *)
(* a word of struct seccomp_data (the jump distances of install_filter).   *)
THEOREM FilterTypeOK == Spec => []TypeOK
<1>1. FilterInv => TypeOK
  BY DEF FilterInv
<1> QED BY <1>1, FilterInvariant, PTL

(* For every system call but socket(), and every value of its arguments,   *)
(* the program of install_filter returns SECCOMP_RET_TRACE exactly for     *)
(* the calls its own list names.                                           *)
THEOREM FilterExact == Spec => []FilterSeesExactly
<1>1. FilterInv => FilterSeesExactly
  BY DEF FilterInv, TypeOK, FilterSeesExactly, At, Documented, SOCKET, CLOSE,
         CONNECT, CLONE3, CLONE
<1> QED BY <1>1, FilterInvariant, PTL

(* socket() with a clean int argument is never traced, of whatever family  *)
(* and type: install_filter's program tests the upper half of args[0].     *)
THEOREM SocketIsNotTraced == Spec => []SocketsPass
<1>1. FilterInv => SocketsPass
  BY DEF FilterInv, TypeOK, SocketsPass, At
<1> QED BY <1>1, FilterInvariant, PTL
=============================================================================
