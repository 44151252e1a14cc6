--------------------------- MODULE SeccompFilter ---------------------------
(***************************************************************************)
(* The seccomp-bpf program of src/src/tracer/seccomp.rs and the machine    *)
(* that runs it: which system calls does it hand to the tracer?  `data' is *)
(* the struct seccomp_data of one call as the 32-bit words the program may *)
(* load, by their offsets: nr at 0, arch at 4, the instruction pointer at  *)
(* 8, and from 16 on the low and the high word of each argument.  A flag   *)
(* word is a number and BPF_JSET tests a single bit of it.                 *)
(***************************************************************************)
EXTENDS Integers

CONSTANT Inputs  \* the calls, as functions from Offsets to words

Offsets == {4 * i : i \in 0 .. 15}

(* Any words at all: a clone3 pointer fills both halves of its argument,   *)
(* and nothing clears the upper half of an int one.                        *)
ASSUME InputsAssumption == Inputs \subseteq [Offsets -> Nat]

CLOSE == 3
SOCKET == 41
CONNECT == 42
CLONE == 56
CLONE3 == 435
INET == 2
INET6 == 10
STREAM == 1
CLONE_UNTRACED == 8388608

bpf_stmt(code, k) == [code |-> code, k |-> k, jt |-> 0, jf |-> 0]
bpf_jump_swapped(code, k, jt, jf) ==  \* faulty variant
    [code |-> code, k |-> k, jt |-> jf, jf |-> jt]
bpf_jump_too_far(code, k, jt, jf) ==  \* faulty variant: counted from ip
    [code |-> code, k |-> k, jt |-> jt + 1, jf |-> jf + 1]
bpf_jump(code, k, jt, jf) == [code |-> code, k |-> k, jt |-> jt, jf |-> jf]
SECCOMP_RET_TRACE == bpf_stmt("trace", 0)
SECCOMP_RET_ALLOW == bpf_stmt("allow", 0)

filter ==
    << bpf_stmt("ld", 0),                       \*  0: nr
       bpf_jump("jeq", CLOSE, 12, 0),           \*  1
       bpf_jump("jeq", CONNECT, 11, 0),         \*  2
       bpf_jump("jeq", CLONE3, 10, 0),          \*  3
       bpf_jump("jeq", CLONE, 2, 0),            \*  4
       bpf_jump("jeq", SOCKET, 3, 0),           \*  5
       SECCOMP_RET_ALLOW,                       \*  6
       bpf_stmt("ld", 16),                      \*  7: clone flags
       bpf_jump("jset", CLONE_UNTRACED, 5, 6),  \*  8
       bpf_stmt("ld", 16),                      \*  9: socket domain
       bpf_jump("jeq", INET, 1, 0),             \* 10
       bpf_jump("jeq", INET6, 0, 3),            \* 11
       bpf_stmt("ld", 20),                      \* 12: labelled args[1]
       bpf_jump("jset", STREAM, 0, 1),          \* 13
       SECCOMP_RET_TRACE,                       \* 14
       SECCOMP_RET_ALLOW >>                     \* 15

VARIABLES
    data,    \* the call being judged
    ip,      \* the next instruction, numbered from 0
    acc,     \* the accumulator
    verdict  \* "none" until a return instruction is reached

vars == <<data, ip, acc, verdict>>

TypeOK ==
    /\ data \in Inputs
    /\ ip \in 0 .. 15
    /\ acc \in Nat
    /\ verdict \in {"none", "trace", "allow"}

Init ==
    /\ data \in Inputs
    /\ ip = 0
    /\ acc = 0
    /\ verdict = "none"

Instr == filter[ip + 1]

Holds(i) ==
    \/ i.code = "jeq" /\ acc = i.k
    \/ i.code = "jset" /\ (acc \div i.k) % 2 = 1

Load ==
    /\ verdict = "none" /\ Instr.code = "ld"
    /\ acc' = data[Instr.k]
    /\ ip' = ip + 1
    /\ UNCHANGED <<data, verdict>>

Jump ==
    /\ verdict = "none" /\ Instr.code \in {"jeq", "jset"}
    /\ ip' = ip + 1 + (IF Holds(Instr) THEN Instr.jt ELSE Instr.jf)
    /\ UNCHANGED <<data, acc, verdict>>

Return ==
    /\ verdict = "none" /\ Instr.code \in {"trace", "allow"}
    /\ verdict' = Instr.code
    /\ UNCHANGED <<data, ip, acc>>

Halted == verdict # "none" /\ UNCHANGED vars

Next == Load \/ Jump \/ Return \/ Halted

Spec == Init /\ [][Next]_vars
-----------------------------------------------------------------------------
HasBit(w, bit) == (w \div bit) % 2 = 1

(* The list above install_filter's program: close, connect, every clone3,  *)
(* a clone with CLONE_UNTRACED, and socket(AF_INET/AF_INET6, SOCK_STREAM). *)
(* The type is args[1], at 24; its flags SOCK_NONBLOCK and SOCK_CLOEXEC    *)
(* are above its low four bits.                                            *)
Documented(d) ==
    \/ d[0] \in {CLOSE, CONNECT, CLONE3}
    \/ d[0] = CLONE /\ HasBit(d[16], CLONE_UNTRACED)
    \/ d[0] = SOCKET /\ d[16] \in {INET, INET6} /\ d[24] % 16 = STREAM

(* For every call but socket(), the sixteen instructions of install_filter *)
(* hand to the tracer exactly what the list says, whatever path of jumps   *)
(* the call takes through them.                                            *)
FilterSeesExactly ==
    verdict # "none" /\ data[0] # SOCKET =>
        (verdict = "trace" <=> Documented(data))

(* The same of every call, as the list says it.  The program does not do   *)
(* this: instruction 12 loads the upper half of args[0], not args[1].      *)
FilterAsDocumented ==
    verdict # "none" => (verdict = "trace" <=> Documented(data))

(* What it does instead (and what Kernel's Filtered says): a socket() call *)
(* whose first argument is a clean int, its upper half 0, is never traced. *)
SocketsPass ==
    verdict = "trace" /\ data[0] = SOCKET => data[20] # 0
=============================================================================
