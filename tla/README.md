# Proxec in TLA+

Proxec runs a program under `ptrace` and makes its TCP connections go through an HTTP or SOCKS5
proxy without the program noticing: it rewrites the address in the program's memory when it calls
`connect()`, remembers where the program wanted to go, and lets a proxy on the loopback interface
take the connection there. This directory models the parts of it that run against each other,
checks them with TLC, and proves the main results with TLAPS.

## 1. Inventory of the system

| Part | Source | State | Operations |
|---|---|---|---|
| start-up | `main.rs`, `tracer/ptrace.rs` | how far it has come, the configuration | parse, bind the local proxy, `fork_exec`, spawn the accept loop, run the tracer thread |
| seccomp filter | `tracer/seccomp.rs` | the BPF program | `install_filter`: decide per system call between *allow* and *trace* |
| trace loop | `tracer/trace_loop.rs` | `active_pids`, exit code, shutdown flag and deadline | `run`, waiting, EINTR and EINVAL recovery, pruning, terminating the tracees |
| syscall handlers | `tracer/trace_loop.rs`, `arch_x86_64.rs` | per task: phase, pending sockaddr restore, forced errno | `handle_*_enter`, `handle_syscall_exit`, `resume_tracee`, clone events, cleanup |
| tracee memory | `tracer/memory.rs` | the program's memory | `read_sockaddr`, `write_sockaddr` |
| socket tracker | `socket/tracker.rs` | `pending_socket`, `stream_fds`, `fd_dest`, `fd_inode`, `inode_dest`, `tid_to_tgid` | `socket_enter/exit`, `close_enter`, `insert_dest`, `bind_inode`, lookups, `cleanup_process` |
| local proxy | `proxy/local.rs` | one task per connection | accept, inode lookup in `/proc/net/tcp`, destination lookup with bounded retry |
| handshakes and relay | `proxy/http.rs`, `proxy/socks5.rs`, `proxy/local.rs` | stage, byte streams, copy buffers | CONNECT, SOCKS5 negotiation and authentication, two copies under `select!` |
| no-proxy rules | `no_proxy.rs` | rule list | `parse`, `should_bypass`, the CIDR masks |
| configuration | `cli.rs`, `proxy/config.rs`, `env.rs`, `error.rs` | options, environment, exit code | `ProxyConfig::parse`, `clear_proxy_env`, exit codes |

**How they interact.** Four kinds of actor run concurrently: the tasks (threads) of the traced
program, the kernel on their behalf, the one tracer thread, and the tasks of the tokio runtime.
The tracer and the program meet in `ptrace` stops, in the program's memory and in `/proc`; the
tracer and the proxy tasks meet in the tracker, behind one mutex; the proxy tasks and the program
meet in loopback connections. The mutex makes each tracker method atomic, but nothing makes a
*handler* atomic with the system call it belongs to: the decision is taken at the entry stop, the
kernel reads the address later, the proxy looks the destination up later still, and the restore
happens at the exit stop.

**What is hard.** Stops of many tasks in any order; entry and exit stops that look the same; pids
and descriptors that are reused; descriptors that are shared, inherited or disappear unseen; threads
that exit while a sibling works; a lookup that races the registration; signals, deadlines and a
tracee that is killed between its stop and the handler. `PROJECT.json` lists the hazards at their
lines.

**What makes each part correct.**

- filter: of all calls but `socket()`, exactly those the handlers need reach the tracer
  (`FilterSeesExactly`); the documented list has stream sockets too (`FilterAsDocumented`, violated);
- handlers: every TCP connection is redirected or exempt (`DirectOnlyIfExempt`), nothing else is
  (`OnlyStreamsRedirected`), the program's memory is as it left it (`BufferRestored`), entry and exit
  are never confused (`PhaseAgrees`), no task escapes (`AllTraced`), every call returns (`CallsReturn`);
- tracker: what it says of descriptors is true (`TrackerMatchesFds`), a pid leaves nothing to its next
  user (`NothingSurvivesReap`);
- local proxy: a connection goes where the program asked (`RightDestination`), is not hung up on while
  its owner holds the socket (`DropOnlyAfterClose`), and is answered (`ClientsAnswered`);
- trace loop: `run()` returns when all is over and not before (`ReturnsAfterAll`, `LoopEnds`), with
  the right code (`ExitCodeOfMain`), resumes whatever it stopped (`StopsAnswered`), acts on shutdown
  signals (`SignalHeeded`) and, once it escalates, ends with nothing left alive (`EscalationEnds`);
- tunnel: the relay starts only in a tunnel upstream granted (`OnlyIfGranted`) and then always
  (`GrantedNotRefused`), each side gets what the other sent and nothing of the handshake (`InOrder`),
  completely when that side's end of file ended it (`EofComplete`), and the task ends (`TunnelEnds`);
- configuration and memory: the rules bypass exactly what they denote (`BypassExactly`), the kernel reads
  the address the options call for (`KernelSees`), the program finds its own again (`MeaningRestored`),
  and never runs half configured (`ConfiguredFirst`);
- all together: seen from outside, a connection is made, carried or lost as the abstract
  specification says (`Implements`).

## 2. The modules

```
SocketTracker <- Kernel <- SyscallTracer <- LocalProxy <- Proxec <- ProxecRefinement <- MCProxec   (TLC)
                                                                        |
                                                                        +-- INSTANCE TransparentConnect
Proxec <- TaskProofs <- RedirectProofs <- DestinationProofs <- DescriptorProofs                    (TLAPS)
SeccompFilter <- MCSeccompFilter           (TLC),  SeccompFilterProofs  (TLAPS)
TraceLoop                                  (TLC),  TraceLoopProofs      (TLAPS)
NoProxy <- Sockaddr <- Launch <- MCLaunch  (TLC),  LaunchProofs         (TLAPS, extends Launch)
Tunnel                                     (TLC),  TunnelProofs         (TLAPS)
```

(`DestinationProofs` also extends `ProxecRefinement`.) The modules cut the program where it is cut by
what it waits for. Proxec has everything that races over one tracker and one program, with addresses as
atoms; Launch has the addresses as bits and the memory as words, with one thread; Tunnel takes a
connection over where LocalProxy's `client[s]` becomes `proxying`; TraceLoop has the loop around
SyscallTracer's handlers.

**SocketTracker.** The tracker is one value (a record of functions), every method an operator from
the old value to the new one, because each runs under the mutex. `/proc/<tid>/status` is the argument
`proc`, the table of thread groups at the time of the call. A socket stands for its inode; inodes
are not reused.

**Kernel** (external: modelled from how `src/` uses it). Tasks with a `pc` (`user`, `entry`,
`seccomp`, `kernel`, `event`, `exit`, `zombie`, ...), descriptor tables and sockaddr buffers per thread
group, and the system calls that matter. A call is split where the code depends on it: `Call*` is the
program's step, `Do*` the kernel's. `DoConnect` reads the buffer when it executes. `asked`, `owner`
and `wrote` are history variables for the properties. What a legal program may do and Proxec does not
expect is switched on by `Allow`, so that each assumption on the program is visible in a cfg or in a
theorem.

**SyscallTracer.** One action per status of `waitpid` (`OnSeccompEvent`, `OnSyscallStop`,
`OnCloneEvent`, `OnNewborn`, `OnExited`); each is the whole turn of the loop, with the handler and the
resume. `handle_connect_enter` has one disjunct per early return. `aborted` records that a handler's
error has made `run()` return.

**LocalProxy.** `client[s]` is the task that serves the connection from socket `s`: accept, find the
inode, look the destination up by inode and then by descriptor, retry up to `Attempts` times, proxy or
hang up. Each lookup is a step of its own, since the mutex is released in between. `AcceptFails` ends the
listener: what it accepted is served on, what waits in its backlog is reset, and connections to `Local`
are refused from then on.

**Proxec** composes them over shared variables and states the properties.

**TransparentConnect** and **ProxecRefinement.** The abstract specification has one variable, the
connection of each TCP socket: none, direct to an exempt destination, pending at the proxy, carried to the
destination asked for, or lost. The refinement mapping computes it from the address the kernel connected
the socket to, the address asked for and the proxy task's state. `Implements` says that every step of
program, kernel, tracer and proxy tasks is one of its steps or stutters; above `RightDestination` it says
that a connection never changes its way, its destination or its outcome.

**SeccompFilter.** The sixteen BPF instructions with their jump offsets on a model of the BPF machine
(program counter, accumulator, the words of `seccomp_data`, of which word 20 is the upper half of the first
argument). It derives the list `Kernel!Filtered` uses: no `socket()`, since an `int` argument leaves word 20 zero
(theorem `SocketIsNotTraced`).

**TraceLoop.** `run()` seen from the loop: which tasks it counts, blocking, EINTR, the shutdown
protocol (SIGTERM, two-second deadline, second signal, SIGKILL), the two-stage EINVAL recovery with
`WNOHANG`, tasks that vanish between stop and handler, and the exit code. `PTRACE_CONT` fails with ESRCH on a
running task and `PTRACE_KILL` does not, so a shutdown's first stage drops running tasks from `active_pids` and
its second keeps them until they are reaped. A vanished task is found by the handler's first `?` request, which
fails `run()`, or by `resume_tracee`, which goes on: `HandleVanished` allows both where the code does. What the handlers do with a
stop is in SyscallTracer and left out here, but whether a seccomp stop got to its handler at all is kept.

**NoProxy, Sockaddr, Launch.** An IP address is a tuple of bits of any width, so the masks of
`contains_v4` and `contains_v6` are the code's own, with Rust's shift. Memory at a sockaddr is eight units of
four bytes, two of which are the word that `PTRACE_POKEDATA` writes; `write_sockaddr` merges the last
word as the code does. Launch runs `main()` step by step with the early return of each call, then the
`connect()` calls of one thread: entry handler, the kernel's copy, exit handler. `Denotes` is the
reference definition of a rule, by prefixes and without masks.

**Tunnel.** One `proxy_connection`: dial, HTTP CONNECT or SOCKS5, relay. Upstream's bytes travel over
`wire` into `inbox` in pieces; `ReadExact` waits for all of its bytes, `Response` takes what one `read()`
finds. Upstream answers with every kind of reply the code tells apart and may shut or reset at any time;
the program may send, shut or reset at any time. What the single `read()` of an HTTP reply cannot cope
with is switched on by `HttpMay` (see the findings); the passing run leaves it off.

Definitions named `..._something` directly before the operator they resemble and marked *faulty
variant* are deliberate mistakes; the properties are known to notice each of them.

## 3. Bounds

| Name | Value | Why it is enough |
|---|---|---|
| `Tids` | 2 | interference is pairwise: a task, and the sibling, child or later user of its tid |
| `Fds`, `Socks`, `Bufs` | 1–2 | two to work in parallel, one to force reuse of the number |
| `Addrs` | `Local` and one or two destinations; in *ptrace_mode* also upstream's address and a no-proxy address of the other family | two tell a right destination from a wrong one; the handler skips all exempt classes in one place, and *address* tells the classes apart |
| `Attempts` | 1 (3 in the code); 2 for liveness | one attempt hangs up soonest, which is the strongest case for `DropOnlyAfterClose` |
| `MaxSignals` | 2 | the code treats the first and the second shutdown signal differently, and all later ones as the second |
| `W4`, `W6` | 4, 16 bits (32, 128) | the masks depend on the prefix being 0, inside, or the full width; prefixes at and beyond each edge are tried |
| `PartLists` | no part, each kind of part, and each after a CIDR | rules are a set with one question asked of it; a second part shows that the first still counts |
| `Images` | all 16 IPv4 addresses, 16 IPv6 ones, port 0, upstream, another family | every early return of the handler; sentinels where the code must not write |
| `Urls`, `Vars` | six URLs, three variables | one URL per check of `ProxyConfig::parse`; both spellings and an unrelated variable |
| `MaxPayload` | 2 | a prefix that is not everything, and an order |
| `NameLengths` | 0, 3, 255 | a bound name of the reply: none, some, the longest that its length byte allows |
| `Inputs` | six call numbers, seven first arguments with three upper halves, four types | every branch both ways; the upper half zero, odd, and a pointer's |
| `ResponseBuf` | 4 parts (1024 bytes) | an HTTP reply of three parts fits, a long one does not |
| sockets | each created once | a run is finite; reuse of descriptors and tids is not bounded |

Symmetry (over sockets, and in *threads* and *processes* over destinations and buffers too) is used in the safety
runs *threads*, *processes* and *ptrace_mode* only; `DropOnlyAfterClose` and `Implements` are safety properties and treat these values alike.

## 4. What the runs show

Passing:

| Run | States | Question |
|---|---|---|
| *threads* | 0.70 M | two threads of one process that open, connect and close against each other and end, seccomp mode; the refinement |
| *processes* | 1.47 M | parent and child, `CLONE_UNTRACED`, inherited descriptors, reuse of the pid |
| *ptrace_mode* | 1.17 M | full tracing, two threads that reuse one descriptor number for streams and datagrams, exempt addresses, unreadable pointers; the refinement |
| *liveness* | 81 k | every call returns, every accepted client is answered, with descriptors lost and shared and a listener that fails |
| *seccomp_filter* | 3.6 k | the jumps of the filter, every call but `socket()` |
| *trace_loop* | 377 k | two processes, two shutdown signals and the escalation, SIGKILL from outside, real-time signals |
| *tunnel* | 310 k | both handshakes and the relay, SOCKS5 byte by byte, hang-ups and resets at every stage |
| *address* | 120 k | every option over `main()` to the bytes the kernel reads and the program finds again |

`CHECK_DEADLOCK` is on everywhere; `Terminated`, `Returned`, `Halted` and `Ended` are the states where the
system has stopped.

Violated, each a disagreement between the code and what the repository says of it:

| Run | What happens |
|---|---|
| *filter_socket* | the filter loads the upper half of the first argument as the socket type (`seccomp.rs:112`), so `socket()` never reaches the tracer; the probe in `handle_connect_enter` makes up for it |
| *shared_sockaddr* | two threads pass one sockaddr: the second handler finds the first one's 127.0.0.1 and lets the call pass as loopback; the first one's restore puts the real address back before the kernel reads it for the second, which connects directly |
| *early_close* | in ptrace mode, a descriptor that a sibling closes between the kernel's return from `socket()` and its exit stop is marked after it was forgotten; a datagram socket with that number is redirected |
| *early_return* | after one SIGINT, `PTRACE_CONT` on a running task fails with ESRCH, which is taken for its death: `run()` can return while tasks live |

Further configurations reproduce findings of `PROJECT.json` outside the regular runs. In each TLC finds the one property
of the cfg violated within a minute:

| Configuration | Module | Property | What happens |
|---|---|---|---|
| BlockedIpv6 | MCProxec | `DirectOnlyIfExempt` | `--disable-ipv6` replaces the return value; the kernel has connected the socket all the same |
| UnseenClose | MCProxec | `OnlyStreamsRedirected` | a descriptor lost to `dup2`, `close_range` or `exec` keeps its stream mark; a datagram socket with that number is redirected |
| RawSocket | MCProxec | `OnlyStreamsRedirected` | `type & SOCK_STREAM` holds for `SOCK_RAW` (3) and `SOCK_SEQPACKET` (5): they are redirected as streams |
| SharedFd | MCProxec | `DirectOnlyIfExempt` | a stream socket that a sibling puts under the descriptor between the probe and the kernel's use of it connects directly |
| ForkInConnect | MCProxec | `BufferRestored` | a fork copies the rewritten sockaddr into the child, where nothing restores it |
| EarlyHangup | MCProxec | `NeverHungUp` | `close()` right after `connect()`: the destination is forgotten before the proxy's task has looked it up |
| BadPointer | MCProxec | `TracerSurvives` | an unreadable pointer, EFAULT to the kernel, ends `run()` |
| ShutdownSkips | TraceLoop | `EntriesHandled` | a shutdown resumes tasks whose seccomp stop was not handled yet: their `connect()` goes out directly |
| Vanished | TraceLoop | `NeverFails` | a tracee killed between its stop and the handler makes `run()` fail and leave the others |
| LostSignal | TraceLoop | `SignalStartsShutdown` | a shutdown signal between the check and `waitpid` waits for the next stop, which need not come |
| HttpReply | Tunnel | `InOrder` | a reply to CONNECT in two segments, or with the destination's first bytes behind it, corrupts the program's data |

`OnlyStreamsRedirected` is stated with `CreatedAsStream`, a reference of its own (the type is 1, whatever flags are
added), not with the code's bit test. `PROJECT.json` has more that no configuration states:

- the exit code 143 instead of 130 after a shutdown; a real-time signal whose stop is consumed and never answered;
- IPv6 sockets that are given an IPv4 address; flow label, scope id and `sin_zero` that the restore clears, and
  four bytes behind a 24-byte `sockaddr_in6`; IPv4-mapped addresses that no IPv4 rule matches;
- an `accept()` error that ends the local proxy; a half-close that loses the other direction's data;
- proxy URLs and exit codes that the requirements list and the code does not have.

`StopsAnswered`, `ExitCodeOfMain`, `ReturnsAfterAll`, `SignalHeeded`, `EofComplete` and `MeaningRestored` are stated
with the exceptions these findings make necessary, and say so in their comments. In *ptrace_mode* and elsewhere an
address is an atom, so a restore brings all of it back; what `memory.rs` loses of a sockaddr is in Launch.

## 5. Fairness

`Proxec!Fairness` is weak fairness of the kernel's step for every task (a call is executed), of the
tracer's step for every task (`waitpid` with `__WALL` comes round to every stopped task, and a handler
does not block), and of every proxy task (the runtime polls what is ready; the retry sleeps for a bounded
time). The program owes nothing: it may stop calling at any point. `TraceLoop` assumes weak fairness of
the loop alone; nothing is assumed of tasks or signals. `Tunnel` assumes weak fairness of the task (the runtime
polls it) and of TCP's delivery; upstream and the program owe nothing, so `TunnelEnds` promises an end only
after one of them has hung up. The code has no timeout that would justify more.

## 6. What is proved

Every safety property that a passing run checks is also a theorem: the run shows it on a small instance, the
theorem for every value of the constants. The only general premises are the named assumptions on the constants
(`TrackerAssumption`, `KernelAssumption`, `TracerAssumption`, `AttemptsAssumption`, `TraceLoopAssumption`,
`LaunchAssumption`, `InputAssumption`, `TunnelAssumption`, ...), which say what kind of value each is and which TLC
evaluates in the runs. What a theorem assumes beyond them is in its statement:

| Theorem | Property | Further assumption |
|---|---|---|
| `ProxecTypeOK` | `TypeOK` | none |
| `PhaseCorrect` | `PhaseAgrees` | none |
| `NoTaskEscapes` | `AllTraced` | none |
| `ReapedCompletely` | `NothingSurvivesReap` | none |
| `BuffersAreRestored` | `BufferRestored` | A: no buffer in two `connect()`s at once, no fork while a sibling is in `connect()` |
| `NoDirectConnections` | `DirectOnlyIfExempt` | B: A, and no descriptor in two calls at once; `pidfd_getfd` granted, IPv6 not disabled |
| `ServedAsAsked` | `RightDestination` | C: B's part on the program, and a socket is connected to one address only, by the process that created it |
| `KeptConnectionsAreServed` | `DropOnlyAfterClose` | C, and `accept()` does not fail |
| `TransparentProxy` | `Implements` | C and B, and `accept()` does not fail |
| `DescriptorsAreTracked` | `TrackerMatchesFds` | B's part on the program, no unseen close, the filter in use |
| `DatagramsAreLeftAlone` | `OnlyStreamsRedirected` | the same, and no socket whose type passes the bit test without being a stream |
| `FilterTypeOK`, `FilterExact` | `TypeOK`, `FilterSeesExactly` | none (the property is about every call but `socket()`) |
| `SocketIsNotTraced` | `SocketsPass` (no run: it is why *filter_socket* is violated) | none |
| `LoopTypeOK`, `LoopOutlivesTasks`, `ExitCodeIsMains`, `NoStopForgotten` | `TypeOK`, `ReturnsAfterAll`, `ExitCodeOfMain`, `StopsAnswered` | none |
| `EscalationLeavesNone` | `NoneLeft`, the safety half of `EscalationEnds` | none |
| `LaunchTypeOK`, `ProgramStartsConfigured`, `RulesAreExact`, `KernelReadsAsConfigured`, `SockaddrMeaningRestored` | `TypeOK`, `ConfiguredFirst`, `BypassExactly`, `KernelSees`, `MeaningRestored` | none |
| `TunnelTypeOK` | `TypeOK` | none |
| `RelayInOrder`, `NothingLostAtEof` | `InOrder`, `EofComplete` | SOCKS5 only, or HTTP replies neither split, followed by payload in the same read, nor longer than the buffer |
| `RelayOnlyIfGranted` | `OnlyIfGranted` | SOCKS5 only, or no HTTP refusal mentions 200 |
| `GrantsAreSeen` | `GrantedNotRefused` | SOCKS5 only, or HTTP replies in one piece |

The assumptions are not conveniences. *shared_sockaddr* and *early_close*, and SharedFd, ForkInConnect,
BlockedIpv6, UnseenClose and RawSocket of section 4, show that those on buffers, descriptors, forks, IPv6, closes, the filter
and socket types cannot be dropped;
each thing excluded from HTTP replies breaks its property when `HttpMay` allows it; a child that connects an
inherited socket again breaks `DropOnlyAfterClose`. The theorems on HTTP show in turn that each anomaly breaks no
more than that: a split reply, for one, never starts a relay that was not granted.

**Proxec.** The argument is a chain of inductive invariants, each relative to the ones before:

1. `TypeInv` (TaskProofs): types, and that a call carries the arguments its kind needs and a live task has a
   thread group. Without the second part no handler's lookup is in range. There is one lemma per tracker method.
2. `PhaseInv` (TaskProofs): for each `pc`, the phase the tracer holds and the request the task was resumed with.
   The property speaks of stops only; the invariant must say what the tracer believes while the task
   runs. `TracedOK` ties the clearing of `CLONE_UNTRACED` to the moment the kernel executes the clone.
3. `ReapInv` (TaskProofs): a task is resolved to its own thread group or not at all, and descriptors are tracked
   under thread groups that exist. So `cleanup_process` of the last thread, which can no longer read `/proc`,
   finds everything under the group's number.
4. `BufInv` (RedirectProofs): two tasks never use one buffer (`BufExclusive`), a pending restore holds the address
   the call was made with (`ConnectOK`), and every changed buffer has such a restore pending (`MemOK`).
5. `DirectInv` (RedirectProofs): two tasks never use one descriptor, a socket in a table has been created, and
   `Judged`: from the entry stop to the kernel's read, the buffer of a `connect()` on a TCP socket holds `Local`
   or an exempt address. This carries the decision of the handler to the step that depends on it.
6. `DestInv` (DestinationProofs): where the destination of a connection is on record at each point of its way.
   `WantOK`: from the entry handler to the kernel's connect it is under the inode, and nothing else is under the
   descriptor; `ProxOK`: from there on every record that a lookup can find is the right one, and the inode's
   is there as long as the owner keeps the socket; `ClientOK`: a proxy task that found an inode found the right
   one, and one that found none has a reason. `OwnerOK`, `TableOK` and `InodeOK` say that a socket has one
   descriptor in a process and that only its creator has a record for it, so that no close or exit elsewhere
   removes it.
7. `Implements` follows from 5 and 6: the initial state maps to the initial state, and each action to `connect`,
   `carry`, `lose` or a stutter of TransparentConnect. Most actions leave the mapped value alone (`SeenSame`).
8. `FdsInv` (DescriptorProofs): the tracker's entries of a live group are true of its table (`FdOK`), and between a
   handler and the kernel's step the call still has what the handler relied on (`CallOK`, `StreamOK`).

**SeccompFilter.** `FilterInv` says for each program counter what is in the accumulator and which tests have failed
on the way.

**TraceLoop.** `LoopInv`: as long as nothing has gone wrong (`mishaps = {}`), every task that exists is in
`active_pids` or is a newborn whose parent's event is still to come (`Covered`), and main's code is either still
to be collected or the exit code; only the stop being handled is held (`HeldOK`), until an EINVAL. After an
escalation no task is alive, and none can be born.

**Launch.** `ConfigInv` says at each stage of `main()` what is already in place, `MemInv` what is at the sockaddr in each
place of a `connect()`. The lemmas below it are about the operators: `MaskIsPrefix` (Rust's shift gives the prefix
at every length, 0 and the full width included), `ContainsIsPrefix`, `RulesDenote`, and `WriteRead4`/`WriteRead6` (what
`write_sockaddr` pokes word by word, `read_sockaddr` reads back, and the merged last word keeps its other half).

**Tunnel.** What is unread of upstream's bytes (`Rest`, on the wire or arrived) is the rest of the reply the task
is in, followed by all that the destination sent (`After(k)`). `StageInv` says for each stage how long that rest is
and which bytes decide; `DownInv` turns it into *delivered, buffered and unread together are what was sent*, which
is what `InOrder` and `EofComplete` need; `UpInv` says the same of the other direction. Where the bytes are cut
does not occur in it, hence the theorems hold for every segmentation.

TLC checked each of these invariants on the instances of the runs before it was proved.

## 7. What is only model-checked

`CallsReturn`, `ClientsAnswered`, `LoopEnds`, `EscalationEnds`, `SignalHeeded` and `TunnelEnds`: liveness under fairness
and ENABLED are out of the prover's reach. Induction over data and RECURSIVE operators are so too; the modules here do
without. The violations stay with TLC by nature. In ptrace mode `TrackerMatchesFds` and
`OnlyStreamsRedirected` are checked (*ptrace_mode*) and not proved.

## 8. What is not modelled

- Texts: the split of options into parts, URL and HTTP syntax beyond what the code tests, base64, error
  messages, `TraceStats`, logging, `is_available` (the constant `UseSeccomp`).
- `exec` (the program starts after its first one), signals to the program and group-stops in Proxec,
  `exec` by a thread that is not the leader; failure of `write_sockaddr` (`PTRACE_POKEDATA` writes through page
  protection); a clone3 with a null pointer.
- `addrlen`: a sockaddr is a whole structure. A sibling thread that stores in the structure while it is poked,
  word by word: Proxec writes it in one step, Launch has one thread.
- In Tunnel a write never waits for a full socket buffer.
- In TraceLoop the shutdown signal is SIGINT, every task is a process of its own, and all are in the started
  program's process group. TraceLoop and the handlers are not composed: what a shutdown does to a redirected
  connect between its stops is not modelled beyond the unhandled entry that ShutdownSkips finds.

## 9. Plan

The models are complete as far as section 8 says, and every safety property that a run checks has its theorem. What
is left:

1. Weaker hypotheses where the code needs less: `ServedAsAsked` for a socket that its creator connects again
   after a failure, `DescriptorsAreTracked` without the conditions on buffers, and in ptrace mode for a
   program that closes no descriptor before the `socket` call that creates it has returned.
2. `RightDestination` and `Implements` for inherited sockets that only one process uses at a time.
3. The steps behind the liveness properties as action properties (each retry uses up an attempt, each turn
   of the loop answers a stop), which the prover can reach where the liveness itself it cannot.
