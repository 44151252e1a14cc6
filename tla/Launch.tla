------------------------------- MODULE Launch -------------------------------
(***************************************************************************)
(* From the command line to the bytes the kernel reads: main() of          *)
(* src/src/main.rs with what it configures (src/src/cli.rs, no_proxy.rs,   *)
(* env.rs, proxy/config.rs, tracer/ptrace.rs), and then the connect()      *)
(* calls of the started program at the level of its memory: the entry      *)
(* handler decides by the configuration and rewrites the sockaddr, the     *)
(* kernel reads it, the exit handler writes it back.  The calls are those  *)
(* of one thread on a fresh TCP socket; SyscallTracer has the other        *)
(* threads, calls and sockets.                                             *)
(***************************************************************************)
EXTENDS Sockaddr

CONSTANTS
    PartLists,  \* the --no-proxy options: sequences of parts
    Urls,       \* the --proxy options
    Images,     \* what the program stores where its sockaddr goes
    Vars,       \* environment variables that may be set
    LocalPort,  \* the port that bind() chose for the local proxy
    None

(* A URL as Url::parse sees it.  Its host is an address, a name or absent. *)
ASSUME LaunchAssumption ==
    /\ \A u \in Urls :
          /\ u.scheme \in {"http", "https", "socks", "socks5"}
          /\ u.host \in Ip \cup {[v |-> 0], None}
          /\ u.port \in Nat \cup {None} /\ u.user \in BOOLEAN
    /\ LocalPort \in Nat \ {0}

(* A part of the option, by the kinds that NoProxy tells apart.            *)
PartOK(part) ==
    /\ part.kind \in {"empty", "any", "localhost", "ip", "cidr", "badcidr",
                      "suffix", "host"}
    /\ part.kind \in {"ip", "cidr"} => part.addr \in Ip
    /\ part.kind = "cidr" => part.prefix_len \in Nat
    /\ part.kind = "host" => part.addrs \subseteq Ip

(* The memory at the sockaddr, whatever address family it is of.           *)
ImageOK(m) ==
    /\ DOMAIN m = 1 .. Units
    /\ m[1].port \in Nat
    /\ \A u \in 2 .. Units : m[u] \in Bits(W4)

ASSUME InputAssumption ==
    /\ \A l \in PartLists : \A i \in 1 .. Len(l) : PartOK(l[i])
    /\ \A m \in Images : ImageOK(m)
    /\ None \notin [v : {4}, bits : Bits(W4), port : Nat]
    /\ None \notin [v : {6}, bits : Bits(W6), port : Nat]

PROXY_ENV_VARS ==
    {"http_proxy", "HTTP_PROXY", "https_proxy", "HTTPS_PROXY",
     "all_proxy", "ALL_PROXY", "no_proxy", "NO_PROXY"}

VARIABLES
    args,       \* the command line
    stage,      \* how far main() has come
    env,        \* the variables set in proxec's environment
    no_proxy,   \* the rules, proxy the upstream, local_addr the listener
    proxy,
    local_addr,
    exit_code,  \* of proxec; None while it runs
    child_env,  \* the environment the program was started in
    at,         \* the program: none, user, entry, kernel, exit
    mem,        \* its memory at the sockaddr
    restore,    \* pending_connect_restore
    errno,      \* is forced_connect_errno set?
    stored,     \* history: what the program stored in mem
    saw         \* history: what the kernel read

mainVars == <<stage, env, no_proxy, proxy, local_addr, exit_code>>
programVars == <<child_env, at, mem, restore, errno, stored, saw>>
vars == <<args, mainVars, programVars>>

Local == Addr([v |-> 4, bits |-> [i \in 1 .. W4 |->
                 IF i <= Len(LoopNet) THEN LoopNet[i]
                 ELSE IF i = W4 THEN 1 ELSE 0]], LocalPort)

TypeOK ==
    /\ args.no_proxy \in PartLists /\ args.proxy \in Urls
    /\ args.disable_ipv6 \in BOOLEAN /\ args.allow_ipv6_compat \in BOOLEAN
    /\ stage \in {"rules", "env", "url", "bind", "fork", "run", "ended"}
    /\ env \subseteq Vars /\ child_env \subseteq Vars
    /\ local_addr \in {None, Local}
    /\ exit_code \in {None, 1, 127}
    /\ at \in {"none", "user", "entry", "kernel", "exit"}
    /\ errno \in BOOLEAN
    /\ \A m \in {mem, stored, saw} \ {None} : ImageOK(m)
    /\ restore # None => IpOf(restore) \in Ip

Init ==
    /\ args \in [no_proxy : PartLists, proxy : Urls,
                 disable_ipv6 : BOOLEAN, allow_ipv6_compat : BOOLEAN]
    /\ stage = "rules" /\ env \in SUBSET Vars
    /\ no_proxy = None /\ proxy = None /\ local_addr = None
    /\ exit_code = None /\ child_env = {} /\ at = "none"
    /\ mem = None /\ restore = None /\ errno = FALSE
    /\ stored = None /\ saw = None
-----------------------------------------------------------------------------
(* main(), one action per call that can fail or that the next ones see.    *)

(* An Err that main() returns ends the process with 1, whatever            *)
(* Error::exit_code() says of it.                                          *)
Fail_minus_one == stage' = "ended" /\ exit_code' = -1  \* faulty variant
Fail == stage' = "ended" /\ exit_code' = 1
Go(next) == stage' = next /\ UNCHANGED exit_code

ParseNoProxy ==
    /\ stage = "rules"
    /\ \/ /\ parse(args.no_proxy).ok
          /\ no_proxy' = parse(args.no_proxy) /\ Go("env")
       \/ ~parse(args.no_proxy).ok /\ Fail /\ UNCHANGED no_proxy
    /\ UNCHANGED <<args, env, proxy, local_addr, programVars>>

(* Faulty variant: the names in capitals are forgotten.                    *)
clear_lowercase_only == env' = env \ {"http_proxy", "https_proxy",
                                      "all_proxy", "no_proxy"}
clear_proxy_env == env' = env \ PROXY_ENV_VARS

ClearEnv ==
    /\ stage = "env" /\ clear_proxy_env /\ Go("url")
    /\ UNCHANGED <<args, no_proxy, proxy, local_addr, programVars>>

(* Url::port() is None for a port that is the default of its scheme.       *)
url_port(u) == IF u.scheme = "http" /\ u.port = 80 THEN None ELSE u.port

(* ProxyConfig::parse: scheme, host and port, and an address literal.      *)
proxy_url_ok(u) ==
    /\ u.scheme \in {"http", "socks", "socks5"}
    /\ u.host # None /\ url_port(u) # None
    /\ u.host.v # 0
proxy_config(u) ==
    [protocol |-> IF u.scheme = "http" THEN "HttpConnect" ELSE "Socks5",
     addr |-> Addr(u.host, url_port(u)), auth |-> u.user]

ParseProxy ==
    /\ stage = "url"
    /\ \/ /\ proxy_url_ok(args.proxy)
          /\ proxy' = proxy_config(args.proxy) /\ Go("bind")
       \/ ~proxy_url_ok(args.proxy) /\ Fail /\ UNCHANGED proxy
    /\ UNCHANGED <<args, env, no_proxy, local_addr, programVars>>

(* The runtime is created and the listener bound; either may fail.         *)
Bind ==
    /\ stage = "bind"
    /\ \/ local_addr' = Local /\ Go("fork")
       \/ Fail /\ UNCHANGED local_addr
    /\ UNCHANGED <<args, env, no_proxy, proxy, programVars>>

(* The local proxy is spawned, and fork_exec starts the program, or the    *)
(* fork fails, or the child cannot install its filter or exec: it exits    *)
(* with 127 and run() returns that.                                        *)
ForkExec ==
    /\ stage = "fork"
    /\ \/ /\ Go("run") /\ at' = "user" /\ child_env' = env
          /\ \E m \in Images : mem' = m /\ stored' = m
       \/ Fail /\ UNCHANGED <<at, child_env, mem, stored>>
       \/ /\ stage' = "ended" /\ exit_code' = 127
          /\ UNCHANGED <<at, child_env, mem, stored>>
    /\ UNCHANGED <<args, env, no_proxy, proxy, local_addr, restore, errno, saw>>

Main == ParseNoProxy \/ ClearEnv \/ ParseProxy \/ Bind \/ ForkExec
-----------------------------------------------------------------------------
(* The program stores an address and connects; tracer and kernel follow.   *)

Store ==
    /\ at = "user"
    /\ \E m \in Images \ {stored} : mem' = m /\ stored' = m
    /\ UNCHANGED <<args, mainVars, child_env, at, restore, errno, saw>>

Call ==
    /\ at = "user" /\ at' = "entry"
    /\ UNCHANGED <<args, mainVars, child_env, mem, restore, errno, stored, saw>>

(* The early returns of handle_connect_enter before the socket matters.    *)
skips(a) ==
    a # Unknown =>
        \/ is_loopback(IpOf(a)) \/ is_unspecified(IpOf(a)) \/ a.port = 0
        \/ should_bypass(no_proxy, IpOf(a))

disable_ipv6_as_given == args.disable_ipv6  \* faulty variant
disable_ipv6 == args.disable_ipv6 /\ ~args.allow_ipv6_compat

handle_connect_enter ==
    LET dest == read_sockaddr(mem)
    IN  /\ at = "entry" /\ at' = "kernel"
        /\ \/ /\ skips(dest)
              /\ UNCHANGED <<mem, restore, errno>>
           \/ /\ ~skips(dest) /\ dest.v = 6 /\ disable_ipv6
              /\ errno' = TRUE
              /\ UNCHANGED <<mem, restore>>
           \/ /\ ~skips(dest) /\ ~(dest.v = 6 /\ disable_ipv6)
              /\ dest = proxy.addr
              /\ UNCHANGED <<mem, restore, errno>>
           \/ /\ ~skips(dest) /\ ~(dest.v = 6 /\ disable_ipv6)
              /\ dest # proxy.addr
              /\ mem' = write_sockaddr(mem, local_addr)
              /\ restore' = dest
              /\ UNCHANGED errno
        /\ UNCHANGED <<args, mainVars, child_env, stored, saw>>

Kernel ==
    /\ at = "kernel" /\ at' = "exit" /\ saw' = mem
    /\ UNCHANGED <<args, mainVars, child_env, mem, restore, errno, stored>>

handle_syscall_exit ==
    /\ at = "exit" /\ at' = "user"
    /\ mem' = IF restore = None THEN mem ELSE write_sockaddr(mem, restore)
    /\ restore' = None /\ errno' = FALSE /\ saw' = None
    /\ UNCHANGED <<args, mainVars, child_env, stored>>

Ended == stage = "ended" /\ UNCHANGED vars

Next ==
    \/ Main
    \/ Store \/ Call \/ handle_connect_enter \/ Kernel \/ handle_syscall_exit
    \/ Ended

Spec == Init /\ [][Next]_vars
-----------------------------------------------------------------------------
(* The rules in force are the ones on the command line: an address is      *)
(* bypassed if and only if some part denotes it, at every prefix length    *)
(* from 0 to the full width (parse, should_bypass and the masks).          *)
BypassExactly ==
    no_proxy # None =>
        \A m \in Images :
            LET a == read_sockaddr(m)
            IN  a # Unknown =>
                  (should_bypass(no_proxy, IpOf(a)) <=>
                      \E i \in 1 .. Len(args.no_proxy) :
                          Denotes(args.no_proxy[i], IpOf(a)))

(* The kernel reads what the command line says: the program's own bytes,   *)
(* every one of them, for an address that is exempt or blocked, and the    *)
(* local proxy's address for any other (the whole way from the options     *)
(* over the handler to the words it writes).                               *)
Exempted(a) ==
    \/ a = Unknown
    \/ is_loopback(IpOf(a)) \/ is_unspecified(IpOf(a)) \/ a.port = 0
    \/ \E i \in 1 .. Len(args.no_proxy) : Denotes(args.no_proxy[i], IpOf(a))
    \/ a = Addr(args.proxy.host, args.proxy.port)
    \/ a.v = 6 /\ args.disable_ipv6 /\ ~args.allow_ipv6_compat
KernelSees ==
    saw # None =>
        IF Exempted(read_sockaddr(stored)) THEN saw = stored
        ELSE read_sockaddr(saw) = Local

(* After the call the program finds its address as it stored it, and the   *)
(* memory after the structure, byte for byte: the restore is as long as    *)
(* the address family says though the redirect was shorter, and its last   *)
(* word is merged (write_sockaddr; flow label, scope id and sin_zero are   *)
(* not kept and not part of the claim).                                    *)
MeaningRestored ==
    at = "user" =>
        /\ read_sockaddr(mem) = read_sockaddr(stored)
        /\ \A u \in Beyond(stored) .. Units : mem[u] = stored[u]

(* The program runs only under a complete configuration: the listener is   *)
(* there, no rule was rejected, upstream is an address, and none of the    *)
(* proxy variables is in its environment (the order of main()'s calls and  *)
(* their early returns).                                                   *)
ConfiguredFirst ==
    at # "none" =>
        /\ local_addr # None /\ exit_code = None
        /\ \A i \in 1 .. Len(args.no_proxy) : ~rejected(args.no_proxy[i])
        /\ args.proxy.host \in Ip
        /\ child_env \cap PROXY_ENV_VARS = {}
=============================================================================
