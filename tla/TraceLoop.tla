----------------------------- MODULE TraceLoop -----------------------------
(***************************************************************************)
(* The life of run() in src/src/tracer/trace_loop.rs: which tasks it       *)
(* thinks it traces (active_pids), when its loop ends and with which exit  *)
(* code, and what a shutdown signal does.  What the handlers do with a     *)
(* system call is SyscallTracer's subject; here a handler only ends with   *)
(* a resume, or finds the tracee gone (ESRCH).                             *)
(*                                                                         *)
(* A task's life: none -> (fork) stopped -> held -> running -> ... -> dead *)
(* -> (waitpid) none.  `stopped' has a status that waitpid has not         *)
(* returned, `held' one that it has.  ptrace requests work on a stopped or *)
(* held task only; on a running or a dead one they fail with ESRCH.  Only  *)
(* PTRACE_KILL needs no stop.  Every task is a process of its own in the   *)
(* process group of the first.                                             *)
(***************************************************************************)
EXTENDS Integers, FiniteSets

CONSTANTS
    Tids,        \* task identifiers
    Main,        \* child_pid
    UseSeccomp,  \* seccomp stops, or syscall stops?
    MaxSignals,  \* bound: shutdown signals proxec itself receives
    Shocks       \* what else may happen: "kill" (SIGKILL from outside),
                 \* "rt" (a real-time signal, which nix cannot decode)

ASSUME TraceLoopAssumption ==
    /\ Main \in Tids
    /\ UseSeccomp \in BOOLEAN
    /\ MaxSignals \in Nat
    /\ Shocks \subseteq {"kill", "rt"}

SIGINT == 2
SIGKILL == 9
SIGTERM == 15
OwnCode == 3    \* the code of a task that exits by itself

VARIABLES
    life,         \* the kernel's view of each task
    why,          \* the status of a stopped or held task
    code,         \* the exit code of a dead task, a signal as 128 + n
    child,        \* the new task a clone event announces
    term,         \* the tasks with a SIGTERM pending
    loop,         \* where run() is
    cur,          \* the task whose stop is being handled
    active_pids, exit_code, main_exited, shutdown,
    SHUTDOWN_COUNT,  \* SHUTDOWN_SIGNAL is set once it is positive
    elapsed,      \* have two seconds passed since the shutdown began?
    main_code,    \* history: the code the first task really ended with
    mishaps       \* history: "shutdown" begun, "einval" met, a tracee "vanished"

kernelVars == <<life, why, code, child, term>>
loopVars == <<loop, cur, active_pids, exit_code, main_exited, shutdown>>
vars == <<kernelVars, loopVars, SHUTDOWN_COUNT, elapsed, main_code, mishaps>>

Lives == {"none", "running", "stopped", "held", "dead"}
Whys == {"start", "seccomp", "syscall", "clone", "term", "rt"}
Alive(t) == life[t] \in {"running", "stopped", "held"}
Traceable(t) == life[t] \in {"stopped", "held"}

TypeOK ==
    /\ life \in [Tids -> Lives]
    /\ why \in [Tids -> Whys]
    /\ code \in [Tids -> 0 .. 255]
    /\ child \in [Tids -> Tids]
    /\ term \subseteq Tids
    /\ loop \in {"top", "calling", "blocked", "interrupted", "handling",
                 "einval", "done", "failed"}
    /\ cur \in Tids
    /\ active_pids \subseteq Tids
    /\ exit_code \in 0 .. 255 /\ main_code \in 0 .. 255
    /\ main_exited \in BOOLEAN /\ elapsed \in BOOLEAN
    /\ mishaps \subseteq {"shutdown", "einval", "vanished"}
    /\ shutdown \in {"none", "begun", "escalated"}
    /\ SHUTDOWN_COUNT \in 0 .. MaxSignals

Init ==
    /\ life = [t \in Tids |-> IF t = Main THEN "stopped" ELSE "none"]
    /\ why = [t \in Tids |-> "start"]
    /\ code = [t \in Tids |-> 0]
    /\ child = [t \in Tids |-> t]
    /\ term = {}
    /\ loop = "top" /\ cur = Main
    /\ active_pids = {Main}
    /\ exit_code = 0 /\ main_exited = FALSE /\ shutdown = "none"
    /\ SHUTDOWN_COUNT = 0 /\ elapsed = FALSE
    /\ main_code = 0 /\ mishaps = {}

-----------------------------------------------------------------------------
(* What the tasks, the user and the clock do.                              *)

envUnchanged == UNCHANGED <<loopVars, SHUTDOWN_COUNT, elapsed>>
note(t, c) == main_code' = IF t = Main THEN c ELSE main_code

StopAt(t, w) ==
    /\ life[t] = "running"
    /\ w = "seccomp" => UseSeccomp
    /\ w = "syscall" => ~UseSeccomp
    /\ w = "rt" => "rt" \in Shocks
    /\ w = "term" => t \in term
    /\ life' = [life EXCEPT ![t] = "stopped"]
    /\ why' = [why EXCEPT ![t] = w]
    /\ term' = IF w = "term" THEN term \ {t} ELSE term
    /\ UNCHANGED <<code, child, main_code, mishaps>> /\ envUnchanged

Fork(t, c) ==
    /\ life[t] = "running" /\ life[c] = "none" /\ c # Main
    /\ life' = [life EXCEPT ![t] = "stopped", ![c] = "stopped"]
    /\ why' = [why EXCEPT ![t] = "clone", ![c] = "start"]
    /\ child' = [child EXCEPT ![t] = c]
    /\ UNCHANGED <<code, term, main_code, mishaps>> /\ envUnchanged

Exit(t) ==
    /\ life[t] = "running"
    /\ life' = [life EXCEPT ![t] = "dead"]
    /\ code' = [code EXCEPT ![t] = OwnCode]
    /\ term' = term \ {t}
    /\ note(t, OwnCode)
    /\ UNCHANGED <<why, child, mishaps>> /\ envUnchanged

(* SIGKILL from outside ends a task also while it is stopped.              *)
Killed(t) ==
    /\ "kill" \in Shocks /\ Alive(t)
    /\ life' = [life EXCEPT ![t] = "dead"]
    /\ code' = [code EXCEPT ![t] = 128 + SIGKILL]
    /\ term' = term \ {t}
    /\ mishaps' = IF life[t] = "running" THEN mishaps
                  ELSE mishaps \cup {"vanished"}
    /\ note(t, 128 + SIGKILL)
    /\ UNCHANGED <<why, child>> /\ envUnchanged

(* handle_shutdown_signal, run as a signal handler of the tracer thread:   *)
(* it interrupts a waitpid that blocks, and one that is about to be called *)
(* does not notice.                                                        *)
ShutdownSignal ==
    /\ loop \notin {"done", "failed"} /\ SHUTDOWN_COUNT < MaxSignals
    /\ SHUTDOWN_COUNT' = SHUTDOWN_COUNT + 1
    /\ loop' = IF loop = "blocked" THEN "interrupted" ELSE loop
    /\ UNCHANGED <<kernelVars, cur, active_pids, exit_code, main_exited,
                   shutdown, elapsed, main_code, mishaps>>

Elapse ==
    /\ shutdown = "begun" /\ ~elapsed /\ loop \notin {"done", "failed"}
    /\ elapsed' = TRUE
    /\ UNCHANGED <<kernelVars, loopVars, SHUTDOWN_COUNT, main_code, mishaps>>
-----------------------------------------------------------------------------
(* The pieces of run().                                                    *)

(* prune_gone_tracees: what has no /proc entry is dropped.                 *)
prune_gone_tracees(active) == {t \in active : life[t] # "none"}

(* begin_shutdown: SIGTERM for the group and for every active task, and a  *)
(* resume of each.  The resume fails with ESRCH for a task that runs, and  *)
(* terminate_active_tracees then takes the task for dead; it works for one *)
(* that is stopped, if only just now by that SIGTERM (`caught').           *)
begin_shutdown(active) ==
    \E caught \in SUBSET {t \in active : life[t] = "running"} :
        /\ life' = [t \in Tids |-> IF t \in active /\ Traceable(t)
                                   THEN "running" ELSE life[t]]
        /\ term' = {t \in Tids : Alive(t)}
        /\ active_pids' = {t \in active : Traceable(t)} \cup caught
        /\ exit_code' = 128 + SIGINT
        /\ shutdown' = "begun"
        /\ mishaps' = mishaps \cup {"shutdown"}
        /\ UNCHANGED <<code, main_code>>

(* kill_active_tracees: SIGKILL, then PTRACE_KILL, which works on any      *)
(* tracee that is not reaped: the tasks stay active until waitpid reports  *)
(* them.                                                                   *)
kill_active_tracees(active, victims) ==
    /\ life' = [t \in Tids |-> IF t \in victims /\ Alive(t)
                               THEN "dead" ELSE life[t]]
    /\ code' = [t \in Tids |-> IF t \in victims /\ Alive(t)
                               THEN 128 + SIGKILL ELSE code[t]]
    /\ term' = {t \in term : t \notin victims}
    /\ main_code' = IF Main \in victims /\ Alive(Main)
                    THEN 128 + SIGKILL ELSE main_code
    /\ active_pids' = active

(* escalate_shutdown: the whole group is killed first, with the tasks that *)
(* begin_shutdown dropped.                                                 *)
escalate_without_group(active) ==  \* faulty variant: no killpg
    /\ kill_active_tracees(active, active)
    /\ shutdown' = "escalated"
    /\ UNCHANGED <<exit_code, mishaps>>
escalate_shutdown(active) ==
    /\ kill_active_tracees(active, Tids)
    /\ shutdown' = "escalated"
    /\ UNCHANGED <<exit_code, mishaps>>

update_shutdown_state(active) ==
    \/ /\ SHUTDOWN_COUNT > 0 /\ shutdown = "none"
       /\ begin_shutdown(active)
    \/ /\ shutdown = "begun" /\ (SHUTDOWN_COUNT > 1 \/ elapsed)
       /\ escalate_shutdown(active)
    \/ /\ \/ SHUTDOWN_COUNT = 0
          \/ shutdown = "escalated"
          \/ shutdown = "begun" /\ SHUTDOWN_COUNT = 1 /\ ~elapsed
       /\ active_pids' = active
       /\ UNCHANGED <<life, term, code, exit_code, shutdown, main_code,
                      mishaps>>

(* The head of the loop: prune, leave when nothing is active, look for a   *)
(* shutdown signal, go on to waitpid (or after EINTR to the head again).   *)
Turn(from, to) ==
    LET active == prune_gone_tracees(active_pids)
    IN  /\ loop = from
        /\ \/ /\ active = {}
              /\ loop' = "done" /\ active_pids' = {}
              /\ UNCHANGED <<life, term, code, exit_code, shutdown, main_code,
                             mishaps>>
           \/ /\ active # {}
              /\ loop' = to
              /\ update_shutdown_state(active)
        /\ UNCHANGED <<why, child, cur, main_exited, SHUTDOWN_COUNT, elapsed>>

Head == Turn("top", "calling")
EINTR_retries ==  \* faulty variant: waitpid is called again at once
    /\ loop = "interrupted" /\ loop' = "calling"
    /\ UNCHANGED <<kernelVars, cur, active_pids, exit_code, main_exited,
                   shutdown, SHUTDOWN_COUNT, elapsed, main_code, mishaps>>
EINTR == Turn("interrupted", "top")

Waitable == {t \in Tids : life[t] \in {"stopped", "dead"}}

(* waitpid blocks, or fails with ECHILD when there is no child at all: the *)
(* loop ends then too.                                                     *)
Block ==
    /\ loop = "calling" /\ Waitable = {}
    /\ loop' = IF \E t \in Tids : life[t] # "none" THEN "blocked" ELSE "done"
    /\ UNCHANGED <<kernelVars, cur, active_pids, exit_code, main_exited,
                   shutdown, SHUTDOWN_COUNT, elapsed, main_code, mishaps>>

(* waitpid returns a stop; the tracee is held until it is resumed.  The    *)
(* stop of a real-time signal comes back as EINVAL, its status consumed.   *)
ReturnStop(t) ==
    /\ loop \in {"calling", "blocked"} /\ life[t] = "stopped"
    /\ life' = [life EXCEPT ![t] = "held"]
    /\ cur' = t
    /\ loop' = IF why[t] = "rt" THEN "einval" ELSE "handling"
    /\ mishaps' = IF why[t] = "rt" THEN mishaps \cup {"einval"} ELSE mishaps
    /\ UNCHANGED <<why, code, child, term, active_pids, exit_code,
                   main_exited, shutdown, SHUTDOWN_COUNT, elapsed, main_code>>

(* What the end of a task means for run(): only the started program's      *)
(* status becomes the exit code, and the last active task ends the loop.   *)
exit_code_of_last(t) == code[t]                              \* faulty variant
exit_code_twice_128(t) ==                                    \* faulty variant
    IF t = Main THEN code[t] + 128 ELSE exit_code
exit_code_after(t) == IF t = Main THEN code[t] ELSE exit_code

loop_ends_with_main(t) == IF t = Main THEN "done" ELSE "top" \* faulty variant
loop_after(t) == IF active_pids \ {t} = {} THEN "done" ELSE "top"

(* WaitStatus::Exited or Signaled: cleanup_dead_tracee.                    *)
ReturnExit(t) ==
    /\ loop \in {"calling", "blocked"} /\ life[t] = "dead"
    /\ life' = [life EXCEPT ![t] = "none"]
    /\ active_pids' = active_pids \ {t}
    /\ exit_code' = exit_code_after(t)
    /\ main_exited' = (main_exited \/ t = Main)
    /\ loop' = loop_after(t)
    /\ UNCHANGED <<why, code, child, term, cur, shutdown, SHUTDOWN_COUNT,
                   elapsed, main_code, mishaps>>

handlingUnchanged ==
    UNCHANGED <<cur, main_exited, shutdown, exit_code,
                SHUTDOWN_COUNT, elapsed, mishaps>>

(* Faulty variant: a signal-delivery stop is looked at and left.           *)
HandleStop_skips_signals ==
    /\ loop = "handling" /\ life[cur] = "held"
    /\ loop' = "top"
    /\ active_pids' = active_pids \cup {cur}
    /\ life' = [life EXCEPT ![cur] = IF why[cur] = "term" THEN @ ELSE "running"]
    /\ UNCHANGED <<code, term, main_code, why, child>> /\ handlingUnchanged

(* A stop is handled: new tasks are entered (a signal-delivery stop enters *)
(* none), and the tracee is resumed.  An injected SIGTERM ends the task or *)
(* runs its handler.                                                       *)
HandleStop ==
    /\ loop = "handling" /\ life[cur] = "held"
    /\ loop' = "top"
    /\ active_pids' = active_pids
          \cup (IF why[cur] = "term" THEN {} ELSE {cur})
          \cup (IF why[cur] = "clone" THEN {child[cur]} ELSE {})
    /\ \/ /\ life' = [life EXCEPT ![cur] = "running"]
          /\ UNCHANGED <<code, term, main_code>>
       \/ /\ why[cur] = "term"
          /\ life' = [life EXCEPT ![cur] = "dead"]
          /\ code' = [code EXCEPT ![cur] = 128 + SIGTERM]
          /\ term' = term \ {cur}
          /\ note(cur, 128 + SIGTERM)
    /\ why' = [why EXCEPT ![cur] = "start"]
    /\ child' = [child EXCEPT ![cur] = cur]
    /\ handlingUnchanged

(* Faulty variant: a resume that fails with ESRCH is tried again.          *)
HandleVanished_retries ==
    /\ loop = "handling" /\ life[cur] # "held"
    /\ loop' = "handling"
    /\ UNCHANGED <<kernelVars, active_pids, main_code>> /\ handlingUnchanged

(* The tracee was killed after waitpid returned its stop.  The handlers of *)
(* system calls and of clone events read the tracee with `?': run() fails  *)
(* if the kill came before that, get_regs of a syscall stop excepted, and  *)
(* a later kill is found by resume_tracee, which takes ESRCH for the end   *)
(* of the task, as the other stops do.                                     *)
HandleVanished ==
    /\ loop = "handling" /\ life[cur] # "held"
    /\ \/ loop' = "top"
       \/ why[cur] \in {"seccomp", "clone", "syscall"} /\ loop' = "failed"
    /\ active_pids' = (active_pids
          \cup (IF why[cur] = "clone" THEN {child[cur]} ELSE {})) \ {cur}
    /\ UNCHANGED <<life, code, term, why, child, main_code>>
    /\ handlingUnchanged

(* EINVAL: poll_known_tracees reaps the dead among the active ones and     *)
(* swallows the stops of others; once the main task has exited the rest is *)
(* killed, polled and pruned.                                              *)
polled == {t \in active_pids : life[t] = "dead"}
life_polled == [t \in Tids |-> IF t \in polled THEN "none"
                               ELSE IF t \in active_pids /\ life[t] = "stopped"
                               THEN "held" ELSE life[t]]
EinvalRetry ==
    /\ loop = "einval"
    /\ life' = life_polled
    /\ active_pids' = {t \in active_pids : life_polled[t] # "none"}
    /\ active_pids' = {} \/ ~main_exited
    /\ loop' = IF active_pids' = {} THEN "done" ELSE "top"
    /\ UNCHANGED <<code, term, why, child, main_code>> /\ handlingUnchanged

EinvalDrain ==
    LET rest == {t \in active_pids : life_polled[t] # "none"}
    IN  /\ loop = "einval" /\ main_exited /\ rest # {}
        /\ \E slow \in SUBSET rest :  \* killed, not dead when polled again
              /\ life' = [t \in Tids |-> IF t \in rest \ slow THEN "none"
                                         ELSE IF t \in slow THEN "dead"
                                         ELSE life_polled[t]]
              /\ active_pids' = slow
              /\ loop' = IF slow = {} THEN "done" ELSE "top"
        /\ code' = [t \in Tids |-> IF t \in rest THEN 128 + SIGKILL ELSE code[t]]
        /\ term' = term \ rest
        /\ UNCHANGED <<why, child, main_code>> /\ handlingUnchanged

Returned == loop \in {"done", "failed"} /\ UNCHANGED vars

LoopStep ==
    \/ Head \/ EINTR \/ Block \/ HandleStop \/ HandleVanished
    \/ EinvalRetry \/ EinvalDrain
    \/ \E t \in Tids : ReturnStop(t) \/ ReturnExit(t)

TaskStep(t) ==
    /\ loop \notin {"done", "failed"}
    /\ \/ \E w \in {"seccomp", "syscall", "term", "rt"} : StopAt(t, w)
       \/ \E c \in Tids : Fork(t, c)
       \/ Exit(t)
       \/ Killed(t)

Next ==
    \/ LoopStep
    \/ \E t \in Tids : TaskStep(t)
    \/ ShutdownSignal \/ Elapse
    \/ Returned

Spec == Init /\ [][Next]_vars
FairSpec == Spec /\ WF_vars(LoopStep)
-----------------------------------------------------------------------------
(* run() returns only when no task is left alive, as long as nothing       *)
(* disturbs it: neither a shutdown nor an EINVAL nor a tracee killed while *)
(* it was stopped (active_pids against the kernel's set of tasks, over     *)
(* forks whose child stops before or after its parent's event).            *)
ReturnsAfterAll ==
    loop = "done" /\ mishaps = {} => \A t \in Tids : life[t] = "none"

(* The exit code is then the one of the started program, though other      *)
(* tasks end before and after it (Exited, Signaled and the breaks).        *)
ExitCodeOfMain ==
    loop = "done" /\ mishaps = {} => exit_code = main_code

(* Before run() blocks it has resumed every task whose stop it was told of *)
(* (the handlers and their `continue' paths), until the first EINVAL.       *)
StopsAnswered ==
    loop = "blocked" /\ "einval" \notin mishaps => \A t \in Tids : life[t] # "held"

(* Once every task is dead run() returns: it neither waits for a task that *)
(* is gone nor keeps one in active_pids for ever (prune_gone_tracees and   *)
(* the EINVAL recovery).                                                   *)
LoopEnds ==
    (\A t \in Tids : ~Alive(t)) ~> loop \in {"done", "failed"}

(* A forced shutdown finishes: once run() has escalated, it returns, and   *)
(* no task outlives it, neither one that begin_shutdown had dropped from   *)
(* active_pids nor one whose parent's clone event it never saw             *)
(* (escalate_shutdown; the integration test looks for a "leftover traced   *)
(* process").                                                              *)
EscalationEnds ==
    shutdown = "escalated" ~>
        loop \in {"done", "failed"} /\ \A t \in Tids : ~Alive(t)

(* A shutdown signal is acted upon: one that arrives while waitpid blocks  *)
(* wakes it, and one that arrives while a stop is handled is seen at the   *)
(* next turn; the second one escalates.  The gap between the check at the  *)
(* head of the loop and waitpid is left out: a signal that arrives there   *)
(* waits for the next stop (update_shutdown_state and the EINTR arm).      *)
Heeding == loop \notin {"calling", "blocked"}
SignalHeeded ==
    /\ SHUTDOWN_COUNT > 0 /\ Heeding
          ~> shutdown # "none" \/ loop \in {"done", "failed"}
    /\ SHUTDOWN_COUNT > 1 /\ shutdown = "begun" /\ Heeding
          ~> shutdown = "escalated" \/ loop \in {"done", "failed"}

(* "Continues tracing until ALL descendant processes have exited."         *)
AllDescendantsExited == loop = "done" => \A t \in Tids : ~Alive(t)

(* "All TCP connections go through the specified proxy": a call that the   *)
(* filter stopped runs only after its handler.  terminate_active_tracees   *)
(* resumes a stopped task without one.                                     *)
EntriesHandled ==
    [][\A t \in Tids :
          Traceable(t) /\ why[t] = "seccomp" /\ life'[t] = "running" =>
              loop = "handling" /\ cur = t]_vars

(* "No crashes or deadlocks under normal use": the end of one tracee does  *)
(* not end run(), and with it the tracing of the others (get_regs(pid)?    *)
(* and get_ptrace_event_msg(pid)? at a stop whose task was killed).        *)
NeverFails == loop # "failed"

(* "Handle SIGINT, SIGTERM, SIGHUP gracefully": every signal starts a      *)
(* shutdown, also one that arrives between the check at the head of the    *)
(* loop and waitpid.                                                       *)
SignalStartsShutdown ==
    SHUTDOWN_COUNT > 0 ~> shutdown # "none" \/ loop \in {"done", "failed"}
=============================================================================
