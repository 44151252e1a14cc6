-------------------------- MODULE TraceLoopProofs ---------------------------
(***************************************************************************)
(* run() against the kernel's set of tasks, for every number of tasks and  *)
(* of shutdown signals, in both modes: it returns after the last task and  *)
(* with the code of the first (until something disturbs it), leaves no     *)
(* stop unanswered, and once it has escalated leaves no task alive.        *)
(*                                                                         *)
(* That active_pids is complete is not inductive: a child may be alive and *)
(* unknown to run() while its parent's clone event is on the way, and the  *)
(* parent's presence keeps the loop going (Covered).                       *)
(***************************************************************************)
EXTENDS TraceLoop, TLAPS

Covered(t) ==
    life[t] # "none" =>
        \/ t \in active_pids
        \/ /\ Traceable(t) /\ why[t] = "start"
           /\ \E p \in Tids : Traceable(p) /\ why[p] = "clone" /\ child[p] = t

(* What holds until the first mishap.                                      *)
Calm ==
    /\ loop = "handling" => life[cur] = "held"
    /\ \A t \in Tids : Covered(t)
    /\ life[Main] = "dead" => code[Main] = main_code
    /\ life[Main] = "none" => exit_code = main_code
    /\ loop = "done" => \A t \in Tids : life[t] = "none"

(* Only the stop being handled is held.                                    *)
HeldOK == \A t \in Tids : life[t] = "held" => loop = "handling" /\ cur = t

LoopInv ==
    /\ TypeOK
    /\ shutdown # "none" => "shutdown" \in mishaps
    /\ loop = "einval" => "einval" \in mishaps
    /\ "einval" \notin mishaps => HeldOK
    /\ mishaps = {} => Calm

LEMMA LoopInit == Init => LoopInv
<1> SUFFICES ASSUME Init PROVE LoopInv
  OBVIOUS
<1>1. TypeOK
  <2>1. /\ life \in [Tids -> Lives] /\ why \in [Tids -> Whys]
        /\ code \in [Tids -> 0 .. 255] /\ child \in [Tids -> Tids]
    BY DEF Init, Lives, Whys
  <2>2. /\ 0 \in 0 .. MaxSignals /\ 0 \in 0 .. 255 /\ Main \in Tids
    BY TraceLoopAssumption
  <2> QED BY <2>1, <2>2 DEF Init, TypeOK
<1>2. HeldOK
  BY DEF Init, HeldOK
<1>3. Calm
  BY TraceLoopAssumption DEF Init, Calm, Covered
<1> QED BY <1>1, <1>2, <1>3 DEF LoopInv, Init
-----------------------------------------------------------------------------
(* A task that was running goes on to another life; run() sees nothing of  *)
(* it yet.                                                                 *)
LEMMA TaskCalm ==
    ASSUME TypeOK, Calm, NEW t \in Tids, life[t] = "running",
           loop \notin {"done", "failed"},
           NEW l \in {"stopped", "dead"}, life' = [life EXCEPT ![t] = l],
           \A u \in Tids : u # t => why'[u] = why[u],
           UNCHANGED <<child, loopVars>>,
           \A u \in Tids : u # t => code'[u] = code[u],
           l = "dead" => main_code' = IF t = Main THEN code'[t] ELSE main_code,
           l # "dead" => UNCHANGED <<code, main_code>>
    PROVE  Calm'
<1>1. /\ UNCHANGED <<loop, cur, active_pids, exit_code>> /\ life'[t] = l
      /\ \A u \in Tids : u # t => life'[u] = life[u]
  BY DEF TypeOK, loopVars
<1>2. ASSUME NEW u \in Tids PROVE Covered(u)'
  <2>1. t \in active_pids /\ Covered(u)
    BY DEF Calm, Covered, Traceable
  <2> QED BY <1>1, <2>1 DEF Covered, Traceable
<1>3. Main \in Tids /\ cur \in Tids
  BY TraceLoopAssumption DEF TypeOK
<1> QED BY <1>1, <1>2, <1>3 DEF Calm

LEMMA TaskLoop ==
    ASSUME LoopInv, NEW t \in Tids, TaskStep(t)
    PROVE  LoopInv'
<1>0. TypeOK /\ loop \notin {"done", "failed"}
  BY DEF LoopInv, TaskStep
<1>1. ASSUME NEW w \in {"seccomp", "syscall", "term", "rt"}, StopAt(t, w)
      PROVE  LoopInv'
  <2>1. /\ life[t] = "running" /\ life' = [life EXCEPT ![t] = "stopped"]
        /\ why' = [why EXCEPT ![t] = w] /\ term' \subseteq term
        /\ UNCHANGED <<code, child, main_code, mishaps, loopVars>>
        /\ UNCHANGED <<SHUTDOWN_COUNT, elapsed>>
    BY <1>1 DEF StopAt, envUnchanged
  <2>2. TypeOK'
    BY <1>0, <2>1 DEF TypeOK, loopVars, Lives, Whys
  <2>3. HeldOK => HeldOK'
    BY <1>0, <2>1 DEF HeldOK, TypeOK, loopVars
  <2>4. Calm => Calm'
    BY <1>0, <2>1, TaskCalm DEF TypeOK
  <2> QED BY <2>1, <2>2, <2>3, <2>4 DEF LoopInv, loopVars
<1>2. ASSUME NEW c \in Tids, Fork(t, c)
      PROVE  LoopInv'
  <2>1. /\ life[t] = "running" /\ life[c] = "none" /\ c # Main /\ c # t
        /\ life' = [life EXCEPT ![t] = "stopped", ![c] = "stopped"]
        /\ why' = [why EXCEPT ![t] = "clone", ![c] = "start"]
        /\ child' = [child EXCEPT ![t] = c]
        /\ UNCHANGED <<code, term, main_code, mishaps, SHUTDOWN_COUNT, elapsed>>
        /\ UNCHANGED <<loop, cur, active_pids, exit_code, main_exited, shutdown>>
    BY <1>2 DEF Fork, envUnchanged, loopVars
  <2>2. TypeOK'
    BY <1>0, <2>1 DEF TypeOK, Lives, Whys
  <2>3. /\ life'[t] = "stopped" /\ life'[c] = "stopped"
        /\ why'[t] = "clone" /\ why'[c] = "start" /\ child'[t] = c
        /\ \A u \in Tids : u \notin {t, c} =>
              life'[u] = life[u] /\ why'[u] = why[u]
        /\ \A u \in Tids : u # t => child'[u] = child[u]
    BY <1>0, <2>1 DEF TypeOK
  <2>4. HeldOK => HeldOK'
    BY <2>1, <2>3 DEF HeldOK
  <2>5. ASSUME Calm PROVE Calm'
    <3>1. t \in active_pids /\ \A u \in Tids : Covered(u)
      BY <2>1, <2>5 DEF Calm, Covered, Traceable
    <3>2. ASSUME NEW u \in Tids PROVE Covered(u)'
      <4>1. CASE u = t
        BY <2>1, <3>1, <4>1 DEF Covered
      <4>2. CASE u = c
        BY <2>1, <2>3, <4>2 DEF Covered, Traceable
      <4>3. CASE u \notin {t, c}
        <5>1. \A p \in Tids : Traceable(p) => p \notin {t, c} /\ Traceable(p)'
          BY <2>1, <2>3 DEF Traceable
        <5>2. CASE u \in active_pids \/ life[u] = "none"
          BY <2>1, <2>3, <4>3, <5>2 DEF Covered
        <5>3. CASE u \notin active_pids /\ life[u] # "none"
          <6>1. PICK p \in Tids : Traceable(p) /\ why[p] = "clone" /\ child[p] = u
            BY <3>1, <5>3 DEF Covered
          <6>2. Traceable(p)' /\ why'[p] = "clone" /\ child'[p] = u
            BY <2>3, <5>1, <6>1
          <6>3. Traceable(u)' /\ why'[u] = "start"
            BY <2>3, <3>1, <4>3, <5>1, <5>3 DEF Covered
          <6> QED BY <6>2, <6>3 DEF Covered
        <5> QED BY <5>2, <5>3
      <4> QED BY <4>1, <4>2, <4>3
    <3>3. Main \in Tids /\ cur \in Tids
      BY <1>0, TraceLoopAssumption DEF TypeOK
    <3> QED BY <1>0, <2>1, <2>3, <2>5, <3>2, <3>3 DEF Calm
  <2> QED BY <2>1, <2>2, <2>4, <2>5 DEF LoopInv
<1>3. ASSUME Exit(t)
      PROVE  LoopInv'
  <2>1. /\ life[t] = "running" /\ life' = [life EXCEPT ![t] = "dead"]
        /\ code' = [code EXCEPT ![t] = OwnCode] /\ term' = term \ {t}
        /\ main_code' = IF t = Main THEN OwnCode ELSE main_code
        /\ UNCHANGED <<why, child, mishaps, loopVars>>
        /\ UNCHANGED <<SHUTDOWN_COUNT, elapsed>>
    BY <1>3 DEF Exit, envUnchanged, note
  <2>2. TypeOK'
    BY <1>0, <2>1 DEF TypeOK, loopVars, Lives, OwnCode
  <2>3. HeldOK => HeldOK'
    BY <1>0, <2>1 DEF HeldOK, TypeOK, loopVars
  <2>4. /\ code'[t] = OwnCode /\ \A u \in Tids : u # t => code'[u] = code[u]
    BY <1>0, <2>1 DEF TypeOK
  <2>5. Calm => Calm'
    BY <1>0, <2>1, <2>4, TaskCalm
  <2> QED BY <2>1, <2>2, <2>3, <2>5 DEF LoopInv, loopVars
<1>4. ASSUME Killed(t)
      PROVE  LoopInv'
  <2>1. /\ Alive(t) /\ life' = [life EXCEPT ![t] = "dead"]
        /\ code' = [code EXCEPT ![t] = 128 + SIGKILL] /\ term' = term \ {t}
        /\ main_code' = IF t = Main THEN 128 + SIGKILL ELSE main_code
        /\ mishaps' = IF life[t] = "running" THEN mishaps
                      ELSE mishaps \cup {"vanished"}
        /\ UNCHANGED <<why, child, loopVars, SHUTDOWN_COUNT, elapsed>>
    BY <1>4 DEF Killed, envUnchanged, note
  <2>2. TypeOK'
    BY <1>0, <2>1 DEF TypeOK, loopVars, Lives, SIGKILL
  <2>3. HeldOK => HeldOK'
    BY <1>0, <2>1 DEF HeldOK, TypeOK, loopVars
  <2>4. /\ code'[t] = 128 + SIGKILL
        /\ \A u \in Tids : u # t => code'[u] = code[u]
    BY <1>0, <2>1 DEF TypeOK
  <2>5. mishaps' = {} => mishaps = {} /\ life[t] = "running"
    BY <2>1
  <2>6. Calm /\ life[t] = "running" => Calm'
    BY <1>0, <2>1, <2>4, TaskCalm
  <2>7. \A x \in {"shutdown", "einval"} : x \in mishaps' <=> x \in mishaps
    BY <2>1
  <2> QED BY <2>1, <2>2, <2>3, <2>5, <2>6, <2>7 DEF LoopInv, loopVars
<1> QED BY <1>1, <1>2, <1>3, <1>4 DEF TaskStep
-----------------------------------------------------------------------------
(* run() looks at its tasks and changes none of them.                      *)
LEMMA UpdateLoop ==
    ASSUME LoopInv, NEW active, active = prune_gone_tracees(active_pids),
           loop \in {"top", "interrupted"}, loop' \in {"calling", "top"},
           update_shutdown_state(active),
           UNCHANGED <<why, child, cur, main_exited, SHUTDOWN_COUNT, elapsed>>
    PROVE  LoopInv'
<1>0. TypeOK /\ active \subseteq Tids
  BY DEF LoopInv, TypeOK, prune_gone_tracees
<1>1. CASE begin_shutdown(active)
  <2>1. PICK caught \in SUBSET {t \in active : life[t] = "running"} :
          /\ life' = [t \in Tids |-> IF t \in active /\ Traceable(t)
                                     THEN "running" ELSE life[t]]
          /\ term' = {t \in Tids : Alive(t)}
          /\ active_pids' = {t \in active : Traceable(t)} \cup caught
          /\ exit_code' = 128 + SIGINT /\ shutdown' = "begun"
          /\ mishaps' = mishaps \cup {"shutdown"}
          /\ UNCHANGED <<code, main_code>>
    BY <1>1 DEF begin_shutdown
  <2>2. TypeOK'
    <3>1. /\ life' \in [Tids -> Lives] /\ term' \subseteq Tids
          /\ active_pids' \subseteq Tids /\ exit_code' \in 0 .. 255
      BY <1>0, <2>1 DEF TypeOK, Lives, SIGINT
    <3> QED BY <1>0, <2>1, <3>1 DEF TypeOK
  <2>3. HeldOK => HeldOK'
    BY <2>1 DEF HeldOK
  <2> QED BY <2>1, <2>2, <2>3 DEF LoopInv
<1>2. CASE shutdown = "begun" /\ escalate_shutdown(active)
  <2>1. /\ life' = [t \in Tids |-> IF t \in Tids /\ Alive(t)
                                   THEN "dead" ELSE life[t]]
        /\ code' = [t \in Tids |-> IF t \in Tids /\ Alive(t)
                                   THEN 128 + SIGKILL ELSE code[t]]
        /\ term' = {t \in term : t \notin Tids}
        /\ main_code' = IF Main \in Tids /\ Alive(Main)
                        THEN 128 + SIGKILL ELSE main_code
        /\ active_pids' = active /\ shutdown' = "escalated"
        /\ UNCHANGED <<exit_code, mishaps>>
    BY <1>2 DEF escalate_shutdown, kill_active_tracees
  <2>2. TypeOK'
    <3>1. /\ life' \in [Tids -> Lives] /\ code' \in [Tids -> 0 .. 255]
          /\ term' \subseteq Tids /\ main_code' \in 0 .. 255
          /\ active_pids' \subseteq Tids
      BY <1>0, <2>1 DEF TypeOK, Lives, SIGKILL
    <3> QED BY <1>0, <2>1, <3>1 DEF TypeOK
  <2>3. HeldOK => HeldOK'
    BY <2>1 DEF HeldOK
  <2>4. "shutdown" \in mishaps
    BY <1>2 DEF LoopInv
  <2> QED BY <2>1, <2>2, <2>3, <2>4 DEF LoopInv
<1>3. CASE /\ active_pids' = active
           /\ UNCHANGED <<life, term, code, exit_code, shutdown, main_code, mishaps>>
  <2>1. TypeOK'
    BY <1>0, <1>3 DEF TypeOK
  <2>2. HeldOK => HeldOK'
    BY <1>3 DEF HeldOK
  <2>3. ASSUME NEW t \in Tids, Covered(t) PROVE Covered(t)'
    BY <1>3, <2>3 DEF Covered, Traceable, prune_gone_tracees
  <2>4. Calm => Calm'
    BY <1>3, <2>3 DEF Calm
  <2> QED BY <1>3, <2>1, <2>2, <2>4 DEF LoopInv
<1> QED BY <1>1, <1>2, <1>3 DEF update_shutdown_state

(* Whoever run() does not know of has a parent that it does know of.       *)
LEMMA NoneActive ==
    ASSUME Calm, \A t \in active_pids : life[t] = "none"
    PROVE  \A t \in Tids : life[t] = "none"
<1> SUFFICES ASSUME NEW t \in Tids, life[t] # "none" PROVE FALSE
  OBVIOUS
<1>1. PICK p \in Tids : Traceable(p) /\ why[p] = "clone"
  BY DEF Calm, Covered
<1>2. p \in active_pids /\ life[p] # "none"
  BY <1>1 DEF Calm, Covered, Traceable
<1> QED BY <1>2

LEMMA TurnLoop ==
    ASSUME LoopInv, NEW from \in {"top", "interrupted"},
           NEW to \in {"calling", "top"}, Turn(from, to)
    PROVE  LoopInv'
<1>1. PICK active : active = prune_gone_tracees(active_pids)
  OBVIOUS
<1>2. CASE active # {}
  BY <1>1, <1>2, UpdateLoop DEF Turn
<1>3. CASE active = {}
  <2>1. /\ loop' = "done" /\ active_pids' = {}
        /\ UNCHANGED <<life, term, code, exit_code, shutdown, main_code, mishaps>>
        /\ UNCHANGED <<why, child, cur, main_exited, SHUTDOWN_COUNT, elapsed>>
        /\ loop = from
    BY <1>1, <1>3 DEF Turn
  <2>2. TypeOK' /\ (HeldOK => HeldOK')
    BY <2>1 DEF LoopInv, TypeOK, HeldOK
  <2>3. ASSUME Calm PROVE Calm'
    <3>1. \A t \in Tids : life[t] = "none"
      BY <1>1, <1>3, <2>3, NoneActive DEF prune_gone_tracees
    <3> QED BY <2>1, <2>3, <3>1 DEF Calm, Covered
  <2> QED BY <2>1, <2>2, <2>3 DEF LoopInv
<1> QED BY <1>2, <1>3

LEMMA BlockLoop ==
    ASSUME LoopInv, Block
    PROVE  LoopInv'
<1>1. /\ UNCHANGED <<life, why, code, child, term, cur, active_pids>>
      /\ UNCHANGED <<exit_code, main_exited, shutdown, SHUTDOWN_COUNT, elapsed>>
      /\ UNCHANGED <<main_code, mishaps>> /\ loop = "calling"
      /\ loop' \in {"blocked", "done"}
      /\ loop' = "done" => \A t \in Tids : life[t] = "none"
  BY DEF Block, kernelVars
<1>2. TypeOK' /\ (HeldOK => HeldOK')
  BY <1>1 DEF LoopInv, TypeOK, HeldOK
<1>3. Calm => Calm'
  BY <1>1 DEF Calm, Covered, Traceable
<1> QED BY <1>1, <1>2, <1>3 DEF LoopInv

LEMMA SignalLoop ==
    ASSUME LoopInv, ShutdownSignal \/ Elapse \/ UNCHANGED vars
    PROVE  LoopInv'
<1>1. /\ UNCHANGED <<life, why, code, child, term, cur, active_pids>>
      /\ UNCHANGED <<exit_code, main_exited, shutdown, main_code, mishaps>>
      /\ loop' = loop \/ (loop = "blocked" /\ loop' = "interrupted")
      /\ \/ UNCHANGED SHUTDOWN_COUNT
         \/ SHUTDOWN_COUNT < MaxSignals /\ SHUTDOWN_COUNT' = SHUTDOWN_COUNT + 1
      /\ elapsed' \in {elapsed, TRUE}
  BY DEF ShutdownSignal, Elapse, vars, kernelVars, loopVars
<1>2. SHUTDOWN_COUNT' \in 0 .. MaxSignals
  BY <1>1, TraceLoopAssumption DEF LoopInv, TypeOK
<1>3. TypeOK' /\ (HeldOK => HeldOK')
  BY <1>1, <1>2 DEF LoopInv, TypeOK, HeldOK
<1>4. Calm => Calm'
  BY <1>1 DEF Calm, Covered, Traceable
<1> QED BY <1>1, <1>3, <1>4 DEF LoopInv

LEMMA ReturnStopLoop ==
    ASSUME LoopInv, NEW t \in Tids, ReturnStop(t)
    PROVE  LoopInv'
<1>1. /\ loop \in {"calling", "blocked"} /\ life[t] = "stopped"
      /\ life' = [life EXCEPT ![t] = "held"] /\ cur' = t
      /\ loop' = IF why[t] = "rt" THEN "einval" ELSE "handling"
      /\ mishaps' = IF why[t] = "rt" THEN mishaps \cup {"einval"} ELSE mishaps
      /\ UNCHANGED <<why, code, child, term, active_pids, exit_code>>
      /\ UNCHANGED <<main_exited, shutdown, SHUTDOWN_COUNT, elapsed, main_code>>
  BY DEF ReturnStop
<1>2. TypeOK'
  BY <1>1 DEF LoopInv, TypeOK, Lives
<1>3. life'[t] = "held" /\ \A u \in Tids : u # t => life'[u] = life[u]
  BY <1>1 DEF LoopInv, TypeOK
<1>4. HeldOK /\ why[t] # "rt" => HeldOK'
  BY <1>1, <1>3 DEF HeldOK
<1>5. ASSUME Calm, why[t] # "rt" PROVE Calm'
  <2>1. ASSUME NEW u \in Tids PROVE Covered(u)'
    <3>1. \A p \in Tids : Traceable(p) => Traceable(p)'
      BY <1>3 DEF Traceable
    <3> QED BY <1>1, <1>3, <1>5, <3>1 DEF Calm, Covered
  <2>2. Main \in Tids
    BY TraceLoopAssumption
  <2> QED BY <1>1, <1>3, <1>5, <2>1, <2>2 DEF Calm
<1> QED BY <1>1, <1>2, <1>4, <1>5 DEF LoopInv

(* The last active task takes nobody's parent along.                       *)
LEMMA ReturnExitLoop ==
    ASSUME LoopInv, NEW t \in Tids, ReturnExit(t)
    PROVE  LoopInv'
<1>1. /\ loop \in {"calling", "blocked"} /\ life[t] = "dead"
      /\ life' = [life EXCEPT ![t] = "none"]
      /\ active_pids' = active_pids \ {t}
      /\ exit_code' = IF t = Main THEN code[t] ELSE exit_code
      /\ main_exited' = (main_exited \/ t = Main)
      /\ loop' = IF active_pids \ {t} = {} THEN "done" ELSE "top"
      /\ UNCHANGED <<why, code, child, term, cur, shutdown>>
      /\ UNCHANGED <<SHUTDOWN_COUNT, elapsed, main_code, mishaps>>
  BY DEF ReturnExit, exit_code_after, loop_after
<1>2. TypeOK'
  <2>1. /\ life' \in [Tids -> Lives] /\ exit_code' \in 0 .. 255
        /\ active_pids' \subseteq Tids
    BY <1>1 DEF LoopInv, TypeOK, Lives
  <2>2. main_exited' \in BOOLEAN
    BY <1>1
  <2> QED BY <1>1, <2>1, <2>2 DEF LoopInv, TypeOK
<1>3. life'[t] = "none" /\ \A u \in Tids : u # t => life'[u] = life[u]
  BY <1>1 DEF LoopInv, TypeOK
<1>4. HeldOK => HeldOK'
  BY <1>1, <1>3 DEF HeldOK
<1>5. ASSUME Calm PROVE Calm'
  <2>1. \A p \in Tids : Traceable(p) => p # t /\ Traceable(p)'
    BY <1>1, <1>3 DEF Traceable
  <2>2. ASSUME NEW u \in Tids PROVE Covered(u)'
    BY <1>1, <1>3, <1>5, <2>1 DEF Calm, Covered
  <2>3. ASSUME active_pids \ {t} = {} PROVE \A u \in Tids : life'[u] = "none"
    <3> SUFFICES ASSUME NEW u \in Tids, life'[u] # "none" PROVE FALSE
      OBVIOUS
    <3>1. PICK p \in Tids : Traceable(p) /\ why[p] = "clone"
      BY <1>3, <1>5, <2>3 DEF Calm, Covered
    <3>2. p \in active_pids /\ p # t
      BY <1>5, <2>1, <3>1 DEF Calm, Covered, Traceable
    <3> QED BY <2>3, <3>2
  <2>4. life'[Main] = "none" => exit_code' = main_code'
    BY <1>1, <1>3, <1>5, TraceLoopAssumption DEF Calm
  <2>5. life'[Main] = "dead" => code'[Main] = main_code'
    BY <1>1, <1>3, <1>5, TraceLoopAssumption DEF Calm
  <2> QED BY <1>1, <2>2, <2>3, <2>4, <2>5 DEF Calm
<1> QED BY <1>1, <1>2, <1>4, <1>5 DEF LoopInv

LEMMA HandleStopLoop ==
    ASSUME LoopInv, HandleStop
    PROVE  LoopInv'
<1>0. PICK c \in Tids : c = cur
  BY DEF LoopInv, TypeOK
<1>1. /\ loop = "handling" /\ life[c] = "held" /\ loop' = "top"
      /\ active_pids' = active_pids
            \cup (IF why[c] = "term" THEN {} ELSE {c})
            \cup (IF why[c] = "clone" THEN {child[c]} ELSE {})
      /\ why' = [why EXCEPT ![c] = "start"]
      /\ child' = [child EXCEPT ![c] = c]
      /\ UNCHANGED <<cur, main_exited, shutdown, exit_code>>
      /\ UNCHANGED <<SHUTDOWN_COUNT, elapsed, mishaps>>
  BY <1>0 DEF HandleStop, handlingUnchanged
<1>2. \/ /\ life' = [life EXCEPT ![c] = "running"]
         /\ UNCHANGED <<code, term, main_code>>
      \/ /\ life' = [life EXCEPT ![c] = "dead"]
         /\ code' = [code EXCEPT ![c] = 143] /\ term' = term \ {c}
         /\ main_code' = IF c = Main THEN 143 ELSE main_code
  BY <1>0 DEF HandleStop, note, SIGTERM
<1>3. TypeOK'
  <2>1. /\ life' \in [Tids -> Lives] /\ why' \in [Tids -> Whys]
        /\ code' \in [Tids -> 0 .. 255] /\ child' \in [Tids -> Tids]
        /\ term' \subseteq Tids /\ main_code' \in 0 .. 255
    BY <1>1, <1>2 DEF LoopInv, TypeOK, Lives, Whys
  <2>2. active_pids' \subseteq Tids
    BY <1>1 DEF LoopInv, TypeOK
  <2> QED BY <1>1, <2>1, <2>2 DEF LoopInv, TypeOK
<1>4. /\ life'[c] \in {"running", "dead"} /\ why'[c] = "start"
      /\ \A u \in Tids : u # c => /\ life'[u] = life[u] /\ why'[u] = why[u]
                                  /\ child'[u] = child[u] /\ code'[u] = code[u]
      /\ life'[c] = "dead" /\ c = Main => code'[c] = main_code'
      /\ c # Main => main_code' = main_code
  BY <1>1, <1>2 DEF LoopInv, TypeOK
<1>5. HeldOK => HeldOK'
  BY <1>0, <1>1, <1>4 DEF HeldOK
<1>6. ASSUME Calm PROVE Calm'
  <2>1. c \in active_pids'
    BY <1>1, <1>6 DEF Calm, Covered
  <2>2. ASSUME NEW u \in Tids PROVE Covered(u)'
    <3>1. CASE u = c
      BY <2>1, <3>1 DEF Covered
    <3>2. CASE u # c
      <4>1. CASE u \in active_pids \/ life[u] = "none"
        BY <1>1, <1>4, <3>2, <4>1 DEF Covered
      <4>2. CASE u \notin active_pids /\ life[u] # "none"
        <5>1. PICK p \in Tids : Traceable(p) /\ why[p] = "clone" /\ child[p] = u
          BY <1>6, <4>2 DEF Calm, Covered
        <5>2. CASE p = c
          BY <1>1, <5>1, <5>2 DEF Covered
        <5>3. CASE p # c
          <6>1. Traceable(p)' /\ why'[p] = "clone" /\ child'[p] = u
            BY <1>4, <5>1, <5>3 DEF Traceable
          <6>2. Traceable(u)' /\ why'[u] = "start"
            BY <1>4, <1>6, <3>2, <4>2 DEF Calm, Covered, Traceable
          <6> QED BY <6>1, <6>2 DEF Covered
        <5> QED BY <5>2, <5>3
      <4> QED BY <4>1, <4>2
    <3> QED BY <3>1, <3>2
  <2>3. life'[Main] = "none" => exit_code' = main_code'
    BY <1>1, <1>4, <1>6, TraceLoopAssumption DEF Calm
  <2>4. life'[Main] = "dead" => code'[Main] = main_code'
    BY <1>1, <1>4, <1>6, TraceLoopAssumption DEF Calm
  <2> QED BY <1>1, <2>2, <2>3, <2>4 DEF Calm
<1> QED BY <1>1, <1>3, <1>5, <1>6 DEF LoopInv

LEMMA VanishedLoop ==
    ASSUME LoopInv, HandleVanished
    PROVE  LoopInv'
<1>1. /\ loop = "handling" /\ life[cur] # "held"
      /\ loop' \in {"failed", "top"}
      /\ active_pids' \subseteq active_pids \cup {child[cur]}
      /\ UNCHANGED <<life, code, term, why, child, main_code>>
      /\ UNCHANGED <<cur, main_exited, shutdown, exit_code>>
      /\ UNCHANGED <<SHUTDOWN_COUNT, elapsed, mishaps>>
  BY DEF HandleVanished, handlingUnchanged
<1>2. TypeOK' /\ (HeldOK => HeldOK') /\ ~Calm
  BY <1>1 DEF LoopInv, TypeOK, HeldOK, Calm
<1> QED BY <1>1, <1>2 DEF LoopInv

(* The recovery from EINVAL: every promise but the types is off.           *)
LEMMA EinvalLoop ==
    ASSUME LoopInv, EinvalRetry \/ EinvalDrain
    PROVE  LoopInv'
<1>0. TypeOK /\ loop = "einval" /\ "einval" \in mishaps
  BY DEF LoopInv, EinvalRetry, EinvalDrain
<1>1. /\ UNCHANGED <<why, child, main_code, cur, main_exited, shutdown>>
      /\ UNCHANGED <<exit_code, SHUTDOWN_COUNT, elapsed, mishaps>>
      /\ loop' \in {"done", "top"}
  BY DEF EinvalRetry, EinvalDrain, handlingUnchanged
<1>2. life_polled \in [Tids -> Lives]
  BY <1>0 DEF life_polled, TypeOK, Lives
<1>3. CASE EinvalRetry
  <2>1. /\ life' \in [Tids -> Lives] /\ active_pids' \subseteq Tids
        /\ UNCHANGED <<code, term>>
    BY <1>0, <1>2, <1>3 DEF EinvalRetry, TypeOK
  <2> QED BY <1>0, <1>1, <2>1 DEF LoopInv, TypeOK
<1>4. CASE EinvalDrain
  <2> DEFINE rest == {t \in active_pids : life_polled[t] # "none"}
  <2>1. /\ \E slow \in SUBSET rest :
              /\ life' = [t \in Tids |-> IF t \in rest \ slow THEN "none"
                                         ELSE IF t \in slow THEN "dead"
                                         ELSE life_polled[t]]
              /\ active_pids' = slow
        /\ code' = [t \in Tids |-> IF t \in rest THEN 128 + SIGKILL ELSE code[t]]
        /\ term' = term \ rest
    BY <1>4 DEF EinvalDrain
  <2>2. /\ life' \in [Tids -> Lives] /\ active_pids' \subseteq Tids
    BY <1>0, <1>2, <2>1 DEF TypeOK, Lives
  <2>3. code' \in [Tids -> 0 .. 255] /\ term' \subseteq Tids
    BY <1>0, <2>1 DEF TypeOK, SIGKILL
  <2> QED BY <1>0, <1>1, <2>2, <2>3 DEF LoopInv, TypeOK
<1> QED BY <1>3, <1>4
-----------------------------------------------------------------------------
LEMMA LoopInvariant == Spec => []LoopInv
<1>1. LoopInv /\ [Next]_vars => LoopInv'
  <2> SUFFICES ASSUME LoopInv, [Next]_vars PROVE LoopInv'
    OBVIOUS
  <2>1. CASE LoopStep
    <3>1. CASE Head \/ EINTR
      BY <3>1, TurnLoop DEF Head, EINTR
    <3>2. CASE Block \/ HandleStop \/ HandleVanished
      BY <3>2, BlockLoop, HandleStopLoop, VanishedLoop
    <3>3. CASE EinvalRetry \/ EinvalDrain
      BY <3>3, EinvalLoop
    <3>4. CASE \E t \in Tids : ReturnStop(t) \/ ReturnExit(t)
      BY <3>4, ReturnStopLoop, ReturnExitLoop
    <3> QED BY <2>1, <3>1, <3>2, <3>3, <3>4 DEF LoopStep
  <2>2. CASE \E t \in Tids : TaskStep(t)
    BY <2>2, TaskLoop
  <2>3. CASE ShutdownSignal \/ Elapse \/ UNCHANGED vars
    BY <2>3, SignalLoop
  <2> QED BY <2>1, <2>2, <2>3 DEF Next, Returned
<1> QED BY <1>1, LoopInit, PTL DEF Spec

(* The types of run()'s variables and of the kernel's: exit codes stay     *)
(* bytes, a signal being 128 + n.                                          *)
THEOREM LoopTypeOK == Spec => []TypeOK
<1>1. LoopInv => TypeOK
  BY DEF LoopInv
<1> QED BY <1>1, LoopInvariant, PTL

(* run() returns only after the last task, whatever the order in which     *)
(* forks, clone events, first stops and exits reach it, until a shutdown,  *)
(* an EINVAL or the death of a stopped tracee: active_pids misses no task  *)
(* whose parent's event is not still to come.                              *)
THEOREM LoopOutlivesTasks == Spec => []ReturnsAfterAll
<1>1. LoopInv => ReturnsAfterAll
  BY DEF LoopInv, Calm, ReturnsAfterAll
<1> QED BY <1>1, LoopInvariant, PTL

(* The exit code is then the started program's, in whatever order the      *)
(* other tasks end.                                                        *)
THEOREM ExitCodeIsMains == Spec => []ExitCodeOfMain
<1>1. LoopInv => ExitCodeOfMain
  BY TraceLoopAssumption DEF LoopInv, Calm, ExitCodeOfMain
<1> QED BY <1>1, LoopInvariant, PTL

(* No stop that waitpid reported is left without a resume when run()       *)
(* blocks again, also after a shutdown and after ESRCH, until the first    *)
(* EINVAL.                                                                 *)
THEOREM NoStopForgotten == Spec => []StopsAnswered
<1>1. LoopInv => StopsAnswered
  BY DEF LoopInv, HeldOK, StopsAnswered
<1> QED BY <1>1, LoopInvariant, PTL

-----------------------------------------------------------------------------
(* Once the shutdown has escalated no task is alive, and none comes alive  *)
(* again: the group was killed, nobody is left to fork, and run() resumes  *)
(* only what is stopped (the safety half of EscalationEnds).               *)
NoneLeft == shutdown = "escalated" => \A t \in Tids : ~Alive(t)

THEOREM EscalationLeavesNone == Spec => []NoneLeft
<1>1. Init => NoneLeft
  BY DEF Init, NoneLeft
<1>2. LoopInv /\ NoneLeft /\ [Next]_vars => NoneLeft'
  <2> SUFFICES ASSUME LoopInv, NoneLeft, [Next]_vars, shutdown' = "escalated",
                      NEW t \in Tids
               PROVE  ~Alive(t)'
    BY DEF NoneLeft
  <2>0. life \in [Tids -> Lives] /\ cur \in Tids
    BY DEF LoopInv, TypeOK
  <2>1. CASE shutdown # "escalated"
    <3>1. ASSUME NEW active, update_shutdown_state(active)
          PROVE  life'[t] = IF Alive(t) THEN "dead" ELSE life[t]
      BY <2>1, <3>1
      DEF update_shutdown_state, begin_shutdown, escalate_shutdown,
          kill_active_tracees
    <3>2. CASE Head \/ EINTR
      BY <2>1, <3>1, <3>2 DEF Head, EINTR, Turn, Alive
    <3>3. CASE \/ Block \/ HandleStop \/ HandleVanished \/ EinvalRetry
               \/ EinvalDrain \/ ShutdownSignal \/ Elapse
               \/ \E u \in Tids : ReturnStop(u) \/ ReturnExit(u)
      BY <2>1, <3>3
      DEF Block, HandleStop, HandleVanished, EinvalRetry, EinvalDrain,
          handlingUnchanged, ShutdownSignal, Elapse, loopVars, ReturnStop,
          ReturnExit
    <3>4. CASE \E u \in Tids : TaskStep(u)
      BY <2>1, <3>4
      DEF TaskStep, StopAt, Fork, Exit, Killed, envUnchanged, loopVars
    <3>5. CASE Returned \/ UNCHANGED vars
      BY <2>1, <3>5 DEF Returned, vars, loopVars
    <3> QED BY <3>2, <3>3, <3>4, <3>5 DEF Next, LoopStep
  <2>2. CASE shutdown = "escalated"
    <3>0. \A u \in Tids : ~Alive(u) /\ life[u] \in {"none", "dead"}
      BY <2>0, <2>2 DEF NoneLeft, Alive, Lives
    <3>1. CASE UNCHANGED life
      BY <3>0, <3>1 DEF Alive
    <3>2. CASE Head \/ EINTR
      BY <2>2, <3>0, <3>2
      DEF Head, EINTR, Turn, update_shutdown_state, Alive
    <3>3. CASE \/ Block \/ HandleVanished \/ ShutdownSignal \/ Elapse
               \/ Returned \/ UNCHANGED vars
      BY <3>1, <3>3 DEF Block, HandleVanished, ShutdownSignal, Elapse,
                        Returned, vars, kernelVars
    <3>4. CASE HandleStop \/ \E u \in Tids : ReturnStop(u) \/ TaskStep(u)
      BY <2>0, <3>0, <3>4 DEF HandleStop, ReturnStop, TaskStep, StopAt, Fork,
                              Exit, Killed
    <3>5. CASE \E u \in Tids : ReturnExit(u)
      BY <2>0, <3>0, <3>5 DEF ReturnExit, Alive
    <3>6. CASE EinvalRetry \/ EinvalDrain
      <4>1. life_polled[t] \in {"none", "dead"}
        BY <3>0 DEF life_polled
      <4>2. life'[t] \in {"none", "dead", life_polled[t]}
        BY <3>6 DEF EinvalRetry, EinvalDrain
      <4> QED BY <4>1, <4>2 DEF Alive
    <3> QED BY <3>2, <3>3, <3>4, <3>5, <3>6 DEF Next, LoopStep
  <2> QED BY <2>1, <2>2
<1> QED BY <1>1, <1>2, LoopInvariant, PTL DEF Spec
=============================================================================
