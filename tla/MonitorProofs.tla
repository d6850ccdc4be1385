---------------------------- MODULE MonitorProofs ----------------------------
(***************************************************************************)
(* Theorems about process-monitor.ts: about ProcessMonitor, for every      *)
(* number of restarts, children and errors, and about LogFile, for every   *)
(* number of lines, readers, trims and crashes.                            *)
(*                                                                         *)
(* The argument about ProcessMonitor is about the child processes that     *)
(* have not been reported as gone: while there is one, no timer and no     *)
(* start() can bring another into being.  The one about LogFile follows a  *)
(* line from the append that writes it to the file or answer it is in.     *)
(***************************************************************************)
EXTENDS ProcessMonitor, LogFile, FiniteSetTheorems, SequenceTheorems, TLAPS

Unreported == {"alive", "clean", "error", "signal"}

(* The children whose exit has not been reported yet. *)
Present == {c \in Children : os[c] \in Unreported}

(* Children are numbered in the order of their spawns, and only the last   *)
(* one, this.childProcess, can still be there.                             *)
LastChildOnly ==
    /\ \A c \in Children : os[c] # "none" => c <= spawned
    /\ child <= spawned
    /\ Present \subseteq {child}

(* A restart is under way only when there is no child, and from one place. *)
OneRestart ==
    /\ Present # {} => ~timer /\ starter = "idle"
    /\ starter # "idle" => ~timer
    /\ timer \/ starter # "idle" => state # "running"

(* running is set with a child, and unset when its exit is reported. *)
RunningHasChild == state = "running" => child # NoChild /\ os[child] # "reaped"

(* Every start but the one after a stable run has been paid for by a       *)
(* restart that was counted.                                               *)
StartsCounted ==
    /\ timer \/ starter \in {"begin", "timerLog", "startLog"} => inARow <= restarts
    /\ Present # {} => inARow <= restarts + 1
    /\ inARow <= MaxRestarts + 1

(* Once killProcess has returned to stop(), the child it was called for is *)
(* not alive, and no later child takes its number.                         *)
TargetDead ==
    /\ target["runner"] <= spawned
    /\ runner # "killing" => target["runner"] \notin Alive

MonitorInv ==
    /\ TypeOK
    /\ LastChildOnly
    /\ OneRestart
    /\ RunningHasChild
    /\ StartsCounted
    /\ TargetDead

-----------------------------------------------------------------------------
(* Types.                                                                  *)

LEMMA MonitorTypeInit == Init => TypeOK
<1> SUFFICES ASSUME Init PROVE TypeOK
  OBVIOUS
<1> USE MonitorAssumption DEF MonitorAssumption, Init
<1>1. /\ os \in [Children -> Fates]
      /\ target \in [{"runner", "health"} -> Children \cup {NoChild}]
  BY DEF Fates
<1>2. /\ spawned \in 0 .. MaxSpawns /\ restarts \in 0 .. MaxRestarts
  OBVIOUS
<1> QED
  BY <1>1, <1>2 DEF TypeOK, States, StarterPcs, RunnerPcs, KillerPcs

LEMMA ResetTypes ==
    ASSUME TypeOK, Reset
    PROVE  /\ restarts' \in 0 .. MaxRestarts
           /\ portFailures' \in Nat /\ healthBusy' \in BOOLEAN
<1> USE MonitorAssumption DEF MonitorAssumption, TypeOK
<1>1. restarts' = 0 \/ restarts' = restarts
  BY DEF Reset
<1>2. portFailures' = portFailures \/ portFailures' = 0
  BY DEF Reset
<1>3. healthBusy' \in BOOLEAN
    <2>1. CASE starter = "stableLog"
      BY <2>1 DEF Reset
    <2>2. CASE starter # "stableLog"
      BY <2>2 DEF Reset
    <2> QED
      BY <2>1, <2>2
<1>4. restarts' \in 0 .. MaxRestarts
  BY <1>1
<1> QED
  BY <1>2, <1>3, <1>4

(* Every step of start() and of the restart timer. *)
LEMMA StarterTypes ==
    ASSUME TypeOK, Starter \/ RestartTimer PROVE TypeOK'
<1> USE MonitorAssumption
    DEF MonitorAssumption, TypeOK, Children, NoChild, States, Fates, StarterPcs, RunnerPcs,
        process, counts, healthVars, threads
<1>1. CASE Begin
  BY <1>1 DEF Begin
<1>2. CASE StableRun
  BY <1>2 DEF StableRun
<1>3. CASE Spawn
    <2>1. /\ restarts' \in 0 .. MaxRestarts
          /\ portFailures' \in Nat /\ healthBusy' \in BOOLEAN
      BY <1>3, ResetTypes DEF Spawn
    <2>2. spawned' \in 0 .. MaxSpawns /\ child' \in Children
      BY <1>3 DEF Spawn
    <2>3. os' \in [Children -> Fates]
      BY <1>3 DEF Spawn
    <2> QED
      BY <1>3, <2>1, <2>2, <2>3 DEF Spawn
<1>4. CASE SpawnRefused
    <2>1. /\ restarts' \in 0 .. MaxRestarts
          /\ portFailures' \in Nat /\ healthBusy' \in BOOLEAN
      BY <1>4, ResetTypes DEF SpawnRefused
    <2> QED
      BY <1>4, <2>1 DEF SpawnRefused
<1>5. CASE ErrorUnheard
  BY <1>5 DEF ErrorUnheard
<1>6. CASE StartFailed
  BY <1>6 DEF StartFailed
<1>7. CASE RestartTimer
  BY <1>7 DEF RestartTimer
<1> QED
  BY <1>1, <1>2, <1>3, <1>4, <1>5, <1>6, <1>7 DEF Starter

(* Every step of stop(), cleanup() and the shutdown. *)
LEMMA RunnerTypes ==
    ASSUME TypeOK, Runner \/ Shutdown PROVE TypeOK'
<1> USE MonitorAssumption
    DEF MonitorAssumption, TypeOK, Children, NoChild, States, Fates, StarterPcs, RunnerPcs,
        process, counts, healthVars, threads
<1>1. CASE Booted
  BY <1>1 DEF Booted
<1>2. CASE StopMark
  BY <1>2 DEF StopMark, EnterKill, ListenTo
<1>3. CASE StopKill
  BY <1>3 DEF StopKill, EnterKill, ListenTo
<1>4. CASE StopKilled
  BY <1>4 DEF StopKilled
<1>5. CASE StopTimeout
  BY <1>5 DEF StopTimeout, ForceKill
<1>6. CASE StopEnd
  BY <1>6 DEF StopEnd, Returned
<1>7. CASE Cleanup
  BY <1>7 DEF Cleanup, EnterStop
<1>8. CASE Exit
  BY <1>8 DEF Exit
<1>9. CASE Shutdown
  BY <1>9 DEF Shutdown, EnterStop
<1> QED
  BY <1>1, <1>2, <1>3, <1>4, <1>5, <1>6, <1>7, <1>8, <1>9 DEF Runner

(* Every step of the health check. *)
LEMMA HealthTypes ==
    ASSUME TypeOK, Health PROVE TypeOK'
<1> USE MonitorAssumption
    DEF MonitorAssumption, TypeOK, Children, NoChild, Fates, KillerPcs, process, counts, threads
<1>1. CASE HealthTick
  BY <1>1 DEF HealthTick
<1>2. CASE ProbeOk
  BY <1>2 DEF ProbeOk
<1>3. CASE ProbeIgnored
  BY <1>3 DEF ProbeIgnored
<1>4. CASE ProbeFailed
  BY <1>4 DEF ProbeFailed
<1>5. CASE HealthKill
  BY <1>5 DEF HealthKill, ListenTo
<1>6. CASE HealthKilled
  BY <1>6 DEF HealthKilled
<1>7. CASE HealthTimeout
  BY <1>7 DEF HealthTimeout, ForceKill
<1> QED
  BY <1>1, <1>2, <1>3, <1>4, <1>5, <1>6, <1>7 DEF Health

(* Every event of a child process. *)
LEMMA ChildTypes ==
    ASSUME TypeOK, NEW c \in Children,
           \/ \E fate \in {"clean", "error", "signal"} : Die(c, fate)
           \/ ExitEvent(c) \/ ErrorEvent(c)
    PROVE  TypeOK'
<1> USE MonitorAssumption
    DEF MonitorAssumption, TypeOK, States, Fates, process, counts, healthVars, threads
<1>1. CASE \E fate \in {"clean", "error", "signal"} : Die(c, fate)
  BY <1>1 DEF Die
<1>2. CASE ExitEvent(c)
    <2>1. os' \in [Children -> Fates]
      BY <1>2 DEF ExitEvent
    <2>2. PICK inactive \in BOOLEAN :
             LET restart == MayRestart(os[c], inactive)
                 crash   == state = "running" /\ (os[c] # "clean" \/ restart)
             IN  /\ state' = IF crash THEN "crashed" ELSE "stopped"
                 /\ told' = IF ~crash /\ state # "stopped" THEN told + 1 ELSE told
                 /\ timer' = IF restart THEN TRUE ELSE timer
                 /\ restarts' = IF restart THEN restarts + 1 ELSE restarts
      BY <1>2, Zenon DEF ExitEvent
    <2>3. state' \in States /\ told' \in Nat
      BY <2>2
    <2>4. timer' \in BOOLEAN
      BY <2>2
    <2>5. restarts' \in 0 .. MaxRestarts
      BY <2>2 DEF MayRestart
    <2> QED
      BY <1>2, <2>1, <2>3, <2>4, <2>5 DEF ExitEvent
<1>3. CASE ErrorEvent(c)
  BY <1>3 DEF ErrorEvent
<1> QED
  BY <1>1, <1>2, <1>3

LEMMA MonitorTypeStep == TypeOK /\ [Next]_vars => TypeOK'
<1> SUFFICES ASSUME TypeOK, [Next]_vars PROVE TypeOK'
  OBVIOUS
<1>1. CASE UNCHANGED vars
  BY <1>1 DEF vars, TypeOK
<1>2. CASE Next
  BY <1>2, StarterTypes, RunnerTypes, HealthTypes, ChildTypes DEF Next
<1> QED
  BY <1>1, <1>2

(* No order of crashes, kills, errors and stops gives a variable a value   *)
(* it should not have; restartCount never passes maxRestarts.              *)
THEOREM MonitorTypeCorrect == Spec => []TypeOK
<1> QED
  BY MonitorTypeInit, MonitorTypeStep, PTL DEF Spec

-----------------------------------------------------------------------------
(* The invariant.                                                          *)

LEMMA MonitorInvInit == Init => MonitorInv
<1> SUFFICES ASSUME Init PROVE MonitorInv
  OBVIOUS
<1>1. Present = {} /\ Alive = {}
  BY DEF Init, Present, Alive, Unreported
<1>2. LastChildOnly
  BY <1>1 DEF Init, LastChildOnly, NoChild
<1>3. OneRestart /\ RunningHasChild
  BY <1>1 DEF Init, OneRestart, RunningHasChild
<1>4. StartsCounted
  BY <1>1, MonitorAssumption DEF MonitorAssumption, Init, StartsCounted
<1>5. TargetDead
  BY <1>1 DEF Init, TargetDead, NoChild
<1> QED
  BY <1>2, <1>3, <1>4, <1>5, MonitorTypeInit DEF MonitorInv

(* A step that neither starts nor ends a child nor moves start() on, and   *)
(* leaves killProcess only when its child is dead.                         *)
LEMMA CalmStep ==
    ASSUME MonitorInv, TypeOK',
           UNCHANGED <<process, restarts, inARow, starter>>,
           state' = state \/ state' # "running",
           timer' => timer,
           \/ /\ target'["runner"] = target["runner"]
              /\ runner' = "killing" \/ target["runner"] \notin Alive
           \/ runner' = "killing" /\ target'["runner"] = child
    PROVE  MonitorInv'
<1> USE DEF MonitorInv, process
<1>1. Present' = Present /\ Alive' = Alive
  BY DEF Present, Alive
<1>2. LastChildOnly'
  BY <1>1 DEF LastChildOnly
<1>3. OneRestart' /\ RunningHasChild'
  BY <1>1 DEF OneRestart, RunningHasChild
<1>4. StartsCounted'
  BY <1>1 DEF StartsCounted
<1>5. TargetDead'
  BY <1>1 DEF TargetDead, LastChildOnly
<1> QED
  BY <1>2, <1>3, <1>4, <1>5

(* A child dies: nothing is reported yet. *)
LEMMA DeathStep ==
    ASSUME MonitorInv, TypeOK', NEW c \in Children, NEW fate \in {"clean", "error", "signal"},
           os[c] = "alive", os' = [os EXCEPT ![c] = fate],
           UNCHANGED <<state, child, spawned, timer, restarts, inARow, starter>>,
           target'["runner"] = target["runner"],
           runner' # "killing" => target["runner"] \notin Alive \/ target["runner"] = c
    PROVE  MonitorInv'
<1> USE DEF MonitorInv
<1>1. os \in [Children -> Fates]
  BY DEF TypeOK
<1>2. Present' = Present /\ Alive' = Alive \ {c}
  BY <1>1 DEF Present, Alive, Unreported
<1>3. LastChildOnly'
  BY <1>1, <1>2 DEF LastChildOnly
<1>4. OneRestart'
  BY <1>2 DEF OneRestart
<1>5. RunningHasChild'
  BY <1>1, MonitorAssumption DEF RunningHasChild, TypeOK
<1>6. StartsCounted'
  BY <1>2 DEF StartsCounted
<1>7. TargetDead'
  BY <1>2 DEF TargetDead
<1> QED
  BY <1>3, <1>4, <1>5, <1>6, <1>7

(* The exit of the only child is reported; a restart that follows is       *)
(* counted.                                                                *)
LEMMA ExitStep ==
    ASSUME MonitorInv, TypeOK', NEW c \in Children, ExitEvent(c)
    PROVE  MonitorInv'
<1> USE DEF MonitorInv
<1>1. os \in [Children -> Fates]
  BY DEF TypeOK
<1>2. /\ os[c] \in {"clean", "error", "signal"}
      /\ os' = [os EXCEPT ![c] = "reaped"]
      /\ UNCHANGED <<child, spawned, inARow, starter, runner, target>>
  BY DEF ExitEvent, threads
<1>3. c \in Present /\ Present = {child} /\ c = child
  BY <1>2 DEF Present, Unreported, LastChildOnly
<1>4. Present' = {}
  BY <1>1, <1>2, <1>3 DEF Present, Unreported
<1>5. Alive' = {}
  BY <1>4 DEF Present, Alive, Unreported
<1>6. /\ state' # "running"
      /\ \/ timer' = timer /\ restarts' = restarts
         \/ timer' = TRUE /\ restarts' = restarts + 1
  BY DEF ExitEvent
<1>7. starter = "idle" /\ ~timer /\ inARow <= restarts + 1
  BY <1>3 DEF OneRestart, StartsCounted
<1>8. LastChildOnly'
  BY <1>1, <1>2, <1>4 DEF LastChildOnly
<1>9. OneRestart' /\ RunningHasChild'
  BY <1>2, <1>4, <1>6, <1>7 DEF OneRestart, RunningHasChild
<1>10. StartsCounted'
  BY <1>2, <1>4, <1>6, <1>7 DEF StartsCounted
<1>11. TargetDead'
  BY <1>2, <1>5 DEF TargetDead
<1> QED
  BY <1>8, <1>9, <1>10, <1>11

(* start() and the restart timer: a step of theirs finds no child.         *)
LEMMA StarterStep ==
    ASSUME MonitorInv, TypeOK', Starter \/ RestartTimer PROVE MonitorInv'
<1> USE DEF MonitorInv
<1>0. os \in [Children -> Fates] /\ spawned \in Nat /\ restarts \in Nat
      /\ inARow \in Nat
  BY MonitorAssumption DEF MonitorAssumption, TypeOK
<1>1. CASE Begin \/ StableRun \/ StartFailed \/ RestartTimer
    <2>1. /\ UNCHANGED <<child, os, spawned, restarts, inARow, runner, target>>
          /\ state' # "running" \/ (state' = state /\ starter' = "idle")
             \/ (state' = state /\ (timer \/ starter # "idle"))
          /\ timer' = timer \/ ~timer'
      BY <1>1 DEF Begin, StableRun, StartFailed, RestartTimer, process, counts, threads
    <2>2. Present' = Present /\ Alive' = Alive
      BY <2>1 DEF Present, Alive
    <2>3. Present = {}
      BY <1>1 DEF Begin, StableRun, StartFailed, RestartTimer, OneRestart
    <2>4. LastChildOnly' /\ TargetDead'
      BY <2>1, <2>2 DEF LastChildOnly, TargetDead
    <2>5. OneRestart'
      BY <1>1, <2>2, <2>3 DEF Begin, StableRun, StartFailed, RestartTimer, OneRestart
    <2>6. RunningHasChild'
      BY <1>1, <2>1 DEF Begin, StableRun, StartFailed, RestartTimer, OneRestart,
                        RunningHasChild
    <2>7. StartsCounted'
      BY <1>1, <2>1, <2>2, <2>3
         DEF Begin, StableRun, StartFailed, RestartTimer, OneRestart, StartsCounted
    <2> QED
      BY <2>4, <2>5, <2>6, <2>7
<1>2. CASE Spawn
    <2>1. /\ starter # "idle" /\ Present = {} /\ ~timer
          /\ starter \in {"startLog", "stableLog"}
      BY <1>2 DEF Spawn, OneRestart
    <2>2. /\ spawned + 1 \in Children
          /\ spawned' = spawned + 1 /\ child' = spawned + 1
          /\ os' = [os EXCEPT ![spawned + 1] = "alive"]
          /\ state' = "running" /\ starter' = "idle"
          /\ UNCHANGED <<timer, runner, target>>
      BY <1>0, <1>2, MonitorAssumption DEF MonitorAssumption, Spawn, Children, TypeOK
    <2>3. Present' = {spawned + 1}
      BY <1>0, <2>1, <2>2 DEF Present, Unreported
    <2>4. Alive' \subseteq {spawned + 1}
      BY <2>3 DEF Present, Alive, Unreported
    <2>5. LastChildOnly'
      BY <1>0, <2>2, <2>3 DEF LastChildOnly, Children
    <2>6. OneRestart'
      BY <2>1, <2>2 DEF OneRestart
    <2>7. RunningHasChild'
      BY <1>0, <2>2 DEF RunningHasChild, NoChild
    <2>8. StartsCounted'
        <3>1. CASE starter = "stableLog"
          BY <1>2, <2>1, <2>2, <3>1, MonitorAssumption
             DEF MonitorAssumption, Spawn, Reset, StartsCounted, TypeOK
        <3>2. CASE starter = "startLog"
          BY <1>0, <1>2, <2>1, <2>2, <3>2, MonitorAssumption
             DEF MonitorAssumption, Spawn, Reset, StartsCounted, TypeOK
        <3> QED
          BY <2>1, <3>1, <3>2
    <2>9. TargetDead'
      BY <1>0, <2>2, <2>4, MonitorAssumption
         DEF MonitorAssumption, TargetDead, TypeOK, Children, NoChild
    <2> QED
      BY <2>5, <2>6, <2>7, <2>8, <2>9
<1>3. CASE SpawnRefused
    <2>1. /\ starter # "idle" /\ Present = {} /\ ~timer /\ state # "running"
          /\ starter' = "failLog" /\ child' = NoChild
          /\ UNCHANGED <<state, os, spawned, timer, inARow, runner, target>>
      BY <1>3 DEF SpawnRefused, OneRestart
    <2>2. Present' = {} /\ Alive' = Alive
      BY <2>1 DEF Present, Alive
    <2>3. LastChildOnly'
      BY <1>0, <2>1, <2>2 DEF LastChildOnly, NoChild
    <2>4. OneRestart' /\ RunningHasChild'
      BY <2>1, <2>2 DEF OneRestart, RunningHasChild
    <2>5. StartsCounted' /\ TargetDead'
      BY <2>1, <2>2 DEF StartsCounted, TargetDead
    <2> QED
      BY <2>3, <2>4, <2>5
<1>4. CASE ErrorUnheard
    <2>1. Present = {} /\ Alive = {}
      BY <1>4 DEF ErrorUnheard, OneRestart, Present, Alive, Unreported
    <2> QED
      BY <1>4, <2>1, CalmStep DEF ErrorUnheard, counts, threads
<1> QED
  BY <1>1, <1>2, <1>3, <1>4 DEF Starter

(* stop(), cleanup() and the shutdown. *)
LEMMA RunnerStep ==
    ASSUME MonitorInv, TypeOK', Runner \/ Shutdown PROVE MonitorInv'
<1> USE DEF MonitorInv, counts
<1>1. CASE StopMark
    <2>1. \/ target' = target /\ runner # "killing"
          \/ runner' = "killing" /\ target'["runner"] = child
      BY <1>1 DEF StopMark, EnterKill, ListenTo, TypeOK
    <2> QED
      BY <1>1, <2>1, CalmStep DEF StopMark, TargetDead
<1>2. CASE StopKill
    <2>1. \/ target' = target /\ runner # "killing"
          \/ runner' = "killing" /\ target'["runner"] = child
      BY <1>2 DEF StopKill, EnterKill, ListenTo, TypeOK
    <2> QED
      BY <1>2, <2>1, CalmStep DEF StopKill, TargetDead
<1>3. CASE StopKilled
    <2>1. target["runner"] \notin Alive
      BY <1>3 DEF StopKilled, Exited, Alive
    <2> QED
      BY <1>3, <2>1, CalmStep DEF StopKilled
<1>4. CASE StopTimeout
    <2>1. CASE child # NoChild /\ os[child] = "alive"
        <3>1. child \in Children
          BY <2>1 DEF TypeOK
        <3>2. target["runner"] \in Alive => target["runner"] = child
          BY DEF LastChildOnly, Present, Alive, Unreported
        <3> QED
          BY <1>4, <2>1, <3>1, <3>2, DeathStep DEF StopTimeout, ForceKill
    <2>2. CASE ~(child # NoChild /\ os[child] = "alive")
        <3>1. Alive = {}
          BY <2>2 DEF LastChildOnly, Present, Alive, Unreported, Children, NoChild
        <3> QED
          BY <1>4, <2>2, <3>1, CalmStep DEF StopTimeout, ForceKill, process
    <2> QED
      BY <2>1, <2>2
<1>5. CASE Booted \/ StopEnd \/ Cleanup \/ Exit \/ Shutdown
    <2>1. /\ UNCHANGED <<process, restarts, inARow, starter, target>>
          /\ state' = state \/ state' # "running"
          /\ timer' = timer \/ ~timer'
          /\ runner # "killing"
      BY <1>5 DEF Booted, StopEnd, Cleanup, Exit, Shutdown
    <2> QED
      BY <2>1, CalmStep DEF TargetDead
<1> QED
  BY <1>1, <1>2, <1>3, <1>4, <1>5 DEF Runner

(* The health check and its killProcess. *)
LEMMA HealthStep ==
    ASSUME MonitorInv, TypeOK', Health PROVE MonitorInv'
<1> USE DEF MonitorInv
<1>1. CASE HealthTimeout
    <2>1. CASE child # NoChild /\ os[child] = "alive"
        <3>1. child \in Children
          BY <2>1 DEF TypeOK
        <3> QED
          BY <1>1, <2>1, <3>1, DeathStep
             DEF HealthTimeout, ForceKill, counts, threads, TargetDead
    <2>2. CASE ~(child # NoChild /\ os[child] = "alive")
      BY <1>1, <2>2, CalmStep
         DEF HealthTimeout, ForceKill, process, counts, threads, TargetDead
    <2> QED
      BY <2>1, <2>2
<1>2. CASE Health /\ ~HealthTimeout
    <2>1. /\ UNCHANGED <<state, process, timer, restarts, inARow, starter, runner>>
          /\ target'["runner"] = target["runner"]
      BY <1>2 DEF Health, HealthTick, ProbeOk, ProbeIgnored, ProbeFailed, HealthKill,
                  HealthKilled, ListenTo, counts, threads, TypeOK
    <2>2. runner' = "killing" \/ target["runner"] \notin Alive
      BY <2>1 DEF TargetDead
    <2> QED
      BY <2>1, <2>2, CalmStep
<1> QED
  BY <1>1, <1>2

LEMMA ChildStep ==
    ASSUME MonitorInv, TypeOK', NEW c \in Children,
           \/ \E fate \in {"clean", "error", "signal"} : Die(c, fate)
           \/ ExitEvent(c) \/ ErrorEvent(c)
    PROVE  MonitorInv'
<1> USE DEF MonitorInv, counts, threads, TargetDead
<1>1. CASE \E fate \in {"clean", "error", "signal"} : Die(c, fate)
    <2>1. PICK fate \in {"clean", "error", "signal"} : Die(c, fate)
      BY <1>1
    <2> QED
      BY <2>1, DeathStep DEF Die
<1>2. CASE ErrorEvent(c)
  BY <1>2, CalmStep DEF ErrorEvent
<1> QED
  BY <1>1, <1>2, ExitStep

LEMMA MonitorInvStep == MonitorInv /\ [Next]_vars => MonitorInv'
<1> SUFFICES ASSUME MonitorInv, [Next]_vars PROVE MonitorInv'
  OBVIOUS
<1>1. TypeOK'
  BY MonitorTypeStep DEF MonitorInv
<1>2. CASE UNCHANGED vars
  BY <1>1, <1>2, CalmStep DEF vars, process, TargetDead, MonitorInv
<1>3. CASE Next
  BY <1>1, <1>3, StarterStep, RunnerStep, HealthStep, ChildStep DEF Next
<1> QED
  BY <1>2, <1>3

LEMMA MonitorInvariant == Spec => []MonitorInv
<1> QED
  BY MonitorInvInit, MonitorInvStep, PTL DEF Spec

-----------------------------------------------------------------------------
(* What follows from it.                                                   *)

(* However crashes, restarts, health kills and stops interleave, there is  *)
(* never a second development server.                                      *)
THEOREM OnlyOneChild == Spec => []OneChild
<1>1. MonitorInv => OneChild
    <2> SUFFICES ASSUME MonitorInv PROVE OneChild
      OBVIOUS
    <2>1. Alive \subseteq {child}
      BY DEF MonitorInv, LastChildOnly, Present, Alive, Unreported
    <2>2. IsFiniteSet({child}) /\ Cardinality({child}) = 1
      BY FS_Singleton
    <2>3. Cardinality(Alive) <= Cardinality({child})
      BY <2>1, <2>2, FS_Subset
    <2> QED
      BY <2>2, <2>3 DEF OneChild
<1> QED
  BY <1>1, MonitorInvariant, PTL

(* A server that keeps crashing is started at most maxRestarts times more  *)
(* between two stable runs, however the counter is raised and reset.       *)
THEOREM CrashLoopBounded == Spec => []RestartsBounded
<1>1. MonitorInv => RestartsBounded
  BY DEF MonitorInv, StartsCounted, RestartsBounded
<1> QED
  BY <1>1, MonitorInvariant, PTL

(* A monitor that says running has a child whose exit is not reported yet. *)
THEOREM RunningStateIsReal == Spec => []RunningIsReal
<1>1. MonitorInv => RunningIsReal
  BY DEF MonitorInv, RunningHasChild, RunningIsReal
<1> QED
  BY <1>1, MonitorInvariant, PTL

(* The child that stop() found is dead when the monitor has exited.        *)
THEOREM StopKillsItsChild == Spec => []StoppedIsDead
<1>1. MonitorInv => StoppedIsDead
  BY DEF MonitorInv, TargetDead, StoppedIsDead
<1> QED
  BY <1>1, MonitorInvariant, PTL

-----------------------------------------------------------------------------
(***************************************************************************)
(* LogFile.                                                                *)
(***************************************************************************)

(* The calls that take the log. *)
Takers == Monitors \cup Resets

Trims == [pc : {"idle", "read"}, kept : Seq(Lines), dropped : SUBSET Lines]

Appends(n) == [pc : {"new", "open", "done"}, file : 0 .. n]

Stands(n) == [pc : ReaderPcs, tries : 0 .. MaxRetries, temp : 0 .. n]

LogTypes ==
    /\ content \in Seq(Seq(Lines)) /\ Len(content) \in Nat /\ log \in 0 .. Len(content)
    /\ append \in [Lines -> Appends(Len(content))]
    /\ lock \in {None} \cup [by : Readers, stale : BOOLEAN]
    /\ reader \in [Readers -> Stands(Len(content))]
    /\ got \in [Readers -> Seq(Lines)] /\ delivered \subseteq Readers
    /\ trim \in Trims /\ hit \subseteq Lines /\ cut \subseteq Lines /\ ages \in Nat

LEMMA LogTypesImply == LogTypes => LogTypeOK
<1> SUFFICES ASSUME LogTypes PROVE LogTypeOK
  OBVIOUS
<1>1. \A i \in DOMAIN content : content[i] \in Seq(Lines)
  BY DEF LogTypes
<1>2. trim.pc \in {"idle", "read"} /\ trim.kept \in Seq(Lines)
  BY DEF LogTypes, Trims
<1> QED
  BY <1>1, <1>2 DEF LogTypes, LogTypeOK, Appends, Stands

LEMMA LogTypesInit == LogInit => LogTypes
<1> SUFFICES ASSUME LogInit PROVE LogTypes
  OBVIOUS
<1>1. content \in Seq(Seq(Lines)) /\ Len(content) = 0 /\ log = 0
  BY DEF LogInit
<1>2. append \in [Lines -> Appends(0)] /\ reader \in [Readers -> Stands(0)]
  BY LogAssumption DEF LogInit, Appends, Stands, ReaderPcs
<1>3. NoTrim \in Trims
  BY DEF NoTrim, Trims
<1> QED
  BY <1>1, <1>2, <1>3 DEF LogInit, LogTypes

(* A file is added. *)
LEMMA FileAdded ==
    ASSUME LogTypes, NEW s \in Seq(Lines), content' = Append(content, s)
    PROVE  /\ content' \in Seq(Seq(Lines)) /\ Len(content') = Len(content) + 1
           /\ \A i \in 1 .. Len(content) : content'[i] = content[i]
           /\ content'[Len(content')] = s
           /\ append \in [Lines -> Appends(Len(content'))]
           /\ reader \in [Readers -> Stands(Len(content'))]
<1>1. /\ content' \in Seq(Seq(Lines)) /\ Len(content') = Len(content) + 1
      /\ \A i \in 1 .. Len(content) : content'[i] = content[i]
      /\ content'[Len(content')] = s
  BY DEF LogTypes
<1>2. Appends(Len(content)) \subseteq Appends(Len(content'))
  BY <1>1 DEF Appends, LogTypes
<1>3. Stands(Len(content)) \subseteq Stands(Len(content'))
  BY <1>1 DEF Stands, LogTypes
<1> QED
  BY <1>1, <1>2, <1>3 DEF LogTypes

LEMMA ReaderMoves ==
    ASSUME LogTypes, NEW r \in Readers, NEW q \in ReaderPcs, Goto(r, q)
    PROVE  /\ reader' \in [Readers -> Stands(Len(content))]
           /\ reader'[r].pc = q
           /\ \A p \in Readers : reader'[p].temp = reader[p].temp
           /\ \A p \in Readers \ {r} : reader'[p] = reader[p]
<1>1. reader' = [reader EXCEPT ![r].pc = q] /\ reader \in [Readers -> Stands(Len(content))]
  BY DEF Goto, LogTypes
<1> QED
  BY <1>1 DEF Stands

-----------------------------------------------------------------------------
(* The lines of a file. *)
LEMMA LinesAppended ==
    ASSUME NEW s \in Seq(Lines), NEW l \in Lines
    PROVE  ToSet(Append(s, l)) = ToSet(s) \cup {l}
<1>1. /\ Len(s) \in Nat /\ DOMAIN s = 1 .. Len(s)
      /\ Append(s, l) \in Seq(Lines) /\ Len(Append(s, l)) = Len(s) + 1
  OBVIOUS
<1>5. DOMAIN Append(s, l) = 1 .. Len(s) + 1
  BY <1>1
<1>6. /\ \A i \in 1 .. Len(s) : Append(s, l)[i] = s[i]
      /\ Append(s, l)[Len(s) + 1] = l
  OBVIOUS
<1>2. ToSet(Append(s, l)) \subseteq ToSet(s) \cup {l}
  BY <1>1, <1>5, <1>6 DEF ToSet
<1>3. \A i \in 1 .. Len(s) : i \in 1 .. Len(s) + 1
  BY <1>1
<1>4. Len(s) + 1 \in 1 .. Len(s) + 1
  BY <1>1
<1> QED
  BY <1>1, <1>2, <1>3, <1>4, <1>5, <1>6 DEF ToSet

LEMMA PartIs ==
    ASSUME NEW s \in Seq(Lines), NEW m \in Nat \ {0}, NEW n \in Nat, n <= Len(s)
    PROVE  /\ SubSeq(s, m, n) \in Seq(Lines)
           /\ Len(SubSeq(s, m, n)) = IF m <= n THEN n - m + 1 ELSE 0
           /\ \A i \in 1 .. n - m + 1 : SubSeq(s, m, n)[i] = s[m + i - 1]
<1>1. SubSeq(s, m, n) \in Seq(Lines)
  <2>1. m \in Int /\ n \in Int /\ \A i \in m .. n : s[i] \in Lines
    OBVIOUS
  <2> QED
    BY ONLY <2>1, SubSeqProperties, Zenon
<1>2. Len(SubSeq(s, m, n)) = IF m <= n THEN n - m + 1 ELSE 0
  OBVIOUS
<1>3. \A i \in 1 .. n - m + 1 : SubSeq(s, m, n)[i] = s[m + i - 1]
  BY SMTT(40)
<1> QED
  BY <1>1, <1>2, <1>3

LEMMA LinesSplit ==
    ASSUME NEW s \in Seq(Lines), NEW k \in Nat, k <= Len(s)
    PROVE  LET kept == SubSeq(s, Len(s) - k + 1, Len(s))
               dropped == SubSeq(s, 1, Len(s) - k)
           IN  /\ kept \in Seq(Lines) /\ ToSet(dropped) \subseteq Lines
               /\ ToSet(s) = ToSet(kept) \cup ToSet(dropped)
<1> DEFINE n == Len(s) - k
           kept == SubSeq(s, n + 1, Len(s))
           dropped == SubSeq(s, 1, n)
<1>1. n \in Nat /\ n <= Len(s) /\ Len(s) \in Nat /\ DOMAIN s = 1 .. Len(s)
      /\ \A i \in 1 .. Len(s) : s[i] \in Lines
  OBVIOUS
<1> HIDE DEF n
<1>2. /\ kept \in Seq(Lines)
      /\ Len(kept) = Len(s) - n
      /\ \A i \in 1 .. Len(s) - n : kept[i] = s[n + i]
  <2>1. /\ kept \in Seq(Lines) /\ Len(kept) = IF n + 1 <= Len(s) THEN Len(s) - (n + 1) + 1 ELSE 0
        /\ \A i \in 1 .. Len(s) - (n + 1) + 1 : kept[i] = s[n + 1 + i - 1]
    <3>1. n + 1 \in Nat \ {0} /\ Len(s) \in Nat /\ Len(s) <= Len(s)
      BY <1>1
    <3> QED
      BY <3>1, PartIs, Zenon
  <2> HIDE DEF kept
  <2>2. Len(kept) = Len(s) - n
    <3>1. Len(kept) = IF n + 1 <= Len(s) THEN Len(s) - (n + 1) + 1 ELSE 0
      BY <2>1, Zenon
    <3>2. n \in Nat /\ Len(s) \in Nat /\ n <= Len(s)
      BY <1>1
    <3> QED
      BY ONLY <3>1, <3>2
  <2>3. ASSUME NEW i \in 1 .. Len(s) - n PROVE kept[i] = s[n + i]
    <3>1. i \in 1 .. Len(s) - (n + 1) + 1 /\ n + 1 + i - 1 = n + i
      BY <1>1
    <3> QED
      BY <2>1, <3>1, Zenon
  <2> QED
    BY <2>1, <2>2, <2>3
<1>3. /\ dropped \in Seq(Lines) /\ Len(dropped) = n
      /\ \A i \in 1 .. n : dropped[i] = s[i]
  <2>1. /\ dropped \in Seq(Lines) /\ Len(dropped) = IF 1 <= n THEN n - 1 + 1 ELSE 0
        /\ \A i \in 1 .. n - 1 + 1 : dropped[i] = s[1 + i - 1]
    BY <1>1, PartIs
  <2> HIDE DEF dropped
  <2> QED
    BY <1>1, <2>1
<1> HIDE DEF kept, dropped
<1>4. DOMAIN kept = 1 .. Len(s) - n /\ DOMAIN dropped = 1 .. n
  BY <1>2, <1>3
<1>5. ToSet(s) \subseteq ToSet(kept) \cup ToSet(dropped)
  <2> SUFFICES ASSUME NEW i \in 1 .. Len(s) PROVE s[i] \in ToSet(kept) \cup ToSet(dropped)
    BY <1>1 DEF ToSet
  <2>1. CASE i <= n
    BY <1>1, <1>3, <1>4, <2>1 DEF ToSet
  <2>2. CASE i > n
    <3>1. i - n \in 1 .. Len(s) - n /\ n + (i - n) = i
      BY <1>1, <2>2
    <3>2. kept[i - n] = s[i]
      BY <1>2, <3>1
    <3> QED
      BY <1>4, <3>1, <3>2 DEF ToSet
  <2> QED
    BY <1>1, <2>1, <2>2
<1>6. ToSet(kept) \subseteq ToSet(s)
  <2> SUFFICES ASSUME NEW i \in 1 .. Len(s) - n PROVE kept[i] \in ToSet(s)
    BY <1>4 DEF ToSet
  <2>1. n + i \in 1 .. Len(s)
    BY <1>1
  <2> QED
    BY <1>1, <1>2, <2>1 DEF ToSet
<1>7. ToSet(dropped) \subseteq ToSet(s)
  BY <1>1, <1>3, <1>4 DEF ToSet
<1>8. ToSet(dropped) \subseteq Lines
  BY <1>1, <1>7 DEF ToSet
<1> QED
  BY <1>2, <1>5, <1>6, <1>7, <1>8 DEF n, kept, dropped

-----------------------------------------------------------------------------
(* A lock file that is not stale belongs to the one reader at the log. *)
LockHeld ==
    ages = 0 => /\ \A r \in Readers : reader[r].pc # "stale"
                /\ lock # None => ~lock.stale
                /\ \A r \in At(Holding) : lock # None /\ lock.by = r

(* A file that was taken is of one taker, which has read nothing yet, and  *)
(* is not the log.                                                         *)
Taken ==
    \A r \in Readers :
        /\ reader[r].temp # 0 => /\ r \in Takers /\ reader[r].temp # log
                                 /\ reader[r].pc \in {"renamed", "recreated", "dead"}
        /\ reader[r].pc \in {"renamed", "recreated"} => reader[r].temp # 0
        /\ reader[r].pc \notin {"release", "done", "dead"} => got[r] = << >>
        /\ \A q \in Readers \ {r} : reader[r].temp # 0 => reader[q].temp # reader[r].temp

(* An append has the log open, unless that was replaced meanwhile. *)
Opened ==
    \A l \in Lines : append[l].pc = "open" =>
        append[l].file # 0 /\ (l \notin hit => append[l].file = log)

(* A line that is to be written is nowhere. *)
Unwritten ==
    \A l \in Lines : append[l].pc # "done" =>
        /\ \A i \in 1 .. Len(content) : l \notin ToSet(content[i])
        /\ \A r \in Readers : l \notin ToSet(got[r])
        /\ l \notin ToSet(trim.kept)

Holds(r, l) == l \in LinesOf(reader[r].temp) \/ l \in ToSet(got[r])

Elsewhere(l) == l \in cut \/ \E r \in Takers : Holds(r, l)

(* What was written is in the log or elsewhere; what is in the log while a *)
(* reset is about to empty it is elsewhere as well; and a trim has read    *)
(* all that is in the log.                                                 *)
Safe ==
    /\ \A l \in Lines \ hit : append[l].pc = "done" => l \in LinesOf(log) \/ Elsewhere(l)
    /\ At({"renamed"}) # {} => \A l \in LinesOf(log) \ hit : Elsewhere(l)
    /\ trim.pc = "read" => LinesOf(log) \ hit \subseteq ToSet(trim.kept) \cup trim.dropped

(* A line is with one taker, and then neither in the log nor in what a     *)
(* trim will leave.                                                        *)
Once ==
    ~crossed =>
        \A l \in Lines, r \in Takers : Holds(r, l) =>
            /\ \A q \in Takers \ {r} : ~Holds(q, l)
            /\ l \notin LinesOf(log)
            /\ trim.pc = "read" => l \notin ToSet(trim.kept)

LogInv == LogTypes /\ LockHeld /\ Taken /\ Opened /\ Unwritten /\ Safe /\ Once

-----------------------------------------------------------------------------
LEMMA LinesIn ==
    ASSUME LogTypes
    PROVE  /\ LinesOf(log) \subseteq Lines /\ LinesOf(0) = {}
           /\ \A r \in Readers : LinesOf(reader[r].temp) \subseteq Lines
           /\ \A i \in 1 .. Len(content) : /\ LinesOf(i) = ToSet(content[i])
                                           /\ content[i] \in Seq(Lines)
                                           /\ LinesOf(i) \subseteq Lines
<1>1. \A s \in Seq(Lines) : ToSet(s) \subseteq Lines
  BY DEF ToSet
<1>2. \A i \in 1 .. Len(content) : i # 0 /\ content[i] \in Seq(Lines)
  BY DEF LogTypes
<1>3. \A i \in 1 .. Len(content) : LinesOf(i) = ToSet(content[i]) /\ LinesOf(i) \subseteq Lines
  BY <1>1, <1>2 DEF LinesOf
<1>4. LinesOf(0) = {}
  BY DEF LinesOf
<1>5. log # 0 => log \in 1 .. Len(content)
  BY DEF LogTypes
<1>6. \A r \in Readers : reader[r].temp # 0 => reader[r].temp \in 1 .. Len(content)
  BY DEF LogTypes, Stands
<1> QED
  BY <1>2, <1>3, <1>4, <1>5, <1>6

LEMMA LogInit1 == LogInit => LogInv
<1> SUFFICES ASSUME LogInit PROVE LogInv
  OBVIOUS
<1>1. LogTypes
  BY LogTypesInit
<1>2. /\ \A r \in Readers : reader[r].pc = "idle" /\ reader[r].temp = 0 /\ got[r] = << >>
      /\ log = 0 /\ content = << >> /\ lock = None /\ trim.pc = "idle" /\ trim.kept = << >>
      /\ \A l \in Lines : append[l].pc = "new"
  BY DEF LogInit, NoTrim
<1>3. ToSet(<< >>) = {}
  BY DEF ToSet
<1>4. LockHeld /\ Taken /\ Opened
  BY <1>2 DEF LockHeld, Taken, Opened, At, Holding
<1>5. Unwritten
  BY <1>2, <1>3 DEF Unwritten
<1>6. Safe
  BY <1>2 DEF Safe, LinesOf
<1>7. Once
  <2>1. \A r \in Takers : r \in Readers
    BY DEF Takers, Readers
  <2> QED
    BY <1>2, <1>3, <2>1 DEF Once, Holds, LinesOf
<1> QED
  BY <1>1, <1>4, <1>5, <1>6, <1>7 DEF LogInv

(* Nobody is given a line, and the log loses none that is nowhere else. *)
LEMMA HoldersStay ==
    ASSUME LogInv, \A r \in Takers, l \in Lines : Holds(r, l)' <=> Holds(r, l),
           hit \subseteq hit', cut \subseteq cut', LinesOf(log)' \subseteq LinesOf(log),
           \A l \in LinesOf(log) : l \in LinesOf(log)' \/ l \in hit' \/ Elsewhere(l)',
           \A l \in Lines : append'[l].pc = "done" => append[l].pc = "done",
           UNCHANGED <<trim, crossed>>,
           At({"renamed"})' # {} => At({"renamed"}) # {}
    PROVE  Safe' /\ Once'
<1>1. LinesOf(log) \subseteq Lines
  BY LinesIn DEF LogInv
<1>2. \A l \in Lines : Elsewhere(l) => Elsewhere(l)'
  BY DEF Elsewhere
<1>3. Safe'
  BY <1>1, <1>2 DEF LogInv, Safe
<1>4. Once'
  BY DEF LogInv, Once
<1> QED
  BY <1>3, <1>4

(* A reader goes on, and does nothing to the files. *)
LEMMA QuietStep ==
    ASSUME LogInv, LogTypes', UNCHANGED <<log, content, append, got, trim, hit, cut, crossed>>,
           NEW r \in Readers, \A q \in Readers : reader'[q].temp = reader[q].temp,
           \A q \in Readers \ {r} : reader'[q].pc = reader[q].pc,
           reader[r].temp # 0 => reader'[r].pc = "dead",
           reader'[r].pc \notin {"renamed", "recreated"},
           \/ reader'[r].pc \in {"release", "done", "dead"}
           \/ reader[r].pc \notin {"release", "done", "dead"}
    PROVE  Taken' /\ Opened' /\ Unwritten' /\ Safe' /\ Once'
<1>1. Taken'
  BY DEF LogInv, Taken
<1>2. Opened' /\ Unwritten'
  BY DEF LogInv, Opened, Unwritten
<1>3. \A q \in Takers, l \in Lines : Holds(q, l)' <=> Holds(q, l)
  BY DEF Holds, LinesOf, Takers, Readers
<1>4. At({"renamed"})' # {} => At({"renamed"}) # {}
  BY DEF At
<1>5. LinesOf(log)' = LinesOf(log)
  BY DEF LinesOf
<1> QED
  BY <1>1, <1>2, <1>3, <1>4, <1>5, HoldersStay

-----------------------------------------------------------------------------
(* The lock. *)
LEMMA LockStays ==
    ASSUME LogInv, UNCHANGED <<lock, ages>>, NEW r \in Readers,
           \A p \in Readers \ {r} : reader'[p] = reader[p], reader'[r].pc # "stale",
           reader'[r].pc \in Holding => reader[r].pc \in Holding
    PROVE  LockHeld'
<1> SUFFICES ASSUME ages = 0
             PROVE  /\ \A p \in Readers : reader'[p].pc # "stale"
                    /\ lock # None => ~lock.stale
                    /\ \A p \in Readers : reader'[p].pc \in Holding => lock # None /\ lock.by = p
  BY DEF LockHeld, At
<1>1. /\ \A p \in Readers : reader[p].pc # "stale"
      /\ lock # None => ~lock.stale
      /\ \A p \in Readers : reader[p].pc \in Holding => lock # None /\ lock.by = p
  BY DEF LogInv, LockHeld, At
<1> QED
  BY <1>1

LEMMA CallLog == ASSUME LogInv, NEW r \in Readers, Call(r) PROVE LogInv'
<1>1. reader[r].pc = "idle" /\ Goto(r, "trying") /\ LogTypes
  BY DEF Call, LogInv
<1>2. /\ reader' \in [Readers -> Stands(Len(content))] /\ reader'[r].pc = "trying"
      /\ \A p \in Readers : reader'[p].temp = reader[p].temp
      /\ \A p \in Readers \ {r} : reader'[p] = reader[p]
  BY <1>1, ReaderMoves DEF ReaderPcs
<1>3. LogTypes'
  BY <1>2 DEF LogInv, LogTypes, Call, bounds, history
<1>4. reader[r].temp = 0
  BY <1>1 DEF LogInv, Taken
<1>5. Taken' /\ Opened' /\ Unwritten' /\ Safe' /\ Once'
  BY <1>1, <1>2, <1>3, <1>4, QuietStep DEF Call, history
<1>6. LockHeld'
  <2>1. UNCHANGED <<lock, ages>>
    BY DEF Call, bounds
  <2> QED
    BY <1>2, <2>1, LockStays DEF Holding
<1> QED
  BY <1>3, <1>5, <1>6 DEF LogInv

LEMMA TryLog == ASSUME LogInv, NEW r \in Readers, TryLock(r) PROVE LogInv'
<1> DEFINE q == CASE lock = None -> "locked"
                  [] lock # None /\ lock.stale -> "stale"
                  [] OTHER -> "trying"
<1>1. /\ reader[r].pc = "trying" /\ reader[r].tries < MaxRetries /\ reader[r].temp = 0
      /\ reader[r] \in Stands(Len(content)) /\ lock \in {None} \cup [by : Readers, stale : BOOLEAN]
  BY DEF TryLock, LogInv, LogTypes, Taken
<1>2. reader' = [reader EXCEPT ![r].tries = @ + 1, ![r].pc = q]
  BY DEF TryLock
<1>3. /\ lock = None => q = "locked"
      /\ lock # None /\ lock.stale => q = "stale"
      /\ lock # None /\ ~lock.stale => q = "trying"
  OBVIOUS
<1>4. q \in {"locked", "stale", "trying"}
  BY <1>1, <1>3
<1> HIDE DEF q
<1>5. /\ reader' \in [Readers -> Stands(Len(content))] /\ reader'[r].pc = q
      /\ \A p \in Readers : reader'[p].temp = reader[p].temp
      /\ \A p \in Readers \ {r} : reader'[p] = reader[p]
  <2>1. reader[r].tries + 1 \in 0 .. MaxRetries
    BY <1>1, LogAssumption DEF Stands
  <2> QED
    BY <1>1, <1>2, <1>4, <2>1 DEF LogInv, LogTypes, Stands, ReaderPcs
<1>6. LogTypes'
  <2>1. lock' \in {None} \cup [by : Readers, stale : BOOLEAN]
    BY <1>1 DEF TryLock
  <2> QED
    BY <1>5, <2>1 DEF LogInv, LogTypes, TryLock, bounds, history
<1>7. Taken' /\ Opened' /\ Unwritten' /\ Safe' /\ Once'
  BY <1>1, <1>4, <1>5, <1>6, QuietStep DEF TryLock, history
<1>8. LockHeld'
  <2> SUFFICES ASSUME ages = 0
               PROVE  /\ \A p \in Readers : reader'[p].pc # "stale"
                      /\ lock' # None => ~lock'.stale
                      /\ \A p \in Readers : reader'[p].pc \in Holding => lock' # None /\ lock'.by = p
    BY DEF LockHeld, TryLock, bounds, At
  <2>1. /\ \A p \in Readers : reader[p].pc # "stale"
        /\ lock # None => ~lock.stale
        /\ \A p \in Readers : reader[p].pc \in Holding => lock # None /\ lock.by = p
    BY DEF LogInv, LockHeld, At
  <2>2. CASE lock = None
    <3>1. q = "locked" /\ lock'.by = r /\ lock'.stale = FALSE /\ lock' # None
      <4>1. lock' = [by |-> r, stale |-> FALSE]
        BY <2>2 DEF TryLock
      <4>2. lock' \in [by : Readers, stale : BOOLEAN] /\ lock'.by = r /\ lock'.stale = FALSE
        BY <4>1
      <4>3. lock' # None
        BY <4>2, LogAssumption, Zenon
      <4> QED
        BY <1>3, <2>2, <4>2, <4>3
    <3>2. \A p \in Readers : reader[p].pc \notin Holding
      BY <2>1, <2>2
    <3>3. lock' # None /\ ~lock'.stale
      BY <3>1
    <3>4. \A p \in Readers \ {r} : reader'[p].pc # "stale" /\ reader'[p].pc \notin Holding
      BY <1>5, <2>1, <3>2
    <3> QED
      BY <1>5, <3>1, <3>3, <3>4
  <2>3. CASE lock # None
    <3>1. q = "trying" /\ lock' = lock
      BY <1>3, <2>1, <2>3 DEF TryLock
    <3> QED
      BY <1>5, <2>1, <2>3, <3>1 DEF Holding
  <2> QED
    BY <2>2, <2>3
<1> QED
  BY <1>6, <1>7, <1>8 DEF LogInv

LEMMA BreakLog == ASSUME LogInv, NEW r \in Readers, BreakLock(r) PROVE LogInv'
<1>1. reader[r].pc = "stale" /\ Goto(r, "trying") /\ LogTypes
  BY DEF BreakLock, LogInv
<1>2. /\ reader' \in [Readers -> Stands(Len(content))] /\ reader'[r].pc = "trying"
      /\ \A p \in Readers : reader'[p].temp = reader[p].temp
      /\ \A p \in Readers \ {r} : reader'[p] = reader[p]
  BY <1>1, ReaderMoves DEF ReaderPcs
<1>3. LogTypes'
  BY <1>2 DEF LogInv, LogTypes, BreakLock, bounds, history
<1>4. reader[r].temp = 0
  BY <1>1 DEF LogInv, Taken
<1>5. Taken' /\ Opened' /\ Unwritten' /\ Safe' /\ Once'
  BY <1>1, <1>2, <1>3, <1>4, QuietStep DEF BreakLock, history
<1>6. LockHeld'
  BY <1>1 DEF LogInv, LockHeld, BreakLock, bounds
<1> QED
  BY <1>3, <1>5, <1>6 DEF LogInv

LEMMA ReleaseLog == ASSUME LogInv, NEW r \in Readers, Release(r) PROVE LogInv'
<1>1. reader[r].pc = "release" /\ Goto(r, "done") /\ LogTypes
  BY DEF Release, LogInv
<1>2. /\ reader' \in [Readers -> Stands(Len(content))] /\ reader'[r].pc = "done"
      /\ \A p \in Readers : reader'[p].temp = reader[p].temp
      /\ \A p \in Readers \ {r} : reader'[p] = reader[p]
  BY <1>1, ReaderMoves DEF ReaderPcs
<1>3. LogTypes'
  BY <1>2 DEF LogInv, LogTypes, Release, bounds, history
<1>4. reader[r].temp = 0
  BY <1>1 DEF LogInv, Taken
<1>5. Taken' /\ Opened' /\ Unwritten' /\ Safe' /\ Once'
  BY <1>1, <1>2, <1>3, <1>4, QuietStep DEF Release, history
<1>6. LockHeld'
  <2> SUFFICES ASSUME ages = 0
               PROVE  \A p \in Readers : reader'[p].pc # "stale" /\ reader'[p].pc \notin Holding
    BY DEF LockHeld, Release, bounds, At
  <2>1. \A p \in Readers : /\ reader[p].pc # "stale"
                           /\ reader[p].pc \in Holding => lock.by = p
    BY DEF LogInv, LockHeld, At
  <2>2. lock.by = r
    BY <1>1, <2>1 DEF Holding
  <2> QED
    BY <1>2, <2>1, <2>2 DEF Holding
<1> QED
  BY <1>3, <1>5, <1>6 DEF LogInv

LEMMA AgeLog == ASSUME LogInv, Age PROVE LogInv'
<1>1. LogTypes'
  <2>1. lock \in [by : Readers, stale : BOOLEAN] /\ lock' = [lock EXCEPT !.stale = TRUE]
    BY DEF LogInv, LogTypes, Age
  <2>2. lock' \in [by : Readers, stale : BOOLEAN]
    BY <2>1
  <2>3. ages' \in Nat
    BY DEF LogInv, LogTypes, Age
  <2> QED
    BY <2>2, <2>3 DEF LogInv, LogTypes, Age, history
<1>2. LockHeld'
  BY DEF LogInv, LogTypes, LockHeld, Age
<1>3. \A l \in Lines, r \in Takers : Holds(r, l)' <=> Holds(r, l)
  BY DEF Holds, LinesOf, Age
<1>4. Taken' /\ Opened' /\ Unwritten'
  BY DEF LogInv, Taken, Opened, Unwritten, Age, history
<1>5. Safe' /\ Once'
  <2>1. LinesOf(log)' = LinesOf(log) /\ At({"renamed"})' = At({"renamed"})
    BY DEF LinesOf, At, Age
  <2> QED
    BY <1>3, <2>1, HoldersStay DEF Age, history
<1> QED
  BY <1>1, <1>2, <1>4, <1>5 DEF LogInv

LEMMA CrashLog == ASSUME LogInv, NEW r \in Readers, Crash(r) PROVE LogInv'
<1>1. Goto(r, "dead") /\ LogTypes
  BY DEF Crash, LogInv
<1>2. /\ reader' \in [Readers -> Stands(Len(content))] /\ reader'[r].pc = "dead"
      /\ \A p \in Readers : reader'[p].temp = reader[p].temp
      /\ \A p \in Readers \ {r} : reader'[p] = reader[p]
  BY <1>1, ReaderMoves DEF ReaderPcs
<1>3. LogTypes'
  BY <1>2 DEF LogInv, LogTypes, Crash, history
<1>4. Taken' /\ Opened' /\ Unwritten' /\ Safe' /\ Once'
  BY <1>1, <1>2, <1>3, QuietStep DEF Crash, history
<1>5. LockHeld'
  <2>1. UNCHANGED <<lock, ages>>
    BY DEF Crash
  <2> QED
    BY <1>2, <2>1, LockStays DEF Holding
<1> QED
  BY <1>3, <1>4, <1>5 DEF LogInv

-----------------------------------------------------------------------------
(* The log is deleted. *)
LEMMA Deletes ==
    ASSUME LogInv, LogTypes', log' = 0, cut' = cut \cup LinesOf(log), hit' = hit \cup Open,
           UNCHANGED <<content, append, got, trim, crossed>>,
           NEW r \in Readers, \A q \in Readers : reader'[q].temp = reader[q].temp,
           \A q \in Readers \ {r} : reader'[q].pc = reader[q].pc,
           reader[r].temp = 0, reader'[r].pc \in {"release", "done"}
    PROVE  Taken' /\ Opened' /\ Unwritten' /\ Safe' /\ Once'
<1>1. Taken'
  BY DEF LogInv, Taken
<1>2. Opened' /\ Unwritten'
  BY DEF LogInv, Opened, Unwritten, Open
<1>3. \A q \in Takers, l \in Lines : Holds(q, l)' <=> Holds(q, l)
  BY DEF Holds, LinesOf, Takers, Readers
<1>4. At({"renamed"})' # {} => At({"renamed"}) # {}
  BY DEF At
<1>5. LinesOf(log)' = {}
  BY DEF LinesOf
<1>6. \A l \in LinesOf(log) : Elsewhere(l)'
  BY DEF Elsewhere
<1> QED
  BY <1>1, <1>2, <1>3, <1>4, <1>5, <1>6, HoldersStay

LEMMA GiveUpLog == ASSUME LogInv, NEW r \in Readers, GiveUp(r) PROVE LogInv'
<1>1. reader[r].pc = "trying" /\ Goto(r, "done") /\ LogTypes /\ UNCHANGED bounds
  BY DEF GiveUp, LogInv
<1>2. /\ reader' \in [Readers -> Stands(Len(content))] /\ reader'[r].pc = "done"
      /\ \A p \in Readers : reader'[p].temp = reader[p].temp
      /\ \A p \in Readers \ {r} : reader'[p] = reader[p]
  BY <1>1, ReaderMoves DEF ReaderPcs
<1>3. LogTypes'
  <2>1. log' \in 0 .. Len(content) /\ cut' \subseteq Lines /\ hit' \subseteq Lines
    BY <1>1, LinesIn DEF GiveUp, LogTypes, Open
  <2> QED
    BY <1>1, <1>2, <2>1 DEF LogTypes, GiveUp, bounds
<1>4. reader[r].temp = 0
  BY <1>1 DEF LogInv, Taken
<1>5. Taken' /\ Opened' /\ Unwritten' /\ Safe' /\ Once'
  <2>1. CASE r \in Cleanups
    BY <1>1, <1>2, <1>3, <1>4, <2>1, Deletes DEF GiveUp
  <2>2. CASE r \notin Cleanups
    BY <1>1, <1>2, <1>3, <1>4, <2>2, QuietStep DEF GiveUp
  <2> QED
    BY <2>1, <2>2
<1>6. LockHeld'
  <2>1. UNCHANGED <<lock, ages>>
    BY DEF GiveUp, bounds
  <2> QED
    BY <1>2, <2>1, LockStays DEF Holding
<1> QED
  BY <1>3, <1>5, <1>6 DEF LogInv

LEMMA CleanLogKeeps == ASSUME LogInv, NEW r \in Readers, CleanLog(r) PROVE LogInv'
<1>1. reader[r].pc = "locked" /\ Goto(r, "release") /\ LogTypes
  BY DEF CleanLog, LogInv
<1>2. /\ reader' \in [Readers -> Stands(Len(content))] /\ reader'[r].pc = "release"
      /\ \A p \in Readers : reader'[p].temp = reader[p].temp
      /\ \A p \in Readers \ {r} : reader'[p] = reader[p]
  BY <1>1, ReaderMoves DEF ReaderPcs
<1>3. LogTypes'
  <2>1. log' \in 0 .. Len(content) /\ cut' \subseteq Lines /\ hit' \subseteq Lines
    BY <1>1, LinesIn DEF CleanLog, LogTypes, Open
  <2> QED
    BY <1>1, <1>2, <2>1 DEF LogTypes, CleanLog, bounds
<1>4. reader[r].temp = 0
  BY <1>1 DEF LogInv, Taken
<1>5. Taken' /\ Opened' /\ Unwritten' /\ Safe' /\ Once'
  BY <1>2, <1>3, <1>4, Deletes DEF CleanLog
<1>6. LockHeld'
  <2>1. UNCHANGED <<lock, ages>>
    BY DEF CleanLog, bounds
  <2> QED
    BY <1>1, <1>2, <2>1, LockStays DEF Holding
<1> QED
  BY <1>3, <1>5, <1>6 DEF LogInv

LEMMA LookLog == ASSUME LogInv, NEW r \in Readers, Look(r) PROVE LogInv'
<1>1. /\ reader[r].pc = "locked" /\ r \in Looks /\ Goto(r, "release") /\ LogTypes
      /\ UNCHANGED <<log, content, append, lock, trim, bounds, hit, cut, crossed, delivered>>
  BY DEF Look, LogInv, history
<1>2. /\ reader' \in [Readers -> Stands(Len(content))] /\ reader'[r].pc = "release"
      /\ \A p \in Readers : reader'[p].temp = reader[p].temp
      /\ \A p \in Readers \ {r} : reader'[p] = reader[p]
  BY <1>1, ReaderMoves DEF ReaderPcs
<1> DEFINE shown == IF log = 0 THEN << >> ELSE content[log]
<1>3. got' = [got EXCEPT ![r] = shown] /\ shown \in Seq(Lines) /\ got \in [Readers -> Seq(Lines)]
  BY <1>1 DEF Look, LogTypes
<1>4. \A l \in ToSet(shown) : l \in LinesOf(log)
  BY DEF LinesOf, ToSet
<1> HIDE DEF shown
<1>5. /\ got' \in [Readers -> Seq(Lines)] /\ got'[r] = shown
      /\ \A p \in Readers \ {r} : got'[p] = got[p]
  BY <1>3
<1>6. LogTypes'
  BY <1>1, <1>2, <1>5 DEF LogTypes, bounds
<1>7. r \notin Takers /\ Takers \subseteq Readers /\ reader[r].temp = 0
  BY <1>1, LogAssumption DEF Takers, Readers, LogInv, Taken
<1>8. Taken'
  BY <1>1, <1>2, <1>5, <1>7 DEF LogInv, Taken
<1>9. Opened'
  BY <1>1 DEF LogInv, Opened
<1>10. Unwritten'
  <2> SUFFICES ASSUME NEW l \in Lines, append[l].pc # "done"
               PROVE  /\ \A i \in 1 .. Len(content) : l \notin ToSet(content[i])
                      /\ \A p \in Readers : l \notin ToSet(got'[p])
                      /\ l \notin ToSet(trim.kept)
    BY <1>1 DEF Unwritten
  <2>1. /\ \A i \in 1 .. Len(content) : l \notin ToSet(content[i])
        /\ \A p \in Readers : l \notin ToSet(got[p])
        /\ l \notin ToSet(trim.kept)
    BY DEF LogInv, Unwritten
  <2>2. l \notin LinesOf(log)
    BY <1>1, <2>1 DEF LinesOf, LogTypes
  <2> QED
    BY <1>4, <1>5, <2>1, <2>2
<1>11. Safe' /\ Once'
  <2>1. \A q \in Takers, l \in Lines : Holds(q, l)' <=> Holds(q, l)
    BY <1>1, <1>2, <1>5, <1>7 DEF Holds, LinesOf
  <2>2. At({"renamed"})' # {} => At({"renamed"}) # {}
    BY <1>2 DEF At
  <2>3. LinesOf(log)' = LinesOf(log)
    BY <1>1 DEF LinesOf
  <2> QED
    BY <1>1, <2>1, <2>2, <2>3, HoldersStay
<1>12. LockHeld'
  <2>1. UNCHANGED <<lock, ages>>
    BY <1>1 DEF bounds
  <2> QED
    BY <1>1, <1>2, <2>1, LockStays DEF Holding
<1> QED
  BY <1>6, <1>8, <1>9, <1>10, <1>11, <1>12 DEF LogInv

-----------------------------------------------------------------------------
(* A file is added, to be the log. *)
LEMMA NewLog ==
    ASSUME LogInv, NEW s \in Seq(Lines), content' = Append(content, s), log' = Len(content')
    PROVE  /\ log' \in Nat \ {0} /\ log' \notin 0 .. Len(content) /\ log' = Len(content) + 1
           /\ \A r \in Readers : reader[r].temp \in 0 .. Len(content)
           /\ \A i \in 0 .. Len(content) : LinesOf(i)' = LinesOf(i)
           /\ LinesOf(log)' = ToSet(s)
<1>1. /\ Len(content) \in Nat /\ log' = Len(content) + 1 /\ content'[log'] = s
      /\ \A i \in 1 .. Len(content) : content'[i] = content[i]
  BY FileAdded DEF LogInv, LogTypes
<1>2. \A i \in 0 .. Len(content) : LinesOf(i)' = LinesOf(i)
  <2> SUFFICES ASSUME NEW i \in 0 .. Len(content) PROVE LinesOf(i)' = LinesOf(i)
    OBVIOUS
  <2>1. CASE i = 0
    BY <2>1 DEF LinesOf
  <2>2. CASE i # 0
    <3>1. content'[i] = content[i]
      BY <1>1, <2>2
    <3> QED
      BY <2>2, <3>1 DEF LinesOf
  <2> QED
    BY <2>1, <2>2
<1>3. LinesOf(log)' = ToSet(s)
  <2>1. log' # 0
    BY <1>1
  <2> QED
    BY <1>1, <2>1 DEF LinesOf
<1>4. \A r \in Readers : reader[r].temp \in 0 .. Len(content)
  BY DEF LogInv, LogTypes, Stands
<1> QED
  BY <1>1, <1>2, <1>3, <1>4

(* Files that are not written to, and takers that read nothing. *)
LEMMA HeldStays ==
    ASSUME LogInv, UNCHANGED got, \A r \in Readers : reader'[r].temp = reader[r].temp,
           \A i \in 0 .. Len(content) : LinesOf(i)' = LinesOf(i)
    PROVE  \A r \in Takers, l \in Lines : Holds(r, l)' <=> Holds(r, l)
<1> SUFFICES ASSUME NEW r \in Takers, NEW l \in Lines PROVE Holds(r, l)' <=> Holds(r, l)
  OBVIOUS
<1>1. reader'[r].temp = reader[r].temp /\ reader[r].temp \in 0 .. Len(content)
  BY DEF LogInv, LogTypes, Stands, Takers, Readers
<1>2. PICK i \in 0 .. Len(content) : i = reader[r].temp
  BY <1>1
<1>3. LinesOf(i)' = LinesOf(i)
  OBVIOUS
<1>4. LinesOf(reader[r].temp)' = LinesOf(reader[r].temp)
  BY <1>1, <1>2, <1>3 DEF LinesOf
<1> QED
  BY <1>4 DEF Holds

LEMMA OpenLogKeeps == ASSUME LogInv, NEW l \in Lines, OpenLog(l) PROVE LogInv'
<1>1. /\ append[l].pc = "new"
      /\ append' = [append EXCEPT ![l] = [pc |-> "open", file |-> log']]
      /\ UNCHANGED <<lock, reader, got, delivered, trim, bounds, hit, cut, crossed>>
  BY DEF OpenLog, history
<1>2. ToSet(<< >>) = {}
  BY DEF ToSet
<1>3. /\ LogTypes' /\ log' # 0 /\ Len(content) \in Nat /\ Len(content') \in Nat
      /\ \A i \in 0 .. Len(content) : LinesOf(i)' = LinesOf(i)
      /\ \A i \in 1 .. Len(content') :
            (i \in 1 .. Len(content) /\ content'[i] = content[i]) \/ ToSet(content'[i]) = {}
      /\ \A r \in Readers : reader[r].temp # 0 => reader[r].temp # log'
      /\ LinesOf(log)' = LinesOf(log)
      /\ log # 0 => log' = log
  <2>1. CASE log = 0
    <3>1. content' = Append(content, << >>) /\ log' = Len(content') /\ << >> \in Seq(Lines)
      BY <2>1 DEF OpenLog
    <3>2. /\ log' \in Nat \ {0} /\ log' \notin 0 .. Len(content) /\ log' = Len(content) + 1
          /\ \A r \in Readers : reader[r].temp \in 0 .. Len(content)
          /\ \A i \in 0 .. Len(content) : LinesOf(i)' = LinesOf(i)
          /\ LinesOf(log)' = ToSet(<< >>)
      BY <3>1, NewLog
    <3>3. /\ content' \in Seq(Seq(Lines)) /\ Len(content') = Len(content) + 1
          /\ \A i \in 1 .. Len(content) : content'[i] = content[i]
          /\ content'[Len(content')] = << >>
          /\ append \in [Lines -> Appends(Len(content'))]
          /\ reader \in [Readers -> Stands(Len(content'))]
          /\ Len(content) \in Nat
      BY <3>1, FileAdded DEF LogInv, LogTypes
    <3>4. append' \in [Lines -> Appends(Len(content'))]
      BY <1>1, <3>2, <3>3 DEF Appends
    <3>5. LogTypes'
      BY <1>1, <3>2, <3>3, <3>4 DEF LogInv, LogTypes, bounds
    <3>6. \A i \in 1 .. Len(content') :
            (i \in 1 .. Len(content) /\ content'[i] = content[i]) \/ ToSet(content'[i]) = {}
      BY <1>2, <3>3
    <3>7. LinesOf(log)' = LinesOf(log)
      BY <1>2, <2>1, <3>2 DEF LinesOf
    <3>8. Len(content') \in Nat
      BY <3>3
    <3> QED
      BY <2>1, <3>2, <3>3, <3>5, <3>6, <3>7, <3>8
  <2>2. CASE log # 0
    <3>1. UNCHANGED <<log, content>>
      BY <2>2 DEF OpenLog
    <3>2. append' \in [Lines -> Appends(Len(content))]
      BY <1>1, <3>1 DEF LogInv, LogTypes, Appends
    <3>3. LogTypes'
      BY <1>1, <3>1, <3>2 DEF LogInv, LogTypes, bounds
    <3>4. \A i \in 0 .. Len(content) : LinesOf(i)' = LinesOf(i)
      BY <3>1 DEF LinesOf
    <3>5. \A r \in Readers : reader[r].temp # 0 => reader[r].temp # log'
      BY <3>1 DEF LogInv, Taken
    <3>6. LinesOf(log)' = LinesOf(log)
      BY <3>1 DEF LinesOf
    <3>7. Len(content) \in Nat
      BY DEF LogInv, LogTypes
    <3> QED
      BY <2>2, <3>1, <3>3, <3>4, <3>5, <3>6, <3>7
  <2> QED
    BY <2>1, <2>2
<1>4. /\ append'[l].pc = "open" /\ append'[l].file = log'
      /\ \A k \in Lines \ {l} : append'[k] = append[k]
  BY <1>1 DEF LogInv, LogTypes
<1>5. LockHeld'
  BY <1>1 DEF LogInv, LockHeld, At, bounds
<1>6. Taken'
  BY <1>1, <1>3 DEF LogInv, Taken
<1>7. Opened'
  <2> SUFFICES ASSUME NEW k \in Lines, append'[k].pc = "open"
               PROVE  append'[k].file # 0 /\ (k \notin hit => append'[k].file = log')
    BY <1>1 DEF Opened
  <2>1. CASE k = l
    BY <1>3, <1>4, <2>1
  <2>2. CASE k # l
    BY <1>3, <1>4, <2>2 DEF LogInv, Opened
  <2> QED
    BY <2>1, <2>2
<1>8. Unwritten'
  <2> SUFFICES ASSUME NEW k \in Lines, append'[k].pc # "done"
               PROVE  /\ \A i \in 1 .. Len(content') : k \notin ToSet(content'[i])
                      /\ \A r \in Readers : k \notin ToSet(got[r])
                      /\ k \notin ToSet(trim.kept)
    BY <1>1 DEF Unwritten
  <2>1. append[k].pc # "done"
    BY <1>1, <1>4
  <2>2. /\ \A i \in 1 .. Len(content) : k \notin ToSet(content[i])
        /\ \A r \in Readers : k \notin ToSet(got[r])
        /\ k \notin ToSet(trim.kept)
    BY <2>1 DEF LogInv, Unwritten
  <2> QED
    BY <1>3, <2>2
<1>9. Safe' /\ Once'
  <2>1. \A q \in Takers, k \in Lines : Holds(q, k)' <=> Holds(q, k)
    BY <1>1, <1>3, HeldStays
  <2>2. At({"renamed"})' = At({"renamed"})
    BY <1>1 DEF At
  <2>3. \A k \in Lines : append'[k].pc = "done" => append[k].pc = "done"
    BY <1>1, <1>4
  <2> QED
    BY <1>1, <1>3, <2>1, <2>2, <2>3, HoldersStay
<1> QED
  BY <1>3, <1>5, <1>6, <1>7, <1>8, <1>9 DEF LogInv

LEMMA WriteLineKeeps == ASSUME LogInv, NEW l \in Lines, WriteLine(l) PROVE LogInv'
<1> DEFINE f == append[l].file
<1>1. /\ append[l].pc = "open" /\ append' = [append EXCEPT ![l].pc = "done"]
      /\ content' = [content EXCEPT ![f] = Append(@, l)]
      /\ hit' = IF At({"renamed"}) # {} \/ trim.pc = "read" THEN hit \cup {l} ELSE hit
      /\ UNCHANGED <<log, lock, reader, got, delivered, trim, bounds, cut, crossed>>
  BY DEF WriteLine
<1>2. /\ f \in 1 .. Len(content) /\ content[f] \in Seq(Lines) /\ (l \notin hit => f = log)
      /\ Len(content) \in Nat /\ content \in Seq(Seq(Lines))
  BY <1>1 DEF LogInv, LogTypes, Appends, Opened
<1>3. append' \in [Lines -> Appends(Len(content))]
  BY <1>1 DEF LogInv, LogTypes, Appends
<1>4. append'[l].pc = "done" /\ \A k \in Lines \ {l} : append'[k] = append[k]
  BY <1>1 DEF LogInv, LogTypes, Appends
<1> HIDE DEF f
<1>5. /\ content' \in Seq(Seq(Lines)) /\ Len(content') = Len(content)
      /\ content'[f] = Append(content[f], l)
      /\ \A i \in 1 .. Len(content) : i # f => content'[i] = content[i]
  <2> DEFINE s == Append(content[f], l)
  <2>1. s \in Seq(Lines)
    BY <1>2
  <2>2. content' = [content EXCEPT ![f] = s]
    BY <1>1
  <2> HIDE DEF s
  <2>3. /\ content' \in Seq(Seq(Lines)) /\ Len(content') = Len(content) /\ content'[f] = s
        /\ \A i \in 1 .. Len(content) : i # f => content'[i] = content[i]
    BY <1>2, <2>1, <2>2
  <2> QED
    BY <2>3 DEF s
<1>6. LogTypes'
  BY <1>1, <1>3, <1>5 DEF LogInv, LogTypes, bounds
<1>7. \A i \in 1 .. Len(content) : ToSet(content'[i]) = ToSet(content[i]) \cup IF i = f THEN {l} ELSE {}
  BY <1>2, <1>5, LinesAppended
<1>8. \A i \in 0 .. Len(content) : LinesOf(i)' = LinesOf(i) \cup IF i = f THEN {l} ELSE {}
  <2> SUFFICES ASSUME NEW i \in 0 .. Len(content)
               PROVE  LinesOf(i)' = LinesOf(i) \cup IF i = f THEN {l} ELSE {}
    OBVIOUS
  <2>1. CASE i = 0
    <3>1. i # f /\ LinesOf(i)' = {} /\ LinesOf(i) = {}
      BY <1>2, <2>1 DEF LinesOf
    <3> QED
      BY <3>1
  <2>2. CASE i # 0
    <3>1. i \in 1 .. Len(content) /\ LinesOf(i)' = ToSet(content'[i]) /\ LinesOf(i) = ToSet(content[i])
      BY <1>2, <2>2 DEF LinesOf
    <3> QED
      BY <1>7, <3>1, Zenon
  <2> QED
    BY <2>1, <2>2
<1>9. LinesOf(log)' = LinesOf(log) \cup IF log = f THEN {l} ELSE {}
  <2>1. log \in 0 .. Len(content)
    BY DEF LogInv, LogTypes
  <2>2. PICK i \in 0 .. Len(content) : i = log
    BY <2>1
  <2>3. LinesOf(i)' = LinesOf(i) \cup IF i = f THEN {l} ELSE {}
    BY <1>8
  <2> QED
    BY <1>1, <2>2, <2>3 DEF LinesOf
<1>10. \A q \in Takers, k \in Lines :
         Holds(q, k)' <=> Holds(q, k) \/ (k = l /\ reader[q].temp = f)
  <2> SUFFICES ASSUME NEW q \in Takers, NEW k \in Lines
               PROVE  Holds(q, k)' <=> Holds(q, k) \/ (k = l /\ reader[q].temp = f)
    OBVIOUS
  <2>1. reader'[q].temp = reader[q].temp /\ reader[q].temp \in 0 .. Len(content)
    BY <1>1 DEF LogInv, LogTypes, Stands, Takers, Readers
  <2>2. PICK i \in 0 .. Len(content) : i = reader[q].temp
    BY <2>1
  <2>3. LinesOf(i)' = LinesOf(i) \cup IF i = f THEN {l} ELSE {}
    BY <1>8
  <2>4. LinesOf(reader[q].temp)' = LinesOf(reader[q].temp) \cup IF reader[q].temp = f THEN {l} ELSE {}
    BY <2>1, <2>2, <2>3 DEF LinesOf
  <2> QED
    BY <1>1, <2>4 DEF Holds
<1>11. /\ \A i \in 1 .. Len(content) : l \notin ToSet(content[i])
       /\ \A r \in Readers : l \notin ToSet(got[r])
       /\ l \notin ToSet(trim.kept)
  BY <1>1 DEF LogInv, Unwritten
<1>12. /\ l \notin LinesOf(log)
       /\ \A q \in Takers : ~Holds(q, l) /\ q \in Readers
  <2>1. \A i \in 0 .. Len(content) : l \notin LinesOf(i)
    BY <1>11 DEF LinesOf
  <2>2. log \in 0 .. Len(content) /\ \A q \in Readers : reader[q].temp \in 0 .. Len(content)
    BY DEF LogInv, LogTypes, Stands
  <2> QED
    BY <1>11, <2>1, <2>2 DEF Holds, Takers, Readers
<1>13. LockHeld' /\ Taken'
  <2>1. LockHeld'
    BY <1>1 DEF LogInv, LockHeld, At, bounds
  <2>2. Taken'
    BY <1>1 DEF LogInv, Taken
  <2> QED
    BY <2>1, <2>2
<1>14. Opened'
  BY <1>1, <1>4 DEF LogInv, Opened
<1>15. Unwritten'
  <2> SUFFICES ASSUME NEW k \in Lines, append'[k].pc # "done"
               PROVE  /\ \A i \in 1 .. Len(content') : k \notin ToSet(content'[i])
                      /\ \A r \in Readers : k \notin ToSet(got[r])
                      /\ k \notin ToSet(trim.kept)
    BY <1>1 DEF Unwritten
  <2>1. k # l /\ append[k].pc # "done"
    BY <1>4
  <2>2. /\ \A i \in 1 .. Len(content) : k \notin ToSet(content[i])
        /\ \A r \in Readers : k \notin ToSet(got[r])
        /\ k \notin ToSet(trim.kept)
    BY <2>1 DEF LogInv, Unwritten
  <2>3. \A i \in 1 .. Len(content) : k \notin ToSet(content'[i])
    BY <1>7, <2>1, <2>2
  <2> QED
    BY <1>5, <2>2, <2>3
<1>16. \A k \in Lines : Elsewhere(k) => Elsewhere(k)'
  BY <1>1, <1>10 DEF Elsewhere
<1>17. Safe'
  <2>1. \A k \in Lines \ hit' : append'[k].pc = "done" => k \in LinesOf(log)' \/ Elsewhere(k)'
    <3> SUFFICES ASSUME NEW k \in Lines \ hit', append'[k].pc = "done"
                 PROVE  k \in LinesOf(log)' \/ Elsewhere(k)'
      OBVIOUS
    <3>1. CASE k = l
      BY <1>1, <1>2, <1>9, <3>1
    <3>2. CASE k # l
      BY <1>1, <1>4, <1>9, <1>16, <3>2 DEF LogInv, Safe
    <3> QED
      BY <3>1, <3>2
  <2>2. At({"renamed"})' # {} => \A k \in LinesOf(log)' \ hit' : Elsewhere(k)'
    <3> SUFFICES ASSUME At({"renamed"}) # {}, NEW k \in LinesOf(log)' \ hit' PROVE Elsewhere(k)'
      BY <1>1 DEF At
    <3>1. k \in LinesOf(log) /\ k \notin hit
      BY <1>1, <1>9
    <3>2. k \in Lines
      BY <3>1, LinesIn DEF LogInv
    <3> QED
      BY <1>16, <3>1, <3>2 DEF LogInv, Safe
  <2>3. trim'.pc = "read" => LinesOf(log)' \ hit' \subseteq ToSet(trim'.kept) \cup trim'.dropped
    BY <1>1, <1>9 DEF LogInv, Safe
  <2> QED
    BY <2>1, <2>2, <2>3 DEF Safe
<1>18. Once'
  <2> SUFFICES ASSUME ~crossed, NEW k \in Lines, NEW r \in Takers, Holds(r, k)'
               PROVE  /\ \A q \in Takers \ {r} : ~Holds(q, k)'
                      /\ k \notin LinesOf(log)'
                      /\ trim.pc = "read" => k \notin ToSet(trim.kept)
    BY <1>1 DEF Once
  <2>1. CASE k = l
    <3>1. reader[r].temp = f
      BY <1>10, <1>12, <2>1
    <3>2. f # 0
      BY <1>2
    <3>3. log # f /\ \A q \in Readers \ {r} : reader[q].temp # f
      BY <1>12, <3>1, <3>2 DEF LogInv, Taken
    <3> QED
      BY <1>9, <1>10, <1>11, <1>12, <2>1, <3>3
  <2>2. CASE k # l
    BY <1>9, <1>10, <2>2 DEF LogInv, Once
  <2> QED
    BY <2>1, <2>2
<1> QED
  BY <1>6, <1>13, <1>14, <1>15, <1>17, <1>18 DEF LogInv

LEMMA TrimReadKeeps == ASSUME LogInv, TrimRead PROVE LogInv'
<1> DEFINE all == content[log]
           kept == SubSeq(all, Len(all) - Keep + 1, Len(all))
           dropped == ToSet(SubSeq(all, 1, Len(all) - Keep))
<1>1. /\ trim.pc = "idle" /\ log # 0 /\ Len(all) > MaxLines
      /\ trim' = [pc |-> "read", kept |-> kept, dropped |-> dropped]
      /\ UNCHANGED <<log, content, append, lock, reader, got, delivered, ages, hit, cut, crossed>>
  BY DEF TrimRead, history
<1>2. all \in Seq(Lines) /\ LinesOf(log) = ToSet(all) /\ log \in 1 .. Len(content)
  BY <1>1 DEF LogInv, LogTypes, LinesOf
<1>3. Keep \in Nat /\ Keep <= Len(all)
  BY <1>1, <1>2, LogAssumption
<1>4. kept \in Seq(Lines) /\ dropped \subseteq Lines /\ ToSet(all) = ToSet(kept) \cup dropped
  BY <1>2, <1>3, LinesSplit
<1> HIDE DEF all, kept, dropped
<1>5. trim' \in Trims /\ trim'.pc = "read" /\ trim'.kept = kept /\ trim'.dropped = dropped
  BY <1>1, <1>4 DEF Trims
<1>6. LogTypes'
  BY <1>1, <1>5 DEF LogInv, LogTypes
<1>7. LockHeld' /\ Taken' /\ Opened'
  BY <1>1 DEF LogInv, LockHeld, Taken, Opened, At
<1>8. Unwritten'
  <2>1. \A l \in Lines : append[l].pc # "done" => l \notin ToSet(kept)
    BY <1>2, <1>4 DEF LogInv, Unwritten, all
  <2> QED
    BY <1>1, <1>5, <2>1 DEF LogInv, Unwritten
<1>9. /\ \A q \in Takers, l \in Lines : Holds(q, l)' <=> Holds(q, l)
      /\ LinesOf(log)' = LinesOf(log) /\ At({"renamed"})' = At({"renamed"})
  BY <1>1 DEF Holds, LinesOf, At
<1>10. \A l \in Lines : Elsewhere(l)' <=> Elsewhere(l)
  BY <1>1, <1>9 DEF Elsewhere
<1>11. Safe'
  <2>1. LinesOf(log) \subseteq Lines
    BY LinesIn DEF LogInv
  <2> QED
    BY <1>1, <1>2, <1>4, <1>5, <1>9, <1>10, <2>1 DEF LogInv, Safe
<1>12. Once'
  BY <1>1, <1>2, <1>4, <1>5, <1>9 DEF LogInv, Once
<1> QED
  BY <1>6, <1>7, <1>8, <1>11, <1>12 DEF LogInv

LEMMA TrimRenameKeeps == ASSUME LogInv, TrimRename PROVE LogInv'
<1>1. /\ trim.pc = "read" /\ content' = Append(content, trim.kept) /\ log' = Len(content')
      /\ trim' = NoTrim /\ hit' = hit \cup Open /\ cut' = cut \cup trim.dropped
      /\ UNCHANGED <<append, lock, reader, got, delivered, bounds, crossed>>
  BY DEF TrimRename
<1>2. trim.kept \in Seq(Lines) /\ trim.dropped \subseteq Lines
  BY DEF LogInv, LogTypes, Trims
<1>3. /\ log' \in Nat \ {0} /\ log' \notin 0 .. Len(content) /\ log' = Len(content) + 1
      /\ \A r \in Readers : reader[r].temp \in 0 .. Len(content)
      /\ \A i \in 0 .. Len(content) : LinesOf(i)' = LinesOf(i)
      /\ LinesOf(log)' = ToSet(trim.kept)
  BY <1>1, <1>2, NewLog
<1>4. /\ content' \in Seq(Seq(Lines)) /\ Len(content') = Len(content) + 1
      /\ \A i \in 1 .. Len(content) : content'[i] = content[i]
      /\ content'[Len(content')] = trim.kept
      /\ append \in [Lines -> Appends(Len(content'))]
      /\ reader \in [Readers -> Stands(Len(content'))]
      /\ Len(content) \in Nat
  BY <1>1, <1>2, FileAdded DEF LogInv, LogTypes
<1>5. trim'.pc = "idle" /\ trim'.kept = << >> /\ trim' \in Trims
  BY <1>1 DEF NoTrim, Trims
<1>6. LogTypes'
  BY <1>1, <1>2, <1>3, <1>4, <1>5 DEF LogInv, LogTypes, bounds, Open
<1>7. LockHeld'
  BY <1>1 DEF LogInv, LockHeld, At, bounds
<1>8. Taken'
  BY <1>1, <1>3 DEF LogInv, Taken
<1>9. Opened'
  BY <1>1 DEF LogInv, Opened, Open
<1>10. Unwritten'
  <2> SUFFICES ASSUME NEW k \in Lines, append[k].pc # "done"
               PROVE  /\ \A i \in 1 .. Len(content') : k \notin ToSet(content'[i])
                      /\ \A r \in Readers : k \notin ToSet(got[r])
                      /\ k \notin ToSet(trim'.kept)
    BY <1>1 DEF Unwritten
  <2>1. /\ \A i \in 1 .. Len(content) : k \notin ToSet(content[i])
        /\ \A r \in Readers : k \notin ToSet(got[r])
        /\ k \notin ToSet(trim.kept)
    BY DEF LogInv, Unwritten
  <2>2. \A i \in 1 .. Len(content') : i \in 1 .. Len(content) \/ i = Len(content')
    BY <1>4
  <2>3. k \notin ToSet(<< >>)
    BY DEF ToSet
  <2> QED
    BY <1>4, <1>5, <2>1, <2>2, <2>3
<1>11. \A q \in Takers, k \in Lines : Holds(q, k)' <=> Holds(q, k)
  BY <1>1, <1>3, HeldStays
<1>12. \A k \in Lines : Elsewhere(k) => Elsewhere(k)'
  BY <1>1, <1>11 DEF Elsewhere
<1>13. LinesOf(log) \subseteq Lines /\ ToSet(trim.kept) \subseteq Lines
  BY <1>2, LinesIn DEF LogInv, ToSet
<1>14. Safe'
  <2>1. \A k \in Lines \ hit' : append'[k].pc = "done" => k \in LinesOf(log)' \/ Elsewhere(k)'
    <3> SUFFICES ASSUME NEW k \in Lines \ hit, append[k].pc = "done"
                 PROVE  k \in LinesOf(log)' \/ Elsewhere(k)'
      BY <1>1
    <3>1. k \in LinesOf(log) \/ Elsewhere(k)
      BY DEF LogInv, Safe
    <3>2. CASE k \in LinesOf(log)
      <4>1. k \in ToSet(trim.kept) \/ k \in trim.dropped
        BY <1>1, <3>2 DEF LogInv, Safe
      <4> QED
        BY <1>1, <1>3, <4>1 DEF Elsewhere
    <3> QED
      BY <1>12, <3>1, <3>2
  <2>2. At({"renamed"})' # {} => \A k \in LinesOf(log)' \ hit' : Elsewhere(k)'
    <3> SUFFICES ASSUME At({"renamed"}) # {}, NEW k \in ToSet(trim.kept) \ hit PROVE Elsewhere(k)'
      BY <1>1, <1>3 DEF At
    <3>1. k \in Lines /\ append[k].pc = "done"
      BY <1>13 DEF LogInv, Unwritten
    <3>2. Elsewhere(k)
      BY <3>1 DEF LogInv, Safe
    <3> QED
      BY <1>12, <3>1, <3>2
  <2> QED
    BY <1>5, <2>1, <2>2 DEF Safe
<1>15. Once'
  BY <1>1, <1>3, <1>5, <1>11 DEF LogInv, Once
<1> QED
  BY <1>6, <1>7, <1>8, <1>9, <1>10, <1>14, <1>15 DEF LogInv

LEMMA RenameKeeps == ASSUME LogInv, NEW r \in Readers, Rename(r) PROVE LogInv'
<1>1. /\ reader[r].pc = "locked" /\ r \in Takers /\ LogTypes /\ reader[r].temp = 0
      /\ got[r] = << >> /\ reader[r] \in Stands(Len(content))
      /\ UNCHANGED <<content, append, lock, got, delivered, trim, bounds, cut>>
  BY DEF Rename, LogInv, Taken, Takers, LogTypes
<1>2. CASE log = 0
  <2>1. Goto(r, "release") /\ UNCHANGED <<log, hit, crossed>>
    BY <1>2 DEF Rename
  <2>2. /\ reader' \in [Readers -> Stands(Len(content))] /\ reader'[r].pc = "release"
        /\ \A p \in Readers : reader'[p].temp = reader[p].temp
        /\ \A p \in Readers \ {r} : reader'[p] = reader[p]
    BY <1>1, <2>1, ReaderMoves DEF ReaderPcs
  <2>3. LogTypes'
    BY <1>1, <2>1, <2>2 DEF LogTypes, bounds
  <2>4. Taken' /\ Opened' /\ Unwritten' /\ Safe' /\ Once'
    BY <1>1, <2>1, <2>2, <2>3, QuietStep
  <2>5. LockHeld'
    BY <1>1, <2>2, LockStays DEF Holding, bounds
  <2> QED
    BY <2>3, <2>4, <2>5 DEF LogInv
<1>3. CASE log # 0
  <2>1. /\ reader' = [reader EXCEPT ![r].pc = "renamed", ![r].temp = log]
        /\ log' = 0 /\ hit' = hit \cup Open /\ crossed' = (crossed \/ trim.pc = "read")
    BY <1>3 DEF Rename
  <2>2. /\ reader' \in [Readers -> Stands(Len(content))]
        /\ reader'[r].pc = "renamed" /\ reader'[r].temp = log
        /\ \A p \in Readers \ {r} : reader'[p] = reader[p]
    BY <1>1, <2>1 DEF LogTypes, Stands, ReaderPcs
  <2>3. LogTypes'
    BY <1>1, <2>1, <2>2 DEF LogTypes, bounds, Open
  <2>4. LockHeld'
    BY <1>1, <2>2, LockStays DEF Holding, bounds
  <2>5. Taken'
    <3> SUFFICES ASSUME NEW p \in Readers
                 PROVE  /\ reader'[p].temp # 0 =>
                              /\ p \in Takers /\ reader'[p].temp # 0
                              /\ reader'[p].pc \in {"renamed", "recreated", "dead"}
                        /\ reader'[p].pc \in {"renamed", "recreated"} => reader'[p].temp # 0
                        /\ reader'[p].pc \notin {"release", "done", "dead"} => got[p] = << >>
                        /\ \A q \in Readers \ {p} : reader'[p].temp # 0 => reader'[q].temp # reader'[p].temp
      BY <1>1, <2>1 DEF Taken
    <3>1. \A q \in Readers : reader[q].temp # 0 => reader[q].temp # log
      BY DEF LogInv, Taken
    <3>2. CASE p = r
      BY <1>1, <1>3, <2>2, <3>1, <3>2
    <3>3. CASE p # r
      <4>1. reader'[p] = reader[p]
        BY <2>2, <3>3
      <4>2. \A q \in Readers \ {p} : reader[p].temp # 0 => reader'[q].temp # reader[p].temp
        BY <2>2, <3>1, <3>3 DEF LogInv, Taken
      <4> QED
        BY <4>1, <4>2 DEF LogInv, Taken
    <3> QED
      BY <3>2, <3>3
  <2>6. Opened' /\ Unwritten'
    BY <1>1, <2>1 DEF LogInv, Opened, Unwritten, Open
  <2>7. \A q \in Takers, k \in Lines :
          Holds(q, k)' <=> Holds(q, k) \/ (q = r /\ k \in LinesOf(log))
    <3> SUFFICES ASSUME NEW q \in Takers, NEW k \in Lines
                 PROVE  Holds(q, k)' <=> Holds(q, k) \/ (q = r /\ k \in LinesOf(log))
      OBVIOUS
    <3>1. CASE q = r
      BY <1>1, <2>2, <3>1 DEF Holds, LinesOf
    <3>2. CASE q # r
      <4>1. reader'[q] = reader[q]
        BY <2>2, <3>2 DEF Takers, Readers
      <4> QED
        BY <1>1, <3>2, <4>1 DEF Holds, LinesOf
    <3> QED
      BY <3>1, <3>2
  <2>8. LinesOf(log)' = {} /\ LinesOf(log) \subseteq Lines
    BY <1>1, <2>1, LinesIn DEF LinesOf
  <2>9. \A k \in Lines : (Elsewhere(k) => Elsewhere(k)') /\ (k \in LinesOf(log) => Elsewhere(k)')
    BY <1>1, <2>7 DEF Elsewhere
  <2>10. Safe'
    BY <1>1, <2>1, <2>8, <2>9 DEF LogInv, Safe
  <2>11. Once'
    BY <1>1, <2>1, <2>7, <2>8 DEF LogInv, Once
  <2> QED
    BY <2>3, <2>4, <2>5, <2>6, <2>10, <2>11 DEF LogInv
<1> QED
  BY <1>2, <1>3

LEMMA RecreateKeeps == ASSUME LogInv, NEW r \in Readers, Recreate(r) PROVE LogInv'
<1>1. /\ reader[r].pc = "renamed" /\ Goto(r, "recreated") /\ LogTypes /\ reader[r].temp # 0
      /\ UNCHANGED <<append, lock, got, delivered, trim, bounds, hit, cut, crossed>>
      /\ Len(content) \in Nat
  BY DEF Recreate, LogInv, history, Taken, LogTypes
<1>2. /\ reader' \in [Readers -> Stands(Len(content))] /\ reader'[r].pc = "recreated"
      /\ \A p \in Readers : reader'[p].temp = reader[p].temp
      /\ \A p \in Readers \ {r} : reader'[p] = reader[p]
  BY <1>1, ReaderMoves DEF ReaderPcs
<1>3. LockHeld'
  BY <1>1, <1>2, LockStays DEF Holding, bounds
<1>4. ToSet(<< >>) = {}
  BY DEF ToSet
<1>5. /\ LogTypes'
      /\ \A p \in Readers : reader[p].temp # 0 =>
            reader[p].temp # log' /\ LinesOf(reader[p].temp)' = LinesOf(reader[p].temp)
      /\ LinesOf(log)' \subseteq LinesOf(log)
      /\ \A i \in 1 .. Len(content') :
            (i \in 1 .. Len(content) /\ content'[i] = content[i]) \/ ToSet(content'[i]) = {}
      /\ log # 0 => log' = log
  <2>1. CASE log = 0
    <3>1. content' = Append(content, << >>) /\ log' = Len(content') /\ << >> \in Seq(Lines)
      BY <2>1 DEF Recreate
    <3>2. /\ log' \in Nat \ {0} /\ log' \notin 0 .. Len(content) /\ log' = Len(content) + 1
          /\ \A p \in Readers : reader[p].temp \in 0 .. Len(content)
          /\ \A i \in 0 .. Len(content) : LinesOf(i)' = LinesOf(i)
          /\ LinesOf(log)' = ToSet(<< >>)
      BY <3>1, NewLog
    <3>3. /\ content' \in Seq(Seq(Lines)) /\ Len(content') = Len(content) + 1
          /\ \A i \in 1 .. Len(content) : content'[i] = content[i]
          /\ content'[Len(content')] = << >>
          /\ append \in [Lines -> Appends(Len(content'))]
      BY <1>1, <3>1, FileAdded
    <3>4. Stands(Len(content)) \subseteq Stands(Len(content'))
      BY <1>1, <3>3 DEF Stands
    <3>5. reader' \in [Readers -> Stands(Len(content'))]
      BY <1>2, <3>4
    <3>6. LogTypes'
      BY <1>1, <3>2, <3>3, <3>5 DEF LogTypes, bounds
    <3>7. \A p \in Readers : reader[p].temp # log' /\ LinesOf(reader[p].temp)' = LinesOf(reader[p].temp)
      <4> SUFFICES ASSUME NEW p \in Readers
                   PROVE  reader[p].temp # log' /\ LinesOf(reader[p].temp)' = LinesOf(reader[p].temp)
        OBVIOUS
      <4>1. PICK i \in 0 .. Len(content) : i = reader[p].temp
        BY <3>2
      <4>2. LinesOf(i)' = LinesOf(i) /\ i # log'
        BY <3>2
      <4> QED
        BY <1>2, <4>1, <4>2 DEF LinesOf
    <3>8. \A i \in 1 .. Len(content') :
            (i \in 1 .. Len(content) /\ content'[i] = content[i]) \/ ToSet(content'[i]) = {}
      BY <1>1, <1>4, <3>3
    <3> QED
      BY <1>4, <2>1, <3>2, <3>6, <3>7, <3>8
  <2>2. CASE log # 0 /\ r \in Resets
    <3>1. content' = [content EXCEPT ![log] = << >>] /\ log' = log /\ << >> \in Seq(Lines)
      BY <2>2 DEF Recreate
    <3>2. log \in 1 .. Len(content) /\ content \in Seq(Seq(Lines))
      BY <1>1, <2>2 DEF LogTypes
    <3>3. /\ content' \in Seq(Seq(Lines)) /\ Len(content') = Len(content)
          /\ content'[log] = << >>
          /\ \A i \in 1 .. Len(content) : i # log => content'[i] = content[i]
      BY <3>1, <3>2
    <3>4. LogTypes'
      BY <1>1, <1>2, <3>1, <3>3 DEF LogTypes, bounds
    <3>5. LinesOf(log)' = {}
      BY <1>4, <2>2, <3>1, <3>3 DEF LinesOf
    <3>6. ASSUME NEW p \in Readers, reader[p].temp # 0
          PROVE  reader[p].temp # log' /\ LinesOf(reader[p].temp)' = LinesOf(reader[p].temp)
      <4>1. reader[p].temp \in 1 .. Len(content) /\ reader[p].temp # log
        BY <1>1, <3>6 DEF LogTypes, Stands, LogInv, Taken
      <4>2. content'[reader[p].temp] = content[reader[p].temp]
        BY <3>3, <4>1
      <4> QED
        BY <1>2, <3>1, <4>1, <4>2 DEF LinesOf
    <3> QED
      BY <1>4, <2>2, <3>1, <3>3, <3>4, <3>5, <3>6
  <2>3. CASE log # 0 /\ r \notin Resets
    <3>1. UNCHANGED <<log, content>>
      BY <2>3 DEF Recreate
    <3>2. LogTypes'
      BY <1>1, <1>2, <3>1 DEF LogTypes, bounds
    <3>3. LinesOf(log)' = LinesOf(log)
      BY <3>1 DEF LinesOf
    <3>4. \A p \in Readers : reader[p].temp # 0 =>
            reader[p].temp # log' /\ LinesOf(reader[p].temp)' = LinesOf(reader[p].temp)
      BY <1>2, <3>1 DEF LinesOf, LogInv, Taken
    <3> QED
      BY <3>1, <3>2, <3>3, <3>4
  <2> QED
    BY <2>1, <2>2, <2>3
<1>6. Taken'
  BY <1>1, <1>2, <1>5 DEF LogInv, Taken
<1>7. Opened'
  <2>1. \A l \in Lines : append[l].pc = "open" /\ l \notin hit => log # 0
    BY DEF LogInv, Opened
  <2> QED
    BY <1>1, <1>5, <2>1 DEF LogInv, Opened
<1>8. Unwritten'
  <2> SUFFICES ASSUME NEW k \in Lines, append[k].pc # "done"
               PROVE  /\ \A i \in 1 .. Len(content') : k \notin ToSet(content'[i])
                      /\ \A p \in Readers : k \notin ToSet(got[p])
                      /\ k \notin ToSet(trim.kept)
    BY <1>1 DEF Unwritten
  <2>1. /\ \A i \in 1 .. Len(content) : k \notin ToSet(content[i])
        /\ \A p \in Readers : k \notin ToSet(got[p])
        /\ k \notin ToSet(trim.kept)
    BY DEF LogInv, Unwritten
  <2> QED
    BY <1>5, <2>1
<1>9. \A q \in Takers, k \in Lines : Holds(q, k)' <=> Holds(q, k)
  <2> SUFFICES ASSUME NEW q \in Takers, NEW k \in Lines PROVE Holds(q, k)' <=> Holds(q, k)
    OBVIOUS
  <2>1. q \in Readers
    BY DEF Takers, Readers
  <2>2. LinesOf(reader[q].temp)' = LinesOf(reader[q].temp)
    BY <1>2, <1>5, <2>1 DEF LinesOf
  <2> QED
    BY <1>1, <2>2 DEF Holds
<1>10. \A k \in Lines : Elsewhere(k)' <=> Elsewhere(k)
  BY <1>1, <1>9 DEF Elsewhere
<1>11. Safe' /\ Once'
  <2>1. At({"renamed"}) # {}
    BY <1>1 DEF At
  <2>2. LinesOf(log) \subseteq Lines
    BY LinesIn, <1>1
  <2>3. \A k \in LinesOf(log) : k \in hit \/ Elsewhere(k)'
    BY <1>10, <2>1, <2>2 DEF LogInv, Safe
  <2> QED
    BY <1>1, <1>5, <1>9, <2>1, <2>3, HoldersStay
<1> QED
  BY <1>3, <1>5, <1>6, <1>7, <1>8, <1>11 DEF LogInv

LEMMA FetchKeeps == ASSUME LogInv, NEW r \in Readers, Fetch(r) PROVE LogInv'
<1> DEFINE f == reader[r].temp
<1>1. /\ reader[r].pc = "recreated" /\ LogTypes /\ f # 0 /\ f \in 1 .. Len(content)
      /\ got[r] = << >> /\ reader[r] \in Stands(Len(content)) /\ r \in Takers
      /\ UNCHANGED <<log, content, append, lock, delivered, trim, bounds, hit, cut, crossed>>
  BY DEF Fetch, LogInv, Taken, LogTypes, Stands, history
<1>2. content[f] \in Seq(Lines) /\ LinesOf(f) = ToSet(content[f])
  BY <1>1 DEF LogTypes, LinesOf
<1>3. /\ got' \in [Readers -> Seq(Lines)] /\ got'[r] = content[f]
      /\ \A p \in Readers \ {r} : got'[p] = got[p]
  BY <1>1, <1>2 DEF Fetch, LogTypes
<1>4. /\ reader' \in [Readers -> Stands(Len(content))]
      /\ reader'[r].pc = "release" /\ reader'[r].temp = 0
      /\ \A p \in Readers \ {r} : reader'[p] = reader[p]
  BY <1>1 DEF Fetch, LogTypes, Stands, ReaderPcs
<1>5. LogTypes'
  BY <1>1, <1>3, <1>4 DEF LogTypes, bounds
<1>6. LockHeld'
  BY <1>1, <1>4, LockStays DEF Holding, bounds
<1>7. Taken'
  <2>1. ASSUME NEW p \in Readers PROVE
        /\ reader'[p].temp # 0 => /\ p \in Takers /\ reader'[p].temp # log'
                                  /\ reader'[p].pc \in {"renamed", "recreated", "dead"}
        /\ reader'[p].pc \in {"renamed", "recreated"} => reader'[p].temp # 0
        /\ reader'[p].pc \notin {"release", "done", "dead"} => got'[p] = << >>
    <3>1. CASE p = r
      BY <1>4, <3>1
    <3>2. CASE p # r
      BY <1>1, <1>3, <1>4, <3>2 DEF LogInv, Taken
    <3> QED
      BY <3>1, <3>2
  <2>2. ASSUME NEW p \in Readers, NEW q \in Readers \ {p}, reader'[p].temp # 0
        PROVE  reader'[q].temp # reader'[p].temp
    <3>1. p # r /\ reader'[p] = reader[p]
      BY <1>4, <2>2
    <3>2. CASE q = r
      BY <1>4, <2>2, <3>2
    <3>3. CASE q # r
      BY <1>4, <2>2, <3>1, <3>3 DEF LogInv, Taken
    <3> QED
      BY <3>2, <3>3
  <2> QED
    BY <2>1, <2>2 DEF Taken
<1>8. Opened'
  BY <1>1 DEF LogInv, Opened
<1>9. Unwritten'
  <2> SUFFICES ASSUME NEW k \in Lines, append[k].pc # "done"
               PROVE  /\ \A i \in 1 .. Len(content) : k \notin ToSet(content[i])
                      /\ \A p \in Readers : k \notin ToSet(got'[p])
                      /\ k \notin ToSet(trim.kept)
    BY <1>1 DEF Unwritten
  <2>1. /\ \A i \in 1 .. Len(content) : k \notin ToSet(content[i])
        /\ \A p \in Readers : k \notin ToSet(got[p])
        /\ k \notin ToSet(trim.kept)
    BY DEF LogInv, Unwritten
  <2> QED
    BY <1>1, <1>3, <2>1
<1>10. \A q \in Takers, k \in Lines : Holds(q, k)' <=> Holds(q, k)
  <2> SUFFICES ASSUME NEW q \in Takers, NEW k \in Lines PROVE Holds(q, k)' <=> Holds(q, k)
    OBVIOUS
  <2>1. CASE q = r
    <3>1. ToSet(got[r]) = {}
      BY <1>1 DEF ToSet
    <3>2. LinesOf(reader[r].temp)' = {}
      BY <1>4 DEF LinesOf
    <3> QED
      BY <1>2, <1>3, <2>1, <3>1, <3>2 DEF Holds
  <2>2. CASE q # r
    <3>1. reader'[q] = reader[q] /\ got'[q] = got[q]
      BY <1>3, <1>4, <2>2 DEF Takers, Readers
    <3> QED
      BY <1>1, <3>1 DEF Holds, LinesOf
  <2> QED
    BY <2>1, <2>2
<1>11. Safe' /\ Once'
  <2>1. LinesOf(log)' = LinesOf(log)
    BY <1>1 DEF LinesOf
  <2>2. At({"renamed"})' # {} => At({"renamed"}) # {}
    BY <1>1, <1>4 DEF At
  <2> QED
    BY <1>1, <1>10, <2>1, <2>2, HoldersStay
<1> QED
  BY <1>5, <1>6, <1>7, <1>8, <1>9, <1>11 DEF LogInv

-----------------------------------------------------------------------------
LEMMA LogInvStep == LogInv /\ [LogNext]_logVars => LogInv'
<1> SUFFICES ASSUME LogInv, [LogNext]_logVars PROVE LogInv'
  OBVIOUS
<1>1. ASSUME NEW r \in Readers, Work(r) PROVE LogInv'
  BY <1>1, TryLog, BreakLog, GiveUpLog, RenameKeeps, RecreateKeeps, FetchKeeps, LookLog,
     CleanLogKeeps, ReleaseLog DEF Work
<1>2. CASE UNCHANGED logVars
  <2>1. LogTypes' /\ LockHeld' /\ Taken' /\ Opened' /\ Unwritten'
    BY <1>2 DEF LogInv, LogTypes, LockHeld, Taken, Opened, Unwritten, At, logVars, bounds, history
  <2>2. /\ \A q \in Takers, l \in Lines : Holds(q, l)' <=> Holds(q, l)
        /\ LinesOf(log)' = LinesOf(log) /\ At({"renamed"})' = At({"renamed"})
    BY <1>2 DEF Holds, LinesOf, At, logVars
  <2>3. Safe' /\ Once'
    BY <1>2, <2>2, HoldersStay DEF logVars, history
  <2> QED
    BY <2>1, <2>3 DEF LogInv
<1> QED
  BY <1>1, <1>2, CallLog, CrashLog, AgeLog, OpenLogKeeps, WriteLineKeeps, TrimReadKeeps,
     TrimRenameKeeps DEF LogNext

LEMMA LogInvariant == LogSpec => []LogInv
  BY LogInit1, LogInvStep, PTL DEF LogSpec

(* For any number of lines, readers, trims and crashes, paths hold files   *)
(* that exist, no reader tries to lock more than MAX_RETRIES times, and a  *)
(* lock file names its writer.                                             *)
THEOREM LogTypeCorrect == LogSpec => []LogTypeOK
<1>1. LogInv => LogTypeOK
  BY LogTypesImply DEF LogInv
<1> QED
  BY <1>1, LogInvariant, PTL

(* As long as no lock file becomes stale, the calls of SimpleLogManager    *)
(* and LogCommands are at the log one at a time, whoever crashes.          *)
THEOREM OneReaderAtATime == LogSpec => []OneReader
<1>1. LogInv => OneReader
  BY DEF LogInv, LockHeld, OneReader
<1> QED
  BY <1>1, LogInvariant, PTL

(* However appends, trims, resets, cleanups, crashes and broken locks      *)
(* interleave, a line that was written is lost only when its file was      *)
(* replaced while it was being written.                                    *)
THEOREM NothingElseIsLost == LogSpec => []NothingElseLost
<1>1. ASSUME LogInv, NEW l \in Lines \ hit, append[l].pc = "done" PROVE Somewhere(l)
  <2>1. CASE l \in LinesOf(log)
    BY <2>1 DEF Somewhere
  <2>2. CASE l \in cut
    BY <2>2 DEF Somewhere
  <2>3. ASSUME NEW r \in Takers, Holds(r, l) PROVE Somewhere(l)
    <3>1. CASE l \in LinesOf(reader[r].temp)
      <4>1. r \in Resetting
        BY <2>3, <3>1 DEF Resetting, LinesOf, Takers
      <4> QED
        BY <3>1, <4>1 DEF Somewhere
    <3>2. CASE l \in ToSet(got[r])
      BY <2>3, <3>2 DEF Somewhere, Takers
    <3> QED
      BY <2>3, <3>1, <3>2 DEF Holds
  <2> QED
    BY <1>1, <2>1, <2>2, <2>3 DEF LogInv, Safe, Elsewhere
<1>2. LogInv => NothingElseLost
  BY <1>1 DEF NothingElseLost
<1> QED
  BY <1>2, LogInvariant, PTL

(* A line is handed out by one reset at most and then not in the log,      *)
(* unless a reset took the file while it was being trimmed.                *)
THEOREM LinesHandedOutOnce == LogSpec => []HandedOutOnce
<1>1. ASSUME LogInv, ~crossed, NEW l \in Lines PROVE Cardinality(Places(l)) <= 1
  <2>1. \A r \in Places(l) : r = None \/ (r \in Takers /\ Holds(r, l))
    BY DEF Places, Resetting, Takers, Holds
  <2>2. None \in Places(l) => l \in LinesOf(log)
    <3>1. None \notin Takers
      BY LogAssumption DEF Takers, Readers
    <3> QED
      BY <3>1 DEF Places, Resetting, Takers
  <2>3. \A r, q \in Places(l) : r = q
    BY <1>1, <2>1, <2>2 DEF LogInv, Once
  <2>4. Places(l) = {} \/ \E r \in Places(l) : Places(l) = {r}
    BY <2>3
  <2>5. CASE Places(l) = {}
    <3>1. Cardinality(Places(l)) = 0
      BY <2>5, FS_EmptySet
    <3> QED
      BY <3>1
  <2>6. ASSUME NEW r \in Places(l), Places(l) = {r}
        PROVE  Cardinality(Places(l)) <= 1
    <3>1. Cardinality({r}) = 1
      BY FS_Singleton
    <3>2. Cardinality(Places(l)) = 1
      BY <2>6, <3>1
    <3> QED
      BY <3>2
  <2> QED
    BY <2>4, <2>5, <2>6
<1>2. LogInv => HandedOutOnce
  BY <1>1 DEF HandedOutOnce
<1> QED
  BY <1>2, LogInvariant, PTL

=============================================================================
