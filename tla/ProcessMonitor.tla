--------------------------- MODULE ProcessMonitor ---------------------------
(***************************************************************************)
(* container/process-monitor.ts as container/cli-tools.ts uses it: the     *)
(* runner starts the development server once, the monitor restarts it when *)
(* it crashes and kills it when its port stops answering, and a signal     *)
(* makes the runner stop the monitor, clean up and exit.                   *)
(*                                                                         *)
(* Node runs one callback at a time; the model interleaves the callbacks   *)
(* at their awaits.  Almost every await is an append to the log file,      *)
(* and appends may finish in any order.  There are three threads of        *)
(* callbacks, the starter (start and the restart timer), the runner (stop  *)
(* and cleanup) and the health check, besides the exit and error events of *)
(* the child processes, which run in process groups of their own and       *)
(* survive the monitor unless they are killed.                             *)
(***************************************************************************)
EXTENDS Integers, FiniteSets

CONSTANTS
    AutoRestart,   \* options.autoRestart
    MaxRestarts,   \* options.maxRestarts
    MaxSpawns,     \* bound on the child processes
    MaxErrors      \* bound on error events and failed spawns

ASSUME MonitorAssumption ==
    /\ AutoRestart \in BOOLEAN
    /\ MaxRestarts \in Nat /\ MaxSpawns \in Nat \ {0} /\ MaxErrors \in Nat

Children == 1 .. MaxSpawns
NoChild == 0

PortFailureThreshold == 2

VARIABLES
    state,       \* this.state
    child,       \* this.childProcess
    os,          \* what has become of each child process
    spawned,     \* how many children have been spawned
    timer,       \* a restart timer is pending
    restarts,    \* this.restartCount
    inARow,      \* history: starts since the last stable run
    told,        \* history: process_stopped events since the last spawn
    healthOn,    \* the health check interval is set
    portFailures,
    healthBusy,  \* this.healthRestartInProgress
    starter,     \* where start() or the restart callback waits
    runner,      \* where the runner's start, stop and cleanup wait
    cleaning,    \* the runner is past its first stop()
    health,      \* where the health check waits for its probe
    killer,      \* where a health check that kills the child waits
    target,      \* the child each killProcess listens to
    errors

vars == <<state, child, os, spawned, timer, restarts, inARow, told, healthOn,
          portFailures, healthBusy, starter, runner, cleaning, health, killer,
          target, errors>>

process == <<child, os, spawned>>
counts == <<restarts, inARow, told>>
healthVars == <<healthOn, portFailures, healthBusy, health, killer>>
threads == <<starter, runner, cleaning, target>>

States == {"stopped", "starting", "running", "stopping", "crashed"}
Fates == {"none", "alive", "clean", "error", "signal", "reaped"}
StarterPcs == {"idle", "begin", "startLog", "stableLog", "failLog", "timerLog"}
RunnerPcs == {"boot", "up", "stopLog", "cancelLog", "killing", "killed",
              "stoppedLog", "logCleanup", "exited"}
KillerPcs == {"idle", "killLog", "killing"}

Init ==
    /\ state = "stopped"
    /\ child = NoChild
    /\ os = [c \in Children |-> "none"]
    /\ spawned = 0
    /\ timer = FALSE
    /\ restarts = 0 /\ inARow = 0 /\ told = 0
    /\ healthOn = FALSE /\ portFailures = 0 /\ healthBusy = FALSE
    /\ starter = "begin" /\ runner = "boot" /\ cleaning = FALSE
    /\ health = "idle" /\ killer = "idle"
    /\ target = [t \in {"runner", "health"} |-> NoChild]
    /\ errors = 0

Alive == {c \in Children : os[c] = "alive"}

(* The monitor's own process is still there to run callbacks. *)
Up == runner # "exited"

-----------------------------------------------------------------------------
(* start().                                                                *)

(* The guard of start(), then the log line before the spawn.  A restart    *)
(* that is refused only logs and emits restart_failed.                     *)
Begin ==
    /\ Up /\ starter \in {"begin", "timerLog"}
    /\ IF state \in {"stopped", "crashed"}
       THEN state' = "starting" /\ starter' = "startLog"
       ELSE UNCHANGED state /\ starter' = "idle"
    /\ UNCHANGED <<process, timer, counts, healthVars, runner, cleaning, target, errors>>

(* The restart counter starts again after a run of five minutes, which     *)
(* costs one more log line.  The port counters are reset before it.        *)
StableRun ==
    /\ Up /\ starter = "startLog" /\ spawned > 0
    /\ portFailures' = 0 /\ healthBusy' = FALSE
    /\ starter' = "stableLog"
    /\ UNCHANGED <<state, process, timer, counts, healthOn, health, killer, runner,
                   cleaning, target, errors>>

(* Mutant of Reset: every start is taken for one after a stable run. *)
ResetAlways ==
    restarts' = 0 /\ portFailures' = 0 /\ healthBusy' = FALSE

(* What the rest of the starting callback resets. *)
Reset ==
    IF starter = "stableLog"
    THEN restarts' = 0 /\ UNCHANGED <<portFailures, healthBusy>>
    ELSE UNCHANGED restarts /\ portFailures' = 0 /\ healthBusy' = FALSE

Spawn ==
    /\ Up /\ starter \in {"startLog", "stableLog"}
    /\ spawned < MaxSpawns
    /\ spawned' = spawned + 1
    /\ child' = spawned + 1
    /\ os' = [os EXCEPT ![spawned + 1] = "alive"]
    /\ state' = "running"
    /\ Reset
    /\ inARow' = IF starter = "stableLog" THEN 1 ELSE inARow + 1
    /\ told' = 0
    /\ healthOn' = TRUE
    /\ starter' = "idle"
    /\ UNCHANGED <<timer, health, killer, runner, cleaning, target, errors>>

(* No PID: one more log line, then the catch block. *)
SpawnRefused ==
    /\ Up /\ starter \in {"startLog", "stableLog"}
    /\ errors < MaxErrors
    /\ errors' = errors + 1
    /\ child' = NoChild
    /\ Reset
    /\ starter' = "failLog"
    /\ UNCHANGED <<state, os, spawned, timer, inARow, told, healthOn, health, killer,
                   runner, cleaning, target>>

(* The error event of a failed spawn comes before setupProcessMonitoring   *)
(* has added a listener; an error event nobody listens to ends the         *)
(* monitor's own process, unless the runtime is slower than the log line.  *)
ErrorUnheard ==
    /\ Up /\ starter = "failLog"
    /\ runner' = "exited"
    /\ UNCHANGED <<state, process, timer, counts, healthVars, starter, cleaning,
                   target, errors>>

(* The catch block sets the state whatever it has become meanwhile. *)
StartFailed ==
    /\ Up /\ starter = "failLog"
    /\ state' = "stopped"
    /\ starter' = "idle"
    /\ UNCHANGED <<process, timer, counts, healthVars, runner, cleaning, target, errors>>

(* The runner's own start() has returned; without success the CLI exits. *)
Booted ==
    /\ runner = "boot" /\ starter = "idle"
    /\ runner' = IF spawned > 0 THEN "up" ELSE "exited"
    /\ UNCHANGED <<state, process, timer, counts, healthVars, starter, cleaning,
                   target, errors>>

-----------------------------------------------------------------------------
(* The child processes.                                                    *)

(* A child dies, of itself or of a signal it was sent, such as the one of  *)
(* handleFatalError to a child that logs a fatal error.                    *)
Die(c, fate) ==
    /\ os[c] = "alive"
    /\ os' = [os EXCEPT ![c] = fate]
    /\ UNCHANGED <<state, child, spawned, timer, counts, healthVars, threads, errors>>

(* shouldRestartAfterExit: a clean exit counts as a kill when there was no *)
(* output for a while.                                                     *)
MayRestart(fate, inactive) ==
    /\ state = "running" /\ AutoRestart
    /\ restarts < MaxRestarts
    /\ fate # "clean" \/ inactive

(* The exit event: either a crash, with or without a restart, or a stop    *)
(* that is announced unless stop() has already done so.                    *)
ExitEvent(c) ==
    /\ Up /\ os[c] \in {"clean", "error", "signal"}
    /\ os' = [os EXCEPT ![c] = "reaped"]
    /\ \E inactive \in BOOLEAN :
         LET restart == MayRestart(os[c], inactive)
             crash   == state = "running" /\ (os[c] # "clean" \/ restart)
         IN  /\ state' = IF crash THEN "crashed" ELSE "stopped"
             /\ told' = IF ~crash /\ state # "stopped" THEN told + 1 ELSE told
             /\ timer' = IF restart THEN TRUE ELSE timer
             /\ restarts' = IF restart THEN restarts + 1 ELSE restarts
    /\ UNCHANGED <<child, spawned, inARow, healthVars, threads, errors>>

(* Mutant of ErrorEvent: an error of a running child schedules a restart. *)
ErrorEventRestarts(c) ==
    /\ Up /\ os[c] = "alive"
    /\ errors < MaxErrors
    /\ errors' = errors + 1
    /\ state' = IF state \in {"running", "starting"} THEN "crashed" ELSE state
    /\ timer' = (timer \/ state = "running")
    /\ UNCHANGED <<process, counts, healthVars, threads>>

(* The error event of a child, which may still be running. *)
ErrorEvent(c) ==
    /\ Up /\ os[c] = "alive"
    /\ errors < MaxErrors
    /\ errors' = errors + 1
    /\ state' = IF state \in {"running", "starting"} THEN "crashed" ELSE state
    /\ UNCHANGED <<process, timer, counts, healthVars, threads>>

(* Mutant of RestartTimer: a crashed process counts as stopped. *)
RestartTimerGivesUp ==
    /\ Up /\ timer
    /\ timer' = FALSE
    /\ starter' = IF state \in {"stopped", "stopping", "crashed"} THEN starter ELSE "timerLog"
    /\ UNCHANGED <<state, process, counts, healthVars, runner, cleaning, target, errors>>

(* The restart timer fires: the callback looks at the state, then logs. *)
RestartTimer ==
    /\ Up /\ timer
    /\ timer' = FALSE
    /\ starter' = IF state \in {"stopped", "stopping"} THEN starter ELSE "timerLog"
    /\ UNCHANGED <<state, process, counts, healthVars, runner, cleaning, target, errors>>

-----------------------------------------------------------------------------
(* killProcess(false), called by thread t: SIGTERM to the group, then wait *)
(* for the exit event or for the timeout.                                  *)

NothingToKill == child = NoChild \/ os[child] = "reaped"

ListenTo(t) == target' = [target EXCEPT ![t] = child]

Exited(t) == os[target[t]] = "reaped"

(* Mutant of ForceKill: a child that was sent SIGTERM counts as killed. *)
KillUnlessSignalled == UNCHANGED os

(* The timeout sends SIGKILL to whatever this.childProcess is by then. *)
ForceKill ==
    os' = IF child # NoChild /\ os[child] = "alive"
          THEN [os EXCEPT ![child] = "signal"] ELSE os

-----------------------------------------------------------------------------
(* stop(), cleanup() and the end of the runner.                            *)

(* What follows once a stop() has returned: after the first one cleanup()  *)
(* calls stop() again, after the second the log file is removed.           *)
Returned == runner' = IF cleaning THEN "logCleanup" ELSE "stoppedLog"

(* stop() up to its first await. *)
EnterStop ==
    runner' = IF state \notin {"stopped", "starting"} THEN "stopLog"
              ELSE IF cleaning' THEN "logCleanup" ELSE "stoppedLog"

(* SIGTERM, SIGINT or SIGHUP: the shutdown runs once. *)
Shutdown ==
    /\ runner = "up"
    /\ UNCHANGED cleaning
    /\ EnterStop
    /\ UNCHANGED <<state, process, timer, counts, healthVars, starter, target, errors>>

EnterKill ==
    /\ healthOn' = FALSE
    /\ IF NothingToKill THEN runner' = "killed" /\ UNCHANGED target
                        ELSE runner' = "killing" /\ ListenTo("runner")
    /\ UNCHANGED <<portFailures, healthBusy, health, killer>>

(* Logged: now the state is stopping and a pending restart is cancelled,   *)
(* which costs one more log line.                                          *)
StopMark ==
    /\ runner = "stopLog"
    /\ state' = "stopping"
    /\ timer' = FALSE
    /\ IF timer THEN runner' = "cancelLog" /\ UNCHANGED <<healthVars, target>>
                ELSE EnterKill
    /\ UNCHANGED <<process, counts, starter, cleaning, errors>>

StopKill ==
    /\ runner = "cancelLog"
    /\ EnterKill
    /\ UNCHANGED <<state, process, timer, counts, starter, cleaning, errors>>

StopKilled ==
    /\ runner = "killing"
    /\ Exited("runner")
    /\ runner' = "killed"
    /\ UNCHANGED <<state, process, timer, counts, healthVars, starter, cleaning,
                   target, errors>>

(* Mutant of StopTimeout: stop() waits for the exit event alone. *)
StopTimeoutNever ==
    /\ runner = "killing"
    /\ Exited("runner")
    /\ runner' = "killed"
    /\ UNCHANGED <<state, process, timer, counts, healthVars, starter,
                   cleaning, target, errors>>

StopTimeout ==
    /\ runner = "killing"
    /\ ForceKill
    /\ runner' = "killed"
    /\ UNCHANGED <<state, child, spawned, timer, counts, healthVars, starter,
                   cleaning, target, errors>>

(* Only if the exit event has not moved the state on is the stop announced *)
(* here.                                                                   *)
StopEnd ==
    /\ runner = "killed"
    /\ IF state = "stopping" THEN state' = "stopped" /\ told' = told + 1
                             ELSE UNCHANGED <<state, told>>
    /\ Returned
    /\ UNCHANGED <<process, timer, restarts, inARow, healthVars, starter,
                   cleaning, target, errors>>

(* cleanup(): timers off, stop() again, whatever the first one returned. *)
Cleanup ==
    /\ runner = "stoppedLog"
    /\ cleaning' = TRUE
    /\ timer' = FALSE /\ healthOn' = FALSE
    /\ EnterStop
    /\ UNCHANGED <<state, process, counts, portFailures, healthBusy, health, killer,
                   starter, target, errors>>

(* process.exit. *)
Exit ==
    /\ runner = "logCleanup"
    /\ runner' = "exited"
    /\ UNCHANGED <<state, process, timer, counts, healthVars, starter, cleaning,
                   target, errors>>

-----------------------------------------------------------------------------
(* performHealthCheck, as far as the port is concerned.  The interval is   *)
(* as long as the timeout of a kill, so that the next check may probe      *)
(* while the last one still waits in killProcess.                          *)

HealthTick ==
    /\ Up /\ healthOn /\ health = "idle" /\ state = "running"
    /\ health' = "probing"
    /\ UNCHANGED <<state, process, timer, counts, healthOn, portFailures, healthBusy,
                   killer, threads, errors>>

ProbeOk ==
    /\ Up /\ health = "probing"
    /\ portFailures' = 0 /\ healthBusy' = FALSE
    /\ health' = "idle"
    /\ UNCHANGED <<state, process, timer, counts, healthOn, killer, threads, errors>>

(* A failure while the port has not been bound and the grace period runs   *)
(* is not counted.                                                         *)
ProbeIgnored ==
    /\ Up /\ health = "probing"
    /\ health' = "idle"
    /\ UNCHANGED <<state, process, timer, counts, healthOn, portFailures, healthBusy,
                   killer, threads, errors>>

(* Bound: failures past the threshold are not counted, and one check at a  *)
(* time is busy killing.                                                   *)
ProbeFailed ==
    /\ Up /\ health = "probing"
    /\ killer = "idle"
    /\ portFailures' = IF portFailures < PortFailureThreshold
                       THEN portFailures + 1 ELSE portFailures
    /\ health' = "idle"
    /\ killer' = IF /\ portFailures' >= PortFailureThreshold
                    /\ ~healthBusy /\ state = "running" /\ AutoRestart
                 THEN "killLog" ELSE "idle"
    /\ UNCHANGED <<state, process, timer, counts, healthOn, healthBusy, threads, errors>>

HealthKill ==
    /\ Up /\ killer = "killLog"
    /\ healthBusy' = TRUE
    /\ IF NothingToKill THEN killer' = "idle" /\ UNCHANGED target
                        ELSE killer' = "killing" /\ ListenTo("health")
    /\ UNCHANGED <<state, process, timer, counts, healthOn, portFailures, health,
                   starter, runner, cleaning, errors>>

HealthKilled ==
    /\ Up /\ killer = "killing"
    /\ Exited("health")
    /\ killer' = "idle"
    /\ UNCHANGED <<state, process, timer, counts, healthOn, portFailures, healthBusy,
                   health, threads, errors>>

HealthTimeout ==
    /\ Up /\ killer = "killing"
    /\ ForceKill
    /\ killer' = "idle"
    /\ UNCHANGED <<state, child, spawned, timer, counts, healthOn, portFailures,
                   healthBusy, health, threads, errors>>

-----------------------------------------------------------------------------

Starter == Begin \/ StableRun \/ Spawn \/ SpawnRefused \/ ErrorUnheard
           \/ StartFailed
Runner == \/ Booted \/ StopMark \/ StopKill \/ StopKilled \/ StopTimeout
          \/ StopEnd \/ Cleanup \/ Exit
Health == \/ HealthTick \/ ProbeOk \/ ProbeIgnored \/ ProbeFailed
          \/ HealthKill \/ HealthKilled \/ HealthTimeout

Next ==
    \/ Starter \/ Runner \/ Health
    \/ Shutdown \/ RestartTimer
    \/ \E c \in Children : \/ \E fate \in {"clean", "error", "signal"} : Die(c, fate)
                           \/ ExitEvent(c)
                           \/ ErrorEvent(c)

(* Log appends finish, timers fire and events are delivered; nobody has to *)
(* send a signal and no child has to die unless it is killed.              *)
Fairness ==
    /\ WF_vars(Starter) /\ WF_vars(Runner) /\ WF_vars(RestartTimer)
    /\ \A c \in Children : WF_vars(ExitEvent(c))

Spec == Init /\ [][Next]_vars /\ Fairness

-----------------------------------------------------------------------------
(* Properties.                                                             *)

(* Every variable has its type; restartCount never passes maxRestarts.     *)
TypeOK ==
    /\ state \in States
    /\ child \in Children \cup {NoChild}
    /\ os \in [Children -> Fates]
    /\ spawned \in 0 .. MaxSpawns
    /\ timer \in BOOLEAN
    /\ restarts \in 0 .. MaxRestarts /\ inARow \in Nat /\ told \in Nat
    /\ healthOn \in BOOLEAN /\ portFailures \in Nat /\ healthBusy \in BOOLEAN
    /\ starter \in StarterPcs /\ runner \in RunnerPcs /\ cleaning \in BOOLEAN
    /\ health \in {"idle", "probing"} /\ killer \in KillerPcs
    /\ target \in [{"runner", "health"} -> Children \cup {NoChild}]
    /\ errors \in Nat

(* Restarts, health kills, errors and stops never leave two copies of the  *)
(* development server fighting for the port.                               *)
OneChild == Cardinality(Alive) <= 1

(* A server that keeps crashing is started at most maxRestarts times more  *)
(* between two stable runs.                                                *)
RestartsBounded == inARow <= MaxRestarts + 1

(* Every run of a child is announced as stopped at most once, by the exit  *)
(* event or by stop().                                                     *)
StoppedToldOnce == told <= 1

(* The monitor believes that a server runs only while its exit has not yet *)
(* been reported.                                                          *)
RunningIsReal == Up /\ state = "running" => os[child] # "reaped"

(* After a graceful shutdown no server is left running.                    *)
NoOrphan == runner = "exited" => Alive = {}

(* The child that stop() found is dead when the monitor exits, whether it  *)
(* obeyed SIGTERM, was killed after the timeout or was replaced meanwhile. *)
StoppedIsDead == runner = "exited" => target["runner"] \notin Alive

(* A shutdown always comes to its end: killProcess cannot wait for ever    *)
(* for a child that has exited already or that ignores SIGTERM.            *)
ShutdownEnds == runner \notin {"boot", "up"} ~> runner = "exited"

(* A crash for which a restart was scheduled is followed by a new attempt  *)
(* unless the runner shuts down first.                                     *)
RestartAttempted == timer ~> (starter # "idle" \/ runner \notin {"boot", "up"})

=============================================================================
