-------------------------- MODULE DeploymentManager --------------------------
(***************************************************************************)
(* DeploymentManager: how an agent keeps its project running in a sandbox. *)
(* Callers of deployToSandbox share one promise; behind it a loop retries  *)
(* deploy() until it succeeds, gives each attempt a minute and asks for a  *)
(* fresh session now and then; an interval checks the health of what was   *)
(* deployed and deploys again.  Neither timeout cancels what it waits for: *)
(* a deploy() that is late goes on, and so does a loop nobody waits for.   *)
(*                                                                         *)
(* Sessions and instances are numbered in the order they are made.  What   *)
(* is written to an instance is left out.                                  *)
(***************************************************************************)
EXTENDS Integers, Sequences, FiniteSets

CONSTANTS
    Users,        \* callers of deployToSandbox
    Probes,       \* the health checks that may be under way at once
    Loops, Ops,   \* how many loops and deploy() calls may be under way
    ResetEvery,   \* maxAttemptsBeforeSessionReset
    MaxSessions,  \* bound: after a master timeout two loops can go on for ever
    MaxAsks,
    MaxFaults     \* bound on failures, timeouts, instances that die and evictions

ASSUME DeploymentAssumption ==
    /\ Users \cap Probes = {}
    /\ Loops \in Nat \ {0} /\ Ops \in Nat \ {0} /\ ResetEvery \in Nat \ {0}
    /\ MaxSessions \in Nat /\ MaxAsks \in Nat /\ MaxFaults \in Nat

VARIABLES
    session,   \* state.sessionId
    instance,  \* state.sandboxInstanceId, 0 for undefined
    made,      \* the instances created so far: their session and health
    promise,   \* currentDeploymentPromise: the loop it stands for, or 0
    loop,      \* the loops of executeDeploymentWithRetry
    op,        \* the calls of deploy(), those whose attempt timed out included
    caller,    \* where each call of deployToSandbox or health check stands
    interval,  \* healthCheckInterval: the instance it checks, or 0
    here,      \* history: a deployment has succeeded since the last eviction
    joined,    \* history: a health check joined a deployment under way
    late,      \* history: an attempt timed out
    gaveUp,    \* history: a caller's master timeout ran out
    asks, faults

state == <<session, instance>>
history == <<here, joined, late, gaveUp>>
counters == <<asks, faults>>
vars == <<state, made, promise, loop, op, caller, interval, history, counters>>

Callers == Users \cup Probes
LoopIds == 1 .. Loops
OpIds == 1 .. Ops

NoLoop == [pc |-> "none", redeploy |-> FALSE, attempts |-> 0, op |-> 0, inst |-> 0]
NoOp == [pc |-> "none", session |-> 0, inst |-> 0, redeployed |-> FALSE]
Resting == [pc |-> "idle", loop |-> 0, inst |-> 0, session |-> 0]

Init ==
    /\ session = 1 /\ instance = 0
    /\ made = << >>
    /\ promise = 0
    /\ loop = [l \in LoopIds |-> NoLoop]
    /\ op = [k \in OpIds |-> NoOp]
    /\ caller = [c \in Callers |-> Resting]
    /\ interval = 0
    /\ here = FALSE /\ joined = FALSE /\ late = FALSE /\ gaveUp = FALSE
    /\ asks = 0 /\ faults = 0

Active == {l \in LoopIds : loop[l].pc # "none"}
Waiting(c) == caller[c].pc \in {"first", "joined"}

Fault == faults < MaxFaults /\ faults' = faults + 1

FreeLoop(l) == l \notin Active /\ \A m \in 1 .. l - 1 : m \in Active
FreeOp(k) == op[k].pc = "none" /\ \A j \in 1 .. k - 1 : op[j].pc # "none"

-----------------------------------------------------------------------------
(* An attempt.                                                             *)

(* resetSessionId. *)
Reset == session' = session + 1 /\ instance' = 0

(* deploy() up to its first request: ensureInstance resets the session for *)
(* a redeployment, and asks for the status of the instance there is, or    *)
(* creates one.                                                            *)
StartOp(k, redeploy) ==
    /\ IF redeploy THEN Reset ELSE UNCHANGED state
    /\ op' = [op EXCEPT ![k] = [pc |-> IF instance' = 0 THEN "create" ELSE "status",
                                session |-> session', inst |-> instance',
                                redeployed |-> FALSE]]

(* The sandbox of a session knows the instances made in it. *)
Known(i, s) == made[i].session = s
Healthy(i, s) == Known(i, s) /\ made[i].healthy

OwnerOf(k) == {l \in LoopIds : loop[l].pc = "attempt" /\ loop[l].op = k}

(* The catch block of the loop; hard is an error of the session. *)
Failed(l, hard) ==
    /\ session' = IF hard \/ loop[l].attempts % ResetEvery = 0 THEN session + 1 ELSE session
    /\ instance' = 0
    /\ loop' = [loop EXCEPT ![l].pc = "backoff"]

(* deploy() throws, which matters if an attempt still waits for it. *)
Reject(k, hard) ==
    /\ op' = [op EXCEPT ![k] = NoOp]
    /\ IF OwnerOf(k) = {}
       THEN UNCHANGED <<state, loop>>
       ELSE \E l \in OwnerOf(k) : Failed(l, hard)

(* Mutant of Watch: an interval is started for new instances only. *)
WatchNewOnly(k) == interval' = IF op[k].redeployed THEN op[k].inst ELSE interval

(* startHealthCheckInterval for a new instance, or if there is none. *)
Watch(k) ==
    interval' = IF op[k].redeployed \/ interval = 0 THEN op[k].inst ELSE interval

(* Everyone who waits for this loop is answered, and the first caller      *)
(* clears the promise.                                                     *)
Answer(l) ==
    /\ loop' = [loop EXCEPT ![l] = NoLoop]
    /\ promise' = IF \E c \in Callers : caller[c].pc = "first" /\ caller[c].loop = l
                  THEN 0 ELSE promise
    /\ caller' = [c \in Callers |-> IF Waiting(c) /\ caller[c].loop = l THEN Resting
                                    ELSE caller[c]]

(* deploy() returns.  An attempt that waits for it runs the setup commands *)
(* if it has started an interval, and has succeeded otherwise.             *)
Resolve(k) ==
    /\ op' = [op EXCEPT ![k] = NoOp]
    /\ IF OwnerOf(k) = {}
       THEN UNCHANGED <<loop, promise, caller, interval, here>>
       ELSE \E l \in OwnerOf(k) :
               /\ Watch(k)
               /\ here' = TRUE
               /\ IF op[k].redeployed \/ interval = 0
                  THEN /\ loop' = [loop EXCEPT ![l].pc = "setup", ![l].inst = op[k].inst]
                       /\ UNCHANGED <<promise, caller>>
                  ELSE Answer(l)
    /\ UNCHANGED state

(* Mutant of StatusAnswered: the answer is taken for health. *)
StatusTrusted(k) ==
    /\ op[k].pc = "status"
    /\ op' = IF Known(op[k].inst, op[k].session)
             THEN [op EXCEPT ![k].pc = "write"]
             ELSE [op EXCEPT ![k].pc = "create", ![k].session = session]
    /\ UNCHANGED <<state, made, promise, loop, caller, interval, history, counters>>

(* The status of the instance there is; the client for a new one is that   *)
(* of the session there is now.                                            *)
StatusAnswered(k) ==
    /\ op[k].pc = "status"
    /\ op' = IF Healthy(op[k].inst, op[k].session)
             THEN [op EXCEPT ![k].pc = "write"]
             ELSE [op EXCEPT ![k].pc = "create", ![k].session = session]
    /\ UNCHANGED <<state, made, promise, loop, caller, interval, history, counters>>

(* Mutant of Created: the instance is noted only if none is. *)
CreatedUnlessNoted(k) ==
    /\ op[k].pc = "create"
    /\ made' = Append(made, [session |-> op[k].session, healthy |-> TRUE])
    /\ instance' = IF instance = 0 THEN Len(made') ELSE instance
    /\ op' = [op EXCEPT ![k].pc = "write", ![k].inst = Len(made'), ![k].redeployed = TRUE]
    /\ UNCHANGED <<session, promise, loop, caller, interval, history, counters>>

(* createInstance answers: the instance is noted in the state, whether or  *)
(* not an attempt still waits for it.                                      *)
Created(k) ==
    /\ op[k].pc = "create"
    /\ made' = Append(made, [session |-> op[k].session, healthy |-> TRUE])
    /\ instance' = Len(made')
    /\ op' = [op EXCEPT ![k].pc = "write", ![k].inst = Len(made'), ![k].redeployed = TRUE]
    /\ UNCHANGED <<session, promise, loop, caller, interval, history, counters>>

(* The files are written, through the client of the session there is now. *)
Written(k) ==
    /\ op[k].pc = "write"
    /\ \/ Known(op[k].inst, session) /\ Resolve(k)
       \/ /\ ~Known(op[k].inst, session)
          /\ Reject(k, FALSE)
          /\ UNCHANGED <<promise, caller, interval, here>>
    /\ UNCHANGED <<made, joined, late, gaveUp, counters>>

(* A request of deploy() fails. *)
RequestFails(k) ==
    /\ op[k].pc # "none"
    /\ Fault
    /\ \E hard \in BOOLEAN : Reject(k, hard)
    /\ UNCHANGED <<made, promise, caller, interval, history, asks>>

(* PER_ATTEMPT_TIMEOUT_MS: the attempt failed, its deploy() goes on. *)
AttemptTimeout(l) ==
    /\ loop[l].pc = "attempt"
    /\ Fault /\ late' = TRUE
    /\ Failed(l, FALSE)
    /\ UNCHANGED <<made, promise, op, caller, interval, here, joined, gaveUp, asks>>

(* The setup commands fail or time out: the attempt failed. *)
SetupFails(l) ==
    /\ loop[l].pc = "setup"
    /\ Fault
    /\ \E hard \in BOOLEAN : Failed(l, hard)
    /\ UNCHANGED <<made, promise, op, caller, interval, history, asks>>

(* The pause is over: the next attempt. *)
Retry(l) ==
    /\ loop[l].pc = "backoff"
    /\ gaveUp => session < MaxSessions
    /\ \E k \in OpIds :
          /\ FreeOp(k)
          /\ StartOp(k, loop[l].redeploy)
          /\ loop' = [loop EXCEPT ![l].pc = "attempt", ![l].op = k,
                                  ![l].attempts = @ + 1]
    /\ UNCHANGED <<made, promise, caller, interval, history, counters>>

(* The setup commands are done. *)
Finish(l) ==
    /\ loop[l].pc = "setup"
    /\ Answer(l)
    /\ UNCHANGED <<state, made, op, interval, history, counters>>

-----------------------------------------------------------------------------
(* Callers and health checks.                                              *)

Launch(c, redeploy) ==
    \E l \in LoopIds, k \in OpIds :
        /\ FreeLoop(l) /\ FreeOp(k)
        /\ promise' = l
        /\ caller' = [caller EXCEPT ![c] = [Resting EXCEPT !.pc = "first", !.loop = l]]
        /\ loop' = [loop EXCEPT ![l] = [pc |-> "attempt", redeploy |-> redeploy,
                                        attempts |-> 1, op |-> k, inst |-> 0]]
        /\ StartOp(k, redeploy)

Join(c) ==
    /\ caller' = [caller EXCEPT ![c] = [Resting EXCEPT !.pc = "joined", !.loop = promise]]
    /\ UNCHANGED <<state, promise, loop, op>>

(* Mutant of DeployToSandbox: a redeployment does not wait for another.    *)
DeployAtOnce(c, redeploy) ==
    IF promise # 0 /\ ~redeploy THEN Join(c) ELSE Launch(c, redeploy)

DeployToSandbox(c, redeploy) ==
    IF promise # 0 THEN Join(c) ELSE Launch(c, redeploy)

Ask(c, redeploy) ==
    /\ caller[c].pc = "idle"
    /\ asks < MaxAsks /\ asks' = asks + 1
    /\ DeployToSandbox(c, redeploy)
    /\ UNCHANGED <<made, interval, history, faults>>

(* MASTER_DEPLOYMENT_TIMEOUT_MS: the caller is answered null; if it is the *)
(* first one the promise is cleared.  The loop goes on.                    *)
MasterTimeout(c) ==
    /\ Waiting(c)
    /\ Fault /\ gaveUp' = TRUE
    /\ promise' = IF caller[c].pc = "first" THEN 0 ELSE promise
    /\ caller' = [caller EXCEPT ![c] = Resting]
    /\ UNCHANGED <<state, made, loop, op, interval, here, joined, late, asks>>

(* The interval fires and asks for the status of its instance. *)
Tick(p) ==
    /\ interval # 0
    /\ caller[p].pc = "idle"
    /\ caller' = [caller EXCEPT ![p] = [Resting EXCEPT !.pc = "probing", !.inst = interval,
                                                       !.session = session]]
    /\ UNCHANGED <<state, made, promise, loop, op, interval, history, counters>>

ProbeOk(p) ==
    /\ caller[p].pc = "probing"
    /\ Healthy(caller[p].inst, caller[p].session)
    /\ caller' = [caller EXCEPT ![p] = Resting]
    /\ UNCHANGED <<state, made, promise, loop, op, interval, history, counters>>

(* Unhealthy: the interval there is now is cleared, and deployToSandbox    *)
(* called.                                                                 *)
ProbeUnhealthy(p) ==
    /\ caller[p].pc = "probing"
    /\ ~Healthy(caller[p].inst, caller[p].session)
    /\ interval' = 0
    /\ DeployToSandbox(p, FALSE)
    /\ joined' = (joined \/ promise # 0)
    /\ UNCHANGED <<made, here, late, gaveUp, counters>>

(* The status request throws; the interval goes on. *)
ProbeThrows(p) ==
    /\ caller[p].pc = "probing"
    /\ Fault
    /\ caller' = [caller EXCEPT ![p] = Resting]
    /\ UNCHANGED <<state, made, promise, loop, op, interval, history, asks>>

-----------------------------------------------------------------------------
(* An instance becomes unhealthy. *)
Dies(i) ==
    /\ made[i].healthy
    /\ Fault
    /\ made' = [made EXCEPT ![i].healthy = FALSE]
    /\ UNCHANGED <<state, promise, loop, op, caller, interval, history, asks>>

(* The agent's object is evicted: only its state is left. *)
Evict ==
    /\ Fault
    /\ promise' = 0 /\ interval' = 0 /\ here' = FALSE
    /\ loop' = [l \in LoopIds |-> NoLoop]
    /\ op' = [k \in OpIds |-> NoOp]
    /\ caller' = [c \in Callers |-> Resting]
    /\ UNCHANGED <<state, made, joined, late, gaveUp, asks>>

Answered(k) == StatusAnswered(k) \/ Created(k) \/ Written(k)
Goes(l) == Retry(l) \/ Finish(l)
Checks(p) == Tick(p) \/ ProbeOk(p) \/ ProbeUnhealthy(p)

Next ==
    \/ \E k \in OpIds : Answered(k) \/ RequestFails(k)
    \/ \E l \in LoopIds : Goes(l) \/ AttemptTimeout(l) \/ SetupFails(l)
    \/ \E c \in Users, redeploy \in BOOLEAN : Ask(c, redeploy)
    \/ \E c \in Callers : MasterTimeout(c)
    \/ \E p \in Probes : Checks(p) \/ ProbeThrows(p)
    \/ \E i \in DOMAIN made : Dies(i)
    \/ Evict

(* Requests are answered, pauses end and intervals fire; no timeout has to *)
(* run out and nobody has to ask.                                          *)
Fairness ==
    /\ \A k \in OpIds : WF_vars(Answered(k))
    /\ \A l \in LoopIds : WF_vars(Goes(l))
    /\ \A p \in Probes : WF_vars(Checks(p))

Spec == Init /\ [][Next]_vars /\ Fairness

-----------------------------------------------------------------------------
(* Properties.                                                             *)

Late == late \/ gaveUp

Instances == 0 .. Len(made)
LoopPcs == {"none", "attempt", "setup", "backoff"}
OpPcs == {"none", "status", "create", "write"}
CallerPcs == {"idle", "probing", "first", "joined"}

(* Whatever is late, lost or retried, the state and the interval name      *)
(* instances that were created, an operation to be written has one, and    *)
(* no session is older than one an instance was made in.                   *)
TypeOK ==
    /\ session \in Nat
    /\ made \in Seq([session : 1 .. session, healthy : BOOLEAN])
    /\ instance \in Instances /\ interval \in Instances
    /\ promise \in 0 .. Loops
    /\ loop \in [LoopIds -> [pc : LoopPcs, redeploy : BOOLEAN, attempts : Nat,
                             op : 0 .. Ops, inst : Instances]]
    /\ op \in [OpIds -> [pc : OpPcs, session : 0 .. session, inst : Instances,
                         redeployed : BOOLEAN]]
    /\ \A k \in OpIds : op[k].pc = "write" => op[k].inst # 0
    /\ caller \in [Callers -> [pc : CallerPcs, loop : 0 .. Loops, inst : Instances,
                               session : 0 .. session]]
    /\ {here, joined, late, gaveUp} \subseteq BOOLEAN

(* Unless a caller gave up waiting, all callers share one deployment: the  *)
(* one the promise stands for, and its first caller still waits.           *)
OneDeployment ==
    ~gaveUp =>
        /\ \A l \in Active : l = promise
        /\ promise # 0 => \E c \in Callers : caller[c].pc = "first" /\ caller[c].loop = promise

(* Unless an attempt or a caller timed out, the instance in the state was  *)
(* made in the session in the state.                                       *)
InstanceOfSession == ~Late /\ instance # 0 => Known(instance, session)

(* The instance in the state is always one of the session in the state, as *)
(* DeploymentManager.ts:98 has it: "Clear instance on session reset".     *)
InstanceAlwaysOfSession == instance # 0 => Known(instance, session)

Deployed == here /\ Active = {} /\ instance # 0

(* Once something is deployed the health of that very instance is checked, *)
(* unless something timed out or a health check joined a deployment.       *)
Watched == Deployed /\ ~Late /\ ~joined => interval = instance

(* Once something is deployed, some health check is there to recover it,   *)
(* as DeploymentManager.ts:195 has it of an unhealthy instance: "Trigger   *)
(* redeploy to recover from unhealthy state".                              *)
AlwaysWatched == Deployed /\ ~Late => interval # 0

Given(l) == IF loop[l].pc = "setup" THEN loop[l].inst ELSE op[loop[l].op].inst

(* A caller that is given a preview is given the instance in the state, in *)
(* the session in the state, unless something timed out.                   *)
PreviewIsInstance ==
    [][\A l \in Active :
          loop'[l].pc = "none" /\ ~Late /\ here'
              => Given(l) = instance' /\ Known(instance', session')]_vars

(* No attempt starts for a loop that nobody waits for any more, as         *)
(* DeploymentManager.ts:293 has it: "Retries indefinitely until success or *)
(* master timeout".                                                        *)
RetriesStop ==
    [][\A l \in LoopIds :
          loop[l].pc = "backoff" /\ loop'[l].pc = "attempt"
              => \E c \in Callers : Waiting(c) /\ caller[c].loop = l]_vars

(* Every caller is answered in the end although no timeout has to run out, *)
(* unless a caller gave up waiting: then two loops may disturb each other. *)
CallersAnswered ==
    \A c \in Callers : Waiting(c) ~> (~Waiting(c) \/ gaveUp)

Sick == instance # 0 /\ ~made[instance].healthy

(* An instance that becomes unhealthy is replaced, unless something timed  *)
(* out, a health check joined a deployment or an eviction lost the         *)
(* interval.                                                               *)
UnhealthyReplaced ==
    Sick ~> (~Sick \/ Late \/ joined \/ ~here)

=============================================================================
