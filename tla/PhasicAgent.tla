----------------------------- MODULE PhasicAgent -----------------------------
(***************************************************************************)
(* worker/agents/core: one project's agent with the phasic behaviour, the  *)
(* run that generates the project phase by phase, the chat turns that queue *)
(* requests for it, and the messages that start, stop and resume it.       *)
(*                                                                         *)
(* A Durable Object runs one event at a time and lets others in at every   *)
(* await: the model has one step per stretch between two awaits.  What     *)
(* setState wrote survives an eviction, the promise of a run and the chat  *)
(* turns do not.  A phase is its progress only: when one is completed, all *)
(* others are already (OnlyLastIncomplete), so that it does not matter     *)
(* that markPhaseComplete goes by name.  currentPhase is left out: it is   *)
(* read only without a phase concept, and there always is one.             *)
(***************************************************************************)
EXTENDS Integers, Sequences, FiniteSets

CONSTANTS
    Turns,             \* the chat messages users may send
    MaxPhases,         \* MAX_PHASES
    Recharge,          \* the phases a queued request is worth
    Messages,          \* which messages users send
    DuringGeneration,  \* whether they send them while the agent works
    MaxRequests,       \* bound on queued requests
    MaxFailures,       \* bound on failed inferences and deployments
    MaxCrashes         \* bound on evictions

ASSUME AgentAssumption ==
    /\ MaxPhases \in Nat \ {0}
    /\ Recharge \in Nat \ {0} /\ Recharge <= MaxPhases
    /\ Messages \subseteq {"talk", "generate", "stop", "resume"}
    /\ DuringGeneration \in BOOLEAN
    /\ MaxRequests \in Nat /\ MaxFailures \in Nat /\ MaxCrashes \in Nat

VARIABLES
    phases,     \* state.generatedPhases: open, openLast (its lastPhase) or done
    counter,    \* state.phasesCounter
    pending,    \* state.pendingUserInputs
    mvp,        \* state.mvpGenerated
    reviewed,   \* state.reviewingInitiated
    intent,     \* state.shouldBeGenerating
    connected,  \* the user's page is connected
    gen,        \* where the run waits; idle: generationPromise is null
    final,      \* the run is in its finalizing phase
    taken,      \* the requests the inference under way was given
    at,         \* the phase being implemented
    clears,     \* the run was started by a message that clears intent after it
    cancelled,  \* the inference under way has been aborted
    conv,       \* where each chat turn stands
    requests,   \* history: requests queued so far
    served,     \* history: requests an inference has answered
    finals,     \* history: finalizing phases begun
    failed,     \* history: the run met an error
    stopped,    \* history: the user stopped and has not asked again
    failures, crashes

saved == <<phases, counter, pending, mvp, reviewed>>
run == <<gen, final, taken, at, clears, cancelled, served, finals, failed>>
bounds == <<failures, crashes>>
user == <<intent, connected, conv, requests, stopped>>
vars == <<saved, run, user, bounds>>

RunPcs == {"idle", "starting", "issues", "inferring", "implementing",
           "deploying", "reviewing", "closing"}
TurnPcs == {"new", "talking", "debugging", "debugged", "done"}

Init ==
    /\ phases = <<>> /\ counter = MaxPhases /\ pending = {}
    /\ mvp = FALSE /\ reviewed = FALSE
    /\ intent = FALSE /\ connected = TRUE
    /\ gen = "idle" /\ final = FALSE /\ taken = {} /\ at = 0
    /\ clears = FALSE /\ cancelled = FALSE
    /\ conv = [t \in Turns |-> "new"]
    /\ requests = 0 /\ served = {} /\ finals = 0
    /\ failed = FALSE /\ stopped = FALSE
    /\ failures = 0 /\ crashes = 0

IsGenerating == gen # "idle"   \* isCodeGenerating
Open == {i \in DOMAIN phases : phases[i] # "done"}
Talking == {t \in Turns : conv[t] \in {"talking", "debugging", "debugged"}}

-----------------------------------------------------------------------------
(* generateAllFiles.                                                       *)

(* A finished project is generated further only for a pending request. *)
MayStart == ~IsGenerating /\ ~(mvp /\ pending = {})

StartRun(clearing) ==
    /\ gen' = "starting" /\ clears' = clearing
    /\ final' = FALSE /\ taken' = {} /\ at' = 0 /\ cancelled' = FALSE
    /\ failed' = FALSE
    /\ UNCHANGED <<served, finals>>

(* An error, or the abort of an inference, ends this stretch of the run. *)
Fails ==
    /\ failed' = TRUE
    /\ cancelled' = FALSE
    /\ \/ cancelled /\ UNCHANGED failures
       \/ /\ ~cancelled /\ failures < MaxFailures
          /\ failures' = failures + 1

(* Mutant of Launch: an unfinished phase is not taken up again. *)
LaunchAnew ==
    /\ gen = "starting"
    /\ IF phases # <<>>
       THEN gen' = "issues" /\ UNCHANGED <<phases, at>>
       ELSE gen' = "implementing" /\ phases' = <<"open">> /\ at' = 1
    /\ UNCHANGED <<counter, pending, mvp, reviewed, final, taken, clears, cancelled,
                   served, finals, failed, user, bounds>>

(* launchStateMachine: the last unfinished phase, the next phase, or the   *)
(* first one of the blueprint.                                             *)
Launch ==
    /\ gen = "starting"
    /\ \/ /\ Open # {}
          /\ at' = CHOOSE i \in Open : \A j \in Open : j <= i
          /\ gen' = "implementing" /\ UNCHANGED phases
       \/ /\ Open = {} /\ phases # <<>>
          /\ gen' = "issues" /\ UNCHANGED <<phases, at>>
       \/ /\ phases = <<>>
          /\ phases' \in {<<"open">>, <<"openLast">>}
          /\ gen' = "implementing" /\ at' = 1
    /\ UNCHANGED <<counter, pending, mvp, reviewed, final, taken, clears, cancelled,
                   served, finals, failed, user, bounds>>

-----------------------------------------------------------------------------
(* The states of the run.                                                  *)

(* executeReviewCycle up to its await. *)
Review ==
    /\ reviewed' = TRUE
    /\ gen' = IF reviewed THEN "closing" ELSE "reviewing"
    /\ final' = FALSE

(* executeFinalizing up to its await: setMVPGenerated returns TRUE when it *)
(* has just set the flag, which is taken for "already done".               *)
Finalize ==
    \/ /\ ~mvp
       /\ mvp' = TRUE
       /\ Review
       /\ UNCHANGED finals
    \/ /\ mvp
       /\ gen' = "issues" /\ final' = TRUE
       /\ finals' = finals + 1
       /\ UNCHANGED <<mvp, reviewed>>

(* What an error leads to: IDLE, or the review when it is caught below     *)
(* executeFinalizing; a rate limit error ends the run there, too.          *)
AfterError ==
    \/ gen' = "closing" /\ final' = FALSE /\ UNCHANGED reviewed
    \/ final /\ Review

(* The issues are known: the pending requests are removed from the state,  *)
(* before the inference that is to work them into a phase.                 *)
TakeRequests ==
    /\ gen = "issues"
    /\ taken' = pending /\ pending' = {}
    /\ gen' = "inferring"
    /\ UNCHANGED <<phases, counter, mvp, reviewed, final, at, clears, cancelled,
                   served, finals, failed, user, bounds>>

(* executePhaseGeneration fails, before or after it took the requests. *)
GenerationFails ==
    /\ gen \in {"issues", "inferring"}
    /\ Fails /\ AfterError
    /\ taken' = {}
    /\ UNCHANGED <<phases, counter, pending, mvp, at, clears, served, finals,
                   user, crashes>>

PhaseMade ==
    /\ gen = "inferring"
    /\ \E phase \in {"open", "openLast"} : phases' = Append(phases, phase)
    /\ at' = Len(phases) + 1
    /\ served' = served \cup taken /\ taken' = {}
    /\ gen' = "implementing" /\ cancelled' = FALSE
    /\ UNCHANGED <<counter, pending, mvp, reviewed, final, clears, finals, failed,
                   user, bounds>>

(* The inference has no files to offer, or no result at all. *)
NoPhase ==
    /\ gen = "inferring"
    /\ \/ final /\ Review /\ UNCHANGED <<mvp, finals>>
       \/ ~final /\ Finalize
    /\ served' = served \cup taken /\ taken' = {}
    /\ cancelled' = FALSE
    /\ UNCHANGED <<phases, counter, pending, at, clears, failed, user, bounds>>

(* The files of the phase are generated and saved; they are deployed. *)
Deploy ==
    /\ gen = "implementing"
    /\ gen' = "deploying" /\ cancelled' = FALSE
    /\ UNCHANGED <<saved, final, taken, at, clears, served, finals, failed, user, bounds>>

(* Which state follows an implemented phase: the review after the final    *)
(* one, the finalizing one after the last or when no phases are left, and  *)
(* another phase as long as a request is pending.                          *)
NextState(last) ==
    \/ final /\ Review /\ UNCHANGED <<mvp, finals>>
    \/ ~final /\ last /\ pending = {} /\ Finalize
    \/ /\ ~final /\ ~(last /\ pending = {})
       /\ gen' = "issues"
       /\ UNCHANGED <<mvp, reviewed, final, finals>>

(* Mutant of Implemented: a phase is complete but not counted. *)
ImplementedUncounted ==
    /\ gen = "deploying"
    /\ phases' = [phases EXCEPT ![at] = "done"]
    /\ counter' = counter
    /\ NextState(phases[at] = "openLast" \/ counter' <= 0)
    /\ UNCHANGED <<pending, taken, at, clears, cancelled, served, failed, user, bounds>>

(* The phase is deployed: it is complete and counted. *)
Implemented ==
    /\ gen = "deploying"
    /\ phases' = [phases EXCEPT ![at] = "done"]
    /\ counter' = counter - 1
    /\ NextState(phases[at] = "openLast" \/ counter' <= 0)
    /\ UNCHANGED <<pending, taken, at, clears, cancelled, served, failed, user, bounds>>

ImplementFails ==
    /\ gen \in {"implementing", "deploying"}
    /\ Fails /\ AfterError
    /\ UNCHANGED <<phases, counter, pending, mvp, taken, at, clears, served, finals,
                   user, crashes>>

Reviewed ==
    /\ gen = "reviewing"
    /\ gen' = "closing"
    /\ UNCHANGED <<saved, final, taken, at, clears, cancelled, served, finals, failed,
                   user, bounds>>

(* The app is marked completed, the promise cleared; the message that      *)
(* started the run clears the intent, whatever became of the run.          *)
Close ==
    /\ gen = "closing"
    /\ gen' = "idle"
    /\ intent' = IF clears THEN FALSE ELSE intent
    /\ failed' = FALSE
    /\ UNCHANGED <<saved, final, taken, at, clears, cancelled, served, finals,
                   connected, conv, requests, stopped, bounds>>

-----------------------------------------------------------------------------
(* Chat turns.                                                             *)

(* A user acts: on a connected page, and in some instances only while the  *)
(* agent is at rest.                                                       *)
Sends(message) ==
    /\ connected /\ message \in Messages
    /\ DuringGeneration \/ (~IsGenerating /\ Talking = {})

Say(t) ==
    /\ Sends("talk") /\ conv[t] = "new"
    /\ conv' = [conv EXCEPT ![t] = "talking"]
    /\ stopped' = FALSE
    /\ UNCHANGED <<saved, run, bounds, intent, connected, requests>>

Recharged == IF counter <= Recharge THEN Recharge ELSE counter

(* The queue_request tool. *)
Queue(t) ==
    /\ conv[t] \in {"talking", "debugged"}
    /\ requests < MaxRequests
    /\ requests' = requests + 1
    /\ pending' = pending \cup {requests + 1}
    /\ counter' = Recharged
    /\ UNCHANGED <<phases, mvp, reviewed, run, bounds, intent, connected, conv, stopped>>

(* The deep_debug tool, once per turn. *)
Debug(t) ==
    /\ conv[t] = "talking"
    /\ ~IsGenerating /\ \A u \in Turns : conv[u] # "debugging"
    /\ conv' = [conv EXCEPT ![t] = "debugging"]
    /\ UNCHANGED <<saved, run, bounds, intent, connected, requests, stopped>>

DebugEnds(t) ==
    /\ conv[t] = "debugging"
    /\ conv' = [conv EXCEPT ![t] = "debugged"]
    /\ UNCHANGED <<saved, run, bounds, intent, connected, requests, stopped>>

(* Mutant of Answered: the agent leaves what was queued to the next run. *)
AnsweredOnly(t) ==
    /\ conv[t] \in {"talking", "debugged"}
    /\ conv' = [conv EXCEPT ![t] = "done"]
    /\ UNCHANGED <<run, saved, bounds, intent, connected, requests, stopped>>

(* The turn ends; when nothing is generated by now, a run is started. *)
Answered(t) ==
    /\ conv[t] \in {"talking", "debugged"}
    /\ conv' = [conv EXCEPT ![t] = "done"]
    /\ IF MayStart THEN StartRun(FALSE) ELSE UNCHANGED run
    /\ UNCHANGED <<saved, bounds, intent, connected, requests, stopped>>

(* An error the turn does not survive: nothing is started. *)
TurnFails(t) ==
    /\ conv[t] \in {"talking", "debugged"}
    /\ failures < MaxFailures
    /\ failures' = failures + 1
    /\ conv' = [conv EXCEPT ![t] = "done"]
    /\ UNCHANGED <<saved, run, crashes, intent, connected, requests, stopped>>

-----------------------------------------------------------------------------
(* The messages that control the run, and evictions.                       *)

(* GENERATE_ALL: the intent is set, and cleared when the run it started,   *)
(* or the refusal to start one, is over.                                   *)
Generate ==
    \/ IsGenerating /\ intent' = TRUE /\ UNCHANGED run
    \/ MayStart /\ intent' = TRUE /\ StartRun(TRUE)
    \/ ~IsGenerating /\ ~MayStart /\ intent' = FALSE /\ UNCHANGED run

GenerateAll ==
    /\ Sends("generate")
    /\ Generate
    /\ stopped' = FALSE
    /\ UNCHANGED <<saved, bounds, connected, conv, requests>>

(* STOP_GENERATION aborts an inference if one is under way. *)
Stop ==
    /\ Sends("stop")
    /\ intent' = FALSE /\ stopped' = TRUE
    /\ cancelled' = (cancelled \/ gen \in {"inferring", "implementing"})
    /\ UNCHANGED <<saved, gen, final, taken, at, clears, served, finals, failed,
                   connected, conv, requests, bounds>>

(* RESUME_GENERATION sets the intent and leaves it set. *)
Resume ==
    /\ Sends("resume")
    /\ intent' = TRUE /\ stopped' = FALSE
    /\ IF MayStart THEN StartRun(FALSE) ELSE UNCHANGED run
    /\ UNCHANGED <<saved, bounds, connected, conv, requests>>

(* The object is evicted: what was in memory only is gone, with the chat   *)
(* turns, the run and what the run would have done at its end.             *)
Crash ==
    /\ crashes < MaxCrashes
    /\ crashes' = crashes + 1
    /\ gen' = "idle" /\ final' = FALSE /\ taken' = {} /\ at' = 0
    /\ clears' = FALSE /\ cancelled' = FALSE /\ failed' = FALSE
    /\ conv' = [t \in Turns |-> IF t \in Talking THEN "done" ELSE conv[t]]
    /\ connected' = FALSE
    /\ UNCHANGED <<saved, served, finals, intent, requests, stopped, failures>>

(* Mutant of Reconnect: the page does not look at the intent. *)
ReconnectOnly ==
    /\ ~connected
    /\ connected' = TRUE
    /\ UNCHANGED <<run, intent, saved, bounds, conv, requests, stopped>>

(* The page is back: it resumes a run that should be going on. *)
Reconnect ==
    /\ ~connected
    /\ connected' = TRUE
    /\ IF intent THEN Generate ELSE UNCHANGED <<run, intent>>
    /\ UNCHANGED <<saved, bounds, conv, requests, stopped>>

-----------------------------------------------------------------------------

Run == \/ Launch \/ TakeRequests \/ GenerationFails \/ PhaseMade \/ NoPhase
       \/ Deploy \/ Implemented \/ ImplementFails \/ Reviewed \/ Close

Chat(t) == Queue(t) \/ Debug(t) \/ DebugEnds(t) \/ Answered(t) \/ TurnFails(t)

Next ==
    \/ Run
    \/ \E t \in Turns : Say(t) \/ Chat(t)
    \/ GenerateAll \/ Stop \/ Resume
    \/ Crash \/ Reconnect

(* Inferences, deployments and chat turns come to an end, pages reconnect; *)
(* nobody has to say anything.                                             *)
Fairness ==
    /\ WF_vars(Run)
    /\ \A t \in Turns : WF_vars(Chat(t))
    /\ WF_vars(Reconnect)

Spec == Init /\ [][Next]_vars /\ Fairness

-----------------------------------------------------------------------------
(* Properties.                                                             *)

(* Every variable has its type; phasesCounter never passes MAX_PHASES,     *)
(* however many requests recharge it.                                      *)
TypeOK ==
    /\ phases \in Seq({"open", "openLast", "done"})
    /\ counter \in Int /\ counter <= MaxPhases
    /\ pending \subseteq 1 .. MaxRequests /\ taken \subseteq 1 .. MaxRequests
    /\ served \subseteq 1 .. MaxRequests
    /\ mvp \in BOOLEAN /\ reviewed \in BOOLEAN /\ intent \in BOOLEAN
    /\ connected \in BOOLEAN /\ final \in BOOLEAN /\ clears \in BOOLEAN
    /\ cancelled \in BOOLEAN /\ failed \in BOOLEAN /\ stopped \in BOOLEAN
    /\ gen \in RunPcs /\ at \in Nat
    /\ conv \in [Turns -> TurnPcs]
    /\ requests \in 0 .. MaxRequests /\ finals \in Nat
    /\ failures \in 0 .. MaxFailures /\ crashes \in 0 .. MaxCrashes

(* Whatever is stopped, aborted, lost or started again, a phase that was   *)
(* planned is finished before the next one is planned, and the run works   *)
(* on that phase.                                                          *)
OnlyLastIncomplete ==
    /\ Open \subseteq {Len(phases)}
    /\ gen \in {"implementing", "deploying"} => at \in Open

Done == {i \in DOMAIN phases : phases[i] = "done"}

(* A project never costs more phases than its budget: the initial one,     *)
(* what each request adds, and the finalizing phases.                      *)
BudgetKept == Cardinality(Done) <= MaxPhases + Recharge * requests + finals

(* Every run comes to its end, and with it isCodeGenerating. *)
GenerationEnds == IsGenerating ~> ~IsGenerating

(* A request the user was promised is worked into a phase. *)
RequestsServed ==
    \A r \in 1 .. MaxRequests : r \in pending ~> r \in served

(* shouldBeGenerating does not stay set after the work is done, stopped or *)
(* given up, evictions included.                                           *)
IntentCleared == intent ~> ~intent

(* The finalizing phase is generated at most once. *)
FinalOnce == finals <= 1

(* Only a stop or a run without errors clears the intent. *)
ClearedOnSuccess == [][intent /\ ~intent' => stopped' \/ ~failed]_vars

(* After the user stopped the agent, no phase is planned until the user    *)
(* asks for something.                                                     *)
StopIsObeyed == [][stopped => Len(phases') = Len(phases)]_vars

(* The debugger and a run never change the files at the same time. *)
DebugExclusive == IsGenerating => \A t \in Turns : conv[t] # "debugging"

=============================================================================
