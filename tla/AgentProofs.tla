----------------------------- MODULE AgentProofs -----------------------------
(* Theorems about PhasicAgent, for every number of chat turns, phases,     *)
(* requests, failures and evictions.                                       *)
EXTENDS PhasicAgent, SequenceTheorems, FiniteSetTheorems, TLAPS

Progress == {"open", "openLast", "done"}

(* The strengthening of OnlyLastIncomplete: while the next phase is being  *)
(* planned there is no unfinished one.                                     *)
PlanInv ==
    /\ phases \in Seq(Progress)
    /\ at \in Nat
    /\ gen \in RunPcs
    /\ OnlyLastIncomplete
    /\ gen \in {"issues", "inferring"} => Open = {}

(* A step that leaves the phases alone and does not enter the states that  *)
(* plan or implement one preserves the invariant.                          *)
LEMMA PlanInvKept ==
    ASSUME PlanInv, UNCHANGED phases, at' \in Nat, gen' \in RunPcs,
           \/ gen' = gen /\ at' = at
           \/ gen' \notin {"issues", "inferring", "implementing", "deploying"}
    PROVE  PlanInv'
<1>1. Open' = Open
    BY DEF Open
<1>2. Open' \subseteq {Len(phases')}
    BY <1>1 DEF PlanInv, OnlyLastIncomplete
<1>3. gen' \in {"implementing", "deploying"} => at' \in Open'
    BY <1>1 DEF PlanInv, OnlyLastIncomplete
<1>4. gen' \in {"issues", "inferring"} => Open' = {}
    BY <1>1 DEF PlanInv
<1> QED
    BY <1>2, <1>3, <1>4 DEF PlanInv, OnlyLastIncomplete

(* No step of a run plans a phase while another one is unfinished. *)
LEMMA RunKeepsPlan ==
    ASSUME PlanInv, Run PROVE PlanInv'
<1>1. CASE Launch
    <2>1. CASE Open # {}
        <3>1. Open = {Len(phases)} /\ Len(phases) \in Nat
            BY <2>1 DEF PlanInv, OnlyLastIncomplete
        <3>2. at' = Len(phases) /\ gen' = "implementing" /\ UNCHANGED phases
            BY <1>1, <2>1, <3>1 DEF Launch, Open
        <3>3. Open' = Open
            BY <3>2 DEF Open
        <3> QED
            BY <3>1, <3>2, <3>3 DEF PlanInv, OnlyLastIncomplete, RunPcs
    <2>2. CASE Open = {} /\ phases # <<>>
        <3>1. gen' = "issues" /\ UNCHANGED <<phases, at>>
            BY <1>1, <2>2 DEF Launch
        <3>2. Open' = Open
            BY <3>1 DEF Open
        <3> QED
            BY <2>2, <3>1, <3>2 DEF PlanInv, OnlyLastIncomplete, RunPcs
    <2>3. CASE Open = {} /\ phases = <<>>
        <3>1. PICK p \in {"open", "openLast"} : phases' = <<p>>
            BY <1>1, <2>3 DEF Launch
        <3>2. gen' = "implementing" /\ at' = 1
            BY <1>1, <2>3 DEF Launch
        <3>3. phases' \in Seq(Progress) /\ Len(phases') = 1
            BY <3>1 DEF Progress
        <3>4. Open' = {1}
            BY <3>1, <3>3 DEF Open
        <3> QED
            BY <3>2, <3>3, <3>4 DEF PlanInv, OnlyLastIncomplete, RunPcs
    <2> QED
        BY <2>1, <2>2, <2>3
<1>2. CASE TakeRequests
    <2>1. Open' = Open
        BY <1>2 DEF TakeRequests, Open
    <2> QED
        BY <1>2, <2>1 DEF TakeRequests, PlanInv, OnlyLastIncomplete, RunPcs
<1>3. CASE GenerationFails
    <2>1. gen' \in {"closing", "reviewing"} /\ UNCHANGED <<phases, at>>
        BY <1>3 DEF GenerationFails, AfterError, Review
    <2> QED
        BY <2>1, PlanInvKept DEF PlanInv, RunPcs
<1>4. CASE PhaseMade
    <2>1. PICK p \in {"open", "openLast"} : phases' = Append(phases, p)
        BY <1>4 DEF PhaseMade
    <2>2. gen' = "implementing" /\ at' = Len(phases) + 1 /\ Open = {}
        BY <1>4 DEF PhaseMade, PlanInv
    <2>3. /\ phases' \in Seq(Progress) /\ Len(phases') = Len(phases) + 1
          /\ Len(phases) \in Nat
          /\ \A i \in 1 .. Len(phases) : phases'[i] = phases[i]
          /\ phases'[Len(phases) + 1] = p
        BY <2>1 DEF PlanInv, Progress
    <2>4. Open' = {Len(phases')}
        <3>1. \A i \in DOMAIN phases' : i \in DOMAIN phases \/ i = Len(phases')
            BY <2>3 DEF PlanInv
        <3>2. \A i \in DOMAIN phases : phases[i] = "done"
            BY <2>2 DEF Open
        <3>3. Len(phases') \in DOMAIN phases' /\ phases'[Len(phases')] # "done"
            BY <2>1, <2>3
        <3>4. \A i \in DOMAIN phases : phases'[i] = "done"
            BY <2>3, <3>2 DEF PlanInv
        <3> QED
            BY <3>1, <3>3, <3>4 DEF Open
    <2> QED
        BY <2>2, <2>3, <2>4 DEF PlanInv, OnlyLastIncomplete, RunPcs
<1>5. CASE NoPhase
    <2>1. UNCHANGED <<phases, at>> /\ gen' \in {"closing", "reviewing", "issues"} /\ Open = {}
        BY <1>5 DEF NoPhase, Review, Finalize, PlanInv
    <2>2. Open' = {}
        BY <2>1 DEF Open
    <2> QED
        BY <2>1, <2>2 DEF PlanInv, OnlyLastIncomplete, RunPcs
<1>6. CASE Deploy
    <2>1. Open' = Open
        BY <1>6 DEF Deploy, saved, Open
    <2> QED
        BY <1>6, <2>1 DEF Deploy, saved, PlanInv, OnlyLastIncomplete, RunPcs
<1>7. CASE Implemented
    <2>1. /\ phases' = [phases EXCEPT ![at] = "done"] /\ UNCHANGED at
          /\ gen' \in {"closing", "reviewing", "issues"}
        BY <1>7 DEF Implemented, NextState, Review, Finalize
    <2>2. Open = {at} /\ at = Len(phases)
        BY <1>7 DEF Implemented, PlanInv, OnlyLastIncomplete
    <2>3. phases' \in Seq(Progress) /\ DOMAIN phases' = DOMAIN phases
        <3>1. at \in 1 .. Len(phases) /\ phases \in Seq(Progress)
            BY <2>2 DEF PlanInv, Open
        <3> QED
            BY <2>1, <3>1, ExceptSeq DEF Progress
    <2>4. Open' = {}
        BY <2>1, <2>2, <2>3 DEF Open, PlanInv
    <2> QED
        BY <2>1, <2>3, <2>4 DEF PlanInv, OnlyLastIncomplete, RunPcs
<1>8. CASE ImplementFails
    <2>1. gen' \in {"closing", "reviewing"} /\ UNCHANGED <<phases, at>>
        BY <1>8 DEF ImplementFails, AfterError, Review
    <2> QED
        BY <2>1, PlanInvKept DEF PlanInv, RunPcs
<1>9. CASE Reviewed \/ Close
    <2>1. gen' \in {"closing", "idle"} /\ UNCHANGED <<phases, at>>
        BY <1>9 DEF Reviewed, Close, saved
    <2> QED
        BY <2>1, PlanInvKept DEF PlanInv, RunPcs
<1> QED
    BY <1>1, <1>2, <1>3, <1>4, <1>5, <1>6, <1>7, <1>8, <1>9 DEF Run

(* Neither does what users do, nor an eviction. *)
LEMMA OthersKeepPlan ==
    ASSUME PlanInv,
           \/ \E t \in Turns : Say(t) \/ Chat(t)
           \/ GenerateAll \/ Stop \/ Resume \/ Crash \/ Reconnect
           \/ UNCHANGED vars
    PROVE  PlanInv'
<1>1. UNCHANGED phases
    BY DEF Say, Chat, Queue, Debug, DebugEnds, Answered, TurnFails, GenerateAll,
           Stop, Resume, Crash, Reconnect, saved, vars
<1>2. UNCHANGED <<gen, at>> \/ (gen' \in {"starting", "idle"} /\ at' = 0)
    BY DEF Say, Chat, Queue, Debug, DebugEnds, Answered, TurnFails, GenerateAll,
           Stop, Resume, Crash, Reconnect, Generate, StartRun, run, vars
<1> QED
    BY <1>1, <1>2, PlanInvKept DEF PlanInv, RunPcs

LEMMA PlanInvariant == Spec => []PlanInv
<1>1. Init => PlanInv
    BY DEF Init, PlanInv, OnlyLastIncomplete, Open, RunPcs
<1>2. PlanInv /\ [Next]_vars => PlanInv'
    BY RunKeepsPlan, OthersKeepPlan DEF Next
<1> QED
    BY <1>1, <1>2, PTL DEF Spec

(* Whatever is stopped, aborted, lost or started again, a phase that was   *)
(* planned is finished before the next one is planned.                     *)
THEOREM PlannedIsFinished == Spec => []OnlyLastIncomplete
<1>1. PlanInv => OnlyLastIncomplete
    BY DEF PlanInv
<1> QED
    BY <1>1, PlanInvariant, PTL

-----------------------------------------------------------------------------
(* Types.                                                                  *)

DataTypes ==
    /\ phases \in Seq(Progress)
    /\ counter \in Int /\ counter <= MaxPhases
    /\ pending \subseteq 1 .. MaxRequests /\ taken \subseteq 1 .. MaxRequests
    /\ served \subseteq 1 .. MaxRequests
    /\ gen \in RunPcs /\ at \in Nat
    /\ conv \in [Turns -> TurnPcs]
    /\ requests \in 0 .. MaxRequests /\ finals \in Nat
    /\ failures \in 0 .. MaxFailures /\ crashes \in 0 .. MaxCrashes

Flags ==
    /\ mvp \in BOOLEAN /\ reviewed \in BOOLEAN /\ intent \in BOOLEAN
    /\ connected \in BOOLEAN /\ final \in BOOLEAN /\ clears \in BOOLEAN
    /\ cancelled \in BOOLEAN /\ failed \in BOOLEAN /\ stopped \in BOOLEAN

LEMMA TypesSplit == TypeOK <=> DataTypes /\ Flags
    BY DEF TypeOK, DataTypes, Flags, Progress

LEMMA AgentTypeInit == Init => TypeOK
<1> SUFFICES ASSUME Init PROVE DataTypes /\ Flags
    BY TypesSplit
<1> USE AgentAssumption DEF AgentAssumption, Init
<1>1. DataTypes
    BY DEF DataTypes, TurnPcs, RunPcs
<1>2. Flags
    BY DEF Flags
<1> QED
    BY <1>1, <1>2

(* The steps of a run. *)
LEMMA RunData ==
    ASSUME TypeOK, PlanInv', Run PROVE DataTypes'
<1> USE AgentAssumption, TypesSplit
    DEF AgentAssumption, DataTypes, RunPcs, TurnPcs, Progress, saved, run, bounds, user
<1>0. phases' \in Seq(Progress) /\ at' \in Nat /\ gen' \in RunPcs
    BY DEF PlanInv
<1>1. CASE Launch
    BY <1>0, <1>1 DEF Launch
<1>2. CASE TakeRequests
    BY <1>2 DEF TakeRequests
<1>3. CASE GenerationFails
    BY <1>3 DEF GenerationFails, Fails, AfterError, Review
<1>4. CASE PhaseMade
    BY <1>4 DEF PhaseMade
<1>5. CASE NoPhase
    BY <1>5 DEF NoPhase, Finalize, Review
<1>6. CASE Deploy
    BY <1>6 DEF Deploy
<1>7. CASE Implemented
    <2>1. counter' \in Int /\ counter' <= MaxPhases
        BY <1>7 DEF Implemented
    <2>2. finals' \in Nat
        BY <1>7 DEF Implemented, NextState, Finalize, Review
    <2> QED
        BY <1>0, <1>7, <2>1, <2>2 DEF Implemented
<1>8. CASE ImplementFails
    BY <1>8 DEF ImplementFails, Fails, AfterError, Review
<1>9. CASE Reviewed
    BY <1>9 DEF Reviewed
<1>10. CASE Close
    BY <1>10 DEF Close
<1> QED
    BY <1>1, <1>2, <1>3, <1>4, <1>5, <1>6, <1>7, <1>8, <1>9, <1>10 DEF Run

LEMMA RunFlags ==
    ASSUME TypeOK, Run PROVE Flags'
<1> USE TypesSplit DEF Flags, saved, run, bounds, user
<1>1. CASE Launch
    BY <1>1 DEF Launch, Open
<1>2. CASE TakeRequests
    BY <1>2 DEF TakeRequests
<1>3. CASE GenerationFails
    BY <1>3 DEF GenerationFails, Fails, AfterError, Review
<1>4. CASE PhaseMade
    BY <1>4 DEF PhaseMade
<1>5. CASE NoPhase
    BY <1>5 DEF NoPhase, Finalize, Review
<1>6. CASE Deploy
    BY <1>6 DEF Deploy
<1>7. CASE Implemented
    BY <1>7 DEF Implemented, NextState, Finalize, Review
<1>8. CASE ImplementFails
    BY <1>8 DEF ImplementFails, Fails, AfterError, Review
<1>9. CASE Reviewed
    BY <1>9 DEF Reviewed
<1>10. CASE Close
    BY <1>10 DEF Close
<1> QED
    BY <1>1, <1>2, <1>3, <1>4, <1>5, <1>6, <1>7, <1>8, <1>9, <1>10 DEF Run

(* The chat turns. *)
LEMMA ChatData ==
    ASSUME TypeOK, NEW t \in Turns, Say(t) \/ Chat(t) PROVE DataTypes'
<1> USE AgentAssumption, TypesSplit
    DEF AgentAssumption, DataTypes, RunPcs, TurnPcs, Progress, saved, run, bounds, user
<1>1. CASE Say(t)
    BY <1>1 DEF Say
<1>2. CASE Queue(t)
    BY <1>2 DEF Queue, Recharged
<1>3. CASE Debug(t)
    BY <1>3 DEF Debug
<1>4. CASE DebugEnds(t)
    BY <1>4 DEF DebugEnds
<1>5. CASE Answered(t)
    BY <1>5 DEF Answered, StartRun
<1>6. CASE TurnFails(t)
    BY <1>6 DEF TurnFails
<1> QED
    BY <1>1, <1>2, <1>3, <1>4, <1>5, <1>6 DEF Chat

LEMMA ChatFlags ==
    ASSUME TypeOK, NEW t \in Turns, Say(t) \/ Chat(t) PROVE Flags'
<1> USE TypesSplit DEF Flags, saved, run, bounds, user
<1>1. CASE Say(t)
    BY <1>1 DEF Say
<1>2. CASE Queue(t)
    BY <1>2 DEF Queue, Recharged
<1>3. CASE Debug(t)
    BY <1>3 DEF Debug
<1>4. CASE DebugEnds(t)
    BY <1>4 DEF DebugEnds
<1>5. CASE Answered(t)
    BY <1>5 DEF Answered, StartRun
<1>6. CASE TurnFails(t)
    BY <1>6 DEF TurnFails
<1> QED
    BY <1>1, <1>2, <1>3, <1>4, <1>5, <1>6 DEF Chat

(* The messages, evictions and reconnects. *)
LEMMA ControlData ==
    ASSUME TypeOK, GenerateAll \/ Stop \/ Resume \/ Crash \/ Reconnect PROVE DataTypes'
<1> USE AgentAssumption, TypesSplit
    DEF AgentAssumption, DataTypes, RunPcs, TurnPcs, Progress, saved, run, bounds, user
<1>1. CASE GenerateAll
    BY <1>1 DEF GenerateAll, Generate, StartRun
<1>2. CASE Stop
    BY <1>2 DEF Stop
<1>3. CASE Resume
    BY <1>3 DEF Resume, StartRun
<1>4. CASE Crash
    BY <1>4 DEF Crash
<1>5. CASE Reconnect
    BY <1>5 DEF Reconnect, Generate, StartRun
<1> QED
    BY <1>1, <1>2, <1>3, <1>4, <1>5

LEMMA ControlFlags ==
    ASSUME TypeOK, GenerateAll \/ Stop \/ Resume \/ Crash \/ Reconnect PROVE Flags'
<1> USE TypesSplit DEF Flags, saved, run, bounds, user
<1>1. CASE GenerateAll
    BY <1>1 DEF GenerateAll, Generate, StartRun
<1>2. CASE Stop
    BY <1>2 DEF Stop
<1>3. CASE Resume
    BY <1>3 DEF Resume, StartRun
<1>4. CASE Crash
    BY <1>4 DEF Crash
<1>5. CASE Reconnect
    BY <1>5 DEF Reconnect, Generate, StartRun
<1> QED
    BY <1>1, <1>2, <1>3, <1>4, <1>5

(* phasesCounter never passes MAX_PHASES, however many requests recharge   *)
(* it, and no other variable leaves its type either.                       *)
THEOREM AgentTypeCorrect == Spec => []TypeOK
<1>1. TypeOK /\ PlanInv /\ PlanInv' /\ [Next]_vars => TypeOK'
    <2> SUFFICES ASSUME TypeOK, PlanInv, PlanInv', [Next]_vars PROVE TypeOK'
        OBVIOUS
    <2>1. CASE UNCHANGED vars
        BY <2>1 DEF vars, saved, run, user, bounds, TypeOK
    <2>2. CASE Next
        <3>1. DataTypes'
            BY <2>2, RunData, ChatData, ControlData DEF Next
        <3>2. Flags'
            BY <2>2, RunFlags, ChatFlags, ControlFlags DEF Next
        <3> QED
            BY <3>1, <3>2 DEF TypeOK, DataTypes, Flags, Progress
    <2> QED
        BY <2>1, <2>2
<1> QED
    BY <1>1, AgentTypeInit, PlanInvariant, PTL DEF Spec

-----------------------------------------------------------------------------
(* The budget.                                                             *)

(* What the code may still do unpaid when the counter is used up: the open *)
(* phase, the one being inferred or the first one, and then one more for   *)
(* the requests pending or, when none is open, for issues that are looked  *)
(* at or an MVP that is missing.                                           *)
Planned == gen = "inferring" \/ phases = <<>>
Awaited == pending # {} \/ (Open = {} /\ ~Planned /\ (gen = "issues" \/ ~mvp))

Due == (IF Open # {} THEN 1 ELSE 0) + (IF Planned THEN 1 ELSE 0)
       + (IF Awaited THEN 1 ELSE 0)

Slack == MaxPhases + Recharge * requests + finals - Cardinality(Done)

BudgetInv ==
    /\ gen = "starting" => ~mvp \/ pending # {}
    /\ final => mvp
    /\ counter <= Slack /\ Due <= Slack

LEMMA DoneFinite == ASSUME PlanInv PROVE IsFiniteSet(Done) /\ Cardinality(Done) \in Nat
<1>1. Len(phases) \in Nat /\ Done \subseteq 1 .. Len(phases)
    BY DEF PlanInv, Done
<1>2. IsFiniteSet(1 .. Len(phases))
    BY <1>1, FS_Interval
<1> QED
    BY <1>1, <1>2, FS_Subset, FS_CardinalityType

(* Most steps leave the phases alone. *)
LEMMA PhasesKept ==
    ASSUME UNCHANGED phases PROVE Open' = Open /\ Done' = Done
BY DEF Open, Done

LEMMA RunKeepsBudget ==
    ASSUME TypeOK, PlanInv, PlanInv', BudgetInv, Run PROVE BudgetInv'
<1> DEFINE c == Cardinality(Done)
<1>1. /\ c \in Nat /\ Recharge * requests \in Nat /\ MaxPhases \in Nat
      /\ counter \in Int /\ finals \in Nat
    BY DoneFinite, AgentAssumption DEF TypeOK
<1>2. /\ gen \in {"issues", "inferring"} => Open = {}
      /\ gen \in {"implementing", "deploying"} => at \in Open /\ Open = {at}
    BY DEF PlanInv, OnlyLastIncomplete
<1> DEFINE s == Recharge * requests
<1> HIDE DEF c, s
<1>3. CASE Launch /\ phases = <<>>
    <2>1. /\ phases' \in {<<"open">>, <<"openLast">>} /\ gen' = "implementing"
          /\ UNCHANGED <<counter, pending, mvp, final, requests, finals>>
        BY <1>3 DEF Launch, Open, user
    <2>2. Open = {} /\ Done = {} /\ Done' = {} /\ Open' # {} /\ phases' # <<>>
        BY <1>3, <2>1 DEF Open, Done
    <2> QED
        BY <1>1, <1>3, <2>1, <2>2 DEF BudgetInv, Slack, Due, Planned, Awaited, c, s
<1>4. CASE Launch /\ phases # <<>>
    <2>1. /\ UNCHANGED <<phases, counter, pending, mvp, final, requests, finals>>
          /\ gen = "starting"
          /\ \/ Open # {} /\ gen' = "implementing"
             \/ Open = {} /\ gen' = "issues"
        BY <1>4 DEF Launch, user
    <2>2. Done' = Done /\ Open' = Open
        BY <2>1, PhasesKept
    <2> QED
        BY <1>1, <1>4, <2>1, <2>2 DEF BudgetInv, Slack, Due, Planned, Awaited, c, s
<1>5. CASE TakeRequests
    <2>1. Done' = Done /\ Open' = Open
        BY <1>5, PhasesKept DEF TakeRequests
    <2> QED
        BY <1>1, <1>2, <1>5, <2>1 DEF TakeRequests, user, BudgetInv, Slack, Due, Planned, Awaited, c, s
<1>6. CASE GenerationFails
    <2>1. Done' = Done /\ Open' = Open
        BY <1>6, PhasesKept DEF GenerationFails
    <2>2. /\ UNCHANGED <<phases, counter, pending, mvp, requests, finals>>
          /\ gen \in {"issues", "inferring"} /\ gen' \in {"closing", "reviewing"}
          /\ final' = FALSE
        BY <1>6 DEF GenerationFails, AfterError, Review, user
    <2> QED
        BY <1>1, <1>2, <2>1, <2>2 DEF BudgetInv, Slack, Due, Planned, Awaited, c, s
<1>7. CASE PhaseMade
    <2>1. PICK p \in {"open", "openLast"} : phases' = Append(phases, p)
        BY <1>7 DEF PhaseMade
    <2>2. /\ phases' \in Seq(Progress) /\ Len(phases') = Len(phases) + 1
          /\ Len(phases) \in Nat /\ phases' # <<>>
          /\ \A i \in 1 .. Len(phases) : phases'[i] = phases[i]
          /\ phases'[Len(phases) + 1] = p
        BY <2>1 DEF PlanInv, Progress
    <2>3. Done' = Done
        BY <2>1, <2>2 DEF Done, PlanInv
    <2>4. /\ UNCHANGED <<counter, pending, mvp, final, requests, finals>>
          /\ gen = "inferring" /\ gen' = "implementing" /\ Open = {}
        BY <1>2, <1>7 DEF PhaseMade, user
    <2>5. Open' # {}
        BY <2>4 DEF PlanInv, OnlyLastIncomplete
    <2> QED
        BY <1>1, <2>2, <2>3, <2>4, <2>5 DEF BudgetInv, Slack, Due, Planned, Awaited, c, s
<1>8. CASE NoPhase
    <2>1. Done' = Done /\ Open' = Open
        BY <1>8, PhasesKept DEF NoPhase
    <2>2. /\ UNCHANGED <<phases, counter, pending, requests>>
          /\ gen = "inferring" /\ Open = {}
          /\ \/ /\ gen' \in {"closing", "reviewing"} /\ mvp' /\ ~final' /\ finals' = finals
             \/ /\ gen' = "issues" /\ mvp /\ mvp' = mvp /\ finals' = finals + 1
        BY <1>2, <1>8 DEF NoPhase, Finalize, Review, user, BudgetInv
    <2> QED
        BY <1>1, <2>1, <2>2 DEF BudgetInv, Slack, Due, Planned, Awaited, c, s
<1>9. CASE Deploy
    <2>1. Done' = Done /\ Open' = Open
        BY <1>9, PhasesKept DEF Deploy, saved
    <2> QED
        BY <1>1, <1>2, <1>9, <2>1
        DEF Deploy, saved, user, BudgetInv, Slack, Due, Planned, Awaited, c, s
<1>10. CASE Implemented
    <2>1. /\ phases' = [phases EXCEPT ![at] = "done"] /\ counter' = counter - 1
          /\ gen = "deploying" /\ UNCHANGED <<pending, requests>>
          /\ at \in DOMAIN phases /\ phases[at] # "done" /\ Open = {at}
        BY <1>2, <1>10 DEF Implemented, user, Open
    <2>2. Done' = Done \cup {at} /\ at \notin Done /\ phases' # <<>> /\ phases # <<>>
        BY <2>1 DEF Done, PlanInv
    <2>3. Cardinality(Done') = Cardinality(Done) + 1
        BY <2>2, DoneFinite, FS_AddElement
    <2>4. Open' = {}
        BY <2>1 DEF Open, PlanInv
    <2>5. \/ /\ final /\ mvp /\ mvp' = mvp /\ finals' = finals /\ ~final'
             /\ gen' \in {"closing", "reviewing"}
          \/ /\ pending = {} /\ mvp' /\ finals' = finals /\ ~final'
             /\ gen' \in {"closing", "reviewing"}
          \/ /\ pending = {} /\ mvp /\ mvp' = mvp /\ finals' = finals + 1
             /\ gen' = "issues"
          \/ /\ pending # {} \/ counter' > 0
             /\ gen' = "issues" /\ UNCHANGED <<mvp, final, finals>>
        BY <1>10, <2>1, <1>1 DEF Implemented, NextState, Finalize, Review, BudgetInv
    <2> QED
        BY <1>1, <2>1, <2>2, <2>3, <2>4, <2>5
        DEF BudgetInv, Slack, Due, Planned, Awaited, c, s
<1>11. CASE ImplementFails
    <2>1. Done' = Done /\ Open' = Open
        BY <1>11, PhasesKept DEF ImplementFails
    <2>2. /\ UNCHANGED <<phases, counter, pending, mvp, requests, finals>>
          /\ gen' \in {"closing", "reviewing"} /\ final' = FALSE
          /\ gen \in {"implementing", "deploying"}
        BY <1>11 DEF ImplementFails, AfterError, Review, user
    <2> QED
        BY <1>1, <1>2, <2>1, <2>2 DEF BudgetInv, Slack, Due, Planned, Awaited, c, s
<1>12. CASE Reviewed \/ Close
    <2>1. /\ UNCHANGED <<phases, counter, pending, mvp, final, requests, finals>>
          /\ gen \in {"reviewing", "closing"} /\ gen' \in {"closing", "idle"}
        BY <1>12 DEF Reviewed, Close, saved, user
    <2>2. Done' = Done /\ Open' = Open
        BY <2>1, PhasesKept
    <2> QED
        BY <1>1, <2>1, <2>2 DEF BudgetInv, Slack, Due, Planned, Awaited, c, s
<1> QED
    BY <1>3, <1>4, <1>5, <1>6, <1>7, <1>8, <1>9, <1>10, <1>11, <1>12 DEF Run

(* A queued request pays for what it adds; nothing else a user does plans  *)
(* or completes a phase.                                                   *)
LEMMA OthersKeepBudget ==
    ASSUME TypeOK, PlanInv, BudgetInv,
           \/ \E t \in Turns : Say(t) \/ Chat(t)
           \/ GenerateAll \/ Stop \/ Resume \/ Crash \/ Reconnect
           \/ UNCHANGED vars
    PROVE  BudgetInv'
<1> DEFINE c == Cardinality(Done)
           s == Recharge * requests
<1>1. /\ c \in Nat /\ s \in Nat /\ MaxPhases \in Nat
      /\ counter \in Int /\ finals \in Nat /\ Recharge \in Nat \ {0}
    BY DoneFinite, AgentAssumption DEF TypeOK
<1> HIDE DEF c, s
<1>2. ASSUME UNCHANGED <<phases, counter, pending, mvp, requests, finals>>,
             \/ UNCHANGED <<gen, final>>
             \/ gen' = "starting" /\ final' = FALSE /\ MayStart
             \/ gen' = "idle" /\ final' = FALSE
      PROVE  BudgetInv'
    <2>1. Done' = Done /\ Open' = Open
        BY <1>2, PhasesKept
    <2> QED
        BY <1>1, <1>2, <2>1
        DEF BudgetInv, Slack, Due, Planned, Awaited, MayStart, IsGenerating, c, s
<1>3. CASE \E t \in Turns : Queue(t)
    <2>1. /\ UNCHANGED <<phases, mvp, gen, final, finals>>
          /\ requests' = requests + 1 /\ pending' # {} /\ counter' = Recharged
        BY <1>3 DEF Queue, run
    <2>2. Done' = Done /\ Open' = Open
        BY <2>1, PhasesKept
    <2>3. Recharge * requests' = s + Recharge
        BY <2>1, <1>1 DEF s, TypeOK
    <2>4. Due' <= Due + 1 /\ Due >= 0 /\ Due \in Int /\ Due' \in Int
        BY <2>1, <2>2 DEF Due, Planned, Awaited
    <2>5. Slack' = Slack + Recharge /\ Slack \in Int
        BY <1>1, <2>1, <2>2, <2>3 DEF Slack, c, s
    <2> QED
        BY <1>1, <2>1, <2>4, <2>5 DEF BudgetInv, Recharged
<1>4. CASE \E t \in Turns : Say(t) \/ Debug(t) \/ DebugEnds(t) \/ TurnFails(t)
    BY <1>2, <1>4 DEF Say, Debug, DebugEnds, TurnFails, saved, run
<1>5. CASE \E t \in Turns : Answered(t)
    BY <1>2, <1>5 DEF Answered, StartRun, saved, run
<1>6. CASE GenerateAll \/ Resume \/ Reconnect
    BY <1>2, <1>6 DEF GenerateAll, Resume, Reconnect, Generate, StartRun, saved, run
<1>7. CASE Stop \/ Crash \/ UNCHANGED vars
    BY <1>2, <1>7 DEF Stop, Crash, vars, saved, run, user
<1> QED
    BY <1>3, <1>4, <1>5, <1>6, <1>7 DEF Chat

(* However often a run is stopped, fails or is evicted, the phases that    *)
(* are completed stay within what was paid for: the initial budget, what   *)
(* each queued request adds, and one for each finalizing phase begun.      *)
THEOREM PhasesWithinBudget == Spec => []BudgetKept
<1>1. Init => BudgetInv
    <2> SUFFICES ASSUME Init PROVE BudgetInv
        OBVIOUS
    <2>1. Done = {} /\ Open = {} /\ Cardinality(Done) = 0
        BY FS_EmptySet DEF Init, Done, Open
    <2> QED
        BY <2>1, AgentAssumption DEF Init, BudgetInv, Slack, Due, Planned, Awaited
<1>2. TypeOK /\ PlanInv /\ PlanInv' /\ BudgetInv /\ [Next]_vars => BudgetInv'
    BY RunKeepsBudget, OthersKeepBudget DEF Next
<1>3. TypeOK /\ PlanInv /\ BudgetInv => BudgetKept
    <2> SUFFICES ASSUME TypeOK, PlanInv, BudgetInv PROVE BudgetKept
        OBVIOUS
    <2>1. Due >= 0
        BY DEF Due
    <2>2. Cardinality(Done) \in Nat /\ Recharge * requests \in Nat /\ MaxPhases \in Nat /\ finals \in Nat
        BY DoneFinite, AgentAssumption DEF TypeOK
    <2> QED
        BY <2>1, <2>2 DEF BudgetInv, Slack, BudgetKept, Due
<1> QED
    BY <1>1, <1>2, <1>3, AgentTypeCorrect, PlanInvariant, PTL DEF Spec

=============================================================================
