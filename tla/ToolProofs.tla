----------------------------- MODULE ToolProofs -----------------------------
(***************************************************************************)
(* Theorems about the execution of tool calls, for every answer of a model *)
(* whose calls have different ids: the plan orders the calls that conflict,*)
(* results come of calls that ended, and every step is one that the        *)
(* abstract schedule allows.  Then theorems about AgenticBuild, the        *)
(* conversation which asks for the calls and shows their results, for any  *)
(* number of builds, calls, messages and compactions.                      *)
(***************************************************************************)
EXTENDS ToolCalls, AgenticBuild, FiniteSetTheorems, WellFoundedInduction, TLAPS

-----------------------------------------------------------------------------
(* hasResourceConflict does not depend on the order of its arguments, so   *)
(* that it is enough to compare each call with the earlier ones.           *)
THEOREM ConflictIsMutual ==
    ASSUME NEW r1, NEW r2
    PROVE  HasResourceConflict(r1, r2) <=> HasResourceConflict(r2, r1)
<1>1. FilesConflict(r1.files, r2.files) <=> FilesConflict(r2.files, r1.files)
  BY DEF FilesConflict, PathsOverlap
<1>2. SandboxConflict(r1.sandbox, r2.sandbox) <=> SandboxConflict(r2.sandbox, r1.sandbox)
  BY DEF SandboxConflict
<1> QED
  BY <1>1, <1>2 DEF HasResourceConflict

(* A call of a known tool that conflicts with another one of the answer. *)
Clash(i, j) == calls[i].known /\ calls[j].known /\ <<calls[i], calls[j]>> \in Clashes

Answers == {"planning", "running", "results", "aborted", "failed"}

Typed ==
    /\ calls \in Batches /\ ids = [i \in Positions |-> i]
    /\ run \in [Positions -> Progress]
    /\ plan \in Seq(SUBSET Positions) /\ planned \subseteq Positions
    /\ next \in 0 .. Len(plan)
    /\ answer \in Answers /\ told \subseteq Positions /\ queued \in BOOLEAN

(* The groups of the plan divide the planned calls, and a call comes after *)
(* the earlier calls it conflicts with.                                    *)
Grouped ==
    /\ \A g \in 1 .. Len(plan) : plan[g] # {} /\ plan[g] \subseteq planned
    /\ \A i \in planned : \E g \in 1 .. Len(plan) : i \in plan[g]
    /\ \A g, h \in 1 .. Len(plan) : \A i \in plan[g] : i \in plan[h] => g = h
    /\ \A g \in 1 .. Len(plan) : \A i \in plan[g] : \A j \in Positions :
          j < i /\ Clash(i, j) => \E h \in 1 .. g - 1 : j \in plan[h]

Staged ==
    /\ answer = "planning" => next = 0
    /\ answer # "planning" => planned = Positions

(* Calls wait until their group is started, and a broken call has been     *)
(* noticed.                                                                *)
Advanced ==
    /\ \A i \in Positions : (\A g \in 1 .. next : i \notin plan[g]) => run[i] = "waiting"
    /\ Broken => answer \in {"aborted", "failed"}

Inv == Typed /\ Grouped /\ Staged /\ Advanced /\ ResultsAreFinal

-----------------------------------------------------------------------------
LEMMA Smallest ==
    ASSUME NEW S \in SUBSET Nat, S # {} PROVE \E x \in S : \A y \in S : x <= y
<1> DEFINE R == OpToRel(<, Nat)
<1>1. IsWellFoundedOn(R, Nat)
  BY NatLessThanWellFounded
<1>2. R = {ss \in Nat \X Nat : ss[1] < ss[2]}
  BY Zenon DEF OpToRel
<1> HIDE DEF R
<1>3. PICK x \in S : \A y \in S : ~(<<y, x>> \in R)
  BY <1>1, WFMin
<1>4. \A y \in S : ~(y < x)
  BY <1>2, <1>3
<1> QED
  BY <1>4

LEMMA PositionsAre ==
    ASSUME Typed
    PROVE  /\ Len(calls) \in Nat \ {0} /\ Positions = 1 .. Len(calls)
           /\ Positions \in SUBSET Nat /\ IsFiniteSet(Positions)
           /\ Cardinality(Positions) = Len(calls)
<1>1. Len(calls) \in Nat /\ Len(calls) > 0
  BY BatchesAssumption DEF Typed
<1>2. IsFiniteSet(1 .. Len(calls)) /\ Cardinality(1 .. Len(calls)) = Len(calls)
  BY <1>1, FS_Interval
<1> QED
  BY <1>1, <1>2 DEF Positions

LEMMA MaxOfOne == ASSUME NEW n \in Nat PROVE Max({n}) = n
  BY DEF Max

(* With different ids the graph of the planner is one of calls. *)
LEMMA ConflictingIs ==
    ASSUME Typed, NEW i \in Positions, NEW j \in Positions
    PROVE  Conflicting(i, j) <=> i # j /\ Clash(i, j)
<1>1. ids[i] = i /\ ids[j] = j
  BY DEF Typed
<1>2. /\ Known(i) = IF calls[i].known THEN {i} ELSE {}
      /\ Known(j) = IF calls[j].known THEN {j} ELSE {}
  BY DEF Known, Typed
<1>3. /\ calls[i].known => Holder(i) = i
      /\ calls[j].known => Holder(j) = j
  BY <1>2, MaxOfOne, PositionsAre DEF Holder
<1> QED
  BY <1>1, <1>2, <1>3 DEF Conflicting, Clash

LEMMA ReadyIs ==
    ASSUME Typed
    PROVE  /\ Unplanned = Positions \ planned
           /\ Ready = {i \in Positions \ planned :
                         \A j \in Positions : j < i /\ Clash(i, j) => j \in planned}
<1>1. Unplanned = Positions \ planned
  BY DEF Typed, Unplanned
<1>2. ASSUME NEW i \in Positions
      PROVE  DependsOn(ids[i]) = {j \in Positions : j < i /\ Clash(i, j)}
  <2>1. DependsOn(ids[i]) = {j \in Positions : j < i /\ Conflicting(i, j)}
    BY DEF DependsOn, Typed
  <2>2. \A j \in Positions : Conflicting(i, j) <=> i # j /\ Clash(i, j)
    BY ConflictingIs
  <2>3. \A j \in Positions : j < i => i # j
    BY PositionsAre
  <2> QED
    BY <2>1, <2>2, <2>3
<1> QED
  BY <1>1, <1>2 DEF Ready

(* The fallback of the planner for circular dependencies is never taken:   *)
(* the first call that is left is always ready.                            *)
LEMMA NextGroupIs == ASSUME Typed PROVE NextGroup = Ready
<1>1. SUFFICES ASSUME Unplanned # {} PROVE Ready # {}
  <2>1. Ready \subseteq Unplanned
    BY DEF Ready
  <2> QED
    BY <2>1 DEF NextGroup
<1>2. Unplanned \in SUBSET Nat /\ Unplanned = Positions \ planned
  BY PositionsAre, ReadyIs
<1>3. PICK i \in Unplanned : \A j \in Unplanned : i <= j
  BY <1>1, <1>2, Smallest
<1>4. \A j \in Positions : j < i => j \in planned
  BY <1>2, <1>3, PositionsAre
<1> QED
  BY <1>2, <1>3, <1>4, ReadyIs

LEMMA InvInit == ASSUME ~Repeats, Init PROVE Inv
<1>1. /\ calls \in Batches /\ run = [i \in Positions |-> "waiting"]
      /\ ids = [i \in Positions |-> i] /\ plan = << >> /\ planned = {} /\ next = 0
      /\ answer = "planning" /\ told = {} /\ queued = FALSE
  BY DEF Init, ScheduleInit
<1>2. << >> \in Seq(SUBSET Positions) /\ Len(<< >>) = 0
  OBVIOUS
<1>3. Typed
  <2>1. run \in [Positions -> Progress]
    BY <1>1 DEF Progress
  <2>2. plan \in Seq(SUBSET Positions) /\ next \in 0 .. Len(plan)
    BY <1>1, <1>2
  <2> QED
    BY <1>1, <2>1, <2>2 DEF Typed, Answers
<1>4. Grouped /\ Staged
  BY <1>1, <1>2 DEF Grouped, Staged
<1>5. Advanced /\ ResultsAreFinal
  BY <1>1 DEF Advanced, Broken, ResultsAreFinal
<1> QED
  BY <1>3, <1>4, <1>5 DEF Inv

(* All actions but one leave the plan as it is. *)
LEMMA PlanKept ==
    ASSUME Inv, UNCHANGED <<calls, plan, planned>>
    PROVE  Grouped' /\ Positions' = Positions
  BY DEF Inv, Grouped, Clash, Positions

LEMMA PlanGroupStep == ASSUME Inv, PlanGroup PROVE Inv'
<1>1. /\ answer = "planning" /\ UNCHANGED <<calls, ids, run, next, answer, told, queued>>
      /\ plan' = IF Ready = {} THEN plan ELSE Append(plan, Ready)
      /\ planned' = planned \union {ids[i] : i \in Ready}
  BY NextGroupIs DEF PlanGroup, Inv
<1>2. /\ Ready \subseteq Positions \ planned
      /\ planned' = planned \union Ready
      /\ \A i \in Ready : \A j \in Positions : j < i /\ Clash(i, j) => j \in planned
  BY <1>1, ReadyIs DEF Inv, Typed
<1>3. Positions' = Positions
  BY <1>1 DEF Positions
<1>4. next = 0 /\ plan \in Seq(SUBSET Positions) /\ Len(plan) \in Nat
  BY <1>1 DEF Inv, Staged, Typed
<1>5. Staged' /\ Advanced' /\ ResultsAreFinal'
  <2>1. Staged'
    BY <1>1, <1>4 DEF Staged
  <2>2. Advanced'
    BY <1>1, <1>3, <1>4 DEF Inv, Advanced, Broken
  <2>3. ResultsAreFinal'
    BY <1>1, <1>3 DEF Inv, ResultsAreFinal
  <2> QED
    BY <2>1, <2>2, <2>3
<1>6. CASE Ready = {}
  <2>1. plan' = plan /\ planned' = planned
    BY <1>1, <1>2, <1>6
  <2>2. Grouped'
    BY <1>1, <2>1, PlanKept
  <2>3. Typed'
    <3>1. run' \in [Positions' -> Progress] /\ plan' \in Seq(SUBSET Positions')
      BY <1>1, <1>3, <2>1 DEF Inv, Typed
    <3> QED
      BY <1>1, <1>3, <2>1, <3>1 DEF Inv, Typed
  <2> QED
    BY <1>5, <2>2, <2>3 DEF Inv
<1>7. CASE Ready # {}
  <2> DEFINE n == Len(plan)
  <2>1. /\ plan' \in Seq(SUBSET Positions) /\ Len(plan') = n + 1
        /\ plan'[n + 1] = Ready
        /\ \A g \in 1 .. n : plan'[g] = plan[g]
    BY <1>1, <1>2, <1>4, <1>7
  <2>2. Typed'
    <3>1. run' \in [Positions' -> Progress] /\ plan' \in Seq(SUBSET Positions')
      BY <1>1, <1>3, <2>1 DEF Inv, Typed
    <3>2. next' \in 0 .. Len(plan')
      BY <1>1, <1>4, <2>1
    <3>3. planned' \subseteq Positions' /\ told' \subseteq Positions'
      BY <1>1, <1>2, <1>3 DEF Inv, Typed
    <3>4. calls' \in Batches /\ ids' = [i \in Positions' |-> i]
      BY <1>1, <1>3 DEF Inv, Typed
    <3> QED
      BY <1>1, <3>1, <3>2, <3>3, <3>4 DEF Inv, Typed
  <2>3. ASSUME NEW g \in 1 .. n + 1
        PROVE  /\ plan'[g] # {} /\ plan'[g] \subseteq planned'
               /\ g # n + 1 => plan'[g] \subseteq planned
               /\ \A i \in plan'[g] : \A j \in Positions :
                    j < i /\ Clash(i, j) => \E h \in 1 .. g - 1 : j \in plan'[h]
    <3>1. CASE g = n + 1
      <4>1. \A j \in planned : \E h \in 1 .. n : j \in plan'[h]
        BY <2>1 DEF Inv, Grouped
      <4> QED
        BY <1>2, <1>4, <1>7, <2>1, <3>1, <4>1
    <3>2. CASE g # n + 1
      <4>1. g \in 1 .. n /\ plan'[g] = plan[g] /\ 1 .. g - 1 \subseteq 1 .. n
        BY <1>4, <2>1, <3>2
      <4> QED
        BY <1>2, <2>1, <4>1 DEF Inv, Grouped
    <3> QED
      BY <3>1, <3>2
  <2>4. \A i \in planned' : \E g \in 1 .. n + 1 : i \in plan'[g]
    <3>1. ASSUME NEW i \in planned PROVE \E g \in 1 .. n + 1 : i \in plan'[g]
      <4>1. PICK g \in 1 .. n : i \in plan[g]
        BY DEF Inv, Grouped
      <4> QED
        BY <1>4, <2>1, <4>1
    <3>2. ASSUME NEW i \in Ready PROVE \E g \in 1 .. n + 1 : i \in plan'[g]
      BY <1>4, <2>1
    <3> QED
      BY <1>2, <3>1, <3>2
  <2>5. \A g, h \in 1 .. n + 1 : \A i \in plan'[g] : i \in plan'[h] => g = h
    <3> SUFFICES ASSUME NEW g \in 1 .. n + 1, NEW h \in 1 .. n + 1,
                        NEW i \in plan'[g], i \in plan'[h]
                 PROVE  g = h
      OBVIOUS
    <3>1. CASE g = n + 1 \/ h = n + 1
      BY <1>2, <2>1, <2>3, <3>1
    <3>2. CASE g # n + 1 /\ h # n + 1
      <4>1. g \in 1 .. n /\ h \in 1 .. n
        BY <1>4, <3>2
      <4> QED
        BY <2>1, <4>1 DEF Inv, Grouped
    <3> QED
      BY <3>1, <3>2
  <2>6. Grouped'
    <3>1. \A i, j : Clash(i, j)' <=> Clash(i, j)
      BY <1>1 DEF Clash
    <3> QED
      BY <1>3, <2>1, <2>3, <2>4, <2>5, <3>1 DEF Grouped
  <2> QED
    BY <1>5, <2>2, <2>6 DEF Inv
<1> QED
  BY <1>6, <1>7

(* The plan is complete: all calls are in it. *)
LEMMA PlannedStep == ASSUME Inv, Planned PROVE Inv'
<1>1. /\ answer = "planning" /\ answer' = "running" /\ Cardinality(planned) = Len(calls)
      /\ UNCHANGED <<calls, ids, plan, planned, run, next, told, queued>>
  BY DEF Planned, planVars
<1>2. planned = Positions
  BY <1>1, PositionsAre, FS_Subset DEF Inv, Typed
<1>3. Grouped' /\ Positions' = Positions
  BY <1>1, PlanKept
<1>4. Typed' /\ Staged'
  BY <1>1, <1>2, <1>3 DEF Inv, Typed, Staged, Answers
<1>5. Advanced' /\ ResultsAreFinal'
  BY <1>1, <1>3 DEF Inv, Advanced, Broken, ResultsAreFinal
<1> QED
  BY <1>3, <1>4, <1>5 DEF Inv

(* What a start of a group does to the calls. *)
LEMMA LaunchedCalls ==
    ASSUME Inv, Launch
    PROVE  /\ answer = "running" /\ next + 1 \in 1 .. Len(plan) /\ next' = next + 1
           /\ UNCHANGED <<calls, ids, plan, planned, told, queued>>
           /\ answer' \in {"running", "failed"}
           /\ answer' = "running" => \A i \in plan[next + 1] : calls[i].known
           /\ run' = [i \in Positions |->
                         IF i \notin plan[next + 1] THEN run[i]
                         ELSE IF calls[i].known THEN "running" ELSE "broken"]
           /\ \A i \in plan[next + 1] : i \in Positions /\ run[i] = "waiting"
<1>1. /\ answer = "running" /\ next < Len(plan) /\ next' = next + 1
      /\ UNCHANGED <<calls, ids, plan, planned, told, queued>>
      /\ run' = [i \in Positions |->
                    IF i \notin plan[next + 1] THEN run[i]
                    ELSE IF calls[i].known THEN "running" ELSE "broken"]
      /\ answer' = IF \E i \in plan[next + 1] : ~calls[i].known THEN "failed" ELSE answer
  BY DEF Launch, planVars
<1>2. next + 1 \in 1 .. Len(plan) /\ next \in Nat
  BY <1>1 DEF Inv, Typed
<1>3. \A i \in plan[next + 1] : i \in Positions /\ \A g \in 1 .. next : i \notin plan[g]
  <2>1. \A g \in 1 .. next : g \in 1 .. Len(plan) /\ g # next + 1
    BY <1>1, <1>2 DEF Inv, Typed
  <2> QED
    BY <1>2, <2>1 DEF Inv, Typed, Grouped
<1> QED
  BY <1>1, <1>2, <1>3 DEF Inv, Advanced

LEMMA LaunchStep == ASSUME Inv, Launch PROVE Inv'
<1>1. Grouped' /\ Positions' = Positions
  BY LaunchedCalls, PlanKept
<1>2. Typed'
  <2>1. run' \in [Positions -> Progress]
    BY LaunchedCalls DEF Inv, Typed, Progress
  <2>2. next' \in 0 .. Len(plan')
    BY LaunchedCalls
  <2> QED
    BY LaunchedCalls, <1>1, <2>1, <2>2 DEF Inv, Typed, Answers
<1>3. Staged'
  BY LaunchedCalls, <1>1 DEF Inv, Staged
<1>4. Advanced'
  <2>1. ASSUME NEW i \in Positions, \A g \in 1 .. next + 1 : i \notin plan[g]
        PROVE  run'[i] = "waiting"
    <3>1. next \in Nat
      BY DEF Inv, Typed
    <3>2. i \notin plan[next + 1] /\ \A g \in 1 .. next : i \notin plan[g]
      BY <2>1, <3>1
    <3> QED
      BY <3>2, LaunchedCalls DEF Inv, Advanced
  <2>2. ASSUME NEW i \in Positions, run'[i] = "broken" PROVE answer' = "failed"
    <3>1. run[i] # "broken"
      BY LaunchedCalls DEF Inv, Advanced, Broken
    <3>2. i \in plan[next + 1] /\ ~calls[i].known
      BY <2>2, <3>1, LaunchedCalls
    <3> QED
      BY <3>2, LaunchedCalls
  <2> QED
    BY <1>1, <2>1, <2>2, LaunchedCalls DEF Advanced, Broken
<1>5. ResultsAreFinal'
  <2>1. ASSUME NEW i \in told PROVE run'[i] \in {"ended", "broken"}
    <3>1. i \in Positions /\ run[i] \in {"ended", "broken"}
      BY DEF Inv, Typed, ResultsAreFinal
    <3> QED
      BY <3>1, LaunchedCalls
  <2> QED
    BY <1>1, <2>1, LaunchedCalls DEF ResultsAreFinal
<1> QED
  BY <1>1, <1>2, <1>3, <1>4, <1>5 DEF Inv

LEMMA FinishStep == ASSUME Inv, Finish PROVE Inv'
<1>1. /\ answer = "running" /\ answer' = "results" /\ next = Len(plan) /\ Settled
      /\ UNCHANGED <<calls, ids, plan, planned, run, next, told, queued>>
  BY DEF Finish, planVars
<1>2. Grouped' /\ Positions' = Positions
  BY <1>1, PlanKept
<1>3. \A i \in Positions : run[i] = "ended"
  BY <1>1 DEF Inv, Staged, Grouped, Settled
<1>4. Typed' /\ Staged'
  BY <1>1, <1>2 DEF Inv, Typed, Staged, Answers
<1>5. Advanced' /\ ResultsAreFinal'
  BY <1>1, <1>2, <1>3 DEF Inv, Advanced, Broken, ResultsAreFinal
<1> QED
  BY <1>2, <1>4, <1>5 DEF Inv

LEMMA CallEndsStep == ASSUME Inv, NEW i \in Positions, CallEnds(i) PROVE Inv'
<1>1. /\ run[i] = "running" /\ UNCHANGED <<calls, ids, plan, planned, next, queued>>
      /\ \/ run' = [run EXCEPT ![i] = "ended"] /\ answer' = answer
         \/ run' = [run EXCEPT ![i] = "broken"] /\ answer' = IF answer = "running" THEN "aborted" ELSE answer
      /\ told' \in {told, told \union {i}}
  BY DEF CallEnds, Fails, Completes, Aborts, planVars
<1>2. Grouped' /\ Positions' = Positions
  BY <1>1, PlanKept
<1>3. run' \in [Positions -> Progress] /\ run'[i] \in {"ended", "broken"}
      /\ \A j \in Positions : j # i => run'[j] = run[j]
  BY <1>1 DEF Inv, Typed, Progress
<1>4. answer \notin {"planning", "results"}
  <2>1. \E g \in 1 .. next : i \in plan[g]
    BY <1>1 DEF Inv, Advanced
  <2>2. answer # "planning"
    BY <2>1 DEF Inv, Staged
  <2>3. answer # "results"
    BY <1>1 DEF Inv, ResultsAreFinal
  <2> QED
    BY <2>2, <2>3
<1>5. answer' \in Answers /\ answer' \notin {"planning", "results"}
  BY <1>1, <1>4 DEF Inv, Typed, Answers
<1>6. Typed' /\ Staged'
  BY <1>1, <1>2, <1>3, <1>4, <1>5 DEF Inv, Typed, Staged
<1>7. Advanced'
  <2>1. \A j \in Positions : run[j] = "waiting" => run'[j] = "waiting"
    BY <1>1, <1>3
  <2>2. Broken' => answer' \in {"aborted", "failed"}
    <3>1. Broken => answer' = answer /\ answer' \in {"aborted", "failed"}
      BY <1>1 DEF Inv, Advanced
    <3>2. CASE run' = [run EXCEPT ![i] = "ended"]
      BY <1>2, <1>3, <3>1, <3>2 DEF Broken, Inv, Typed
    <3>3. CASE answer' = IF answer = "running" THEN "aborted" ELSE answer
      BY <1>4, <1>5, <3>3 DEF Answers, Inv, Typed
    <3> QED
      BY <1>1, <3>2, <3>3
  <2> QED
    BY <1>1, <1>2, <2>1, <2>2 DEF Inv, Advanced
<1>8. ResultsAreFinal'
  BY <1>1, <1>3, <1>5 DEF Inv, Typed, ResultsAreFinal
<1> QED
  BY <1>2, <1>6, <1>7, <1>8 DEF Inv

LEMMA InvStep == Inv /\ [Next]_vars => Inv'
<1> SUFFICES ASSUME Inv, [Next]_vars PROVE Inv'
  OBVIOUS
<1>1. CASE UserQueues
  <2>1. UNCHANGED <<calls, ids, plan, planned, run, next, answer, told>> /\ queued' = TRUE
    BY <1>1 DEF UserQueues, planVars
  <2>2. Grouped' /\ Positions' = Positions
    BY <2>1, PlanKept
  <2> QED
    BY <2>1, <2>2 DEF Inv, Typed, Staged, Advanced, Broken, ResultsAreFinal
<1>2. CASE UNCHANGED vars
  <2>1. UNCHANGED <<calls, ids, plan, planned, run, next, answer, told, queued>>
    BY <1>2 DEF vars
  <2>2. Grouped' /\ Positions' = Positions
    BY <2>1, PlanKept
  <2> QED
    BY <2>1, <2>2 DEF Inv, Typed, Staged, Advanced, Broken, ResultsAreFinal
<1> QED
  BY <1>1, <1>2, PlanGroupStep, PlannedStep, LaunchStep, FinishStep, CallEndsStep DEF Next

LEMMA InvAlways == ASSUME ~Repeats PROVE Spec => []Inv
<1>1. Init => Inv
  BY InvInit
<1> QED
  BY <1>1, InvStep, PTL DEF Spec

-----------------------------------------------------------------------------
(* The plan of buildExecutionPlan is what its comment says, for answers of *)
(* any length: every call is in one group, and a call comes in a later     *)
(* group than the earlier calls it conflicts with.                         *)
THEOREM PlanOrdersConflicts ==
    ASSUME ~Repeats PROVE Spec => []PlanIsSound
<1>1. ASSUME Inv PROVE PlanIsSound
  <2> SUFFICES ASSUME answer # "planning"
               PROVE  /\ \A i \in Positions : Cardinality(GroupOf(i)) = 1
                      /\ \A i, j \in Positions : (j < i /\ Conflicting(i, j)) =>
                            \A g \in GroupOf(i), h \in GroupOf(j) : h < g
    BY DEF PlanIsSound
  <2>1. ASSUME NEW i \in Positions PROVE Cardinality(GroupOf(i)) = 1
    <3>1. PICK g \in 1 .. Len(plan) : i \in plan[g]
      BY <1>1 DEF Inv, Staged, Grouped
    <3>2. GroupOf(i) = {g}
      BY <1>1, <3>1 DEF GroupOf, Inv, Grouped
    <3> QED
      BY <3>2, FS_Singleton
  <2>2. ASSUME NEW i \in Positions, NEW j \in Positions, j < i, Conflicting(i, j),
               NEW g \in GroupOf(i), NEW h \in GroupOf(j)
        PROVE  h < g
    <3>1. Clash(i, j)
      BY <1>1, <2>2, ConflictingIs DEF Inv
    <3>2. g \in 1 .. Len(plan) /\ h \in 1 .. Len(plan) /\ Len(plan) \in Nat
      BY <1>1 DEF GroupOf, Inv, Typed
    <3>3. PICK k \in 1 .. g - 1 : j \in plan[k]
      BY <1>1, <2>2, <3>1, <3>2 DEF GroupOf, Inv, Grouped
    <3>4. k = h
      <4>1. k \in 1 .. Len(plan)
        BY <3>2, <3>3
      <4> QED
        BY <1>1, <3>2, <3>3, <4>1 DEF GroupOf, Inv, Grouped
    <3> QED
      BY <3>2, <3>3, <3>4
  <2> QED
    BY <2>1, <2>2
<1> QED
  BY <1>1, InvAlways, PTL

(* The branch of buildExecutionPlan for circular dependencies              *)
(* (toolExecution.ts:101-114) is dead: while a call is left one is ready.  *)
THEOREM NoCircularDependency ==
    ASSUME ~Repeats PROVE Spec => [](Unplanned # {} => Ready # {})
<1>1. ASSUME Inv, Unplanned # {} PROVE Ready # {}
  <2>1. Unplanned \in SUBSET Nat /\ Unplanned = Positions \ planned
    BY <1>1, PositionsAre, ReadyIs DEF Inv
  <2>2. PICK i \in Unplanned : \A j \in Unplanned : i <= j
    BY <1>1, <2>1, Smallest
  <2>3. \A j \in Positions : j < i => j \in planned
    BY <1>1, <2>1, <2>2, PositionsAre DEF Inv
  <2> QED
    BY <1>1, <2>1, <2>2, <2>3, ReadyIs DEF Inv
<1>2. Inv => (Unplanned # {} => Ready # {})
  BY <1>1
<1> QED
  BY <1>2, InvAlways, PTL

(* A result that the conversation has is of a call that is over, and the   *)
(* answer has results only when every call of it has ended.                *)
THEOREM ResultsOfEndedCalls ==
    ASSUME ~Repeats PROVE Spec => []ResultsAreFinal
<1>1. Inv => ResultsAreFinal
  BY DEF Inv
<1> QED
  BY <1>1, InvAlways, PTL

-----------------------------------------------------------------------------
(* What the schedule excludes, the planner compares. *)
LEMMA ExclusiveClashes ==
    ASSUME NEW i \in Positions, NEW j \in Positions, <<calls[j], calls[i]>> \in Exclusive
    PROVE  Clash(i, j)
<1>1. /\ calls[i] \in Calls /\ calls[j] \in Calls /\ RunsTool(calls[i]) /\ RunsTool(calls[j])
      /\ HasResourceConflict(ExtractResources(calls[j]), ExtractResources(calls[i]))
  BY DEF Exclusive
<1>2. HasResourceConflict(Declared(calls[i]), Declared(calls[j]))
  BY <1>1, ConflictIsMutual DEF Declared, RunsTool
<1> QED
  BY <1>1, <1>2 DEF Clash, Clashes, RunsTool

(* The safety half of FollowsSchedule, for every answer: the execution by  *)
(* groups starts a call once, not before the earlier calls it conflicts    *)
(* with have ended, and none after a call broke the batch.                 *)
THEOREM ExecutionFollowsSchedule ==
    ASSUME ~Repeats PROVE Spec => ScheduleInit /\ [][ScheduleNext]_scheduleVars
<1>1. Init => ScheduleInit
  BY DEF Init
<1>2. ASSUME Inv, [Next]_vars PROVE [ScheduleNext]_scheduleVars
  <2>1. CASE UNCHANGED <<calls, run>>
    BY <2>1 DEF scheduleVars
  <2>2. CASE Launch
    <3>1. run' \in [Positions -> Progress] /\ calls' = calls
      BY <1>2, <2>2, LaunchedCalls DEF Inv, Typed, Progress
    <3>2. ASSUME NEW i \in Positions, run'[i] # run[i] PROVE Starts(i)
      <4>1. i \in plan[next + 1] /\ run[i] = "waiting" /\ run'[i] \in {"running", "broken"}
        BY <1>2, <2>2, <3>2, LaunchedCalls
      <4>2. ~Broken
        BY <1>2, <2>2, LaunchedCalls DEF Inv, Advanced
      <4>3. ASSUME NEW j \in Before(i) PROVE run[j] = "ended"
        <5>1. j \in Positions /\ j < i /\ Clash(i, j)
          BY ExclusiveClashes DEF Before
        <5>2. next \in Nat /\ next + 1 \in 1 .. Len(plan)
          BY <1>2, <2>2, LaunchedCalls DEF Inv, Typed
        <5>3. PICK h \in 1 .. (next + 1) - 1 : j \in plan[h]
          BY <1>2, <4>1, <5>1, <5>2 DEF Inv, Grouped
        <5>4. h \in 1 .. next
          BY <5>2, <5>3
        <5> QED
          BY <2>2, <5>3, <5>4 DEF Launch, Settled
      <4> QED
        BY <4>1, <4>2, <4>3 DEF Starts
    <3> QED
      BY <3>1, <3>2 DEF ScheduleNext
  <2>3. ASSUME NEW i \in Positions, CallEnds(i) PROVE ScheduleNext
    <3>1. /\ calls' = calls /\ run[i] = "running" /\ run' \in [Positions -> Progress]
          /\ run'[i] \in {"ended", "broken"}
          /\ \A j \in Positions : j # i => run'[j] = run[j]
      BY <1>2, <2>3 DEF CallEnds, Fails, Completes, Aborts, planVars, Inv, Typed, Progress
    <3> QED
      BY <3>1 DEF ScheduleNext, Ends
  <2> QED
    BY <1>2, <2>1, <2>2, <2>3
    DEF Next, PlanGroup, Planned, Finish, UserQueues, vars, planVars
<1> QED
  BY <1>1, <1>2, InvAlways, PTL DEF Spec

-----------------------------------------------------------------------------
(* What a tool declares, of the tools that touch files.                    *)
LEMMA MergedOnce ==
    ASSUME NEW tc
    PROVE  /\ ExtractResources(tc).files = MergedFiles(NoFiles, ToolArgs(tc).files)
           /\ ExtractResources(tc).gitCommit = (FALSE \/ ToolArgs(tc).gitCommit)
  BY DEF ExtractResources, MergeResources, Nothing

LEMMA FilesMerged ==
    ASSUME NEW mode \in {"read", "write"}, NEW paths,
           NEW tc, ToolArgs(tc).files = [mode |-> mode, paths |-> paths]
    PROVE  ExtractResources(tc).files = [mode |-> mode, paths |-> paths]
  BY MergedOnce DEF MergedFiles, NoFiles

LEMMA FilesIs ==
    ASSUME NEW mode, NEW paths
    PROVE  /\ Files(mode, paths).files = [mode |-> mode, paths |-> paths]
           /\ AllFiles(mode).files = [mode |-> mode, paths |-> {}]
           /\ GitCommit.gitCommit = TRUE
  BY DEF Files, AllFiles, GitCommit, Nothing

(* A tool that changes files and does not say less than it does declares a *)
(* write of all files or of those it changes.                              *)
LEMMA WritesDeclared ==
    ASSUME NEW tc, ~SaysLess(tc), Writes(tc) # {}
    PROVE  /\ ExtractResources(tc).files.mode = "write"
           /\ ExtractResources(tc).files.paths \in {{}, Writes(tc)}
<1>1. CASE tc.tool \in {"generate_files", "regenerate_file"}
  <2>1. ToolArgs(tc).files = [mode |-> "write", paths |-> tc.paths]
    BY <1>1, FilesIs DEF ToolArgs
  <2>2. Writes(tc) = tc.paths
    BY <1>1 DEF Writes
  <2> QED
    BY <2>1, <2>2, FilesMerged
<1>2. CASE tc.tool = "init_suitable_template"
  <2>1. ToolArgs(tc).files = [mode |-> "write", paths |-> {}]
    BY <1>2, FilesIs DEF ToolArgs
  <2> QED
    BY <2>1, FilesMerged
<1>3. CASE tc.tool = "initialize_slides"
  <2>1. ToolArgs(tc).files = MergedFiles(AllFiles("write").files, Sandbox("deploy").files)
    BY <1>3 DEF ToolArgs, MergeResources
  <2>2. Sandbox("deploy").files.mode = "no"
    BY DEF Sandbox, Nothing, NoFiles
  <2>3. ToolArgs(tc).files = [mode |-> "write", paths |-> {}]
    BY <2>1, <2>2, FilesIs DEF MergedFiles
  <2> QED
    BY <2>3, FilesMerged
<1> QED
  BY <1>1, <1>2, <1>3 DEF Writes, SaysLess

(* A tool that reads files declares them, or it is a commit. *)
LEMMA ReadsDeclared ==
    ASSUME NEW tc, ~SaysLess(tc), Reads(tc) # {}
    PROVE  \/ ExtractResources(tc).gitCommit = TRUE
           \/ /\ ExtractResources(tc).files.mode \in {"read", "write"}
              /\ ExtractResources(tc).files.paths \in {{}, Reads(tc)}
<1>1. CASE tc.tool \in {"read_files", "fs_read"}
  <2>1. ToolArgs(tc).files = [mode |-> "read", paths |-> tc.paths]
    BY <1>1, FilesIs DEF ToolArgs
  <2>2. Reads(tc) = tc.paths
    BY <1>1 DEF Reads
  <2> QED
    BY <2>1, <2>2, FilesMerged
<1>2. CASE tc.tool = "regenerate_file"
  <2>1. ToolArgs(tc).files = [mode |-> "write", paths |-> tc.paths]
    BY <1>2, FilesIs DEF ToolArgs
  <2>2. Reads(tc) = tc.paths
    BY <1>2 DEF Reads
  <2> QED
    BY <2>1, <2>2, FilesMerged
<1>3. CASE tc.tool = "deploy_preview"
  <2>1. ToolArgs(tc).files = MergedFiles(Sandbox("deploy").files, AllFiles("read").files)
    BY <1>3 DEF ToolArgs, MergeResources
  <2>2. Sandbox("deploy").files.mode = "no"
    BY DEF Sandbox, Nothing, NoFiles
  <2>3. AllFiles("read").files = [mode |-> "read", paths |-> {}]
    BY FilesIs
  <2>4. ToolArgs(tc).files = [mode |-> "read", paths |-> {}]
    BY <2>1, <2>2, <2>3 DEF MergedFiles
  <2> QED
    BY <2>4, FilesMerged
<1>4. CASE tc.tool = "git_commit"
  <2>1. ToolArgs(tc).gitCommit = TRUE
    <3>1. ToolArgs(tc) = GitCommit
      BY <1>4 DEF ToolArgs
    <3> QED
      BY <3>1, FilesIs
  <2> QED
    BY <2>1, MergedOnce
<1> QED
  BY <1>1, <1>2, <1>3, <1>4 DEF Reads, SaysLess

(* The declarations are enough: of two calls of which one changes a file   *)
(* the other touches, both declared in full, hasResourceConflict says so.  *)
THEOREM InterferenceIsDeclared ==
    ASSUME NEW c, NEW d, Interfere(c, d), ~SaysLess(c), ~SaysLess(d)
    PROVE  HasResourceConflict(ExtractResources(c), ExtractResources(d))
<1>1. ASSUME NEW x, NEW y, ~SaysLess(x), ~SaysLess(y),
             Writes(x) \intersect (Reads(y) \union Writes(y)) # {}
      PROVE  HasResourceConflict(ExtractResources(x), ExtractResources(y))
  <2> DEFINE r == ExtractResources(x)
             q == ExtractResources(y)
  <2>1. r.files.mode = "write" /\ r.files.paths \in {{}, Writes(x)}
    BY <1>1, WritesDeclared
  <2>2. CASE Writes(x) \intersect Writes(y) # {}
    <3>1. q.files.mode = "write" /\ q.files.paths \in {{}, Writes(y)}
      BY <1>1, <2>2, WritesDeclared
    <3> HIDE DEF r, q
    <3>2. FilesConflict(r.files, q.files)
      BY <2>1, <2>2, <3>1 DEF FilesConflict, PathsOverlap
    <3> QED
      BY <3>2 DEF HasResourceConflict, r, q
  <2>3. CASE Writes(x) \intersect Reads(y) # {}
    <3>1. \/ q.gitCommit = TRUE
          \/ q.files.mode \in {"read", "write"} /\ q.files.paths \in {{}, Reads(y)}
      BY <1>1, <2>3, ReadsDeclared
    <3> HIDE DEF r, q
    <3>2. q.gitCommit = TRUE \/ FilesConflict(r.files, q.files)
      BY <2>1, <2>3, <3>1 DEF FilesConflict, PathsOverlap
    <3>3. HasResourceConflict(r, q)
      BY <2>1, <3>2 DEF HasResourceConflict
    <3> QED
      BY <3>3 DEF r, q
  <2> QED
    BY <1>1, <2>2, <2>3
<1>2. CASE Writes(c) \intersect (Reads(d) \union Writes(d)) # {}
  BY <1>1, <1>2
<1>3. CASE Writes(d) \intersect Reads(c) # {}
  BY <1>1, <1>3, ConflictIsMutual
<1> QED
  BY <1>2, <1>3 DEF Interfere

(* What runs is of the group that was started last. *)
OneGroup == \A i \in Positions : run[i] = "running" => next > 0 /\ i \in plan[next]

LEMMA OneGroupInit == Init => OneGroup
  BY DEF Init, ScheduleInit, OneGroup

LEMMA OneGroupStep == Inv /\ OneGroup /\ [Next]_vars => OneGroup'
<1> SUFFICES ASSUME Inv, OneGroup, [Next]_vars PROVE OneGroup'
  OBVIOUS
<1>1. CASE UNCHANGED <<calls, run, plan, next>>
  BY <1>1 DEF OneGroup, Positions
<1>2. CASE PlanGroup
  <2>1. UNCHANGED <<calls, run>> /\ next = 0
    BY <1>2 DEF PlanGroup, Inv, Staged
  <2> QED
    BY <2>1 DEF OneGroup, Positions
<1>3. CASE Launch
  <2>1. next \in Nat /\ next' = next + 1 /\ Positions' = Positions /\ plan' = plan
    BY <1>3, LaunchedCalls DEF Positions, Inv, Typed
  <2>2. ASSUME NEW i \in Positions, run[i] = "running" PROVE FALSE
    <3>1. next \in 1 .. next /\ i \in plan[next]
      BY <2>1, <2>2 DEF OneGroup
    <3> QED
      BY <1>3, <2>2, <3>1 DEF Launch, Settled
  <2>3. ASSUME NEW i \in Positions, run'[i] = "running" PROVE i \in plan[next + 1]
    BY <1>3, <2>2, <2>3, LaunchedCalls
  <2> QED
    BY <2>1, <2>3 DEF OneGroup
<1>4. ASSUME NEW i \in Positions, CallEnds(i) PROVE OneGroup'
  <2>1. UNCHANGED <<calls, plan, next>> /\ \E s \in {"ended", "broken"} : run' = [run EXCEPT ![i] = s]
    BY <1>4 DEF CallEnds, Fails, Completes, Aborts, planVars
  <2>2. \A j \in Positions : run'[j] = "running" => run[j] = "running"
    BY <2>1 DEF Inv, Typed
  <2> QED
    BY <2>1, <2>2 DEF OneGroup, Positions
<1> QED
  BY <1>1, <1>2, <1>3, <1>4 DEF Next, Planned, Finish, UserQueues, vars, planVars

(* For answers of any length: two calls that run at the same time do not   *)
(* touch the same file with one of them changing it, unless one is of the  *)
(* tools whose declaration says less than they do.                         *)
THEOREM FilesAreKeptApart == ASSUME ~Repeats PROVE Spec => []FilesKeptApart
<1>1. ASSUME Inv, OneGroup PROVE FilesKeptApart
  <2>1. ASSUME NEW i \in Positions, NEW j \in Positions, j < i,
               run[i] = "running", run[j] = "running"
        PROVE  ~Clash(i, j)
    <3>1. next \in 1 .. Len(plan) /\ i \in plan[next] /\ j \in plan[next]
      BY <1>1, <2>1 DEF OneGroup, Inv, Typed
    <3>2. ASSUME Clash(i, j) PROVE FALSE
      <4>1. PICK h \in 1 .. next - 1 : j \in plan[h]
        BY <1>1, <2>1, <3>1, <3>2 DEF Inv, Grouped
      <4>2. h \in 1 .. Len(plan) /\ h # next
        BY <1>1, <3>1, <4>1 DEF Inv, Typed
      <4> QED
        BY <1>1, <3>1, <4>1, <4>2 DEF Inv, Grouped
    <3> QED
      BY <3>2
  <2>2. ASSUME NEW i \in Positions, NEW j \in Positions, i # j, RunsNow(i), RunsNow(j),
               Interfere(calls[i], calls[j]),
               ~SaysLess(calls[i]), ~SaysLess(calls[j])
        PROVE  Clash(i, j) /\ Clash(j, i)
    <3>1. /\ HasResourceConflict(Declared(calls[i]), Declared(calls[j]))
          /\ HasResourceConflict(Declared(calls[j]), Declared(calls[i]))
      BY <2>2, InterferenceIsDeclared, ConflictIsMutual DEF Declared, RunsNow, RunsTool
    <3>2. calls[i] \in Calls /\ calls[j] \in Calls
      BY <1>1, BatchesAssumption DEF Inv, Typed, Calls, Positions, Range
    <3> QED
      BY <2>2, <3>1, <3>2 DEF Clash, Clashes, RunsNow, RunsTool
  <2>3. \A i, j \in Positions : i # j => i < j \/ j < i
    BY <1>1, PositionsAre DEF Inv
  <2> QED
    BY <2>1, <2>2, <2>3 DEF FilesKeptApart, RunsNow
<1>2. Inv /\ OneGroup => FilesKeptApart
  BY <1>1
<1> QED
  BY <1>2, InvAlways, OneGroupInit, OneGroupStep, PTL DEF Spec

-----------------------------------------------------------------------------
(***************************************************************************)
(* AgenticBuild.                                                           *)
(***************************************************************************)

Talks(n) == [full : SUBSET (1 .. n), running : SUBSET (1 .. n), summed : SUBSET (1 .. n)]

Stages(n) ==
    [pc : {"idle", "template", "infer", "stream", "answered", "tools", "final", "ending",
           "closing"},
     linked : BOOLEAN, aborted : BOOLEAN, cut : BOOLEAN, depth : 0 .. MaxDepth,
     tries : 0 .. Retries, asked : 0 .. n, marked : BOOLEAN, copy : Talks(n)]

Errands(n) ==
    [pc : {"free", "runs", "told"}, owner : Builds \union {None}, of : 0 .. n,
     marks : BOOLEAN, copy : Talks(n)]

Said == [kind : {"user", "assistant", "tool"}, of : Nat]

AgenticTypes ==
    /\ unsaid \subseteq Requests /\ pending \subseteq Requests \ unsaid
    /\ mvp \in BOOLEAN /\ troubled \in BOOLEAN
    /\ promise \in Builds \union {None}
    /\ build \in [Builds -> Stages(Len(made))]
    /\ call \in [Slots -> Errands(Len(made))]
    /\ made \in Seq(Said) /\ Len(made) \in Nat
    /\ kept \in Talks(Len(made))
    /\ gone \subseteq 1 .. Len(made) /\ missed \subseteq 1 .. Len(made)

(* An inference has an attempt left, and one more level for the tools of   *)
(* an answer.                                                              *)
Able(x) ==
    /\ x.pc \in {"infer", "stream", "answered", "tools"} => x.tries < Retries
    /\ x.pc \in {"stream", "answered"} => x.depth < MaxDepth

(* A result is added after the answer that asked for it. *)
Named == \A m \in 1 .. Len(made) : made[m].kind = "tool" => made[m].of \in 1 .. m

(* What is stored, or will be when a summary is there. *)
Copies == {build[b].copy : b \in Builds} \union {call[s].copy : s \in Slots}
Current == {kept} \union (Copies \ {Empty})

(* The answers whose calls are to start or are under way. *)
Open == ({build[b].asked : b \in Builds} \union {call[s].of : s \in Slots}) \ {0}

(* A conversation has every message, whole or summarized, but those cleared *)
(* and none of these.                                                      *)
Faithful(c) ==
    \A m \in 1 .. Len(made) :
        m \notin missed =>
            IF m \in gone THEN m \notin c.full \union c.running \union c.summed
            ELSE m \in c.full /\ m \in c.running \union c.summed

(* The result of a call of answer a, added as message n, will be shown     *)
(* with it or is cut off from it by a user's message.                      *)
Shown(c, a, n) ==
    \/ a \in c.running \union gone \union missed
    \/ \E u \in a .. n : made[u].kind = "user"

Matched(c) ==
    \A m \in c.running : m \notin missed /\ made[m].kind = "tool" => Shown(c, made[m].of, m)

Sound(c, answers) ==
    Faithful(c) /\ Matched(c) /\ \A a \in answers : Shown(c, a, Len(made))

AgenticInv ==
    /\ AgenticTypes /\ Named
    /\ \A b \in Builds : Able(build[b])
    /\ \A c \in Current : Sound(c, Open)

-----------------------------------------------------------------------------
LEMMA Largest ==
    ASSUME NEW n \in Nat, NEW S \in SUBSET (1 .. n), S # {}
    PROVE  Max(S) \in S /\ \A y \in S : Max(S) >= y
<1> DEFINE T == {n - x : x \in S}
<1>1. T \in SUBSET Nat /\ T # {}
  <2>1. \A x \in S : n - x \in Nat
    OBVIOUS
  <2>2. \E x \in S : n - x \in T
    OBVIOUS
  <2> QED
    BY <2>1, <2>2
<1>2. PICK t \in T : \A u \in T : t <= u
  BY <1>1, Smallest
<1>3. PICK x \in S : t = n - x
  BY <1>2
<1>4. \A y \in S : x >= y
  <2> SUFFICES ASSUME NEW y \in S PROVE x >= y
    OBVIOUS
  <2>1. n - x <= n - y
    BY <1>2, <1>3
  <2> QED
    BY <2>1, <1>3
<1> QED
  BY <1>4 DEF Max

LEMMA Least == ASSUME NEW S \in SUBSET Nat, S # {} PROVE Min(S) \in S
<1>1. PICK x \in S : \A y \in S : x <= y
  BY Smallest
<1> QED
  BY <1>1 DEF Min

LEMMA EmptyIsTalk == ASSUME NEW n PROVE Empty \in Talks(n)
  BY DEF Empty, Talks

LEMMA TalksGrow ==
    ASSUME NEW n \in Nat, NEW m \in Nat, n <= m
    PROVE  /\ Talks(n) \subseteq Talks(m) /\ Stages(n) \subseteq Stages(m)
           /\ Errands(n) \subseteq Errands(m)
<1>1. 1 .. n \subseteq 1 .. m /\ 0 .. n \subseteq 0 .. m
  OBVIOUS
<1>2. Talks(n) \subseteq Talks(m)
  BY <1>1 DEF Talks
<1>3. Stages(n) \subseteq Stages(m)
  BY <1>1, <1>2 DEF Stages
<1>4. Errands(n) \subseteq Errands(m)
  BY <1>1, <1>2 DEF Errands
<1> QED
  BY <1>2, <1>3, <1>4

(* A compaction starts at a user's message and keeps what comes after it.  *)
LEMMA CompactionKeeps ==
    ASSUME NEW n \in Nat, NEW c \in Talks(n), Boundaries(c) # {}
    PROVE  /\ Compacted(c) \in Talks(n) /\ Compacted(c).full = c.full
           /\ Compacted(c).running \union Compacted(c).summed = c.running \union c.summed
           /\ \E first \in c.running :
                 /\ made'[first].kind = "user"
                 /\ Compacted(c).running = {m \in c.running : m >= first}
<1> DEFINE first == Max(Boundaries(c))
           recent == {m \in c.running : m >= first}
<1>1. c.running \in SUBSET (1 .. n) /\ c.full \in SUBSET (1 .. n) /\ c.summed \in SUBSET (1 .. n)
  BY DEF Talks
<1>2. first \in Boundaries(c)
  <2>1. Boundaries(c) \in SUBSET (1 .. n)
    BY <1>1 DEF Boundaries
  <2> QED
    BY <2>1, Largest
<1>3. first \in c.running /\ made'[first].kind = "user"
  BY <1>2 DEF Boundaries
<1>4. Compacted(c) = [c EXCEPT !.running = recent, !.summed = @ \union (c.running \ recent)]
  BY DEF Compacted
<1> HIDE DEF first
<1>5. recent \subseteq c.running
  OBVIOUS
<1>6. /\ Compacted(c).full = c.full /\ Compacted(c).running = recent
      /\ Compacted(c).summed = c.summed \union (c.running \ recent)
  BY <1>4 DEF Talks
<1>7. Compacted(c) \in Talks(n)
  BY <1>1, <1>4, <1>5 DEF Talks
<1> QED
  BY <1>3, <1>5, <1>6, <1>7

-----------------------------------------------------------------------------
(* What a message that is added changes. *)
LEMMA Added ==
    ASSUME AgenticTypes, NEW kind \in {"user", "assistant", "tool"}, NEW of \in Nat,
           Adds(kind, of) \/ UNCHANGED conversation
    PROVE  /\ made' \in Seq(Said) /\ Len(made') \in Nat /\ Len(made) <= Len(made')
           /\ \A i \in 1 .. Len(made) : made'[i] = made[i]
           /\ kept' \in Talks(Len(made')) /\ gone' = gone /\ missed \subseteq missed'
           /\ gone' \subseteq 1 .. Len(made') /\ missed' \subseteq 1 .. Len(made')
           /\ \/ UNCHANGED conversation
              \/ /\ Len(made') = Len(made) + 1
                 /\ made'[Len(made')] = [kind |-> kind, of |-> of]
                 /\ kept'.full = kept.full \union {Len(made')}
                 /\ kept'.running = kept.running \union {Len(made')}
                 /\ kept'.summed = kept.summed
                 /\ missed' = IF Summarizing THEN missed \union {Len(made')} ELSE missed
<1>1. CASE UNCHANGED conversation
  BY <1>1 DEF AgenticTypes, conversation
<1>2. CASE Len(made) < MaxMessages /\ Adds(kind, of)
  <2> DEFINE m == Len(made) + 1
  <2>1. /\ made' = Append(made, [kind |-> kind, of |-> of]) /\ gone' = gone
        /\ kept' = [kept EXCEPT !.full = @ \union {m}, !.running = @ \union {m}]
        /\ missed' = IF Summarizing THEN missed \union {m} ELSE missed
    BY <1>2 DEF Adds
  <2>2. [kind |-> kind, of |-> of] \in Said
    BY DEF Said
  <2>3. /\ made' \in Seq(Said) /\ Len(made') = m /\ m \in Nat /\ Len(made) <= m
        /\ \A i \in 1 .. Len(made) : made'[i] = made[i]
        /\ made'[m] = [kind |-> kind, of |-> of]
    BY <2>1, <2>2 DEF AgenticTypes
  <2>4. kept \in Talks(m) /\ gone \subseteq 1 .. m /\ missed \subseteq 1 .. m /\ m \in 1 .. m
    BY <2>3, TalksGrow DEF AgenticTypes
  <2> HIDE DEF m
  <2>5. /\ kept' \in Talks(m) /\ kept'.full = kept.full \union {m}
        /\ kept'.running = kept.running \union {m} /\ kept'.summed = kept.summed
    BY <2>1, <2>4 DEF Talks
  <2> QED
    BY <2>1, <2>3, <2>4, <2>5 DEF m
<1> QED
  BY <1>1, <1>2 DEF Adds

LEMMA ShownGrows ==
    ASSUME AgenticTypes, NEW c, NEW d, c.running \subseteq d.running,
           gone \subseteq gone', missed \subseteq missed',
           \A i \in 1 .. Len(made) : made'[i] = made[i],
           NEW a \in Nat \ {0}, NEW m \in 0 .. Len(made), NEW n \in Nat, m <= n, Shown(c, a, m)
    PROVE  Shown(d, a, n)'
<1>1. CASE a \in c.running \union gone \union missed
  BY <1>1 DEF Shown
<1>2. ASSUME NEW u \in a .. m, made[u].kind = "user" PROVE Shown(d, a, n)'
  <2>1. u \in a .. n /\ made'[u] = made[u]
    BY DEF AgenticTypes
  <2> QED
    BY <1>2, <2>1 DEF Shown
<1> QED
  BY <1>1, <1>2 DEF Shown

(* A summary of a sound conversation is sound. *)
LEMMA CompactedIsSound ==
    ASSUME made' \in Seq(Said), Len(made') \in Nat, Named',
           NEW c \in Talks(Len(made')), Boundaries(c) # {}, NEW d, d = Compacted(c),
           NEW A \in SUBSET (1 .. Len(made')), Sound(c, A)'
    PROVE  Sound(d, A)'
<1>1. /\ d.full = c.full /\ d.running \union d.summed = c.running \union c.summed
      /\ c.running \subseteq 1 .. Len(made')
  BY CompactionKeeps DEF Talks
<1>2. PICK first \in c.running :
        made'[first].kind = "user" /\ d.running = {m \in c.running : m >= first}
  BY CompactionKeeps
<1>3. first \in 1 .. Len(made')
  BY <1>1
<1>4. Faithful(d)'
  BY <1>1 DEF Sound, Faithful
<1>5. ASSUME NEW a \in 1 .. Len(made'), NEW n \in 1 .. Len(made'), first <= n,
             Shown(c, a, n)'
      PROVE  Shown(d, a, n)'
  <2>1. CASE a \in c.running /\ a < first
    <3>1. first \in a .. n
      BY <1>3, <1>5, <2>1
    <3> QED
      BY <1>2, <3>1 DEF Shown
  <2>2. CASE a \in c.running /\ a >= first
    BY <1>2, <2>2 DEF Shown
  <2>3. CASE a \notin c.running
    BY <1>5, <2>3 DEF Shown
  <2> QED
    BY <1>3, <2>1, <2>2, <2>3
<1>6. Matched(d)'
  <2> SUFFICES ASSUME NEW m \in d.running, m \notin missed', made'[m].kind = "tool"
               PROVE  Shown(d, made[m].of, m)'
    BY DEF Matched
  <2>1. m \in c.running /\ m >= first /\ m \in 1 .. Len(made')
    BY <1>1, <1>2
  <2>2. PICK a \in 1 .. m : a = made'[m].of
    BY <2>1 DEF Named
  <2>3. Shown(c, a, m)'
    BY <2>1, <2>2 DEF Sound, Matched, Shown
  <2>4. a \in 1 .. Len(made') /\ first <= m
    BY <1>3, <2>1
  <2>5. Shown(d, a, m)'
    BY <1>5, <2>1, <2>3, <2>4
  <2> QED
    BY <2>2, <2>5 DEF Shown
<1>7. ASSUME NEW a \in A PROVE Shown(d, a, Len(made))'
  <2>1. PICK n \in 1 .. Len(made') : n = Len(made')
    BY <1>3
  <2>2. Shown(c, a, n)' /\ first <= n
    BY <1>3, <2>1 DEF Sound, Shown
  <2>3. Shown(d, a, n)'
    BY <1>5, <2>2
  <2> QED
    BY <2>1, <2>3 DEF Shown
<1> QED
  BY <1>4, <1>6, <1>7 DEF Sound

LEMMA CopiesAre ==
    ASSUME AgenticTypes
    PROVE  /\ Current \subseteq Talks(Len(made)) /\ Open \subseteq 1 .. Len(made)
           /\ (Copies \ {Empty} # {}) => Summarizing
<1>1. \A b \in Builds : build[b].copy \in Talks(Len(made)) /\ build[b].asked \in 0 .. Len(made)
  BY DEF AgenticTypes, Stages
<1>2. \A s \in Slots : call[s].copy \in Talks(Len(made)) /\ call[s].of \in 0 .. Len(made)
  BY DEF AgenticTypes, Errands
<1>3. Current \subseteq Talks(Len(made))
  BY <1>1, <1>2 DEF Current, Copies, AgenticTypes
<1>4. Open \subseteq 1 .. Len(made)
  BY <1>1, <1>2 DEF Open, AgenticTypes
<1>5. (Copies \ {Empty} # {}) => Summarizing
  BY DEF Copies, Summarizing
<1> QED
  BY <1>3, <1>4, <1>5

(* A message leaves what was sound so: a summary under way misses it.      *)
LEMMA AddedIsSound ==
    ASSUME AgenticInv, NEW kind \in {"user", "assistant", "tool"}, NEW of \in Nat,
           Adds(kind, of) \/ UNCHANGED conversation, kind = "tool" => of \in Open,
           NEW d, d = kept' \/ d \in Copies \ {Empty},
           NEW A, \A a \in A : a \in Open \/ (made' # made /\ a = Len(made'))
    PROVE  Named' /\ Sound(d, A)'
<1> DEFINE n == Len(made)
<1>1. /\ made' \in Seq(Said) /\ Len(made') \in Nat /\ n <= Len(made')
      /\ \A i \in 1 .. n : made'[i] = made[i]
      /\ gone' = gone /\ missed \subseteq missed' /\ gone \subseteq 1 .. n
      /\ missed \subseteq 1 .. n /\ n \in Nat /\ AgenticTypes
  BY Added DEF AgenticInv, AgenticTypes
<1>0. \/ UNCHANGED conversation
      \/ /\ Len(made') = Len(made) + 1
         /\ made'[Len(made')] = [kind |-> kind, of |-> of]
         /\ kept'.full = kept.full \union {Len(made')}
         /\ kept'.running = kept.running \union {Len(made')}
         /\ kept'.summed = kept.summed
         /\ missed' = IF Summarizing THEN missed \union {Len(made')} ELSE missed
  BY Added DEF AgenticInv
<1>k. kept' \in Talks(Len(made'))
  BY Added DEF AgenticInv
<1>2. \A c \in Current : Faithful(c) /\ Matched(c) /\ \A a \in Open : Shown(c, a, n)
  BY DEF AgenticInv, Sound
<1>3. Current \subseteq Talks(n) /\ Open \subseteq 1 .. n
  BY <1>1, CopiesAre
<1> HIDE DEF n
<1>n. n = Len(made)
  BY DEF n
<1>4. PICK c \in Current : /\ c.running \subseteq d.running
                          /\ \/ d = kept' /\ c = kept
                             \/ d = c /\ d \in Copies \ {Empty}
  <2>1. CASE d = kept'
    <3>1. kept \in Current
      BY DEF Current
    <3>2. kept.running \subseteq kept'.running
      BY <1>0 DEF conversation
    <3> QED
      BY <2>1, <3>1, <3>2
  <2>2. CASE d \in Copies \ {Empty}
    <3>1. d \in Current
      BY <2>2 DEF Current
    <3>2. d.running \subseteq d.running
      OBVIOUS
    <3> QED
      BY <2>2, <3>1, <3>2, Zenon
  <2> QED
    BY <2>1, <2>2
<1>5. CASE UNCHANGED conversation
  <2>1. d = c /\ made' = made /\ missed' = missed
    <3>1. made' = made /\ missed' = missed /\ kept' = kept
      BY <1>5 DEF conversation
    <3>2. d = c
      BY <1>4, <3>1
    <3> QED
      BY <3>1, <3>2
  <2>2. Named' /\ Faithful(d)' /\ Matched(d)'
    BY <1>1, <1>2, <2>1 DEF Faithful, Matched, Shown, Named, AgenticInv
  <2>3. \A a \in A : Shown(d, a, Len(made))'
    BY <1>1, <1>2, <2>1, <1>n DEF Shown
  <2> QED
    BY <2>2, <2>3 DEF Sound
<1>6. CASE ~UNCHANGED conversation
  <2>1. PICK m \in 1 .. Len(made') : m = Len(made')
    <3>1. Len(made') = n + 1
      BY <1>0, <1>6, <1>n
    <3> QED
      BY <1>1, <3>1
  <2>2. /\ m = n + 1 /\ made'[m] = [kind |-> kind, of |-> of]
        /\ kept'.full = kept.full \union {m} /\ kept'.running = kept.running \union {m}
        /\ kept'.summed = kept.summed
        /\ missed' = IF Summarizing THEN missed \union {m} ELSE missed
    BY <1>0, <1>6, <2>1, <1>n
  <2>3. 1 .. Len(made') = 1 .. n \union {m}
    BY <1>1, <2>1, <2>2
  <2>4. /\ m \in missed' \/ (m \in d.full /\ m \in d.running)
        /\ \A i \in 1 .. n : /\ i \in d.full <=> i \in c.full
                             /\ i \in d.running <=> i \in c.running
                             /\ i \in d.summed <=> i \in c.summed
    <3>1. CASE d = kept' /\ c = kept
      <4>1. /\ d.full = c.full \union {m} /\ d.running = c.running \union {m}
            /\ d.summed = c.summed
        BY <1>4, <2>2, <3>1
      <4>2. \A i \in 1 .. n : i # m
        BY <1>1, <2>2
      <4> QED
        BY <4>1, <4>2
    <3>2. CASE d = c /\ d \in Copies \ {Empty}
      <4>1. Summarizing
        BY <1>1, <3>2, CopiesAre
      <4>2. missed' = missed \union {m}
        BY <2>2, <4>1, Zenon
      <4>3. m \in missed'
        BY <4>2
      <4>4. d.full = c.full /\ d.running = c.running /\ d.summed = c.summed
        BY <3>2
      <4> QED
        BY <4>3, <4>4
    <3> QED
      BY <1>4, <3>1, <3>2
  <2>5. m \notin gone /\ m \in Nat
    BY <1>1, <2>2
  <2>6. Named'
    <3>1. \A i \in 1 .. n : made'[i].kind = "tool" => made'[i].of \in 1 .. i
      BY <1>1, <1>n DEF AgenticInv, Named
    <3>2. made'[m].kind = "tool" => made'[m].of \in 1 .. m
      BY <1>1, <1>3, <2>2
    <3> QED
      BY <2>3, <3>1, <3>2 DEF Named
  <2>7. Faithful(d)'
    <3>1. \A i \in 1 .. n : i \notin missed' =>
            IF i \in gone' THEN i \notin d.full \union d.running \union d.summed
            ELSE i \in d.full /\ i \in d.running \union d.summed
      BY <1>1, <1>2, <2>4, <1>n DEF Faithful
    <3> QED
      BY <1>1, <2>3, <2>4, <2>5, <3>1 DEF Faithful
  <2>8. ASSUME NEW a \in 1 .. n, NEW i \in 0 .. n, NEW j \in Nat, i <= j, Shown(c, a, i)
        PROVE  Shown(d, a, j)'
    <3>1. AgenticTypes /\ c.running \subseteq d.running /\ gone \subseteq gone'
      BY <1>1, <1>4
    <3>2. \A k \in 1 .. Len(made) : made'[k] = made[k]
      BY <1>1, <1>n
    <3>3. a \in Nat \ {0} /\ i \in 0 .. Len(made)
      BY <1>n
    <3> QED
      BY <1>1, <2>8, <3>1, <3>2, <3>3, ShownGrows
  <2>9. \A a \in A : Shown(d, a, m)'
    <3> SUFFICES ASSUME NEW a \in A PROVE Shown(d, a, m)'
      OBVIOUS
    <3>1. CASE a \in Open
      <4>1. a \in 1 .. n /\ n \in 0 .. n /\ n <= m
        BY <1>1, <1>3, <2>2, <3>1
      <4> QED
        BY <1>2, <2>5, <2>8, <3>1, <4>1
    <3>2. CASE a = m
      BY <2>4, <3>2 DEF Shown
    <3> QED
      BY <2>1, <3>1, <3>2
  <2>10. Matched(d)'
    <3> SUFFICES ASSUME NEW i \in d.running, i \notin missed', made'[i].kind = "tool"
                 PROVE  Shown(d, made[i].of, i)'
      BY DEF Matched
    <3>1. d \in Talks(Len(made'))
      <4>1. Talks(n) \subseteq Talks(Len(made'))
        BY <1>1, TalksGrow
      <4>2. d = kept' \/ d \in Current
        BY DEF Current
      <4> QED
        BY <1>3, <1>k, <4>1, <4>2
    <3>2. i \in 1 .. n \/ i = m
      BY <2>3, <3>1 DEF Talks
    <3>3. PICK a \in 1 .. i : a = made'[i].of
      BY <2>3, <2>6, <3>2 DEF Named
    <3>4. CASE i \in 1 .. n
      <4>1. i \in c.running /\ i \notin missed /\ made[i] = made'[i]
        BY <1>1, <2>4, <3>4
      <4>2. Shown(c, a, i)
        BY <1>2, <3>3, <4>1 DEF Matched, Shown
      <4>3. a \in 1 .. n /\ i \in 0 .. n /\ i \in Nat /\ i <= i
        BY <1>1, <3>4
      <4>4. Shown(d, a, i)'
        BY <2>8, <4>2, <4>3
      <4> QED
        BY <3>3, <4>4 DEF Shown
    <3>5. CASE i = m
      <4>1. a \in Open
        BY <2>2, <3>3, <3>5
      <4>2. Shown(c, a, n) /\ a \in 1 .. n /\ n \in 0 .. n /\ n <= m
        BY <1>1, <1>2, <1>3, <2>2, <4>1
      <4>3. Shown(d, a, m)'
        BY <2>5, <2>8, <4>2
      <4> QED
        BY <3>3, <3>5, <4>3 DEF Shown
    <3> QED
      BY <3>2, <3>4, <3>5
  <2> QED
    BY <2>1, <2>6, <2>7, <2>9, <2>10 DEF Sound, Shown
<1> QED
  BY <1>5, <1>6

-----------------------------------------------------------------------------
(* What a build and a call may become in a step that adds a message or     *)
(* none, and starts a summary that will write fresh.                       *)
FitBuild(x, fresh) ==
    /\ Able(x) /\ x.copy \in Copies \union {Empty, fresh}
    /\ x.asked \in Open \union {0} \/ (made' # made /\ x.asked = Len(made'))

FitCall(x, fresh) == x.copy \in Copies \union {Empty, fresh} /\ x.of \in Open \union {0}

LEMMA SoundStays ==
    ASSUME AgenticInv, NEW kind \in {"user", "assistant", "tool"}, NEW of \in Nat,
           Adds(kind, of) \/ UNCHANGED conversation, kind = "tool" => of \in Open,
           NEW fresh, fresh # Empty => Boundaries(kept') # {} /\ fresh = Compacted(kept'),
           \A b \in Builds : FitBuild(build'[b], fresh),
           \A s \in Slots : FitCall(call'[s], fresh),
           AgenticTypes'
    PROVE  Named' /\ \A c \in Current' : Sound(c, Open)'
<1>1. PICK A : A = Open'
  OBVIOUS
<1>2. \A a \in A : a \in Open \/ (made' # made /\ a = Len(made'))
  BY <1>1 DEF Open, FitBuild, FitCall
<1>3. Copies' \subseteq Copies \union {Empty, fresh}
  BY DEF Copies, FitBuild, FitCall
<1>4. A \in SUBSET (1 .. Len(made'))
  <2>1. \A b \in Builds : build'[b].asked \in 0 .. Len(made')
    BY DEF AgenticTypes, Stages
  <2>2. \A s \in Slots : call'[s].of \in 0 .. Len(made')
    BY DEF AgenticTypes, Errands
  <2>3. \A i \in 0 .. Len(made') : i # 0 => i \in 1 .. Len(made')
    BY DEF AgenticTypes
  <2> QED
    BY <1>1, <2>1, <2>2, <2>3 DEF Open
<1>5. Named'
  BY <1>2, AddedIsSound
<1>6. \A d : d = kept' \/ d \in Copies \ {Empty} => Sound(d, A)'
  BY <1>2, AddedIsSound
<1>7. ASSUME NEW c \in Current' PROVE Sound(c, A)'
  <2>1. c = kept' \/ c \in Copies \ {Empty} \/ (c # Empty /\ c = fresh)
    BY <1>3 DEF Current
  <2>2. CASE c # Empty /\ c = fresh
    <3>1. PICK k \in Talks(Len(made')) : k = kept'
      BY DEF AgenticTypes
    <3>2. Boundaries(k) # {} /\ c = Compacted(k)
      BY <2>2, <3>1
    <3>3. made' \in Seq(Said) /\ Len(made') \in Nat /\ Sound(k, A)'
      BY <1>6, <3>1 DEF AgenticTypes
    <3> QED
      BY ONLY <1>4, <1>5, <3>2, <3>3, k \in Talks(Len(made')), CompactedIsSound
  <2> QED
    BY <1>6, <2>1, <2>2
<1>8. ASSUME NEW c \in Current' PROVE Sound(c, Open)'
  BY <1>1, <1>7 DEF Sound, Shown
<1> QED
  BY <1>5, <1>8

LEMMA BuildsFit ==
    ASSUME AgenticInv, NEW fresh, Len(made') \in Nat, Len(made) <= Len(made')
    PROVE  /\ build \in [Builds -> Stages(Len(made'))]
           /\ \A b \in Builds : FitBuild(build[b], fresh)
           /\ call \in [Slots -> Errands(Len(made'))]
           /\ \A s \in Slots : FitCall(call[s], fresh)
<1>1. /\ Stages(Len(made)) \subseteq Stages(Len(made'))
      /\ Errands(Len(made)) \subseteq Errands(Len(made'))
  BY TalksGrow DEF AgenticInv, AgenticTypes
<1>2. \A b \in Builds : FitBuild(build[b], fresh)
  BY DEF FitBuild, AgenticInv, Copies, Open
<1>3. \A s \in Slots : FitCall(call[s], fresh)
  BY DEF FitCall, AgenticInv, Copies, Open
<1> QED
  BY <1>1, <1>2, <1>3 DEF AgenticInv, AgenticTypes

LEMMA OneStage ==
    ASSUME NEW fresh, NEW f \in [Builds -> Stages(Len(made'))],
           \A c \in Builds : FitBuild(f[c], fresh),
           NEW b \in Builds, NEW x \in Stages(Len(made')), FitBuild(x, fresh),
           build' = [f EXCEPT ![b] = x]
    PROVE  /\ build' \in [Builds -> Stages(Len(made'))]
           /\ \A c \in Builds : FitBuild(build'[c], fresh)
<1>1. \A c \in Builds : build'[c] = IF c = b THEN x ELSE f[c]
  OBVIOUS
<1>2. build' \in [Builds -> Stages(Len(made'))]
  OBVIOUS
<1>3. ASSUME NEW c \in Builds PROVE FitBuild(build'[c], fresh)
  <2>1. build'[c] = x \/ build'[c] = f[c]
    BY <1>1
  <2> QED
    BY <2>1
<1> QED
  BY <1>2, <1>3

LEMMA OneErrand ==
    ASSUME NEW fresh, NEW f \in [Slots -> Errands(Len(made'))],
           \A c \in Slots : FitCall(f[c], fresh),
           NEW s \in Slots, NEW x \in Errands(Len(made')), FitCall(x, fresh),
           call' = [f EXCEPT ![s] = x]
    PROVE  /\ call' \in [Slots -> Errands(Len(made'))]
           /\ \A c \in Slots : FitCall(call'[c], fresh)
<1>1. \A c \in Slots : call'[c] = IF c = s THEN x ELSE f[c]
  OBVIOUS
<1>2. call' \in [Slots -> Errands(Len(made'))]
  OBVIOUS
<1>3. ASSUME NEW c \in Slots PROVE FitCall(call'[c], fresh)
  <2>1. call'[c] = x \/ call'[c] = f[c]
    BY <1>1
  <2> QED
    BY <2>1
<1> QED
  BY <1>2, <1>3

LEMMA Keeps ==
    ASSUME AgenticInv, NEW kind \in {"user", "assistant", "tool"}, NEW of \in Nat,
           Adds(kind, of) \/ UNCHANGED conversation, kind = "tool" => of \in Open,
           NEW fresh, fresh # Empty => Boundaries(kept') # {} /\ fresh = Compacted(kept'),
           build' \in [Builds -> Stages(Len(made'))],
           call' \in [Slots -> Errands(Len(made'))],
           \A b \in Builds : FitBuild(build'[b], fresh),
           \A s \in Slots : FitCall(call'[s], fresh),
           unsaid' \subseteq Requests, pending' \subseteq Requests \ unsaid',
           mvp' \in BOOLEAN, troubled' \in BOOLEAN, promise' \in Builds \union {None}
    PROVE  AgenticInv'
<1>1. /\ made' \in Seq(Said) /\ Len(made') \in Nat
      /\ kept' \in Talks(Len(made')) /\ gone' \subseteq 1 .. Len(made')
      /\ missed' \subseteq 1 .. Len(made')
  BY Added DEF AgenticInv
<1>2. AgenticTypes'
  BY <1>1 DEF AgenticTypes
<1>3. Named' /\ \A c \in Current' : Sound(c, Open)'
  BY <1>2, SoundStays
<1>4. \A b \in Builds : Able(build'[b])
  BY DEF FitBuild
<1>5. \A b \in Builds : Able(build[b])'
  BY <1>4 DEF Able
<1> QED
  BY <1>2, <1>3, <1>5 DEF AgenticInv

(* The same for a step that leaves the conversation and starts no summary. *)
LEMMA KeepsQuiet ==
    ASSUME AgenticInv, UNCHANGED conversation,
           build' \in [Builds -> Stages(Len(made'))],
           call' \in [Slots -> Errands(Len(made'))],
           \A b \in Builds : FitBuild(build'[b], Empty),
           \A s \in Slots : FitCall(call'[s], Empty),
           unsaid' \subseteq Requests, pending' \subseteq Requests \ unsaid',
           mvp' \in BOOLEAN, troubled' \in BOOLEAN, promise' \in Builds \union {None}
    PROVE  AgenticInv'
<1>1. PICK kind \in {"user", "assistant", "tool"} : kind = "user"
  OBVIOUS
<1> QED
  BY <1>1, Keeps

-----------------------------------------------------------------------------
(* Steps that leave the conversation and start no summary. *)
Rest ==
    /\ unsaid' \subseteq Requests /\ pending' \subseteq Requests \ unsaid'
    /\ mvp' \in BOOLEAN /\ troubled' \in BOOLEAN /\ promise' \in Builds \union {None}

LEMMA RestStays ==
    ASSUME AgenticInv,
           UNCHANGED <<unsaid, pending, mvp, promise, troubled>> PROVE Rest
  BY DEF Rest, AgenticInv, AgenticTypes

LEMMA QuietStage ==
    ASSUME AgenticInv, UNCHANGED <<call, conversation>>, Rest,
           NEW b \in Builds, NEW x \in Stages(Len(made)), FitBuild(x, Empty),
           build' = [build EXCEPT ![b] = x]
    PROVE  AgenticInv'
<1>1. Len(made) \in Nat /\ made' = made /\ Len(made) <= Len(made)
  BY DEF AgenticInv, AgenticTypes, conversation
<1>2. /\ build \in [Builds -> Stages(Len(made'))]
      /\ \A c \in Builds : FitBuild(build[c], Empty)
      /\ call' \in [Slots -> Errands(Len(made'))]
      /\ \A s \in Slots : FitCall(call'[s], Empty)
  BY <1>1, BuildsFit
<1>3. /\ build' \in [Builds -> Stages(Len(made'))]
      /\ \A c \in Builds : FitBuild(build'[c], Empty)
  BY <1>1, <1>2, OneStage
<1> QED
  BY <1>2, <1>3, KeepsQuiet DEF Rest

LEMMA QuietErrand ==
    ASSUME AgenticInv, UNCHANGED <<build, conversation>>, Rest,
           NEW s \in Slots, NEW x \in Errands(Len(made)), FitCall(x, Empty),
           call' = [call EXCEPT ![s] = x]
    PROVE  AgenticInv'
<1>1. Len(made) \in Nat /\ made' = made /\ Len(made) <= Len(made)
  BY DEF AgenticInv, AgenticTypes, conversation
<1>2. /\ build' \in [Builds -> Stages(Len(made'))]
      /\ \A c \in Builds : FitBuild(build'[c], Empty)
      /\ call \in [Slots -> Errands(Len(made'))]
      /\ \A c \in Slots : FitCall(call[c], Empty)
  BY <1>1, BuildsFit
<1>3. /\ call' \in [Slots -> Errands(Len(made'))]
      /\ \A c \in Slots : FitCall(call'[c], Empty)
  BY <1>1, <1>2, OneErrand
<1> QED
  BY <1>2, <1>3, KeepsQuiet DEF Rest

LEMMA StageIs ==
    ASSUME AgenticInv, NEW b \in Builds
    PROVE  /\ build[b] \in Stages(Len(made)) /\ build \in [Builds -> Stages(Len(made))]
           /\ Len(made) \in Nat /\ \A fresh : FitBuild(build[b], fresh) /\ Able(build[b])
<1>1. Len(made) \in Nat
  BY DEF AgenticInv, AgenticTypes
<1>2. \A fresh : FitBuild(build[b], fresh)
  BY DEF FitBuild, AgenticInv, Copies, Open
<1> QED
  BY <1>1, <1>2 DEF AgenticInv, AgenticTypes

LEMMA RestingFits ==
    ASSUME NEW n \in Nat, NEW fresh
    PROVE  /\ Resting \in Stages(n) /\ FitBuild(Resting, fresh)
           /\ Inferring \in Stages(n) /\ FitBuild(Inferring, fresh)
           /\ Free \in Errands(n) /\ FitCall(Free, fresh)
           /\ \A q \in {"closing", "ending"} :
                 /\ [Resting EXCEPT !.pc = q] \in Stages(n)
                 /\ FitBuild([Resting EXCEPT !.pc = q], fresh)
<1>1. 0 \in 0 .. MaxDepth /\ 0 \in 0 .. Retries /\ 0 \in 0 .. n /\ 0 < Retries
  BY AgenticAssumption
<1>2. Empty \in Talks(n)
  BY EmptyIsTalk
<1> HIDE DEF Empty
<1>3. Resting \in Stages(n) /\ Inferring \in Stages(n)
  BY <1>1, <1>2 DEF Resting, Inferring, Stages
<1>4. FitBuild(Resting, fresh) /\ FitBuild(Inferring, fresh)
  BY <1>1 DEF Resting, Inferring, FitBuild, Able
<1>5. Free \in Errands(n) /\ FitCall(Free, fresh)
  BY <1>1, <1>2 DEF Free, Errands, FitCall, None
<1>6. ASSUME NEW q \in {"closing", "ending"}
      PROVE  /\ [Resting EXCEPT !.pc = q] \in Stages(n)
             /\ FitBuild([Resting EXCEPT !.pc = q], fresh)
  BY <1>1, <1>2 DEF Resting, Stages, FitBuild, Able
<1> QED
  BY <1>3, <1>4, <1>5, <1>6

(* A build moves on within its attempt. *)
LEMMA PcMoves ==
    ASSUME NEW n \in Nat, NEW y \in Stages(n), NEW fresh, FitBuild(y, fresh),
           NEW q \in {"idle", "template", "infer", "stream", "answered", "tools", "final",
                      "ending", "closing"},
           q \in {"infer", "stream", "tools"} => y.tries < Retries,
           q \in {"stream", "answered"} => y.depth < MaxDepth, q # "answered"
    PROVE  [y EXCEPT !.pc = q] \in Stages(n) /\ FitBuild([y EXCEPT !.pc = q], fresh)
<1> DEFINE x == [y EXCEPT !.pc = q]
<1>1. x \in Stages(n)
  BY DEF Stages
<1>2. /\ x.pc = q /\ x.copy = y.copy /\ x.asked = y.asked
      /\ x.tries = y.tries /\ x.depth = y.depth
  BY DEF Stages
<1> HIDE DEF x
<1>3. FitBuild(x, fresh)
  BY <1>2 DEF FitBuild, Able
<1> QED
  BY <1>1, <1>3 DEF x

-----------------------------------------------------------------------------
LEMMA RespondsKeeps == ASSUME AgenticInv, NEW b \in Builds, Responds(b) PROVE AgenticInv'
<1> DEFINE x == [build[b] EXCEPT !.pc = "stream"]
<1>1. /\ build[b].pc = "infer" /\ build[b].depth < MaxDepth
      /\ build' = [build EXCEPT ![b] = x]
      /\ UNCHANGED <<unsaid, pending, mvp, promise, call, conversation, troubled>>
  BY DEF Responds
<1>2. build[b].tries < Retries
  BY <1>1, StageIs DEF Able
<1>3. x \in Stages(Len(made)) /\ FitBuild(x, Empty)
  BY <1>1, <1>2, StageIs, PcMoves
<1> HIDE DEF x
<1> QED
  BY <1>1, <1>3, QuietStage, RestStays

LEMMA RecurKeeps == ASSUME AgenticInv, NEW b \in Builds, Recur(b) PROVE AgenticInv'
<1> DEFINE q == IF build[b].marked THEN "final" ELSE "infer"
           x == [build[b] EXCEPT !.pc = q]
<1>1. /\ build[b].pc = "tools" /\ build' = [build EXCEPT ![b] = x]
      /\ UNCHANGED <<unsaid, pending, mvp, promise, call, conversation, troubled>>
  BY DEF Recur
<1>2. build[b].tries < Retries /\ q \in {"final", "infer"}
  BY <1>1, StageIs DEF Able
<1> HIDE DEF q
<1>3. x \in Stages(Len(made)) /\ FitBuild(x, Empty)
  BY <1>2, StageIs, PcMoves
<1> HIDE DEF x
<1> QED
  BY <1>1, <1>3, QuietStage, RestStays

LEMMA TooDeepKeeps == ASSUME AgenticInv, NEW b \in Builds, TooDeep(b) PROVE AgenticInv'
<1> DEFINE x == [build[b] EXCEPT !.pc = "final"]
<1>1. /\ build' = [build EXCEPT ![b] = x]
      /\ UNCHANGED <<unsaid, pending, mvp, promise, call, conversation, troubled>>
  BY DEF TooDeep
<1>2. x \in Stages(Len(made)) /\ FitBuild(x, Empty)
  BY StageIs, PcMoves
<1> HIDE DEF x
<1> QED
  BY <1>1, <1>2, QuietStage, RestStays

LEMMA CloseKeeps == ASSUME AgenticInv, NEW b \in Builds, Close(b) PROVE AgenticInv'
<1>1. /\ build' = [build EXCEPT ![b] = Resting] /\ promise' = None
      /\ UNCHANGED <<unsaid, pending, mvp, call, conversation, troubled>>
  BY DEF Close
<1>2. Resting \in Stages(Len(made)) /\ FitBuild(Resting, Empty)
  BY StageIs, RestingFits
<1>3. Rest
  BY <1>1 DEF Rest, AgenticInv, AgenticTypes
<1> QED
  BY <1>1, <1>2, <1>3, QuietStage

LEMMA RetriedFits ==
    ASSUME AgenticInv, NEW b \in Builds, NEW cut \in BOOLEAN, Retried(b, cut),
           build[b].pc \in {"infer", "stream"}
    PROVE  \E x \in Stages(Len(made)) : FitBuild(x, Empty) /\ build' = [build EXCEPT ![b] = x]
<1> DEFINE y == build[b]
           q == IF y.tries + 1 < Retries THEN "infer" ELSE "final"
           x == [y EXCEPT !.tries = @ + 1, !.depth = 0, !.cut = @ \/ cut, !.pc = q]
<1>1. y \in Stages(Len(made)) /\ y.tries < Retries /\ FitBuild(y, Empty)
  BY StageIs DEF Able
<1>2. build' = [build EXCEPT ![b] = x]
  BY DEF Retried
<1> HIDE DEF y
<1>3. /\ y.tries + 1 \in 0 .. Retries /\ 0 \in 0 .. MaxDepth /\ (y.cut \/ cut) \in BOOLEAN
      /\ q \in {"infer", "final"} /\ (q = "infer" => y.tries + 1 < Retries)
  BY <1>1, AgenticAssumption DEF Stages
<1> HIDE DEF q
<1>4. x \in Stages(Len(made))
  BY <1>1, <1>3 DEF Stages
<1>5. x.pc = q /\ x.tries = y.tries + 1 /\ x.copy = y.copy /\ x.asked = y.asked
  BY <1>1 DEF Stages
<1> HIDE DEF x
<1>6. FitBuild(x, Empty)
  BY <1>1, <1>3, <1>5 DEF FitBuild, Able
<1> QED
  BY <1>2, <1>4, <1>6

LEMMA InferFailsKeeps ==
    ASSUME AgenticInv, NEW b \in Builds, InferFails(b) \/ Repetition(b) PROVE AgenticInv'
<1>1. /\ build[b].pc \in {"infer", "stream"}
      /\ Retried(b, FALSE) \/ Retried(b, TRUE)
      /\ UNCHANGED <<unsaid, pending, mvp, promise, call, conversation, troubled>>
  BY DEF InferFails, Repetition
<1>2. PICK x \in Stages(Len(made)) : FitBuild(x, Empty) /\ build' = [build EXCEPT ![b] = x]
  BY <1>1, RetriedFits
<1> QED
  BY <1>1, <1>2, QuietStage, RestStays

-----------------------------------------------------------------------------
LEMMA FlagFits ==
    ASSUME NEW n \in Nat, NEW y \in Stages(n), NEW fresh, FitBuild(y, fresh)
    PROVE  /\ [y EXCEPT !.linked = FALSE] \in Stages(n)
           /\ FitBuild([y EXCEPT !.linked = FALSE], fresh)
           /\ [y EXCEPT !.marked = TRUE] \in Stages(n)
           /\ FitBuild([y EXCEPT !.marked = TRUE], fresh)
           /\ [y EXCEPT !.linked = FALSE, !.aborted = TRUE] \in Stages(n)
           /\ FitBuild([y EXCEPT !.linked = FALSE, !.aborted = TRUE], fresh)
<1>1. [y EXCEPT !.linked = FALSE] \in Stages(n) /\ FitBuild([y EXCEPT !.linked = FALSE], fresh)
  BY DEF Stages, FitBuild, Able
<1>2. [y EXCEPT !.marked = TRUE] \in Stages(n) /\ FitBuild([y EXCEPT !.marked = TRUE], fresh)
  BY DEF Stages, FitBuild, Able
<1>3. /\ [y EXCEPT !.linked = FALSE, !.aborted = TRUE] \in Stages(n)
      /\ FitBuild([y EXCEPT !.linked = FALSE, !.aborted = TRUE], fresh)
  BY DEF Stages, FitBuild, Able
<1> QED
  BY <1>1, <1>2, <1>3

LEMMA UnlinkedFits ==
    ASSUME NEW fresh, Len(made') \in Nat, build \in [Builds -> Stages(Len(made'))],
           \A c \in Builds : FitBuild(build[c], fresh)
    PROVE  /\ Unlinked \in [Builds -> Stages(Len(made'))]
           /\ \A c \in Builds : FitBuild(Unlinked[c], fresh)
<1>1. ASSUME NEW c \in Builds
      PROVE  Unlinked[c] \in Stages(Len(made')) /\ FitBuild(Unlinked[c], fresh)
  <2>1. build[c] \in Stages(Len(made'))
    OBVIOUS
  <2>2. Unlinked[c] = [build[c] EXCEPT !.linked = FALSE]
    BY DEF Unlinked
  <2> QED
    BY <2>1, <2>2, FlagFits, ZenonT(40)
<1>2. Unlinked = [c \in Builds |-> Unlinked[c]]
  BY DEF Unlinked
<1> QED
  BY <1>1, <1>2

LEMMA ThrowsKeeps ==
    ASSUME AgenticInv, NEW b \in Builds, Cancelled(b) \/ RateLimited(b) PROVE AgenticInv'
<1> DEFINE x == [Resting EXCEPT !.pc = "closing"]
<1>1. /\ build' = [Unlinked EXCEPT ![b] = x] /\ promise' = None /\ troubled' = TRUE
      /\ UNCHANGED <<unsaid, pending, mvp, call, conversation>>
  BY DEF Cancelled, RateLimited, Throws
<1>2. Len(made) \in Nat /\ made' = made /\ Len(made) <= Len(made)
  BY <1>1 DEF AgenticInv, AgenticTypes, conversation
<1>3. /\ build \in [Builds -> Stages(Len(made'))]
      /\ \A c \in Builds : FitBuild(build[c], Empty)
      /\ call' \in [Slots -> Errands(Len(made'))]
      /\ \A s \in Slots : FitCall(call'[s], Empty)
  BY <1>1, <1>2, BuildsFit
<1>4. Unlinked \in [Builds -> Stages(Len(made'))] /\ \A c \in Builds : FitBuild(Unlinked[c], Empty)
  BY <1>2, <1>3, UnlinkedFits
<1>5. x \in Stages(Len(made')) /\ FitBuild(x, Empty)
  BY <1>2, RestingFits
<1> HIDE DEF x
<1>6. build' \in [Builds -> Stages(Len(made'))] /\ \A c \in Builds : FitBuild(build'[c], Empty)
  BY <1>1, <1>4, <1>5, OneStage
<1>7. Rest
  BY <1>1 DEF Rest, AgenticInv, AgenticTypes
<1> QED
  BY <1>1, <1>3, <1>6, <1>7, KeepsQuiet DEF Rest

(* The requests become a message when an attempt begins. *)
LEMMA BeginsIs ==
    ASSUME AgenticInv, NEW b, Begins(b)
    PROVE  /\ pending' = {} /\ (Adds("user", 0) \/ UNCHANGED conversation)
           /\ Len(made') \in Nat /\ Len(made) <= Len(made')
<1>1. pending' = {} /\ (Adds("user", 0) \/ UNCHANGED conversation)
  BY DEF Begins
<1>2. Len(made') \in Nat /\ Len(made) <= Len(made')
  <2>1. "user" \in {"user", "assistant", "tool"} /\ 0 \in Nat /\ AgenticTypes
    BY DEF AgenticInv
  <2> QED
    BY <1>1, <2>1, Added
<1> QED
  BY <1>1, <1>2

LEMMA InferringKeeps ==
    ASSUME AgenticInv, NEW b \in Builds, Begins(b),
           NEW f, f = build \/ f = Unlinked, build' = [f EXCEPT ![b] = Inferring],
           UNCHANGED <<unsaid, mvp, call, troubled>>, promise' \in Builds \union {None}
    PROVE  AgenticInv'
<1>1. /\ pending' = {} /\ (Adds("user", 0) \/ UNCHANGED conversation)
      /\ Len(made') \in Nat /\ Len(made) <= Len(made')
  BY BeginsIs
<1>2. /\ build \in [Builds -> Stages(Len(made'))]
      /\ \A c \in Builds : FitBuild(build[c], Empty)
      /\ call' \in [Slots -> Errands(Len(made'))]
      /\ \A s \in Slots : FitCall(call'[s], Empty)
  BY <1>1, BuildsFit
<1>3. Unlinked \in [Builds -> Stages(Len(made'))] /\ \A c \in Builds : FitBuild(Unlinked[c], Empty)
  BY <1>1, <1>2, UnlinkedFits
<1>4. Inferring \in Stages(Len(made')) /\ FitBuild(Inferring, Empty)
  BY <1>1, RestingFits
<1>5. build' \in [Builds -> Stages(Len(made'))] /\ \A c \in Builds : FitBuild(build'[c], Empty)
  <2>1. f \in [Builds -> Stages(Len(made'))] /\ \A c \in Builds : FitBuild(f[c], Empty)
    BY <1>2, <1>3
  <2> QED
    BY <1>4, <2>1, OneStage
<1>6. Rest
  BY <1>1 DEF Rest, AgenticInv, AgenticTypes
<1>7. "user" \in {"user", "assistant", "tool"} /\ 0 \in Nat
  OBVIOUS
<1> QED
  BY <1>1, <1>2, <1>5, <1>6, <1>7, Keeps DEF Rest

LEMMA EndAttemptKeeps == ASSUME AgenticInv, NEW b \in Builds, EndAttempt(b) PROVE AgenticInv'
<1> DEFINE x == [Resting EXCEPT !.pc = "closing"]
<1>1. promise' = None /\ UNCHANGED <<unsaid, mvp, call, troubled>>
  BY DEF EndAttempt
<1>2. CASE Begins(b) /\ build' = [Unlinked EXCEPT ![b] = Inferring]
  BY <1>1, <1>2, InferringKeeps
<1>3. CASE build' = [Unlinked EXCEPT ![b] = x] /\ UNCHANGED <<pending, conversation>>
  <2>1. Len(made) \in Nat /\ made' = made /\ Len(made) <= Len(made)
    BY <1>3 DEF AgenticInv, AgenticTypes, conversation
  <2>2. /\ build \in [Builds -> Stages(Len(made'))]
        /\ \A c \in Builds : FitBuild(build[c], Empty)
        /\ call' \in [Slots -> Errands(Len(made'))]
        /\ \A s \in Slots : FitCall(call'[s], Empty)
    BY <1>1, <2>1, BuildsFit
  <2>3. /\ Unlinked \in [Builds -> Stages(Len(made'))]
        /\ \A c \in Builds : FitBuild(Unlinked[c], Empty)
    BY <2>1, <2>2, UnlinkedFits
  <2>4. x \in Stages(Len(made')) /\ FitBuild(x, Empty)
    BY <2>1, RestingFits
  <2> HIDE DEF x
  <2>5. /\ build' \in [Builds -> Stages(Len(made'))]
        /\ \A c \in Builds : FitBuild(build'[c], Empty)
    BY <1>3, <2>3, <2>4, OneStage
  <2>6. Rest
    BY <1>1, <1>3 DEF Rest, AgenticInv, AgenticTypes
  <2> QED
    BY <1>1, <1>3, <2>2, <2>5, <2>6, KeepsQuiet DEF Rest
<1> QED
  BY <1>2, <1>3 DEF EndAttempt

LEMMA LaunchKeeps ==
    ASSUME AgenticInv, LaunchBuild, UNCHANGED <<call, conversation, mvp, troubled>>,
           unsaid' \subseteq Requests, pending' \subseteq Requests \ unsaid'
    PROVE  AgenticInv'
<1>1. FreeBuilds \in SUBSET Nat /\ FreeBuilds # {} /\ FreeBuilds \subseteq Builds
  BY AgenticAssumption DEF LaunchBuild, FreeBuilds, Builds
<1>2. PICK b \in Builds : b = promise'
  BY <1>1, Least DEF LaunchBuild
<1> DEFINE x == [build[b] EXCEPT !.pc = "template"]
<1>3. build' = [build EXCEPT ![b] = x]
  BY <1>2 DEF LaunchBuild
<1>4. x \in Stages(Len(made)) /\ FitBuild(x, Empty)
  BY StageIs, PcMoves
<1> HIDE DEF x
<1>5. Rest
  BY <1>2 DEF Rest, AgenticInv, AgenticTypes
<1> QED
  BY <1>3, <1>4, <1>5, QuietStage

LEMMA UserSaysKeeps ==
    ASSUME AgenticInv, NEW r \in Requests, UserSays(r) PROVE AgenticInv'
<1>1. /\ unsaid' = unsaid \ {r} /\ pending' = pending \union {r} /\ r \in unsaid
      /\ UNCHANGED <<mvp, call, conversation, troubled>>
  BY DEF UserSays
<1>2. unsaid' \subseteq Requests /\ pending' \subseteq Requests \ unsaid'
  BY <1>1 DEF AgenticInv, AgenticTypes
<1>3. CASE LaunchBuild
  BY <1>1, <1>2, <1>3, LaunchKeeps
<1>4. CASE UNCHANGED <<promise, build>>
  <2>1. Len(made) \in Nat /\ made' = made /\ Len(made) <= Len(made)
    BY <1>1 DEF AgenticInv, AgenticTypes, conversation
  <2>2. /\ build' \in [Builds -> Stages(Len(made'))]
        /\ \A c \in Builds : FitBuild(build'[c], Empty)
        /\ call' \in [Slots -> Errands(Len(made'))]
        /\ \A s \in Slots : FitCall(call'[s], Empty)
    BY <1>1, <1>4, <2>1, BuildsFit
  <2>3. Rest
    BY <1>1, <1>2, <1>4 DEF Rest, AgenticInv, AgenticTypes
  <2> QED
    BY <1>1, <2>2, <2>3, KeepsQuiet DEF Rest
<1> QED
  BY <1>3, <1>4 DEF UserSays

LEMMA StartKeeps == ASSUME AgenticInv, Start PROVE AgenticInv'
<1>1. /\ LaunchBuild /\ UNCHANGED <<call, conversation, mvp, troubled>>
      /\ unsaid' \subseteq Requests /\ pending' \subseteq Requests \ unsaid'
  BY SMTT(30) DEF Start, AgenticInv, AgenticTypes
<1> QED
  BY <1>1, LaunchKeeps

LEMMA StopKeeps == ASSUME AgenticInv, Stop PROVE AgenticInv'
<1>1. /\ troubled' = TRUE /\ UNCHANGED <<unsaid, pending, mvp, promise, call, conversation>>
      /\ build' = [b \in Builds |-> IF build[b].linked
                                    THEN [build[b] EXCEPT !.linked = FALSE, !.aborted = TRUE]
                                    ELSE build[b]]
  BY DEF Stop
<1>2. Len(made) \in Nat /\ made' = made /\ Len(made) <= Len(made)
  <2>1. made' = made
    BY <1>1, Zenon DEF conversation
  <2>2. Len(made) \in Nat
    BY DEF AgenticInv, AgenticTypes
  <2> QED
    BY <2>1, <2>2
<1>3. /\ call' \in [Slots -> Errands(Len(made'))]
      /\ \A s \in Slots : FitCall(call'[s], Empty)
  BY <1>1, <1>2, BuildsFit
<1>4. ASSUME NEW c \in Builds
      PROVE  build'[c] \in Stages(Len(made')) /\ FitBuild(build'[c], Empty)
  <2>1. build[c] \in Stages(Len(made')) /\ FitBuild(build[c], Empty)
    BY <1>2, StageIs
  <2>2. \/ build'[c] = [build[c] EXCEPT !.linked = FALSE, !.aborted = TRUE]
        \/ build'[c] = build[c]
    BY <1>1
  <2> QED
    BY <1>2, <2>1, <2>2, FlagFits
<1>5. build' \in [Builds -> Stages(Len(made'))]
  <2>1. build' = [c \in Builds |-> build'[c]]
    BY <1>1
  <2> QED
    BY <1>4, <2>1
<1>6. Rest
  BY <1>1 DEF Rest, AgenticInv, AgenticTypes
<1> QED
  BY <1>1, <1>3, <1>4, <1>5, <1>6, KeepsQuiet DEF Rest

LEMMA EvictKeeps == ASSUME AgenticInv, Evict PROVE AgenticInv'
<1>1. /\ troubled' = TRUE /\ promise' = None /\ UNCHANGED <<unsaid, pending, mvp, conversation>>
      /\ build' = [b \in Builds |-> Resting] /\ call' = [s \in Slots |-> Free]
  BY DEF Evict
<1>2. Len(made') \in Nat
  BY <1>1 DEF AgenticInv, AgenticTypes, conversation
<1>3. /\ Resting \in Stages(Len(made')) /\ FitBuild(Resting, Empty)
      /\ Free \in Errands(Len(made')) /\ FitCall(Free, Empty)
  BY <1>2, RestingFits
<1>4. Rest
  BY <1>1 DEF Rest, AgenticInv, AgenticTypes
<1>5. /\ build' \in [Builds -> Stages(Len(made'))]
      /\ \A c \in Builds : FitBuild(build'[c], Empty)
  BY <1>1, <1>3
<1>6. /\ call' \in [Slots -> Errands(Len(made'))]
      /\ \A s \in Slots : FitCall(call'[s], Empty)
  BY <1>1, <1>3
<1> QED
  BY <1>1, <1>4, <1>5, <1>6, KeepsQuiet DEF Rest

LEMMA AttemptKeeps == ASSUME AgenticInv, NEW b \in Builds, Attempt(b) PROVE AgenticInv'
<1>1. /\ Begins(b) /\ build' = [build EXCEPT ![b] = Inferring]
      /\ UNCHANGED <<unsaid, mvp, call, troubled>> /\ promise' = promise
  BY DEF Attempt
<1>2. promise' \in Builds \union {None}
  BY <1>1 DEF AgenticInv, AgenticTypes
<1> QED
  BY <1>1, <1>2, InferringKeeps

-----------------------------------------------------------------------------
(* A summary is written back. *)
LEMMA WrittenBackIsSound ==
    ASSUME AgenticInv, UNCHANGED <<made, gone, missed>>, kept' \in Current,
           Copies' \subseteq Copies \union {Empty}, Open' \subseteq Open
    PROVE  Named' /\ \A c \in Current' : Sound(c, Open)'
<1>1. Current' \subseteq Current
  BY DEF Current
<1>2. ASSUME NEW c \in Current' PROVE Sound(c, Open)'
  <2>1. Sound(c, Open)
    BY <1>1 DEF AgenticInv
  <2>2. Faithful(c)' /\ Matched(c)'
    BY <2>1 DEF Sound, Faithful, Matched, Shown
  <2>3. \A a \in Open' : Shown(c, a, Len(made))'
    BY <2>1 DEF Sound, Shown
  <2> QED
    BY <2>2, <2>3 DEF Sound
<1>3. Named'
  BY DEF AgenticInv, Named
<1> QED
  BY <1>2, <1>3

LEMMA WrittenBackKeeps ==
    ASSUME AgenticInv, UNCHANGED <<unsaid, pending, mvp, promise, made, gone, missed, troubled>>,
           kept' \in Current,
           build' \in [Builds -> Stages(Len(made))], call' \in [Slots -> Errands(Len(made))],
           \A b \in Builds : FitBuild(build'[b], Empty),
           \A s \in Slots : FitCall(call'[s], Empty)
    PROVE  AgenticInv'
<1>1. kept' \in Talks(Len(made))
  BY CopiesAre DEF AgenticInv
<1>2. AgenticTypes'
  BY <1>1 DEF AgenticInv, AgenticTypes
<1>3. Copies' \subseteq Copies \union {Empty} /\ Open' \subseteq Open
  BY DEF Copies, Open, FitBuild, FitCall
<1>4. Named' /\ \A c \in Current' : Sound(c, Open)'
  BY <1>3, WrittenBackIsSound
<1>5. \A b \in Builds : Able(build[b])'
  BY DEF FitBuild, Able
<1> QED
  BY <1>2, <1>4, <1>5 DEF AgenticInv

LEMMA SummarizedKeeps == ASSUME AgenticInv, NEW b \in Builds, Summarized(b) PROVE AgenticInv'
<1> DEFINE y == build[b]
           x == [y EXCEPT !.copy = Empty]
<1>1. /\ y.copy # Empty /\ kept' = y.copy /\ build' = [build EXCEPT ![b] = x]
      /\ UNCHANGED <<unsaid, pending, mvp, promise, made, gone, missed, troubled, call>>
  BY DEF Summarized
<1>2. kept' \in Current
  BY <1>1 DEF Current, Copies
<1>3. y \in Stages(Len(made)) /\ FitBuild(y, Empty) /\ Len(made) \in Nat
  BY StageIs
<1> HIDE DEF y
<1>4. x \in Stages(Len(made)) /\ FitBuild(x, Empty)
  <2>1. Empty \in Talks(Len(made))
    BY EmptyIsTalk
  <2>2. x \in Stages(Len(made))
    BY <1>3, <2>1 DEF Stages
  <2>3. /\ x.pc = y.pc /\ x.copy = Empty /\ x.asked = y.asked
        /\ x.tries = y.tries /\ x.depth = y.depth
    BY <1>3 DEF Stages
  <2> HIDE DEF x
  <2> QED
    BY <1>3, <2>2, <2>3 DEF FitBuild, Able
<1> HIDE DEF x
<1>5. /\ build \in [Builds -> Stages(Len(made'))]
      /\ \A c \in Builds : FitBuild(build[c], Empty)
      /\ call' \in [Slots -> Errands(Len(made))]
      /\ \A s \in Slots : FitCall(call'[s], Empty)
  BY <1>1, <1>3, BuildsFit
<1>6. build' \in [Builds -> Stages(Len(made))] /\ \A c \in Builds : FitBuild(build'[c], Empty)
  BY <1>1, <1>4, <1>5, OneStage
<1> QED
  BY <1>1, <1>2, <1>5, <1>6, WrittenBackKeeps

LEMMA ErrandIs ==
    ASSUME AgenticInv, NEW s \in Slots
    PROVE  /\ call[s] \in Errands(Len(made)) /\ call \in [Slots -> Errands(Len(made))]
           /\ Len(made) \in Nat /\ \A fresh : FitCall(call[s], fresh)
<1>1. Len(made) \in Nat
  BY DEF AgenticInv, AgenticTypes
<1>2. \A fresh : FitCall(call[s], fresh)
  BY DEF FitCall, AgenticInv, Copies, Open
<1> QED
  BY <1>1, <1>2 DEF AgenticInv, AgenticTypes

LEMMA CallSummarizedKeeps ==
    ASSUME AgenticInv, NEW s \in Slots, CallSummarized(s) PROVE AgenticInv'
<1> DEFINE y == call[s]
           x == [y EXCEPT !.copy = Empty]
<1>1. /\ y.copy # Empty /\ kept' = y.copy /\ call' = [call EXCEPT ![s] = x]
      /\ UNCHANGED <<unsaid, pending, mvp, promise, made, gone, missed, troubled, build>>
  BY DEF CallSummarized
<1>2. kept' \in Current
  BY <1>1 DEF Current, Copies
<1>3. y \in Errands(Len(made)) /\ FitCall(y, Empty) /\ Len(made) \in Nat
  BY ErrandIs
<1> HIDE DEF y
<1>4. x \in Errands(Len(made)) /\ FitCall(x, Empty)
  <2>1. Empty \in Talks(Len(made))
    BY EmptyIsTalk
  <2>2. x \in Errands(Len(made)) /\ x.copy = Empty /\ x.of = y.of
    BY <1>3, <2>1 DEF Errands
  <2> HIDE DEF x
  <2> QED
    BY <1>3, <2>2 DEF FitCall
<1> HIDE DEF x
<1>5. /\ build' \in [Builds -> Stages(Len(made))]
      /\ \A c \in Builds : FitBuild(build'[c], Empty)
      /\ call \in [Slots -> Errands(Len(made'))]
      /\ \A c \in Slots : FitCall(call[c], Empty)
  BY <1>1, <1>3, BuildsFit, SMTT(30)
<1>6. call' \in [Slots -> Errands(Len(made))] /\ \A c \in Slots : FitCall(call'[c], Empty)
  BY <1>1, <1>4, <1>5, OneErrand
<1> QED
  BY <1>1, <1>2, <1>5, <1>6, WrittenBackKeeps

(* After a clear all messages are gone, and a summary under way has missed *)
(* that.                                                                   *)
LEMMA ClearKeeps == ASSUME AgenticInv, Clear PROVE AgenticInv'
<1> DEFINE n == Len(made)
<1>1. /\ kept' = Empty /\ gone' = 1 .. n /\ missed' = IF Summarizing THEN 1 .. n ELSE missed
      /\ UNCHANGED <<unsaid, pending, mvp, promise, build, call, made, troubled>>
  BY DEF Clear
<1>2. n \in Nat /\ missed \subseteq 1 .. n /\ Open \subseteq 1 .. n /\ Current \subseteq Talks(n)
  BY CopiesAre DEF AgenticInv, AgenticTypes
<1>3. AgenticTypes'
  BY <1>1, <1>2, EmptyIsTalk DEF AgenticInv, AgenticTypes
<1>4. Copies' = Copies /\ Open' = Open
  BY <1>1 DEF Copies, Open
<1>5. ASSUME NEW c \in Current' PROVE Sound(c, Open)'
  <2>1. \A a \in 1 .. n, m \in Nat : Shown(c, a, m)'
    BY <1>1 DEF Shown
  <2>2. Faithful(c)'
    <3>1. CASE c = Empty
      BY <1>1, <3>1 DEF Faithful, Empty
    <3>2. CASE c # Empty
      <4>1. Copies \ {Empty} # {}
        BY <1>1, <1>4, <3>2 DEF Current
      <4>2. Summarizing
        BY <4>1, CopiesAre DEF AgenticInv
      <4>3. missed' = 1 .. n
        BY <1>1, <4>2, Zenon
      <4> QED
        BY <1>1, <4>3 DEF Faithful
    <3> QED
      BY <3>1, <3>2
  <2>3. Matched(c)'
    <3>1. c \in Talks(n)
      BY <1>1, <1>2, <1>4, EmptyIsTalk DEF Current
    <3> SUFFICES ASSUME NEW m \in c.running, made'[m].kind = "tool"
                 PROVE  Shown(c, made[m].of, m)'
      BY DEF Matched
    <3>2. m \in 1 .. n /\ m \in Nat
      BY <3>1 DEF Talks
    <3>3. made'[m].of \in 1 .. m
      BY <1>1, <3>2 DEF AgenticInv, Named
    <3>4. made'[m].of \in 1 .. n
      BY <1>2, <3>2, <3>3
    <3> QED
      BY <1>1, <3>4 DEF Shown
  <2> QED
    BY <1>1, <1>2, <1>4, <2>1, <2>2, <2>3 DEF Sound
<1>6. Named' /\ \A b \in Builds : Able(build[b])'
  BY <1>1 DEF AgenticInv, Named, Able
<1> QED
  BY <1>3, <1>5, <1>6 DEF AgenticInv

-----------------------------------------------------------------------------
(* The copy that a compaction will write. *)
LEMMA FreshIs ==
    ASSUME kept' \in Talks(Len(made')),
           NEW copy \in {Empty} \union (IF Shortens(kept') THEN {Compacted(kept')} ELSE {})
    PROVE  /\ copy \in Talks(Len(made'))
           /\ copy # Empty => Boundaries(kept') # {} /\ copy = Compacted(kept')
<1>1. PICK c \in Talks(Len(made')) : c = kept'
  OBVIOUS
<1>2. copy = Empty \/ (Shortens(c) /\ copy = Compacted(c))
  BY <1>1
<1>3. Shortens(c) => Boundaries(c) # {}
  BY DEF Shortens
<1>4. copy \in Talks(Len(made'))
  BY <1>2, <1>3, EmptyIsTalk, CompactionKeeps
<1> QED
  BY <1>1, <1>2, <1>3, <1>4

LEMMA AnswerKeeps == ASSUME AgenticInv, NEW b \in Builds, Answer(b) PROVE AgenticInv'
<1>1. /\ build[b].pc = "stream" /\ Adds("assistant", 0)
      /\ UNCHANGED <<unsaid, pending, mvp, promise, call, troubled>>
  BY DEF Answer
<1> DEFINE asked == IF made' = made THEN 0 ELSE Len(made')
           y == build[b]
           x(copy) == [y EXCEPT !.pc = "answered", !.copy = copy, !.asked = asked]
<1>2. PICK copy \in {Empty} \union (IF Shortens(kept') THEN {Compacted(kept')} ELSE {}) :
        build' = [build EXCEPT ![b] = x(copy)]
  BY ZenonT(40) DEF Answer
<1>3. "assistant" \in {"user", "assistant", "tool"} /\ 0 \in Nat /\ AgenticTypes
  BY DEF AgenticInv
<1>4. Len(made') \in Nat /\ Len(made) <= Len(made') /\ kept' \in Talks(Len(made'))
  BY <1>1, <1>3, Added
<1>5. /\ copy \in Talks(Len(made'))
      /\ copy # Empty => Boundaries(kept') # {} /\ copy = Compacted(kept')
  BY <1>4, FreshIs
<1>6. /\ build \in [Builds -> Stages(Len(made'))]
      /\ \A c \in Builds : FitBuild(build[c], copy)
      /\ call' \in [Slots -> Errands(Len(made'))]
      /\ \A s \in Slots : FitCall(call'[s], copy)
  BY <1>1, <1>4, BuildsFit
<1>7. y \in Stages(Len(made')) /\ y.tries < Retries /\ y.depth < MaxDepth
  BY <1>1, <1>6 DEF FitBuild, Able
<1>8. asked \in 0 .. Len(made') /\ (asked = 0 \/ (made' # made /\ asked = Len(made')))
  BY <1>4
<1> HIDE DEF asked, y
<1>9. /\ x(copy) \in Stages(Len(made')) /\ x(copy).pc = "answered" /\ x(copy).copy = copy
      /\ x(copy).asked = asked /\ x(copy).tries = y.tries /\ x(copy).depth = y.depth
  BY <1>5, <1>7, <1>8 DEF Stages
<1> HIDE DEF x
<1>10. FitBuild(x(copy), copy)
  BY <1>7, <1>8, <1>9 DEF FitBuild, Able
<1>11. /\ build' \in [Builds -> Stages(Len(made'))]
       /\ \A c \in Builds : FitBuild(build'[c], copy)
  BY <1>2, <1>6, <1>9, <1>10, OneStage
<1>12. Rest
  BY <1>1, RestStays
<1> QED
  BY <1>1, <1>3, <1>5, <1>6, <1>11, <1>12, Keeps DEF Rest

LEMMA FinalKeeps == ASSUME AgenticInv, NEW b \in Builds, Final(b) PROVE AgenticInv'
<1>1. UNCHANGED conversation /\ UNCHANGED <<unsaid, pending, mvp, promise, call, troubled>>
  BY DEF Final
<1> DEFINE x(copy) == [Resting EXCEPT !.pc = "ending", !.copy = copy]
<1>2. PICK copy \in {Empty} \union (IF Shortens(kept) THEN {Compacted(kept)} ELSE {}) :
        build' = [build EXCEPT ![b] = x(copy)]
  BY DEF Final
<1>3. "user" \in {"user", "assistant", "tool"} /\ 0 \in Nat /\ AgenticTypes
  BY DEF AgenticInv
<1>4. /\ Len(made') \in Nat /\ Len(made) <= Len(made') /\ kept' \in Talks(Len(made'))
      /\ kept' = kept
  BY <1>1, <1>3, Added DEF conversation
<1>5. /\ copy \in Talks(Len(made'))
      /\ copy # Empty => Boundaries(kept') # {} /\ copy = Compacted(kept')
  <2>1. copy \in {Empty} \union (IF Shortens(kept') THEN {Compacted(kept')} ELSE {})
    BY <1>4
  <2> QED
    BY <1>4, <2>1, FreshIs
<1>6. /\ build \in [Builds -> Stages(Len(made'))]
      /\ \A c \in Builds : FitBuild(build[c], copy)
      /\ call' \in [Slots -> Errands(Len(made'))]
      /\ \A s \in Slots : FitCall(call'[s], copy)
  BY <1>1, <1>4, BuildsFit
<1>7. Resting \in Stages(Len(made')) /\ Resting.asked = 0
  BY <1>4, RestingFits DEF Resting
<1>8. /\ x(copy) \in Stages(Len(made')) /\ x(copy).pc = "ending" /\ x(copy).copy = copy
      /\ x(copy).asked = 0
  BY <1>5, <1>7 DEF Stages
<1> HIDE DEF x
<1>9. FitBuild(x(copy), copy)
  BY <1>8 DEF FitBuild, Able
<1>10. /\ build' \in [Builds -> Stages(Len(made'))]
       /\ \A c \in Builds : FitBuild(build'[c], copy)
  BY <1>2, <1>6, <1>8, <1>9, OneStage
<1>11. Rest
  BY <1>1, RestStays
<1> QED
  BY <1>1, <1>3, <1>5, <1>6, <1>10, <1>11, Keeps DEF Rest

LEMMA StartCallsKeeps == ASSUME AgenticInv, NEW b \in Builds, StartCalls(b) PROVE AgenticInv'
<1> DEFINE y == build[b]
           e(marks) == [Free EXCEPT !.pc = "runs", !.owner = b, !.of = y.asked, !.marks = marks]
           x(none) == [y EXCEPT !.pc = IF none THEN "final" ELSE "tools", !.asked = 0,
                                !.depth = IF none THEN @ ELSE @ + 1]
<1>1. y.pc = "answered" /\ UNCHANGED <<unsaid, pending, mvp, promise, conversation, troubled>>
  BY ZenonT(40) DEF StartCalls
<1>2. PICK used \in Starting, marks \in SUBSET Slots :
        /\ call' = [s \in Slots |-> IF s \in used THEN e(s \in marks) ELSE call[s]]
        /\ build' = [build EXCEPT ![b] = x(used = {})]
  <2> DEFINE Begun(used, marks) ==
               /\ call' = [s \in Slots |-> IF s \in used THEN e(s \in marks) ELSE call[s]]
               /\ build' = [build EXCEPT ![b].pc = IF used = {} THEN "final" ELSE "tools",
                                         ![b].asked = 0,
                                         ![b].depth = IF used = {} THEN @ ELSE @ + 1]
  <2>0. PICK used \in Starting :
          \E marks \in {{}, used \intersect {Max(used \union {1})}} : Begun(used, marks)
    BY Zenon DEF StartCalls
  <2>1. PICK marks \in {{}, used \intersect {Max(used \union {1})}} : Begun(used, marks)
    BY <2>0
  <2>2. used \in SUBSET Slots
    BY DEF Starting
  <2>3. marks \in SUBSET Slots
    BY <2>1, <2>2
  <2>4. build' = [build EXCEPT ![b] = x(used = {})]
    BY <2>1
  <2> QED
    BY <2>1, <2>3, <2>4
<1>3. Len(made) \in Nat /\ made' = made /\ Len(made) <= Len(made)
  BY <1>1 DEF AgenticInv, AgenticTypes, conversation
<1>4. /\ build \in [Builds -> Stages(Len(made'))]
      /\ \A c \in Builds : FitBuild(build[c], Empty)
      /\ call \in [Slots -> Errands(Len(made'))]
      /\ \A s \in Slots : FitCall(call[s], Empty)
  BY <1>3, BuildsFit
<1>5. /\ y \in Stages(Len(made')) /\ y.tries < Retries /\ y.depth < MaxDepth
      /\ FitBuild(y, Empty) /\ y.asked \in Open \union {0}
  BY <1>1, <1>3, <1>4 DEF FitBuild, Able
<1> HIDE DEF y
<1>6. ASSUME NEW none \in BOOLEAN
      PROVE  x(none) \in Stages(Len(made')) /\ FitBuild(x(none), Empty)
  <2>1. y.depth + 1 \in 0 .. MaxDepth /\ 0 \in 0 .. Len(made')
    BY <1>3, <1>5, AgenticAssumption DEF Stages
  <2>2. /\ x(none) \in Stages(Len(made')) /\ x(none).pc \in {"final", "tools"}
        /\ x(none).copy = y.copy /\ x(none).asked = 0 /\ x(none).tries = y.tries
    BY <1>5, <2>1 DEF Stages
  <2> HIDE DEF x
  <2> QED
    BY <1>5, <2>2 DEF FitBuild, Able
<1>7. ASSUME NEW m \in BOOLEAN PROVE e(m) \in Errands(Len(made')) /\ FitCall(e(m), Empty)
  <2>1. Free \in Errands(Len(made')) /\ FitCall(Free, Empty) /\ y.asked \in 0 .. Len(made')
    BY <1>3, <1>5, RestingFits DEF Stages
  <2>2. e(m) \in Errands(Len(made')) /\ e(m).copy = Free.copy /\ e(m).of = y.asked
    BY <2>1 DEF Errands
  <2> HIDE DEF e
  <2> QED
    BY <1>5, <2>1, <2>2 DEF FitCall
<1> HIDE DEF x, e
<1>8. /\ build' \in [Builds -> Stages(Len(made'))]
      /\ \A c \in Builds : FitBuild(build'[c], Empty)
  <2>1. PICK none \in BOOLEAN : none = (used = {})
    OBVIOUS
  <2>2. build' = [build EXCEPT ![b] = x(none)]
    BY <1>2, <2>1
  <2> QED
    BY <1>4, <1>6, <2>2, OneStage
<1>9. ASSUME NEW s \in Slots
      PROVE  call'[s] \in Errands(Len(made')) /\ FitCall(call'[s], Empty)
  <2>1. (s \in marks) \in BOOLEAN
    OBVIOUS
  <2>2. call'[s] = e(s \in marks) \/ call'[s] = call[s]
    BY <1>2
  <2>3. e(s \in marks) \in Errands(Len(made')) /\ FitCall(e(s \in marks), Empty)
    BY <1>7, <2>1
  <2> QED
    BY <1>4, <2>2, <2>3
<1>10. call' \in [Slots -> Errands(Len(made'))]
  <2>1. call' = [s \in Slots |-> call'[s]]
    BY <1>2
  <2> QED
    BY <1>9, <2>1
<1>11. Rest
  BY <1>1, RestStays
<1> QED
  BY <1>1, <1>8, <1>9, <1>10, <1>11, KeepsQuiet DEF Rest

LEMMA CallFailsKeeps == ASSUME AgenticInv, NEW s \in Slots, CallFails(s) PROVE AgenticInv'
<1>1. /\ call' = [call EXCEPT ![s] = Free]
      /\ UNCHANGED <<unsaid, pending, mvp, promise, build, conversation, troubled>>
  BY DEF CallFails
<1>2. Free \in Errands(Len(made)) /\ FitCall(Free, Empty)
  BY ErrandIs, RestingFits
<1> QED
  BY <1>1, <1>2, QuietErrand, RestStays

LEMMA CallMarksKeeps == ASSUME AgenticInv, NEW s \in Slots, CallMarks(s) PROVE AgenticInv'
<1>1. /\ call' = [call EXCEPT ![s] = Free] /\ mvp' = TRUE
      /\ UNCHANGED <<unsaid, pending, promise, conversation, troubled>>
      /\ build' = [b \in Builds |-> IF b = call[s].owner
                                    THEN [build[b] EXCEPT !.marked = TRUE] ELSE build[b]]
  BY DEF CallMarks
<1>2. Len(made) \in Nat /\ made' = made /\ Len(made) <= Len(made)
  <2>1. made' = made
    BY <1>1, Zenon DEF conversation
  <2>2. Len(made) \in Nat
    BY DEF AgenticInv, AgenticTypes
  <2> QED
    BY <2>1, <2>2
<1>3. /\ call \in [Slots -> Errands(Len(made'))]
      /\ \A c \in Slots : FitCall(call[c], Empty)
  BY <1>2, BuildsFit
<1>4. ASSUME NEW c \in Builds
      PROVE  build'[c] \in Stages(Len(made')) /\ FitBuild(build'[c], Empty)
  <2>1. build[c] \in Stages(Len(made')) /\ FitBuild(build[c], Empty)
    BY <1>2, StageIs
  <2>2. build'[c] = [build[c] EXCEPT !.marked = TRUE] \/ build'[c] = build[c]
    BY <1>1
  <2> QED
    BY <1>2, <2>1, <2>2, FlagFits
<1>5. build' \in [Builds -> Stages(Len(made'))]
  <2>1. build' = [c \in Builds |-> build'[c]]
    BY <1>1
  <2> QED
    BY <1>4, <2>1
<1>6. Free \in Errands(Len(made')) /\ FitCall(Free, Empty)
  BY <1>2, RestingFits
<1>7. call' \in [Slots -> Errands(Len(made'))] /\ \A c \in Slots : FitCall(call'[c], Empty)
  BY <1>1, <1>3, <1>6, OneErrand
<1>8. Rest
  BY <1>1 DEF Rest, AgenticInv, AgenticTypes
<1> QED
  BY <1>1, <1>4, <1>5, <1>7, <1>8, KeepsQuiet DEF Rest

LEMMA CallTellsKeeps == ASSUME AgenticInv, NEW s \in Slots, CallTells(s) PROVE AgenticInv'
<1> DEFINE y == call[s]
           x(copy) == [y EXCEPT !.pc = "told", !.of = 0, !.copy = copy]
<1>1. UNCHANGED <<unsaid, pending, mvp, promise, build, troubled>>
  BY DEF CallTells
<1>2. PICK copy \in {Empty} \union (IF Shortens(kept') THEN {Compacted(kept')} ELSE {}) :
        call' = [call EXCEPT ![s] = x(copy)]
  BY ZenonT(40) DEF CallTells
<1>3. PICK kind \in {"user", "assistant", "tool"}, of \in Nat :
        (Adds(kind, of) \/ UNCHANGED conversation) /\ (kind = "tool" => of \in Open)
  <2>1. CASE y.of = 0
    <3>1. UNCHANGED conversation
      BY <2>1 DEF CallTells
    <3>2. "user" \in {"user", "assistant", "tool"} /\ 0 \in Nat /\ "user" # "tool"
      OBVIOUS
    <3> QED
      BY <3>1, <3>2
  <2>2. CASE y.of # 0
    <3>1. Adds("tool", y.of) /\ y.of \in Open
      BY <2>2 DEF CallTells, Open
    <3>2. y.of \in Nat /\ "tool" \in {"user", "assistant", "tool"}
      BY ErrandIs DEF Errands
    <3> QED
      BY <3>1, <3>2
  <2> QED
    BY <2>1, <2>2
<1>4. Len(made') \in Nat /\ Len(made) <= Len(made') /\ kept' \in Talks(Len(made'))
  BY <1>3, Added DEF AgenticInv
<1>5. /\ copy \in Talks(Len(made'))
      /\ copy # Empty => Boundaries(kept') # {} /\ copy = Compacted(kept')
  BY <1>4, FreshIs
<1>6. /\ build' \in [Builds -> Stages(Len(made'))]
      /\ \A c \in Builds : FitBuild(build'[c], copy)
      /\ call \in [Slots -> Errands(Len(made'))]
      /\ \A c \in Slots : FitCall(call[c], copy)
  BY <1>1, <1>4, BuildsFit
<1>7. x(copy) \in Errands(Len(made')) /\ x(copy).copy = copy /\ x(copy).of = 0
  <2>1. y \in Errands(Len(made')) /\ 0 \in 0 .. Len(made')
    BY <1>4, <1>6
  <2> HIDE DEF y
  <2> QED
    BY <1>5, <2>1 DEF Errands
<1> HIDE DEF x
<1>8. FitCall(x(copy), copy)
  BY <1>7 DEF FitCall
<1>9. call' \in [Slots -> Errands(Len(made'))] /\ \A c \in Slots : FitCall(call'[c], copy)
  BY <1>2, <1>6, <1>7, <1>8, OneErrand
<1>10. Rest
  BY <1>1, RestStays
<1> QED
  BY <1>3, <1>5, <1>6, <1>9, <1>10, Keeps DEF Rest

LEMMA CallReturnsKeeps == ASSUME AgenticInv, NEW s \in Slots, CallReturns(s) PROVE AgenticInv'
<1> DEFINE b == call[s].owner
           x == [build[b] EXCEPT !.pc = "final"]
<1>1. UNCHANGED <<unsaid, pending, mvp, promise, conversation, troubled>>
  BY DEF CallReturns
<1>2. Free \in Errands(Len(made)) /\ FitCall(Free, Empty) /\ Len(made) \in Nat
  BY ErrandIs, RestingFits
<1>3. CASE call' = [call EXCEPT ![s] = Free] /\ UNCHANGED build
  BY <1>1, <1>2, <1>3, QuietErrand, RestStays
<1>4. CASE /\ b # None /\ build' = [build EXCEPT ![b] = x]
           /\ call' = [t \in Slots |-> IF t = s THEN Free
                                       ELSE IF call[t].owner = b
                                       THEN [call[t] EXCEPT !.owner = None] ELSE call[t]]
  <2>1. made' = made /\ Len(made) <= Len(made)
    BY <1>1, <1>2 DEF conversation
  <2>2. b \in Builds
    BY <1>4, ErrandIs DEF Errands
  <2> HIDE DEF b
  <2>3. x \in Stages(Len(made')) /\ FitBuild(x, Empty)
    BY <1>2, <2>1, <2>2, StageIs, PcMoves
  <2> HIDE DEF x
  <2>4. /\ build \in [Builds -> Stages(Len(made'))]
        /\ \A c \in Builds : FitBuild(build[c], Empty)
    BY <1>2, <2>1, BuildsFit
  <2>5. /\ build' \in [Builds -> Stages(Len(made'))]
        /\ \A c \in Builds : FitBuild(build'[c], Empty)
    BY <1>4, <2>2, <2>3, <2>4, OneStage
  <2>6. ASSUME NEW t \in Slots
        PROVE  call'[t] \in Errands(Len(made')) /\ FitCall(call'[t], Empty)
    <3>1. PICK z \in Errands(Len(made)) : z = call[t] /\ FitCall(z, Empty)
      BY ErrandIs
    <3>2. \/ call'[t] = Free \/ call'[t] = z
          \/ call'[t] = [z EXCEPT !.owner = None]
      BY <1>4, <3>1
    <3>3. /\ [z EXCEPT !.owner = None] \in Errands(Len(made))
          /\ FitCall([z EXCEPT !.owner = None], Empty)
      BY <3>1 DEF Errands, FitCall
    <3> QED
      BY <1>2, <2>1, <3>1, <3>2, <3>3
  <2>7. call' \in [Slots -> Errands(Len(made'))]
    <3>1. call' = [t \in Slots |-> call'[t]]
      BY <1>4
    <3> QED
      BY <2>6, <3>1
  <2>8. Rest
    BY <1>1, RestStays
  <2> QED
    BY <1>1, <2>5, <2>6, <2>7, <2>8, KeepsQuiet DEF Rest
<1> QED
  BY <1>3, <1>4 DEF CallReturns

-----------------------------------------------------------------------------
LEMMA AgenticStart == AgenticInit => AgenticInv
<1> SUFFICES ASSUME AgenticInit PROVE AgenticInv
  OBVIOUS
<1>1. /\ made = << >> /\ kept = Empty /\ gone = {} /\ missed = {} /\ Len(made) = 0
      /\ build = [b \in Builds |-> Resting] /\ call = [s \in Slots |-> Free]
  BY DEF AgenticInit
<1>2. /\ Resting.asked = 0 /\ Resting.copy = Empty /\ Resting.pc = "idle"
      /\ Free.of = 0 /\ Free.copy = Empty
  BY DEF Resting, Free
<1>3. Resting \in Stages(0) /\ Free \in Errands(0) /\ Empty \in Talks(0)
  BY RestingFits, EmptyIsTalk
<1>4. AgenticTypes
  <2>1. build \in [Builds -> Stages(0)] /\ call \in [Slots -> Errands(0)]
    BY <1>1, <1>3
  <2>2. /\ unsaid \subseteq Requests /\ pending \subseteq Requests \ unsaid
        /\ mvp \in BOOLEAN /\ troubled \in BOOLEAN /\ promise \in Builds \union {None}
    BY DEF AgenticInit
  <2>3. made \in Seq(Said) /\ Len(made) \in Nat
    BY <1>1
  <2>4. kept \in Talks(Len(made)) /\ gone \subseteq 1 .. Len(made) /\ missed \subseteq 1 .. Len(made)
    BY <1>1, <1>3
  <2> QED
    BY <1>1, <2>1, <2>2, <2>3, <2>4 DEF AgenticTypes
<1>5. Current = {Empty} /\ Open = {}
  BY <1>1, <1>2 DEF Current, Copies, Open
<1>6. Sound(Empty, {})
  BY <1>1 DEF Sound, Faithful, Matched, Empty
<1>7. Named /\ \A b \in Builds : Able(build[b])
  BY <1>1, <1>2 DEF Named, Able
<1> QED
  BY <1>4, <1>5, <1>6, <1>7 DEF AgenticInv

LEMMA AgenticStep == AgenticInv /\ [AgenticNext]_agenticVars => AgenticInv'
<1> SUFFICES ASSUME AgenticInv, [AgenticNext]_agenticVars PROVE AgenticInv'
  OBVIOUS
<1>1. ASSUME NEW b \in Builds,
             Works(b) \/ RateLimited(b) \/ InferFails(b) \/ Repetition(b)
      PROVE  AgenticInv'
  BY <1>1, AttemptKeeps, RespondsKeeps, ThrowsKeeps, AnswerKeeps, StartCallsKeeps, RecurKeeps,
     TooDeepKeeps, FinalKeeps, SummarizedKeeps, EndAttemptKeeps, CloseKeeps, InferFailsKeeps
     DEF Works
<1>2. ASSUME NEW s \in Slots, Runs(s) PROVE AgenticInv'
  BY <1>2, CallFailsKeeps, CallMarksKeeps, CallTellsKeeps, CallSummarizedKeeps, CallReturnsKeeps
     DEF Runs
<1>3. CASE UNCHANGED agenticVars
  <2>1. /\ UNCHANGED <<unsaid, pending, mvp, promise, troubled>>
        /\ UNCHANGED <<build, call>> /\ UNCHANGED conversation
    BY <1>3, Zenon DEF agenticVars
  <2>2. Len(made) \in Nat /\ made' = made /\ Len(made) <= Len(made)
    BY <2>1 DEF AgenticInv, AgenticTypes, conversation
  <2>3. /\ build' \in [Builds -> Stages(Len(made'))]
        /\ \A c \in Builds : FitBuild(build'[c], Empty)
        /\ call' \in [Slots -> Errands(Len(made'))]
        /\ \A s \in Slots : FitCall(call'[s], Empty)
    BY <2>1, <2>2, BuildsFit
  <2> QED
    BY <2>1, <2>3, RestStays, KeepsQuiet DEF Rest
<1> QED
  BY <1>1, <1>2, <1>3, UserSaysKeeps, StartKeeps, StopKeeps, ClearKeeps, EvictKeeps
     DEF AgenticNext

LEMMA AgenticInvariant == AgenticSpec => []AgenticInv
  BY AgenticStart, AgenticStep, PTL DEF AgenticSpec

(* For any number of builds, calls, requests and compactions, what is      *)
(* stored and what is about to be written back are conversations of        *)
(* messages that were added, and no inference exceeds its depth or its     *)
(* attempts.                                                               *)
THEOREM AgenticTypeCorrect == AgenticSpec => []AgenticTypeOK
<1>1. ASSUME AgenticInv PROVE AgenticTypeOK
  <2>1. AgenticTypes
    BY <1>1 DEF AgenticInv
  <2>2. Talks(Len(made)) = Conversations /\ 0 .. Len(made) = {0} \union Messages
    BY <2>1 DEF Talks, Conversations, Messages, AgenticTypes
  <2>3. build \in [Builds ->
         [pc : {"idle", "template", "infer", "stream", "answered", "tools", "final", "ending",
                "closing"},
          linked : BOOLEAN, aborted : BOOLEAN, cut : BOOLEAN, depth : 0 .. MaxDepth,
          tries : 0 .. Retries, asked : {0} \union Messages, marked : BOOLEAN,
          copy : Conversations]]
    BY <2>1, <2>2 DEF AgenticTypes, Stages
  <2>4. call \in [Slots -> [pc : {"free", "runs", "told"}, owner : Builds \union {None},
                           of : {0} \union Messages, marks : BOOLEAN, copy : Conversations]]
    BY <2>1, <2>2 DEF AgenticTypes, Errands
  <2> QED
    BY <2>1, <2>2, <2>3, <2>4 DEF AgenticTypes, AgenticTypeOK, Messages, Said
<1> QED
  BY <1>1, AgenticInvariant, PTL

(* However builds, tool calls, compactions, clears and evictions overlap,  *)
(* no message is lost from the conversation and none that was cleared      *)
(* comes back, but those added or cleared while a summary was made.        *)
THEOREM ConversationIsKept == AgenticSpec => []ConversationKept
<1>1. ASSUME AgenticInv PROVE ConversationKept
  <2>1. Faithful(kept)
    BY <1>1 DEF AgenticInv, Current, Sound
  <2> QED
    BY <2>1 DEF Faithful, ConversationKept, Messages
<1> QED
  BY <1>1, AgenticInvariant, PTL

(* The result of a tool call is shown with the answer that asked for it,   *)
(* unless that was cleared or missed by a summary, or a user has spoken    *)
(* between the two.                                                        *)
THEOREM ResultsHaveTheirCall == AgenticSpec => []NoOrphans
<1>1. ASSUME AgenticInv PROVE NoOrphans
  <2>1. Matched(kept)
    BY <1>1 DEF AgenticInv, Current, Sound
  <2>2. ASSUME NEW m \in kept.running \ missed, made[m].kind = "tool"
        PROVE  \/ made[m].of \in kept.running \union gone \union missed
               \/ Between(made[m].of, m) # {}
    <3>1. Shown(kept, made[m].of, m)
      BY <2>1, <2>2 DEF Matched
    <3> QED
      BY <3>1 DEF Shown, Between
  <2> QED
    BY <2>2 DEF NoOrphans
<1> QED
  BY <1>1, AgenticInvariant, PTL

=============================================================================
