----------------------------- MODULE ToolCalls -----------------------------
(* The tool calls of one answer of a model: buildExecutionPlan sorts them  *)
(* into groups by the resources they declare, and                          *)
(* executeToolCallsWithDependencies runs the groups one after the other,   *)
(* the calls of a group in parallel (inferutils/toolExecution.ts). A user  *)
(* message that waits when a call completes breaks the chain               *)
(* (agentic.ts:341), and infer answers without results (core.ts:1077).     *)
EXTENDS ToolSchedule

CONSTANT Repeats   \* TRUE: two calls of one answer may have the same id

ASSUME RepeatsAssumption == Repeats \in BOOLEAN

VARIABLES
    ids,       \* the id of each call
    plan,      \* the groups, sets of positions
    planned,   \* the ids in the plan so far
    next,      \* groups started
    answer,    \* "planning", "running", "results", "aborted" or "failed"
    told,      \* the calls whose result was added to the conversation
    queued     \* pendingUserInputs is not empty

planVars == <<calls, ids, plan, planned>>
vars == <<calls, run, ids, plan, planned, next, answer, told, queued>>

-----------------------------------------------------------------------------
Init ==
    /\ ScheduleInit
    /\ IF Repeats THEN ids \in [Positions -> Positions]
       ELSE ids = [i \in Positions |-> i]
    /\ plan = << >>
    /\ planned = {}
    /\ next = 0
    /\ answer = "planning"
    /\ told = {}
    /\ queued = FALSE

(* The resources of a call: none for arguments that do not parse.          *)
Declared(call) == IF call.parses THEN ExtractResources(call) ELSE Nothing

Clashes ==
    {pair \in Calls \X Calls : HasResourceConflict(Declared(pair[1]), Declared(pair[2]))}

(* toolCallResources is keyed by id: the last call with an id is kept, and *)
(* a tool that is not defined has no entry.                                *)
Known(id) == {i \in Positions : ids[i] = id /\ calls[i].known}
Holder(id) == Max(Known(id))

(* A later call depends on an earlier one it conflicts with.               *)
Conflicting(i, j) ==
    /\ ids[i] # ids[j]
    /\ Known(ids[i]) # {} /\ Known(ids[j]) # {}
    /\ <<calls[Holder(ids[i])], calls[Holder(ids[j])]>> \in Clashes

(* Mutant of DependsOn: the earlier call depends on the later one. *)
DependsOnLater(id) ==
    {ids[j] : j \in {k \in Positions :
        \E i \in Positions : ids[i] = id /\ k > i /\ Conflicting(i, k)}}

DependsOn(id) ==
    {ids[j] : j \in {k \in Positions :
        \E i \in Positions : ids[i] = id /\ k < i /\ Conflicting(i, k)}}

Unplanned == {i \in Positions : ids[i] \notin planned}
Ready == {i \in Unplanned : DependsOn(ids[i]) \subseteq planned}

(* Without a ready call the first call that is left is taken.              *)
NextGroup == LET ready == Ready
             IN  IF ready # {} THEN ready
                 ELSE IF Unplanned # {} THEN {Min(Unplanned)} ELSE {}

(* One turn of the planning loop. When two calls share an id the loop goes *)
(* on for ever and appends empty groups, which are left out here.          *)
PlanGroup ==
    /\ answer = "planning"
    /\ Cardinality(planned) < Len(calls)
    /\ \E group \in {NextGroup} :
        /\ plan' = IF group = {} THEN plan ELSE Append(plan, group)
        /\ planned' = planned \union {ids[i] : i \in group}
    /\ UNCHANGED <<calls, ids, run, next, answer, told, queued>>

Planned ==
    /\ answer = "planning"
    /\ Cardinality(planned) = Len(calls)
    /\ answer' = "running"
    /\ UNCHANGED <<planVars, run, next, told, queued>>

-----------------------------------------------------------------------------
Settled == \A g \in 1..next : \A i \in plan[g] : run[i] = "ended"

(* Mutant of Launch: a group is started without waiting for the one before. *)
LaunchAtOnce ==
    /\ answer = "running"
    /\ next < Len(plan)
    /\ next' = next + 1
    /\ LET group == plan[next + 1]
       IN  /\ run' = [i \in Positions |->
                        IF i \notin group THEN run[i]
                        ELSE IF calls[i].known THEN "running" ELSE "broken"]
           /\ answer' = IF \E i \in group : ~calls[i].known THEN "failed" ELSE answer
    /\ UNCHANGED <<planVars, told, queued>>

(* Promise.all over a group: every call starts; one of an unknown tool     *)
(* throws at once, which the caller logs and answers without results.      *)
Launch ==
    /\ answer = "running"
    /\ next < Len(plan)
    /\ Settled
    /\ next' = next + 1
    /\ LET group == plan[next + 1]
       IN  /\ run' = [i \in Positions |->
                        IF i \notin group THEN run[i]
                        ELSE IF calls[i].known THEN "running" ELSE "broken"]
           /\ answer' = IF \E i \in group : ~calls[i].known THEN "failed" ELSE answer
    /\ UNCHANGED <<planVars, told, queued>>

Finish ==
    /\ answer = "running"
    /\ next = Len(plan)
    /\ Settled
    /\ answer' = "results"
    /\ UNCHANGED <<planVars, run, next, told, queued>>

(* executeSingleTool turns an error into a result; onComplete, which adds  *)
(* the result to the conversation, is not reached. Arguments that do not   *)
(* parse always end this way.                                              *)
Fails(i) ==
    /\ run[i] = "running"
    /\ run' = [run EXCEPT ![i] = "ended"]
    /\ UNCHANGED <<planVars, next, answer, told, queued>>

(* mark_generation_complete is added after withRenderer: it has no         *)
(* onComplete.                                                             *)
Rendered(i) == calls[i].tool # "mark_generation_complete"

Completes(i) ==
    /\ run[i] = "running"
    /\ calls[i].parses
    /\ ~(Rendered(i) /\ queued)
    /\ told' = IF Rendered(i) THEN told \union {i} ELSE told
    /\ run' = [run EXCEPT ![i] = "ended"]
    /\ UNCHANGED <<planVars, next, answer, queued>>

(* onToolComplete throws an AbortError when user messages are queued. The  *)
(* chain is answered at once; what else runs of the group runs on.         *)
Aborts(i) ==
    /\ run[i] = "running"
    /\ calls[i].parses
    /\ Rendered(i) /\ queued
    /\ told' = told \union {i}
    /\ run' = [run EXCEPT ![i] = "broken"]
    /\ answer' = IF answer = "running" THEN "aborted" ELSE answer
    /\ UNCHANGED <<planVars, next, queued>>

UserQueues ==
    /\ ~queued
    /\ queued' = TRUE
    /\ UNCHANGED <<planVars, run, next, answer, told>>

CallEnds(i) == Fails(i) \/ Completes(i) \/ Aborts(i)

Next ==
    \/ PlanGroup \/ Planned \/ Launch \/ Finish \/ UserQueues
    \/ \E i \in Positions : CallEnds(i)

(* The planner and the loop over the groups run on by themselves; that     *)
(* each tool ends is assumed of the tools.                                 *)
Fairness ==
    /\ WF_vars(PlanGroup \/ Planned \/ Launch \/ Finish)
    /\ WF_vars(\E i \in Positions : CallEnds(i))

Spec == Init /\ [][Next]_vars /\ Fairness

-----------------------------------------------------------------------------
(* The types of the variables.                                             *)
TypeOK ==
    /\ calls \in Batches
    /\ run \in [Positions -> Progress]
    /\ ids \in [Positions -> Positions]
    /\ \A g \in 1..Len(plan) : plan[g] \in (SUBSET Positions) \ {{}}
    /\ planned \subseteq Positions
    /\ next \in 0..Len(plan)
    /\ answer \in {"planning", "running", "results", "aborted", "failed"}
    /\ told \subseteq Positions
    /\ queued \in BOOLEAN

(* The plan is what its comment says (toolExecution.ts:9-17): every call   *)
(* is in one group, and of two calls that conflict the earlier one is in   *)
(* an earlier group.                                                       *)
GroupOf(i) == {g \in 1..Len(plan) : i \in plan[g]}

PlanIsSound ==
    answer # "planning" =>
        /\ \A i \in Positions : Cardinality(GroupOf(i)) = 1
        /\ \A i, j \in Positions :
            (j < i /\ Conflicting(i, j)) =>
                \A g \in GroupOf(i), h \in GroupOf(j) : h < g

(* Two calls that run at the same time do not touch the same file with one *)
(* of them changing it, unless one is of the tools that declare less than  *)
(* they do.                                                                *)
RunsNow(i) == run[i] = "running" /\ RunsTool(calls[i])

FilesKeptApart ==
    \A i, j \in Positions :
        (i # j /\ RunsNow(i) /\ RunsNow(j) /\ Interfere(calls[i], calls[j])) =>
            SaysLess(calls[i]) \/ SaysLess(calls[j])

(* A call whose result the conversation has is over, and results come only *)
(* of a batch in which every call has ended: no result is reported twice   *)
(* or before its time.                                                     *)
ResultsAreFinal ==
    /\ \A i \in told : run[i] \in {"ended", "broken"}
    /\ answer = "results" => \A i \in Positions : run[i] = "ended"

(* The calls of every answer are run to an end: the inference goes on with *)
(* results or without.                                                     *)
AnswerComes == <>(answer \notin {"planning", "running"})

(* What the execution promises to the model: the abstract schedule.        *)
Schedule == INSTANCE ToolSchedule

FollowsSchedule == Schedule!ScheduleSpec

-----------------------------------------------------------------------------
(* Not true of the code. The delete of virtual_filesystem declares a read  *)
(* (virtual-filesystem.ts:20), so that it runs together with a read or a   *)
(* commit of the same file.                                                *)
AllFilesKeptApart ==
    \A i, j \in Positions :
        (i # j /\ RunsNow(i) /\ RunsNow(j)) => ~Interfere(calls[i], calls[j])

(* Not true of the code. "Tool call was aborted, ending tool call chain    *)
(* with the latest tool call result" (core.ts:1079): executedToolCalls is  *)
(* still empty then, so the chain ends with the results of no call. It is  *)
(* stated as: no chain is aborted after a call of it has completed.        *)
AbortKeepsResults == answer = "aborted" => told = {}

(* Not true of the code. When the inference is answered its calls are      *)
(* over: after an abort or an unknown tool the rest of the group runs on,  *)
(* into the next inference.                                                *)
AnsweredAtRest ==
    answer \notin {"planning", "running"} => \A i \in Positions : run[i] # "running"

=============================================================================
