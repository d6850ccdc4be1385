---------------------------- MODULE ToolSchedule ----------------------------
(* What executing the tool calls of one answer of the model promises: each *)
(* call runs at most once, a call starts only when every earlier call it   *)
(* conflicts with has ended, and every call is run to its end unless one   *)
(* of them breaks the batch.                                               *)
EXTENDS ToolResources

CONSTANT Batches   \* the answers: sequences of [tool, paths, known, parses]

ASSUME BatchesAssumption ==
    \A batch \in Batches :
        /\ batch \in Seq([tool: STRING, paths: SUBSET Paths, known: BOOLEAN, parses: BOOLEAN])
        /\ Len(batch) > 0

VARIABLES calls,   \* the calls, in the order of the answer
          run      \* how far each of them is

scheduleVars == <<calls, run>>

Positions == 1..Len(calls)

Progress == {"waiting", "running", "ended", "broken"}

Broken == \E i \in Positions : run[i] = "broken"

(* A call of an unknown tool, or with arguments that do not parse, runs no *)
(* tool and need not wait for any.                                         *)
RunsTool(call) == call.known /\ call.parses

Calls == UNION {Range(batch) : batch \in Batches}

Exclusive ==
    {pair \in Calls \X Calls :
        /\ RunsTool(pair[1]) /\ RunsTool(pair[2])
        /\ HasResourceConflict(ExtractResources(pair[1]), ExtractResources(pair[2]))}

Before(i) == {j \in Positions : j < i /\ <<calls[j], calls[i]>> \in Exclusive}

ScheduleInit ==
    /\ calls \in Batches
    /\ run = [i \in Positions |-> "waiting"]

Starts(i) ==
    /\ ~Broken
    /\ run[i] = "waiting"
    /\ run'[i] \in {"running", "broken"}
    /\ \A j \in Before(i) : run[j] = "ended"

Ends(i) == run[i] = "running" /\ run'[i] \in {"ended", "broken"}

ScheduleNext ==
    /\ calls' = calls
    /\ run' \in [Positions -> Progress]
    /\ \A i \in Positions : run'[i] # run[i] => Starts(i) \/ Ends(i)

ScheduleSpec ==
    /\ ScheduleInit
    /\ [][ScheduleNext]_scheduleVars
    /\ <>(Broken \/ \A i \in Positions : run[i] = "ended")

=============================================================================
