---------------------------- MODULE AgenticBuild ----------------------------
(***************************************************************************)
(* The agentic behaviour: a build asks a model again and again, each       *)
(* answer may call tools, and what is said is kept in a conversation that  *)
(* is compacted now and then.  User messages are queued and fetched by the *)
(* next attempt of a build.                                                *)
(*                                                                         *)
(* executeGeneration's finally block clears generationPromise while        *)
(* build() goes on, so that builds may overlap.  A call that is under way  *)
(* when its chain is aborted runs on.  Compaction reads the conversation,  *)
(* waits for a summary, and writes back what it has read.                  *)
(*                                                                         *)
(* Messages are numbered in the order in which they are added; those after *)
(* the first MaxMessages are not followed.                                 *)
(***************************************************************************)
EXTENDS Integers, Sequences, FiniteSets, FiniteSetsExt

CONSTANTS
    Requests,        \* what users say
    MaxBuilds,       \* bound on the builds that are under way at once
    MaxCalls,        \* bound on the tool calls that are under way at once
    MaxDepth,        \* the tool calling depth of an inference
    Retries,         \* retryLimit of executeInference
    Keep,            \* PRESERVE_RECENT_MESSAGES
    MaxMessages,     \* bound on the messages that are followed
    MaxCompactions,  \* bound on compactions that summarize something
    MaxEvents        \* bound on clicks, failures, repetitions and evictions

Builds == 1 .. MaxBuilds
Slots == 1 .. MaxCalls
None == 0   \* no build

ASSUME AgenticAssumption ==
    /\ MaxBuilds \in Nat \ {0} /\ MaxCalls \in Nat \ {0}
    /\ MaxDepth \in Nat \ {0} /\ Retries \in Nat \ {0} /\ Keep \in Nat \ {0}
    /\ {MaxMessages, MaxCompactions, MaxEvents} \subseteq Nat

VARIABLES
    unsaid,      \* the requests nobody has made yet
    pending,     \* pendingUserInputs
    mvp,         \* mvpGenerated
    promise,     \* generationPromise: the build it stands for, or None
    build,       \* where each build stands
    call,        \* the tool calls under way
    made,        \* history: the messages added to the conversation
    kept,        \* the conversation as stored
    gone,        \* history: the messages cleared by the user
    missed,      \* history: messages added or cleared while a summary was made
    troubled,    \* history: a build was stopped, has failed or was evicted
    compactions, events

counters == <<compactions, events>>
conversation == <<made, kept, gone, missed>>
agenticVars == <<unsaid, pending, mvp, promise, build, call, conversation,
                 troubled, counters>>

(* A conversation: fullHistory, and runningHistory as the messages in it   *)
(* after a summary of others.                                              *)
Empty == [full |-> {}, running |-> {}, summed |-> {}]

(* An inference is linked to currentAbortController, and cancelled when    *)
(* that is aborted; cut is its own controller, aborted by repetition.      *)
Resting == [pc |-> "idle", linked |-> FALSE, aborted |-> FALSE, cut |-> FALSE,
            depth |-> 0, tries |-> 0, asked |-> 0, marked |-> FALSE, copy |-> Empty]

Free == [pc |-> "free", owner |-> None, of |-> 0, marks |-> FALSE, copy |-> Empty]

AgenticInit ==
    /\ unsaid = Requests
    /\ pending = {}
    /\ mvp = FALSE
    /\ promise = None
    /\ build = [b \in Builds |-> Resting]
    /\ call = [s \in Slots |-> Free]
    /\ made = << >> /\ kept = Empty /\ gone = {} /\ missed = {}
    /\ troubled = FALSE
    /\ compactions = 0 /\ events = 0

Event == events < MaxEvents /\ events' = events + 1

Summarizing ==
    \/ \E b \in Builds : build[b].copy # Empty
    \/ \E s \in Slots : call[s].copy # Empty

-----------------------------------------------------------------------------
(* The conversation.                                                       *)

(* addConversationMessage. *)
Adds(kind, of) ==
    IF Len(made) < MaxMessages
    THEN LET m == Len(made) + 1
         IN  /\ made' = Append(made, [kind |-> kind, of |-> of])
             /\ kept' = [kept EXCEPT !.full = @ \union {m}, !.running = @ \union {m}]
             /\ missed' = IF Summarizing THEN missed \union {m} ELSE missed
             /\ UNCHANGED gone
    ELSE UNCHANGED conversation

(* findTurnBoundary: the last user message before the recent ones.         *)
Size(c) == Cardinality(c.running) + IF c.summed = {} THEN 0 ELSE 1
After(c, m) == Cardinality({n \in c.running : n >= m})

(* Mutant of Boundaries: any message may be the first of the recent ones. *)
BoundariesAnywhere(c) == {m \in c.running : After(c, m) >= Keep}

Boundaries(c) == {m \in c.running : made'[m].kind = "user" /\ After(c, m) >= Keep}

(* Mutant of Compacted: the full history is compacted as well. *)
CompactedBoth(c) ==
    LET first == Max(Boundaries(c))
        recent == {m \in c.running : m >= first}
    IN  [full |-> recent, running |-> recent,
         summed |-> c.summed \union (c.running \ recent)]

(* What compactifyIfNeeded will write, with fullHistory as it was read.    *)
Compacted(c) ==
    LET first == Max(Boundaries(c))
        recent == {m \in c.running : m >= first}
    IN  [c EXCEPT !.running = recent, !.summed = @ \union (c.running \ recent)]

(* It is written only when it is shorter than what was read.               *)
Shortens(c) ==
    /\ Boundaries(c) # {}
    /\ Size(Compacted(c)) < Size(c)

(* After a message, now and then: no summary, or the start of one.         *)
CompactsOrNot(copy) ==
    \/ copy = Empty /\ UNCHANGED compactions
    \/ /\ compactions < MaxCompactions /\ compactions' = compactions + 1
       /\ Shortens(kept')
       /\ copy = Compacted(kept')

-----------------------------------------------------------------------------
(* The loop of a build.                                                    *)

FreeBuilds == {b \in Builds : build[b].pc = "idle"}

(* generateAllFiles, from the page or a message of a user. *)
LaunchBuild ==
    /\ FreeBuilds # {}
    /\ promise' = Min(FreeBuilds)
    /\ build' = [build EXCEPT ![promise'].pc = "template"]

(* executeGeneration up to the first request: the queue is fetched, and    *)
(* the conversation so far is the prompt.                                  *)
Begins(b) ==
    /\ pending' = {}
    /\ IF pending # {} THEN Adds("user", 0) ELSE UNCHANGED conversation

Inferring == [Resting EXCEPT !.pc = "infer", !.linked = TRUE]

Attempt(b) ==
    /\ build[b].pc = "template"
    /\ Begins(b)
    /\ build' = [build EXCEPT ![b] = Inferring]
    /\ UNCHANGED <<unsaid, mvp, promise, call, troubled, counters>>

Unlinked == [c \in Builds |-> [build[c] EXCEPT !.linked = FALSE]]

(* Mutant of More: the loop is over when the project is complete. *)
MoreUntilComplete == ~mvp

More == ~mvp \/ pending # {}

(* The finally block, and the head of build()'s loop. *)
EndAttempt(b) ==
    /\ build[b].pc = "ending" /\ build[b].copy = Empty
    /\ promise' = None
    /\ IF More
       THEN Begins(b) /\ build' = [Unlinked EXCEPT ![b] = Inferring]
       ELSE /\ build' = [Unlinked EXCEPT ![b] = [Resting EXCEPT !.pc = "closing"]]
            /\ UNCHANGED <<pending, conversation>>
    /\ UNCHANGED <<unsaid, mvp, call, troubled, counters>>

(* The attempt throws: the build is closed, with requests that may wait.   *)
Throws(b) ==
    /\ promise' = None
    /\ build' = [Unlinked EXCEPT ![b] = [Resting EXCEPT !.pc = "closing"]]
    /\ troubled' = TRUE
    /\ UNCHANGED <<unsaid, pending, mvp, call, conversation, compactions>>

(* buildWrapper's finally block, after updateApp. *)
Close(b) ==
    /\ build[b].pc = "closing"
    /\ promise' = None
    /\ build' = [build EXCEPT ![b] = Resting]
    /\ UNCHANGED <<unsaid, pending, mvp, call, conversation, troubled, counters>>

-----------------------------------------------------------------------------
(* An inference.                                                           *)

(* The model begins to answer. *)
Responds(b) ==
    /\ build[b].pc = "infer" /\ build[b].depth < MaxDepth
    /\ ~build[b].aborted /\ ~build[b].cut
    /\ build' = [build EXCEPT ![b].pc = "stream"]
    /\ UNCHANGED <<unsaid, pending, mvp, promise, call, conversation, troubled, counters>>

(* A request with an aborted signal throws, which is not retried. *)
Cancelled(b) ==
    /\ build[b].pc = "infer" /\ build[b].depth < MaxDepth
    /\ build[b].aborted \/ build[b].cut
    /\ Throws(b)
    /\ UNCHANGED events

(* A rate limit is thrown on as well. *)
RateLimited(b) ==
    /\ build[b].pc = "infer" /\ build[b].depth < MaxDepth
    /\ Event
    /\ Throws(b)

(* Another failure: the whole inference is tried again, from its prompt.   *)
(* After the last attempt the answer is nothing.                           *)
Retried(b, cut) ==
    build' = [build EXCEPT
        ![b].tries = @ + 1, ![b].depth = 0, ![b].cut = @ \/ cut,
        ![b].pc = IF build[b].tries + 1 < Retries THEN "infer" ELSE "final"]

InferFails(b) ==
    /\ \/ build[b].pc = "stream"
       \/ build[b].pc = "infer" /\ build[b].depth < MaxDepth
    /\ Event
    /\ Retried(b, FALSE)
    /\ UNCHANGED <<unsaid, pending, mvp, promise, call, conversation, troubled, compactions>>

(* Repeated text aborts the operation's own controller and throws. *)
Repetition(b) ==
    /\ build[b].pc = "stream"
    /\ Event
    /\ Retried(b, TRUE)
    /\ UNCHANGED <<unsaid, pending, mvp, promise, call, conversation, troubled, compactions>>

(* The answer, which an abort may have cut short, is added.                *)
Answer(b) ==
    /\ build[b].pc = "stream"
    /\ Adds("assistant", 0)
    /\ \E copy \in {Empty} \union (IF Shortens(kept') THEN {Compacted(kept')} ELSE {}) :
        /\ CompactsOrNot(copy)
        /\ build' = [build EXCEPT ![b].pc = "answered", ![b].copy = copy,
                                  ![b].asked = IF made' = made THEN 0 ELSE Len(made')]
    /\ UNCHANGED <<unsaid, pending, mvp, promise, call, troubled, events>>

Starting == {used \in SUBSET Slots : \A s \in used : \A t \in 1 .. s :
                call[t].pc = "free" <=> t \in used}

(* Its tool calls start; without one the attempt is over. *)
StartCalls(b) ==
    /\ build[b].pc = "answered" /\ build[b].copy = Empty
    /\ \E used \in Starting : \E marks \in {{}, used \intersect {Max(used \union {1})}} :
        /\ call' = [s \in Slots |->
                      IF s \in used
                      THEN [Free EXCEPT !.pc = "runs", !.owner = b, !.of = build[b].asked,
                                        !.marks = s \in marks]
                      ELSE call[s]]
        /\ build' = [build EXCEPT ![b].pc = IF used = {} THEN "final" ELSE "tools",
                                  ![b].asked = 0,
                                  ![b].depth = IF used = {} THEN @ ELSE @ + 1]
    /\ UNCHANGED <<unsaid, pending, mvp, promise, conversation, troubled, counters>>

(* All calls have ended: the model is asked again, unless it has marked    *)
(* the project complete.                                                   *)
Recur(b) ==
    /\ build[b].pc = "tools"
    /\ \A s \in Slots : call[s].owner # b
    /\ build' = [build EXCEPT ![b].pc = IF build[b].marked THEN "final" ELSE "infer"]
    /\ UNCHANGED <<unsaid, pending, mvp, promise, call, conversation, troubled, counters>>

(* At the depth limit the inference is answered. *)
TooDeep(b) ==
    /\ build[b].pc = "infer" /\ build[b].depth >= MaxDepth
    /\ build' = [build EXCEPT ![b].pc = "final"]
    /\ UNCHANGED <<unsaid, pending, mvp, promise, call, conversation, troubled, counters>>

(* The compaction at the end of an attempt. *)
Final(b) ==
    /\ build[b].pc = "final"
    /\ UNCHANGED conversation
    /\ \E copy \in {Empty} \union (IF Shortens(kept) THEN {Compacted(kept)} ELSE {}) :
        /\ CompactsOrNot(copy)
        /\ build' = [build EXCEPT ![b] = [Resting EXCEPT !.pc = "ending", !.copy = copy]]
    /\ UNCHANGED <<unsaid, pending, mvp, promise, call, troubled, events>>

(* A summary is there, and is written with what was read before it.        *)
Summarized(b) ==
    /\ build[b].copy # Empty
    /\ kept' = build[b].copy
    /\ build' = [build EXCEPT ![b].copy = Empty]
    /\ UNCHANGED <<unsaid, pending, mvp, promise, call, made, gone, missed, troubled, counters>>

-----------------------------------------------------------------------------
(* A tool call.                                                            *)

(* It fails: the model is told, the conversation is not. *)
CallFails(s) ==
    /\ call[s].pc = "runs"
    /\ call' = [call EXCEPT ![s] = Free]
    /\ UNCHANGED <<unsaid, pending, mvp, promise, build, conversation, troubled, counters>>

(* mark_generation_complete, which has no onComplete. *)
CallMarks(s) ==
    /\ call[s].pc = "runs" /\ call[s].marks
    /\ mvp' = TRUE
    /\ call' = [call EXCEPT ![s] = Free]
    /\ build' = [b \in Builds |->
                   IF b = call[s].owner THEN [build[b] EXCEPT !.marked = TRUE] ELSE build[b]]
    /\ UNCHANGED <<unsaid, pending, promise, conversation, troubled, counters>>

(* onToolComplete: the result is added. *)
CallTells(s) ==
    /\ call[s].pc = "runs" /\ ~call[s].marks
    /\ IF call[s].of = 0 THEN UNCHANGED conversation ELSE Adds("tool", call[s].of)
    /\ \E copy \in {Empty} \union (IF Shortens(kept') THEN {Compacted(kept')} ELSE {}) :
        /\ CompactsOrNot(copy)
        /\ call' = [call EXCEPT ![s].pc = "told", ![s].of = 0, ![s].copy = copy]
    /\ UNCHANGED <<unsaid, pending, mvp, promise, build, troubled, events>>

CallSummarized(s) ==
    /\ call[s].copy # Empty
    /\ kept' = call[s].copy
    /\ call' = [call EXCEPT ![s].copy = Empty]
    /\ UNCHANGED <<unsaid, pending, mvp, promise, build, made, gone, missed, troubled, counters>>

(* When requests are queued the chain is aborted: the attempt is over, and *)
(* the other calls of the answer run on for nobody.                        *)
CallReturns(s) ==
    LET b == call[s].owner
    IN  /\ call[s].pc = "told" /\ call[s].copy = Empty
        /\ IF pending = {} \/ b = None
           THEN call' = [call EXCEPT ![s] = Free] /\ UNCHANGED build
           ELSE /\ call' = [t \in Slots |->
                              IF t = s THEN Free
                              ELSE IF call[t].owner = b THEN [call[t] EXCEPT !.owner = None]
                              ELSE call[t]]
                /\ build' = [build EXCEPT ![b].pc = "final"]
        /\ UNCHANGED <<unsaid, pending, mvp, promise, conversation, troubled, counters>>

-----------------------------------------------------------------------------
(* Users, and the end of a Durable Object.                                 *)

(* handleUserInput: the request is queued, and a build started unless one  *)
(* is said to run.                                                         *)
UserSays(r) ==
    /\ r \in unsaid
    /\ unsaid' = unsaid \ {r}
    /\ pending' = pending \union {r}
    /\ IF promise = None THEN LaunchBuild
       ELSE UNCHANGED <<promise, build>>
    /\ UNCHANGED <<mvp, call, conversation, troubled, counters>>

(* GENERATE_ALL or RESUME_GENERATION. *)
Start ==
    /\ Event
    /\ promise = None /\ More
    /\ LaunchBuild
    /\ UNCHANGED <<unsaid, pending, mvp, call, conversation, troubled, compactions>>

(* STOP_GENERATION: cancelCurrentInference. *)
Stop ==
    /\ Event
    /\ build' = [b \in Builds |-> IF build[b].linked
                                  THEN [build[b] EXCEPT !.linked = FALSE, !.aborted = TRUE]
                                  ELSE build[b]]
    /\ troubled' = TRUE
    /\ UNCHANGED <<unsaid, pending, mvp, promise, call, conversation, compactions>>

(* CLEAR_CONVERSATION. *)
Clear ==
    /\ Event
    /\ made # << >>
    /\ kept' = Empty
    /\ gone' = 1 .. Len(made)
    /\ missed' = IF Summarizing THEN 1 .. Len(made) ELSE missed
    /\ UNCHANGED <<unsaid, pending, mvp, promise, build, call, made, troubled, compactions>>

Evict ==
    /\ Event
    /\ FreeBuilds # Builds
    /\ promise' = None
    /\ build' = [b \in Builds |-> Resting]
    /\ call' = [s \in Slots |-> Free]
    /\ troubled' = TRUE
    /\ UNCHANGED <<unsaid, pending, mvp, conversation, compactions>>

-----------------------------------------------------------------------------
Works(b) ==
    \/ Attempt(b) \/ Responds(b) \/ Cancelled(b) \/ Answer(b) \/ StartCalls(b) \/ Recur(b)
    \/ TooDeep(b) \/ Final(b) \/ Summarized(b) \/ EndAttempt(b) \/ Close(b)

Runs(s) ==
    CallFails(s) \/ CallMarks(s) \/ CallTells(s) \/ CallSummarized(s) \/ CallReturns(s)

AgenticNext ==
    \/ \E b \in Builds : Works(b) \/ RateLimited(b) \/ InferFails(b) \/ Repetition(b)
    \/ \E s \in Slots : Runs(s)
    \/ \E r \in Requests : UserSays(r)
    \/ Start \/ Stop \/ Clear \/ Evict

(* Timers and promises are served; models and tools answer in the end.     *)
AgenticFairness ==
    /\ WF_agenticVars(\E b \in Builds : Works(b))
    /\ WF_agenticVars(\E s \in Slots : Runs(s))

AgenticSpec == AgenticInit /\ [][AgenticNext]_agenticVars /\ AgenticFairness

-----------------------------------------------------------------------------
(* Properties.                                                             *)

Messages == 1 .. Len(made)
Conversations == [full : SUBSET Messages, running : SUBSET Messages, summed : SUBSET Messages]

(* What is stored and what is about to be written are conversations of     *)
(* messages that were added, and every call belongs to an answer.          *)
AgenticTypeOK ==
    /\ unsaid \subseteq Requests /\ pending \subseteq Requests \ unsaid
    /\ mvp \in BOOLEAN /\ troubled \in BOOLEAN
    /\ promise \in Builds \union {None}
    /\ build \in [Builds ->
         [pc : {"idle", "template", "infer", "stream", "answered", "tools", "final", "ending",
                "closing"},
          linked : BOOLEAN, aborted : BOOLEAN, cut : BOOLEAN, depth : 0 .. MaxDepth,
          tries : 0 .. Retries, asked : {0} \union Messages, marked : BOOLEAN,
          copy : Conversations]]
    /\ call \in [Slots -> [pc : {"free", "runs", "told"}, owner : Builds \union {None},
                           of : {0} \union Messages, marks : BOOLEAN, copy : Conversations]]
    /\ made \in Seq([kind : {"user", "assistant", "tool"}, of : Nat])
    /\ kept \in Conversations
    /\ gone \subseteq Messages /\ missed \subseteq Messages

(* No message is lost from the full history, or from what the model is     *)
(* shown, and none that was cleared comes back, except for what happened   *)
(* while a summary was made.                                               *)
ConversationKept ==
    \A m \in Messages \ missed :
        IF m \in gone THEN m \notin kept.full \union kept.running \union kept.summed
        ELSE m \in kept.full /\ m \in kept.running \union kept.summed

Between(m, n) == {u \in m .. n : made[u].kind = "user"}

(* The result of a call is shown to the model with the call it answers,    *)
(* unless the call was cleared or the result was added after the next      *)
(* message of a user.                                                      *)
NoOrphans ==
    \A m \in kept.running \ missed :
        made[m].kind = "tool" =>
            \/ made[m].of \in kept.running \union gone \union missed
            \/ Between(made[m].of, m) # {}

(* When no build is under way no request waits, unless a build was         *)
(* stopped, failed or was evicted.                                         *)
ServedAtRest == FreeBuilds = Builds /\ ~troubled => pending = {}

(* A request is given to a model in the end, unless a build was stopped,   *)
(* failed or was evicted.                                                  *)
RequestsFetched == \A r \in Requests : r \in pending ~> (r \notin pending \/ troubled)

-----------------------------------------------------------------------------
(* Not true of the code.                                                   *)

(* "Code generation already in progress" (base.ts:446): there is one build *)
(* at a time.                                                              *)
OneBuild == Cardinality({b \in Builds : build[b].pc \notin {"idle", "closing"}}) <= 1

(* "store the full conversation in a separate DO table"                    *)
(* (codingAgent.ts:468): no message is lost from it.                       *)
FullIsFull == Messages \ gone \subseteq kept.full

(* "Throw InferError to trigger retry logic in executeInference"           *)
(* (operations/common.ts:221): an inference that repeated itself and was   *)
(* not stopped is not given up.                                            *)
RepetitionRetried ==
    [][\A b \in Builds :
        (build[b].pc = "infer" /\ build[b].cut /\ ~build[b].aborted)
            => build'[b].pc # "closing"]_agenticVars

=============================================================================
