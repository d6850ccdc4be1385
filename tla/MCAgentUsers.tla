----------------------------- MODULE MCAgentUsers -----------------------------
(* Two instances of PhasicAgent in one graph, told apart by users: users   *)
(* who talk to the agent only while it is at rest, and a page that starts, *)
(* stops and resumes runs over failures and evictions.                     *)
EXTENDS PhasicAgent

VARIABLE users

TalkOnly == {"talk"}

Page == INSTANCE PhasicAgent
            WITH Turns <- {}, MaxPhases <- 2, Recharge <- 1,
                 Messages <- {"generate", "stop"}, DuringGeneration <- TRUE,
                 MaxRequests <- 0, MaxFailures <- 1, MaxCrashes <- 2

MCInit ==
    \/ users = "talkers" /\ Init
    \/ users = "page" /\ Page!Init

MCNext ==
    /\ users' = users
    /\ \/ users = "talkers" /\ Next
       \/ users = "page" /\ Page!Next

MCFairness ==
    /\ WF_vars(IF users = "talkers" THEN Run ELSE Page!Run)
    /\ \A t \in Turns : WF_vars(users = "talkers" /\ Chat(t))
    /\ WF_vars(IF users = "talkers" THEN Reconnect ELSE Page!Reconnect)

MCSpec == MCInit /\ [][MCNext]_<<vars, users>> /\ MCFairness

=============================================================================
