--------------------------- MODULE SpaceWorkspace ---------------------------
(***************************************************************************)
(* The workspace of a "think" project: SpaceDO with its ArtifactsBackend.  *)
(* Files live in an in-memory overlay over the tree of the last pushed     *)
(* commit; a debounced checkpoint in the object's SQL storage mirrors what *)
(* is written; commits are pushed to a remote, after which the checkpoint  *)
(* is cleared.  An eviction loses the memory: the overlay, the local git   *)
(* repository and whatever was not saved.                                  *)
(*                                                                         *)
(* A file's content is the number of the write that made it, 0 if there is *)
(* no file.  There is one branch, main.                                    *)
(***************************************************************************)
EXTENDS Integers, Sequences, FiniteSets

CONSTANTS
    Paths,
    Shared,             \* the paths written to while callers overlap (a bound)
    Clients,            \* how the callers behave, see client
    MaxWrites, MaxCalls, MaxCommits, MaxResets,
    MaxPushFailures,    \* pushes that fail for good, after their retries
    MaxFetchFailures    \* base loads that fail or time out

ASSUME SpaceAssumption ==
    /\ Shared \subseteq Paths
    /\ Clients \subseteq {"sequential", "concurrent"}
    /\ MaxWrites \in Nat /\ MaxCalls \in Nat /\ MaxCommits \in Nat /\ MaxResets \in Nat
    /\ MaxPushFailures \in Nat /\ MaxFetchFailures \in Nat

VARIABLES
    checkpoint,   \* durable: the rows of space_checkpoint, path -> content or Absent
    remote,       \* durable: the head of main at Artifacts, 0 before the first push
    known,        \* durable: artifacts:remoteUrl is stored
    deployed,     \* durable: the row of deployments, its commit and its files
    commits,      \* every commit object ever made: its tree and its ancestors
    mem,          \* the in-memory workspace and repository
    up,           \* ensureInit has run in this instance
    dirty,        \* checkpointDirty
    timer,        \* checkpointTimer is set
    queue,        \* pushes that wait in pushQueue
    push,         \* the push under way: 0 or the commit sent
    landed,       \* the remote has taken it
    seen,         \* history: the remote head this instance knew when it was sent
    call,         \* what each caller is doing and the await at which it stands
    client,       \* fixed at the start: callers take turns or overlap
    clock, calls, resets, pushFailures, fetchFailures,
    expect,       \* history: what each caller last made of a file
    raced,        \* history: files saved while a commit or a push was under way
    undone        \* history: files a rollback took away whose base copy shows again

durable == <<checkpoint, remote, known, deployed, commits>>
memory == <<mem, up, dirty, timer>>
pushes == <<queue, push, landed, seen>>
counters == <<clock, calls, resets, pushFailures, fetchFailures>>
vars == <<durable, memory, pushes, call, client, counters, expect, raced, undone>>

Callers == {"model", "page"}
Absent == 0
Contents == 0 .. MaxWrites
Trees == [Paths -> Contents]
Empty == [p \in Paths |-> Absent]
Ids == 0 .. MaxCommits

TreeOf(id) == IF id = 0 THEN Empty ELSE commits[id].tree
Ancestors(id) == IF id = 0 THEN {} ELSE commits[id].history

(* The memory of an instance that has just started. *)
Cold == [overlay |-> Empty, base |-> Empty, whiteouts |-> {},
         index |-> Empty, head |-> 0, tracking |-> 0, loaded |-> FALSE, whole |-> FALSE]

NothingBuilt == [commit |-> 0, files |-> Empty]
NoCall == [pc |-> "idle", job |-> "none", built |-> NothingBuilt]

NoRows == [p \in {} |-> Absent]

Init ==
    /\ checkpoint = NoRows
    /\ remote = 0 /\ known = FALSE
    /\ deployed = NothingBuilt
    /\ commits = << >>
    /\ mem = Cold /\ up = FALSE
    /\ dirty = {} /\ timer = FALSE
    /\ queue = 0 /\ push = 0 /\ landed = FALSE /\ seen = 0
    /\ call = [c \in Callers |-> NoCall]
    /\ client \in Clients
    /\ clock = 0 /\ calls = 0 /\ resets = 0 /\ pushFailures = 0 /\ fetchFailures = 0
    /\ expect = Empty
    /\ raced = {} /\ undone = {}

-----------------------------------------------------------------------------
(* What a caller sees, and what an instance started now would see.         *)

VisibleIn(m, p) ==
    IF m.overlay[p] # Absent THEN m.overlay[p]
    ELSE IF p \in m.whiteouts THEN Absent ELSE m.base[p]

Visible(p) == VisibleIn(mem, p)

RestoredFrom(rows, head, p) ==
    IF p \in DOMAIN rows THEN rows[p] ELSE TreeOf(head)[p]

Restored(p) == RestoredFrom(checkpoint, remote, p)

-----------------------------------------------------------------------------
(* Loading the base.                                                       *)

Deleted(rows) == {p \in DOMAIN rows : rows[p] = Absent}

(* Mutant of Replayed: tombstones are not applied. *)
ReplayedFilesOnly(m) ==
    [m EXCEPT !.overlay = [p \in Paths |-> IF p \in DOMAIN checkpoint \ Deleted(checkpoint)
                                           THEN checkpoint[p] ELSE @[p]]]

(* applyCheckpoint: tombstones become whiteouts, files go to the overlay.  *)
Replayed(m) ==
    [m EXCEPT !.whiteouts = @ \cup Deleted(checkpoint),
              !.overlay = [p \in Paths |-> IF p \in DOMAIN checkpoint \ Deleted(checkpoint)
                                           THEN checkpoint[p] ELSE @[p]]]

(* loadSnapshot: the base is the remote's tree; an unborn local branch is  *)
(* put on its head, a local branch that exists is left alone.              *)
WithBase(m) ==
    IF known /\ remote # 0
    THEN [m EXCEPT !.base = TreeOf(remote), !.tracking = remote, !.loaded = TRUE,
                   !.whole = FALSE, !.head = IF @ = 0 THEN remote ELSE @]
    ELSE [m EXCEPT !.loaded = TRUE]

(* ready(): loads the base once; while loading has failed every call tries *)
(* again, and replays the checkpoint whether it succeeds or not.           *)
Ready(m) ==
    IF m.loaded THEN {m}
    ELSE {Replayed(WithBase(m))} \cup
         IF known /\ fetchFailures < MaxFetchFailures THEN {Replayed(m)} ELSE {}

CountFailure(m) ==
    fetchFailures' = IF m.loaded THEN fetchFailures ELSE fetchFailures + 1

Idle == \A c \in Callers : call[c].pc = "idle"

(* ensureInit. *)
Boot ==
    /\ ~up
    /\ up' = TRUE
    /\ \E m \in Ready(mem) : mem' = m /\ CountFailure(m)
    /\ UNCHANGED <<durable, dirty, timer, pushes, call, client, clock, calls, resets,
                   pushFailures, expect, raced, undone>>

(* readFile: a file of the base is copied to the overlay. *)
Read(p) ==
    /\ up /\ (client = "sequential" => Idle)
    /\ mem.loaded => mem.overlay[p] # Visible(p)
    /\ \E m \in Ready(mem) :
          /\ mem' = [m EXCEPT !.overlay[p] = VisibleIn(m, p)]
          /\ CountFailure(m)
    /\ UNCHANGED <<durable, up, dirty, timer, pushes, call, client, clock, calls, resets,
                   pushFailures, expect, raced, undone>>

-----------------------------------------------------------------------------
(* The checkpoint.                                                         *)

Saved(rows, m) ==
    [p \in DOMAIN rows \cup dirty |-> IF p \in dirty THEN m.overlay[p] ELSE rows[p]]

Pending == queue > 0 \/ push # 0 \/ \E c \in Callers : call[c].pc \notin {"idle", "open"}

(* flushCheckpoint, with the files m. *)
Flush(m) ==
    /\ checkpoint' = Saved(checkpoint, m)
    /\ dirty' = {}
    /\ raced' = IF Pending THEN raced \cup dirty ELSE raced \ dirty

TimerFires ==
    /\ timer /\ timer' = FALSE
    /\ Flush(mem)
    /\ UNCHANGED <<remote, known, deployed, commits, mem, up, pushes, call,
                   client, counters, expect, undone>>

(* noteCheckpointDirty. *)
Note(ps) ==
    /\ dirty' = dirty \cup ps
    /\ timer' = (timer \/ ps # {})

MayWrite(p) == IF client = "sequential" THEN Idle ELSE p \in Shared

(* Mutant of Write: the overlay is written past the hook for changes.      *)
WriteUnnoted(p) ==
    /\ up /\ MayWrite(p)
    /\ clock < MaxWrites
    /\ clock' = clock + 1
    /\ mem' = [mem EXCEPT !.overlay[p] = clock + 1]
    /\ expect' = [expect EXCEPT ![p] = clock + 1]
    /\ undone' = undone \ {p}
    /\ UNCHANGED <<durable, dirty, timer, up, pushes, call, client, calls, resets, pushFailures,
                   fetchFailures, raced>>

(* writeFile: does not wait for the base. *)
Write(p) ==
    /\ up /\ MayWrite(p)
    /\ clock < MaxWrites
    /\ clock' = clock + 1
    /\ mem' = [mem EXCEPT !.overlay[p] = clock + 1, !.whiteouts = @ \ {p}]
    /\ Note({p})
    /\ expect' = [expect EXCEPT ![p] = clock + 1]
    /\ undone' = undone \ {p}
    /\ UNCHANGED <<durable, up, pushes, call, client, calls, resets, pushFailures,
                   fetchFailures, raced>>

(* rm with force. *)
Remove(p) ==
    /\ up /\ MayWrite(p)
    /\ Visible(p) # Absent
    /\ \E m \in Ready(mem) :
          /\ mem' = [m EXCEPT !.overlay[p] = Absent,
                              !.whiteouts = IF m.base[p] # Absent THEN @ \cup {p} ELSE @]
          /\ CountFailure(m)
    /\ Note({p})
    /\ expect' = [expect EXCEPT ![p] = Absent]
    /\ undone' = undone \ {p}
    /\ UNCHANGED <<durable, up, pushes, call, client, clock, calls, resets, pushFailures, raced>>

-----------------------------------------------------------------------------
(* Commits and deployments.                                                *)

Goto(c, q) ==
    call' = IF q = "idle" THEN [call EXCEPT ![c] = NoCall] ELSE [call EXCEPT ![c].pc = q]

(* A tool call of the model or an action of the page.  A rollback is       *)
(* refused while the model works; the model may start afterwards.          *)
Call(c, j) ==
    /\ up /\ call[c].pc = "idle"
    /\ client = "sequential" => Idle
    /\ j = "local" => c = "model" /\ mem.head = 0
    /\ j = "commit" => c = "model"
    /\ j = "rollback" => c = "page" /\ call["model"].pc = "idle"
    /\ calls < MaxCalls
    /\ calls' = calls + 1
    /\ call' = [call EXCEPT ![c].job = j,
                            ![c].pc = IF j = "rollback" THEN "fetch" ELSE "open"]
    /\ UNCHANGED <<durable, memory, pushes, client, clock, resets, pushFailures,
                   fetchFailures, expect, raced, undone>>

(* materializeAll: once for a base, which it does not copy again.          *)
Materialized(m) ==
    IF m.whole THEN m
    ELSE [m EXCEPT !.overlay = [p \in Paths |-> VisibleIn(m, p)], !.whole = TRUE]

(* The beginning of gitCommit and of deploy: materializeAll, then          *)
(* flushCheckpoint.                                                        *)
Opening(c, from, to) ==
    /\ call[c].pc = from
    /\ \E m \in Ready(mem) :
          /\ mem' = Materialized(m)
          /\ Flush(Materialized(m))
          /\ CountFailure(m)
    /\ Goto(c, to)
    /\ UNCHANGED <<remote, known, deployed, commits, up, timer, pushes, client,
                   clock, calls, resets, pushFailures, expect, undone>>

Open(c) == Opening(c, "open", "stage")

(* What follows gitCommit in deploy_space, in a preview and in a rollback. *)
AfterCommit(c) == IF call[c].job \in {"deploy", "rollback"} THEN "prepare" ELSE "idle"

(* Mutant of Stage: only files that git knows are looked at.               *)
StageTracked(c) ==
    /\ call[c].pc = "stage"
    /\ mem' = [mem EXCEPT !.index = [p \in Paths |-> IF @[p] # Absent THEN mem.overlay[p]
                                                     ELSE Absent]]
    /\ Goto(c, "commit")
    /\ UNCHANGED <<durable, up, dirty, timer, pushes, client, counters, expect, raced, undone>>

(* stageWorkdir, and no commit if the index is what HEAD is. *)
Stage(c) ==
    /\ call[c].pc = "stage"
    /\ mem' = [mem EXCEPT !.index = mem.overlay]
    /\ Goto(c, IF mem.head # 0 /\ mem.overlay = TreeOf(mem.head) THEN AfterCommit(c)
               ELSE "commit")
    /\ UNCHANGED <<durable, up, dirty, timer, pushes, client, counters, expect,
                   raced, undone>>

(* The commit takes the index as it is now; gitCommit then mirrors it in   *)
(* the background, gitCommitLocal does not.                                *)
Commit(c) ==
    /\ call[c].pc = "commit"
    /\ Len(commits) < MaxCommits
    /\ LET id == Len(commits) + 1
       IN  /\ commits' = Append(commits, [tree |-> mem.index,
                                          history |-> Ancestors(mem.head) \cup {id}])
           /\ mem' = [mem EXCEPT !.head = id]
    /\ queue' = IF call[c].job = "local" THEN queue ELSE queue + 1
    /\ Goto(c, AfterCommit(c))
    /\ UNCHANGED <<checkpoint, remote, known, deployed, up, dirty, timer, push, landed, seen,
                   client, counters, expect, raced, undone>>

Prepare(c) == Opening(c, "prepare", "checkout")

Changed(m, files) == {p \in Paths : files[p] # m.overlay[p]}

(* Through the file system the working tree becomes files: writing a file  *)
(* takes its whiteout away, removing one of the base adds it.              *)
Rewritten(m, files) ==
    LET gone == {p \in Changed(m, files) : files[p] = Absent}
    IN  [m EXCEPT !.overlay = files,
                  !.whiteouts = (@ \ (Changed(m, files) \ gone))
                                    \cup {p \in gone : m.base[p] # Absent}]

(* With force, the files that the commit or the index has become those of  *)
(* the commit.                                                             *)
ForcedTo(m, tree) ==
    [p \in Paths |-> IF tree[p] # Absent \/ m.index[p] # Absent THEN tree[p] ELSE m.overlay[p]]

(* readBranchFiles: everything in the working tree after the checkout. *)
Checkout(c) ==
    /\ call[c].pc = "checkout"
    /\ IF mem.head = 0
       THEN Goto(c, "idle") /\ UNCHANGED <<mem, dirty, timer>>
       ELSE LET files == ForcedTo(mem, TreeOf(mem.head))
            IN  /\ mem' = [Rewritten(mem, files) EXCEPT !.index = TreeOf(mem.head)]
                /\ Note(Changed(mem, files))
                /\ call' = [call EXCEPT ![c].pc = "build",
                                        ![c].built = [commit |-> mem.head, files |-> files]]
    /\ UNCHANGED <<durable, up, pushes, client, counters, expect, raced, undone>>

(* The build succeeds, is recorded and pushed, or it fails. *)
Build(c) ==
    /\ call[c].pc = "build"
    /\ Goto(c, "idle")
    /\ \/ deployed' = call[c].built /\ queue' = queue + 1
       \/ UNCHANGED <<deployed, queue>>
    /\ UNCHANGED <<checkpoint, remote, known, commits, memory, push, landed, seen,
                   client, counters, expect, raced, undone>>

(* rollbackToCommit until it has read the history: materializeAll, and a   *)
(* fetch whose failure is ignored.                                         *)
RollbackFetch(c) ==
    /\ call[c].pc = "fetch"
    /\ \E m \in Ready(mem) :
          \E fetched \in IF known /\ remote # 0 THEN {m.tracking, remote} ELSE {m.tracking} :
              /\ mem' = [Materialized(m) EXCEPT !.tracking = fetched]
              /\ CountFailure(m)
    /\ Goto(c, IF mem'.head = 0 THEN "idle" ELSE "restore")
    /\ UNCHANGED <<durable, up, dirty, timer, pushes, client, clock, calls, resets,
                   pushFailures, expect, raced, undone>>

(* A checkout without force changes the files that differ between the      *)
(* index and the commit; it throws if one of them is neither.              *)
SwitchedTo(m, tree) ==
    [p \in Paths |-> IF m.index[p] # tree[p] THEN tree[p] ELSE m.overlay[p]]

Conflict(m, tree) ==
    \E p \in Paths : /\ m.index[p] # tree[p]
                     /\ m.overlay[p] \notin {Absent, m.index[p], tree[p]}

(* The target is checked out and its working tree read; the branch is      *)
(* checked out again, and the overlay is made the tree that was read past  *)
(* the file system, whose whiteouts stay as they are: a file of the base   *)
(* that the target does not have is gone and not hidden.  A second         *)
(* checkout that throws is left out: it takes a file written after another *)
(* caller staged it.                                                       *)
Restore(c, id) ==
    /\ call[c].pc = "restore"
    /\ id \in Ancestors(mem.head)
    /\ LET target == TreeOf(id)
           head == TreeOf(mem.head)
           files == SwitchedTo(mem, target)
           there == [Rewritten(mem, files) EXCEPT !.index = target]
           back == Rewritten(there, SwitchedTo(there, head))
           touched == Changed(mem, files) \cup Changed(there, back.overlay)
           after == [back EXCEPT !.overlay = files, !.index = head]
       IN  IF Conflict(mem, target)
           THEN Goto(c, "idle") /\ UNCHANGED <<mem, dirty, timer, expect, undone>>
           ELSE /\ ~Conflict(there, head)
                /\ mem' = after
                /\ Note(touched)
                /\ expect' = [p \in Paths |-> IF p \in touched THEN files[p] ELSE expect[p]]
                /\ undone' = (undone \ touched)
                                 \cup {p \in touched : VisibleIn(after, p) # files[p]}
                /\ Goto(c, "open")
    /\ UNCHANGED <<durable, up, pushes, client, counters, raced>>

-----------------------------------------------------------------------------
(* Pushes, one at a time.                                                  *)

(* Mutant of Contained: the remote head is not looked at. *)
ContainedAlways == TRUE

(* remoteHeadContainedIn: nothing is protected while the remote head is    *)
(* not known.                                                              *)
Contained == mem.tracking = 0 \/ mem.tracking \in Ancestors(mem.head)

(* pushWithRetry up to the request: the remote is provisioned and its URL  *)
(* stored, and the push is refused or sent.                                *)
PushStart ==
    /\ queue > 0 /\ push = 0
    /\ queue' = queue - 1
    /\ known' = TRUE
    /\ push' = IF Contained THEN mem.head ELSE 0
    /\ seen' = mem.tracking
    /\ UNCHANGED <<checkpoint, remote, deployed, commits, memory, landed, call, client,
                   counters, expect, raced, undone>>

PushLands ==
    /\ push # 0 /\ ~landed
    /\ remote' = push /\ landed' = TRUE
    /\ UNCHANGED <<checkpoint, known, deployed, commits, memory, queue, push, seen, call, client,
                   counters, expect, raced, undone>>

(* The answer: the tracking branch follows, the checkpoint is cleared and  *)
(* what is dirty is saved again.                                           *)
PushDone ==
    /\ push # 0 /\ landed
    /\ push' = 0 /\ landed' = FALSE
    /\ mem' = [mem EXCEPT !.tracking = push]
    /\ checkpoint' = Saved(NoRows, mem)
    /\ dirty' = {}
    /\ raced' = IF queue > 0 \/ ~Idle THEN raced \cup dirty ELSE raced \ dirty
    /\ UNCHANGED <<remote, known, deployed, commits, up, timer, queue, seen, call, client,
                   counters, expect, undone>>

(* No repository, no token, or every attempt failed. *)
PushFails ==
    /\ pushFailures < MaxPushFailures
    /\ pushFailures' = pushFailures + 1
    /\ \/ queue > 0 /\ push = 0 /\ queue' = queue - 1 /\ UNCHANGED push
       \/ push # 0 /\ ~landed /\ push' = 0 /\ UNCHANGED queue
    /\ UNCHANGED <<durable, memory, landed, seen, call, client, clock, calls, resets, fetchFailures,
                   expect, raced, undone>>

-----------------------------------------------------------------------------
(* The object is evicted; a push that was sent may still land. *)
Reset ==
    /\ up /\ resets < MaxResets
    /\ resets' = resets + 1
    /\ mem' = Cold /\ up' = FALSE /\ dirty' = {} /\ timer' = FALSE
    /\ queue' = 0 /\ push' = 0 /\ landed' = FALSE /\ seen' = 0
    /\ call' = [c \in Callers |-> NoCall]
    /\ \E head \in IF push = 0 THEN {remote} ELSE {remote, push} :
          /\ remote' = head
          /\ expect' = [p \in Paths |-> RestoredFrom(checkpoint, head, p)]
    /\ raced' = {} /\ undone' = {}
    /\ UNCHANGED <<checkpoint, known, deployed, commits, client, clock, calls,
                   pushFailures, fetchFailures>>

Steps(c) ==
    \/ Open(c) \/ Stage(c) \/ Commit(c) \/ Prepare(c) \/ Checkout(c) \/ Build(c)
    \/ RollbackFetch(c) \/ \E id \in Ids : Restore(c, id)

Pushing == PushStart \/ PushLands \/ PushDone

Next ==
    \/ Boot \/ Reset \/ TimerFires \/ Pushing \/ PushFails
    \/ \E p \in Paths : Read(p) \/ Write(p) \/ Remove(p)
    \/ \E c \in Callers : \/ \E j \in {"local", "commit", "deploy", "rollback"} : Call(c, j)
                          \/ Steps(c)

(* Timers fire and requests are answered; nobody has to call. *)
Fairness == WF_vars(TimerFires) /\ WF_vars(Pushing)

Spec == Init /\ [][Next]_vars /\ Fairness

-----------------------------------------------------------------------------
(* Properties.                                                             *)

Memory == [overlay : Trees, base : Trees, whiteouts : SUBSET Paths, index : Trees,
           head : Ids, tracking : Ids, loaded : BOOLEAN, whole : BOOLEAN]

(* The workspace, the rows and the commits have their types; every commit  *)
(* a reference points at exists.                                           *)
TypeOK ==
    /\ DOMAIN checkpoint \subseteq Paths
    /\ \A p \in DOMAIN checkpoint : checkpoint[p] \in Contents
    /\ commits \in Seq([tree : Trees, history : SUBSET Ids])
    /\ mem \in Memory
    /\ {remote, push, seen, mem.head, mem.tracking, deployed.commit} \subseteq 0 .. Len(commits)
    /\ dirty \subseteq Paths /\ raced \subseteq Paths /\ undone \subseteq Paths
    /\ queue \in Nat

(* What was saved survives: an eviction now would show every file as it is *)
(* seen now, other than files with a save still to come, files that were   *)
(* saved while a commit or a push was under way and files a rollback took  *)
(* away; if the base loads at the latest with the first retry.             *)
SavedSurvives ==
    up /\ mem.loaded /\ fetchFailures <= 1
        => \A p \in Paths \ (dirty \cup raced \cup undone) : Restored(p) = Visible(p)

(* Every save survives, as checkpoint.ts:15-17 has it: rows are cleared    *)
(* because "the base now covers those files", later ones are kept.         *)
EverySaveSurvives ==
    up /\ mem.loaded /\ fetchFailures = 0 => \A p \in Paths \ dirty : Restored(p) = Visible(p)

(* When callers take turns and the base is loaded at the first attempt, a  *)
(* file is what was last made of it, unless a rollback took it away:       *)
(* neither a deployment's checkout nor loading the base puts an older      *)
(* content back.                                                           *)
WritesStay ==
    client = "sequential" /\ fetchFailures = 0 /\ up /\ mem.loaded
        => \A p \in Paths \ undone : Visible(p) = expect[p]

(* What a rollback removes stays removed, as durable-object.ts:215 and 296 *)
(* have it of the other removals: a file of the base is "tombstoned" and   *)
(* "not silently resurrected by later hydration".                          *)
RemovedStaysRemoved == up /\ mem.loaded => \A p \in undone : Visible(p) = Absent

(* A file is what was last made of it, as artifacts-fs.ts:106 and 180-181  *)
(* have it of replaying the checkpoint: "idempotent", and "uncommitted     *)
(* work ... must stay visible".                                            *)
WorkStaysVisible ==
    up /\ mem.loaded => \A p \in Paths : Visible(p) = expect[p]

(* When callers take turns and the base loads at the latest with the first *)
(* retry, what is deployed is the tree of the commit it is said to be.     *)
DeployedIsCommitted ==
    client = "sequential" /\ fetchFailures <= 1 => deployed.files = TreeOf(deployed.commit)

(* No push takes a commit away from the remote's history, as               *)
(* artifacts-fs.ts:179-180 has it of an instance that could not load the   *)
(* base: files pushed before are "never overwritten by a partial           *)
(* force-push".                                                            *)
HistoryKept ==
    [][remote' # remote /\ remote # 0 => remote \in commits[remote'].history]_vars

(* A push never takes away a commit of the remote that this instance had   *)
(* fetched or pushed when it was sent, although every push is forced.      *)
KnownHistoryKept ==
    [][remote' # remote /\ seen # 0 => seen \in commits[remote'].history]_vars

(* Whatever is still to be saved has a timer that will save it.            *)
SaveComes == dirty # {} => timer

=============================================================================
