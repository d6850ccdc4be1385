---------------------------- MODULE SpaceProofs ----------------------------
(***************************************************************************)
(* Theorems about SpaceWorkspace, for every set of paths and every number  *)
(* of writes, calls, commits, evictions and failures.  The argument: what  *)
(* is neither waiting to be saved nor was saved while a commit or a push   *)
(* was under way is in whatever is under way, in the staged tree, in the   *)
(* head that a queued push will send and in the commit that is being sent, *)
(* so that a push may take the rows away.                                  *)
(***************************************************************************)
EXTENDS SpaceWorkspace, SequenceTheorems, TLAPS

Pcs == {"idle", "fetch", "restore", "open", "stage", "commit", "prepare", "checkout", "build"}
Jobs == {"none", "local", "commit", "deploy", "rollback"}
Trace == [tree : Trees, history : SUBSET Ids]
Bundle == [commit : Ids, files : Trees]

(* TypeOK part by part, and the variables it says nothing of.              *)
Typed ==
    /\ DOMAIN checkpoint \subseteq Paths
    /\ \A p \in DOMAIN checkpoint : checkpoint[p] \in Contents
    /\ commits \in Seq(Trace) /\ Len(commits) <= MaxCommits
    /\ \A id \in 1 .. Len(commits) : commits[id].history \subseteq 1 .. Len(commits)
    /\ mem \in Memory
    /\ remote \in 0 .. Len(commits) /\ push \in 0 .. Len(commits) /\ seen \in 0 .. Len(commits)
    /\ mem.head \in 0 .. Len(commits) /\ mem.tracking \in 0 .. Len(commits)
    /\ deployed \in Bundle /\ deployed.commit \in 0 .. Len(commits)
    /\ dirty \subseteq Paths /\ raced \subseteq Paths /\ undone \subseteq Paths
    /\ queue \in Nat /\ clock \in 0 .. MaxWrites /\ fetchFailures \in Nat
    /\ expect \in Trees
    /\ call \in [Callers -> [pc : Pcs, job : Jobs, built : Bundle]]
    /\ \A c \in Callers : call[c].built.commit \in 0 .. Len(commits)
    /\ client \in {"sequential", "concurrent"}

(* Before ensureInit nothing is under way, and what the workspace will     *)
(* show is what the checkpoint and the remote make of it.                  *)
AtRest ==
    ~up => /\ mem = Cold /\ dirty = {} /\ timer = FALSE /\ queue = 0 /\ push = 0 /\ Idle
           /\ raced = {} /\ undone = {}
           /\ \A p \in Paths : expect[p] = Restored(p)

(* A push that was sent contains the remote commit that was known then.    *)
Sending ==
    /\ push # 0 => known /\ (seen # 0 => seen \in Ancestors(push))
    /\ landed => push # 0 /\ remote = push
    /\ remote # 0 => known

Loads == up /\ fetchFailures <= 1

(* After one failure to load the base the overlay has the rows, and what   *)
(* was written since.                                                      *)
Degraded ==
    Loads /\ ~mem.loaded =>
        /\ fetchFailures = 1 /\ queue = 0 /\ push = 0 /\ undone = {} /\ mem.base = Empty
        /\ \A c \in Callers : call[c].pc \in {"idle", "open", "fetch"}
        /\ \A p \in dirty : mem.overlay[p] # Absent
        /\ \A p \in Paths \ dirty :
              IF p \in DOMAIN checkpoint THEN mem.overlay[p] = checkpoint[p]
              ELSE mem.overlay[p] = Absent /\ p \notin mem.whiteouts

Complete == Loads /\ mem.loaded
Covered == Paths \ (dirty \cup raced \cup undone)

(* The overlay alone is what is seen, of a file that is to be saved and,   *)
(* once the base was copied, of every file.                                *)
Settled ==
    /\ Complete => \A p \in Paths \ undone : mem.whole \/ p \in dirty => Visible(p) = mem.overlay[p]
    /\ Complete => \A c \in Callers : call[c].pc \notin {"idle", "open", "fetch"} => mem.whole

(* What is saved, staged, committed and sent of the files covered.         *)
SavedToo == Complete => \A p \in Covered : Restored(p) = Visible(p)
StagedToo ==
    Complete => \A c \in Callers : call[c].pc = "commit" =>
                    \A p \in Covered : mem.index[p] = Visible(p)
HeadWanted == queue > 0 \/ \E c \in Callers : call[c].pc \in {"prepare", "checkout", "build"}
CommittedToo ==
    Complete /\ HeadWanted => \A p \in Covered : TreeOf(mem.head)[p] = Visible(p)
SentToo == Complete /\ push # 0 => \A p \in Covered : TreeOf(push)[p] = Visible(p)

(* Callers that take turns: what the one call under way has staged,        *)
(* committed and checked out is the overlay.                               *)
InTurn ==
    client = "sequential" =>
        \A c, d \in Callers : call[c].pc # "idle" /\ call[d].pc # "idle" => c = d
Deploying ==
    client = "sequential" /\ fetchFailures <= 1 =>
        /\ \A c \in Callers :
              /\ call[c].pc = "commit" => mem.index = mem.overlay
              /\ call[c].pc \in {"prepare", "checkout"}
                    => mem.head # 0 /\ mem.overlay = TreeOf(mem.head)
              /\ call[c].pc = "build" => call[c].built.files = TreeOf(call[c].built.commit)
        /\ deployed.files = TreeOf(deployed.commit)

Inv ==
    /\ Typed /\ AtRest /\ Sending
    /\ Degraded /\ Settled /\ SavedToo /\ StagedToo /\ CommittedToo /\ SentToo
    /\ InTurn /\ Deploying /\ WritesStay

-----------------------------------------------------------------------------
(* The operators on a workspace.                                           *)

LEMMA FieldsOfMemory ==
    ASSUME NEW m \in Memory
    PROVE  /\ m.overlay \in Trees /\ m.base \in Trees /\ m.index \in Trees
           /\ m.whiteouts \subseteq Paths /\ m.head \in Ids /\ m.tracking \in Ids
           /\ m.loaded \in BOOLEAN /\ m.whole \in BOOLEAN
BY DEF Memory

(* What there is to write: no file, or a number.                           *)
LEMMA Zero == Absent \in Contents /\ Empty \in Trees /\ 0 \in Ids
BY SpaceAssumption DEF Absent, Contents, Empty, Trees, Ids

LEMMA TreeType ==
    ASSUME Typed, NEW id \in 0 .. Len(commits)
    PROVE  TreeOf(id) \in Trees /\ Ancestors(id) \subseteq Ids /\ Ancestors(id) \subseteq 1 .. Len(commits)
<1>1. CASE id = 0
  BY <1>1, Zero DEF TreeOf, Ancestors
<1>2. CASE id # 0
  <2>1. id \in 1 .. Len(commits) /\ commits \in Seq(Trace)
    BY <1>2 DEF Typed
  <2>2. commits[id] \in Trace
    BY <2>1
  <2> QED
    BY <1>2, <2>1, <2>2 DEF TreeOf, Ancestors, Trace, Typed
<1> QED
  BY <1>1, <1>2

LEMMA SeenType ==
    ASSUME NEW m \in Memory, NEW p \in Paths
    PROVE  VisibleIn(m, p) \in Contents
BY Zero, FieldsOfMemory DEF VisibleIn, Trees

LEMMA ReplayedIs ==
    ASSUME Typed, NEW m \in Memory
    PROVE  /\ Replayed(m) \in Memory
           /\ Replayed(m).base = m.base /\ Replayed(m).index = m.index
           /\ Replayed(m).head = m.head /\ Replayed(m).tracking = m.tracking
           /\ Replayed(m).loaded = m.loaded /\ Replayed(m).whole = m.whole
           /\ Replayed(m).whiteouts = m.whiteouts \cup Deleted(checkpoint)
           /\ \A p \in Paths : Replayed(m).overlay[p] =
                 IF p \in DOMAIN checkpoint /\ checkpoint[p] # Absent
                 THEN checkpoint[p] ELSE m.overlay[p]
<1> DEFINE over == [p \in Paths |-> IF p \in DOMAIN checkpoint \ Deleted(checkpoint)
                                    THEN checkpoint[p] ELSE m.overlay[p]]
           white == m.whiteouts \cup Deleted(checkpoint)
<1>1. over \in Trees
  BY FieldsOfMemory DEF Trees, Typed
<1>2. white \in SUBSET Paths
  BY FieldsOfMemory DEF Typed, Deleted
<1>3. Replayed(m) = [m EXCEPT !.whiteouts = white, !.overlay = over]
  BY DEF Replayed, Memory
<1>4. \A p \in Paths : over[p] = IF p \in DOMAIN checkpoint /\ checkpoint[p] # Absent
                                 THEN checkpoint[p] ELSE m.overlay[p]
  BY DEF Deleted
<1> HIDE DEF over, white
<1> QED
  BY <1>1, <1>2, <1>3, <1>4 DEF Memory, white

LEMMA WithBaseIs ==
    ASSUME Typed, NEW m \in Memory, m.head \in 0 .. Len(commits), m.tracking \in 0 .. Len(commits)
    PROVE  /\ WithBase(m) \in Memory
           /\ WithBase(m).head \in 0 .. Len(commits) /\ WithBase(m).tracking \in 0 .. Len(commits)
           /\ WithBase(m).loaded = TRUE
           /\ WithBase(m).overlay = m.overlay /\ WithBase(m).whiteouts = m.whiteouts
           /\ WithBase(m).index = m.index
           /\ WithBase(m).base = IF known /\ remote # 0 THEN TreeOf(remote) ELSE m.base
           /\ known /\ remote # 0 => WithBase(m).whole = FALSE
<1>0. remote \in Ids /\ TreeOf(remote) \in Trees /\ remote \in 0 .. Len(commits)
  <2>1. remote \in 0 .. Len(commits) /\ Len(commits) <= MaxCommits /\ Len(commits) \in Nat
    BY DEF Typed
  <2> QED
    BY <2>1, TreeType, SpaceAssumption DEF Ids
<1>1. CASE known /\ remote # 0
  <2> DEFINE base == TreeOf(remote)
             head == IF m.head = 0 THEN remote ELSE m.head
  <2>1. base \in Trees /\ head \in Ids /\ head \in 0 .. Len(commits)
    BY <1>0, FieldsOfMemory
  <2>2. WithBase(m) = [m EXCEPT !.base = base, !.tracking = remote, !.loaded = TRUE,
                                !.whole = FALSE, !.head = head]
    BY <1>1 DEF WithBase, Memory
  <2>3. base = TreeOf(remote)
    OBVIOUS
  <2> HIDE DEF base, head
  <2> QED
    BY ZenonT(60), <1>0, <1>1, <2>1, <2>2, <2>3 DEF Memory
<1>2. CASE ~(known /\ remote # 0)
  <2>1. WithBase(m) = [m EXCEPT !.loaded = TRUE]
    BY <1>2 DEF WithBase
  <2> QED
    BY <1>2, <2>1 DEF Memory
<1> QED
  BY <1>1, <1>2

(* ready() gives the workspace there was, or the base under the rows, or   *)
(* the rows alone.                                                         *)
LEMMA ReadyIs ==
    ASSUME Typed, NEW m \in Ready(mem)
    PROVE  /\ m \in Memory /\ m.head \in 0 .. Len(commits) /\ m.tracking \in 0 .. Len(commits)
           /\ \/ mem.loaded /\ m = mem
              \/ ~mem.loaded /\ m.loaded /\ m = Replayed(WithBase(mem))
              \/ ~mem.loaded /\ ~m.loaded /\ m = Replayed(mem)
<1>0. mem \in Memory /\ mem.head \in 0 .. Len(commits) /\ mem.tracking \in 0 .. Len(commits)
  BY DEF Typed
<1>1. CASE mem.loaded
  BY <1>0, <1>1 DEF Ready
<1>2. CASE ~mem.loaded /\ m = Replayed(WithBase(mem))
  <2>1. /\ WithBase(mem) \in Memory /\ WithBase(mem).loaded = TRUE
        /\ WithBase(mem).head \in 0 .. Len(commits) /\ WithBase(mem).tracking \in 0 .. Len(commits)
    BY <1>0, WithBaseIs
  <2> QED
    BY <1>2, <2>1, ReplayedIs
<1>3. CASE ~mem.loaded /\ m = Replayed(mem)
  BY <1>0, <1>3, ReplayedIs
<1> QED
  BY <1>1, <1>2, <1>3 DEF Ready

LEMMA MaterializedIs ==
    ASSUME NEW m \in Memory
    PROVE  /\ Materialized(m) \in Memory
           /\ Materialized(m).base = m.base /\ Materialized(m).index = m.index
           /\ Materialized(m).head = m.head /\ Materialized(m).tracking = m.tracking
           /\ Materialized(m).loaded = m.loaded /\ Materialized(m).whole = TRUE
           /\ Materialized(m).whiteouts = m.whiteouts
           /\ \A p \in Paths : /\ VisibleIn(Materialized(m), p) = VisibleIn(m, p)
                               /\ ~m.whole \/ VisibleIn(m, p) = m.overlay[p]
                                     => Materialized(m).overlay[p] = VisibleIn(m, p)
           /\ m.whole => Materialized(m) = m
<1>1. CASE m.whole
  BY <1>1, FieldsOfMemory DEF Materialized
<1>2. CASE ~m.whole
  <2> DEFINE over == [p \in Paths |-> VisibleIn(m, p)]
  <2>1. over \in Trees
    BY SeenType DEF Trees
  <2>2. Materialized(m) = [m EXCEPT !.overlay = over, !.whole = TRUE]
    BY <1>2 DEF Materialized
  <2>3. \A p \in Paths : over[p] = VisibleIn(m, p)
    OBVIOUS
  <2> HIDE DEF over
  <2>4. /\ Materialized(m) \in Memory
        /\ Materialized(m).base = m.base /\ Materialized(m).index = m.index
        /\ Materialized(m).head = m.head /\ Materialized(m).tracking = m.tracking
        /\ Materialized(m).loaded = m.loaded /\ Materialized(m).whole = TRUE
        /\ Materialized(m).whiteouts = m.whiteouts
        /\ Materialized(m).overlay = over
    BY <2>1, <2>2 DEF Memory
  <2>5. ASSUME NEW p \in Paths
        PROVE  VisibleIn(Materialized(m), p) = VisibleIn(m, p)
    BY <2>3, <2>4 DEF VisibleIn
  <2> QED
    BY <1>2, <2>3, <2>4, <2>5
<1> QED
  BY <1>1, <1>2, FieldsOfMemory

LEMMA RewrittenIs ==
    ASSUME NEW m \in Memory, NEW files \in Trees
    PROVE  /\ Rewritten(m, files) \in Memory
           /\ Rewritten(m, files).overlay = files
           /\ Rewritten(m, files).base = m.base /\ Rewritten(m, files).index = m.index
           /\ Rewritten(m, files).head = m.head /\ Rewritten(m, files).tracking = m.tracking
           /\ Rewritten(m, files).loaded = m.loaded /\ Rewritten(m, files).whole = m.whole
           /\ \A p \in Paths : files[p] = m.overlay[p] =>
                 (p \in Rewritten(m, files).whiteouts <=> p \in m.whiteouts)
           /\ \A p \in Paths : files[p] # m.overlay[p] => VisibleIn(Rewritten(m, files), p) = files[p]
<1> DEFINE gone == {p \in Changed(m, files) : files[p] = Absent}
           white == (m.whiteouts \ (Changed(m, files) \ gone)) \cup {p \in gone : m.base[p] # Absent}
<1>1. white \subseteq Paths
  BY FieldsOfMemory DEF Changed
<1>2. Rewritten(m, files) = [m EXCEPT !.overlay = files, !.whiteouts = white]
  BY DEF Rewritten, Memory
<1>3. \A p \in Paths : files[p] = m.overlay[p] => (p \in white <=> p \in m.whiteouts)
  BY DEF Changed
<1>4. \A p \in Paths : files[p] # m.overlay[p] /\ files[p] = Absent /\ m.base[p] # Absent => p \in white
  BY DEF Changed
<1> HIDE DEF white
<1>5. /\ Rewritten(m, files) \in Memory
      /\ Rewritten(m, files).overlay = files /\ Rewritten(m, files).whiteouts = white
      /\ Rewritten(m, files).base = m.base /\ Rewritten(m, files).index = m.index
      /\ Rewritten(m, files).head = m.head /\ Rewritten(m, files).tracking = m.tracking
      /\ Rewritten(m, files).loaded = m.loaded /\ Rewritten(m, files).whole = m.whole
  BY <1>1, <1>2 DEF Memory
<1>6. ASSUME NEW p \in Paths, files[p] # m.overlay[p]
      PROVE  VisibleIn(Rewritten(m, files), p) = files[p]
  BY <1>4, <1>5, <1>6 DEF VisibleIn
<1> QED
  BY <1>3, <1>5, <1>6

-----------------------------------------------------------------------------
(* What the actions make of the workspace.                                 *)

Same(m, n) ==
    /\ n.base = m.base /\ n.index = m.index /\ n.head = m.head
    /\ n.tracking = m.tracking /\ n.loaded = m.loaded /\ n.whole = m.whole

Hydrated(m, p) == [m EXCEPT !.overlay[p] = VisibleIn(m, p)]
Written(m, p, w) == [m EXCEPT !.overlay[p] = w, !.whiteouts = @ \ {p}]
Removed(m, p) == [m EXCEPT !.overlay[p] = Absent,
                           !.whiteouts = IF m.base[p] # Absent THEN @ \cup {p} ELSE @]

LEMMA ReadMakes ==
    ASSUME NEW m \in Memory, NEW p \in Paths, NEW n, n = Hydrated(m, p)
    PROVE  /\ n \in Memory /\ Same(m, n) /\ n.whiteouts = m.whiteouts
           /\ \A q \in Paths : /\ VisibleIn(n, q) = VisibleIn(m, q)
                               /\ m.overlay[q] = VisibleIn(m, q) => n.overlay[q] = m.overlay[q]
<1> DEFINE over == [m.overlay EXCEPT ![p] = VisibleIn(m, p)]
<1>1. over \in Trees /\ over[p] = VisibleIn(m, p) /\ \A q \in Paths \ {p} : over[q] = m.overlay[q]
  BY SeenType, FieldsOfMemory DEF Trees
<1>2. n = [m EXCEPT !.overlay = over]
  BY DEF Hydrated, Memory
<1> HIDE DEF over
<1>3. n \in Memory /\ Same(m, n) /\ n.whiteouts = m.whiteouts /\ n.overlay = over
  BY <1>1, <1>2 DEF Memory, Same
<1> QED
  BY <1>1, <1>3 DEF VisibleIn, Same

LEMMA WriteMakes ==
    ASSUME NEW m \in Memory, NEW p \in Paths, NEW w \in Contents \ {Absent}, NEW n,
           n = Written(m, p, w)
    PROVE  /\ n \in Memory /\ Same(m, n)
           /\ n.overlay[p] = w /\ VisibleIn(n, p) = w
           /\ \A q \in Paths \ {p} : /\ n.overlay[q] = m.overlay[q]
                                     /\ q \in n.whiteouts <=> q \in m.whiteouts
                                     /\ VisibleIn(n, q) = VisibleIn(m, q)
<1> DEFINE over == [m.overlay EXCEPT ![p] = w]
           white == m.whiteouts \ {p}
<1>1. over \in Trees /\ over[p] = w /\ \A q \in Paths \ {p} : over[q] = m.overlay[q]
  BY FieldsOfMemory DEF Trees
<1>2. white \subseteq Paths /\ \A q \in Paths \ {p} : q \in white <=> q \in m.whiteouts
  BY FieldsOfMemory
<1>3. n = [m EXCEPT !.overlay = over, !.whiteouts = white]
  BY DEF Written, Memory
<1> HIDE DEF over, white
<1>4. n \in Memory /\ Same(m, n) /\ n.whiteouts = white /\ n.overlay = over
  BY <1>1, <1>2, <1>3 DEF Memory, Same
<1>5. n.overlay[p] = w /\ VisibleIn(n, p) = w
  BY <1>1, <1>2, <1>4 DEF VisibleIn, Same
<1>6. ASSUME NEW q \in Paths \ {p}
      PROVE  /\ n.overlay[q] = m.overlay[q] /\ (q \in n.whiteouts <=> q \in m.whiteouts)
             /\ VisibleIn(n, q) = VisibleIn(m, q)
  <2>1. n.overlay[q] = m.overlay[q] /\ (q \in n.whiteouts <=> q \in m.whiteouts) /\ n.base = m.base
    BY <1>1, <1>2, <1>4 DEF Same
  <2> QED
    BY <2>1 DEF VisibleIn
<1> QED
  BY <1>4, <1>5, <1>6

LEMMA RemoveMakes ==
    ASSUME NEW m \in Memory, NEW p \in Paths, NEW n, n = Removed(m, p)
    PROVE  /\ n \in Memory /\ Same(m, n)
           /\ n.overlay[p] = Absent /\ VisibleIn(n, p) = Absent
           /\ \A q \in Paths \ {p} : /\ n.overlay[q] = m.overlay[q]
                                     /\ q \in n.whiteouts <=> q \in m.whiteouts
                                     /\ VisibleIn(n, q) = VisibleIn(m, q)
<1> DEFINE over == [m.overlay EXCEPT ![p] = Absent]
           white == IF m.base[p] # Absent THEN m.whiteouts \cup {p} ELSE m.whiteouts
<1>1. over \in Trees /\ over[p] = Absent /\ \A q \in Paths \ {p} : over[q] = m.overlay[q]
  BY FieldsOfMemory, Zero DEF Trees
<1>2. /\ white \subseteq Paths /\ \A q \in Paths \ {p} : q \in white <=> q \in m.whiteouts
      /\ m.base[p] # Absent => p \in white
  BY FieldsOfMemory
<1>3. n = [m EXCEPT !.overlay = over, !.whiteouts = white]
  BY DEF Removed, Memory
<1> HIDE DEF over, white
<1>4. n \in Memory /\ Same(m, n) /\ n.whiteouts = white /\ n.overlay = over
  BY <1>1, <1>2, <1>3 DEF Memory, Same
<1>5. n.overlay[p] = Absent /\ VisibleIn(n, p) = Absent
  BY <1>1, <1>2, <1>4 DEF VisibleIn, Same
<1>6. ASSUME NEW q \in Paths \ {p}
      PROVE  /\ n.overlay[q] = m.overlay[q] /\ (q \in n.whiteouts <=> q \in m.whiteouts)
             /\ VisibleIn(n, q) = VisibleIn(m, q)
  <2>1. n.overlay[q] = m.overlay[q] /\ (q \in n.whiteouts <=> q \in m.whiteouts) /\ n.base = m.base
    BY <1>1, <1>2, <1>4 DEF Same
  <2> QED
    BY <2>1 DEF VisibleIn
<1> QED
  BY <1>4, <1>5, <1>6

(* A checkout: the working tree through the file system, and the index.    *)
Switched(m, files, tree) == [Rewritten(m, files) EXCEPT !.index = tree]

LEMMA SwitchMakes ==
    ASSUME NEW m \in Memory, NEW files \in Trees, NEW tree \in Trees
    PROVE  LET n == Switched(m, files, tree)
           IN  /\ n \in Memory
               /\ n.base = m.base /\ n.head = m.head /\ n.tracking = m.tracking
               /\ n.loaded = m.loaded /\ n.whole = m.whole
               /\ n.index = tree /\ n.overlay = files
               /\ \A p \in Paths : files[p] = m.overlay[p] =>
                     (p \in n.whiteouts <=> p \in m.whiteouts) /\ VisibleIn(n, p) = VisibleIn(m, p)
               /\ \A p \in Paths : files[p] # m.overlay[p] => VisibleIn(n, p) = files[p]
<1> DEFINE r == Rewritten(m, files)
           n == Switched(m, files, tree)
<1>1. /\ r \in Memory /\ r.overlay = files
      /\ r.base = m.base /\ r.head = m.head /\ r.tracking = m.tracking
      /\ r.loaded = m.loaded /\ r.whole = m.whole
      /\ \A p \in Paths : files[p] = m.overlay[p] => (p \in r.whiteouts <=> p \in m.whiteouts)
      /\ \A p \in Paths : files[p] # m.overlay[p] => VisibleIn(r, p) = files[p]
  BY RewrittenIs
<1> HIDE DEF r
<1>2. n = [r EXCEPT !.index = tree]
  BY DEF r, Switched
<1> HIDE DEF n
<1>3. /\ n \in Memory /\ n.overlay = r.overlay /\ n.base = r.base /\ n.head = r.head
      /\ n.tracking = r.tracking /\ n.loaded = r.loaded /\ n.whole = r.whole
      /\ n.index = tree /\ n.whiteouts = r.whiteouts
  BY <1>1, <1>2 DEF Memory
<1>4. \A p \in Paths : VisibleIn(n, p) = VisibleIn(r, p)
  BY <1>3 DEF VisibleIn
<1>5. \A p \in Paths : files[p] = m.overlay[p] => VisibleIn(r, p) = VisibleIn(m, p)
  BY <1>1 DEF VisibleIn
<1> QED
  BY <1>1, <1>3, <1>4, <1>5 DEF n

(* The steps of Restore.                                                   *)
There(m, target) == Switched(m, SwitchedTo(m, target), target)
Back(m, target, head) == Rewritten(There(m, target), SwitchedTo(There(m, target), head))
Touched(m, target, head) ==
    Changed(m, SwitchedTo(m, target)) \cup Changed(There(m, target), Back(m, target, head).overlay)
After(m, target, head) ==
    [Back(m, target, head) EXCEPT !.overlay = SwitchedTo(m, target), !.index = head]

LEMMA SwitchType ==
    ASSUME NEW m \in Memory, NEW tree \in Trees
    PROVE  SwitchedTo(m, tree) \in Trees
BY FieldsOfMemory DEF SwitchedTo, Trees

LEMMA ThereIs ==
    ASSUME NEW m \in Memory, NEW target \in Trees
    PROVE  LET t == There(m, target) files == SwitchedTo(m, target)
           IN  /\ t \in Memory
               /\ t.base = m.base /\ t.head = m.head /\ t.tracking = m.tracking
               /\ t.loaded = m.loaded /\ t.whole = m.whole
               /\ t.index = target /\ t.overlay = files
               /\ \A p \in Paths : files[p] = m.overlay[p] =>
                     (p \in t.whiteouts <=> p \in m.whiteouts) /\ VisibleIn(t, p) = VisibleIn(m, p)
BY SwitchMakes, SwitchType DEF There

LEMMA BackIs ==
    ASSUME NEW m \in Memory, NEW target \in Trees, NEW head \in Trees
    PROVE  LET t == There(m, target) b == Back(m, target, head)
           IN  /\ b \in Memory
               /\ b.base = t.base /\ b.head = t.head /\ b.tracking = t.tracking
               /\ b.loaded = t.loaded /\ b.whole = t.whole
               /\ b.overlay = SwitchedTo(t, head)
               /\ \A p \in Paths : SwitchedTo(t, head)[p] = t.overlay[p] =>
                     (p \in b.whiteouts <=> p \in t.whiteouts)
<1>1. There(m, target) \in Memory
  BY ThereIs
<1>2. SwitchedTo(There(m, target), head) \in Trees
  BY <1>1, SwitchType
<1> QED
  BY <1>1, <1>2, RewrittenIs DEF Back

LEMMA AfterIs ==
    ASSUME NEW m \in Memory, NEW target \in Trees, NEW head \in Trees
    PROVE  LET b == Back(m, target, head) a == After(m, target, head)
           IN  /\ a \in Memory /\ a.whiteouts = b.whiteouts
               /\ a.base = b.base /\ a.head = b.head /\ a.tracking = b.tracking
               /\ a.loaded = b.loaded /\ a.whole = b.whole
               /\ a.index = head /\ a.overlay = SwitchedTo(m, target)
<1>1. Back(m, target, head) \in Memory /\ SwitchedTo(m, target) \in Trees
  BY BackIs, SwitchType
<1> QED
  BY <1>1 DEF After, Memory

LEMMA RestoreMakes ==
    ASSUME NEW m \in Memory, NEW target \in Trees, NEW head \in Trees
    PROVE  LET after == After(m, target, head) touched == Touched(m, target, head)
               files == SwitchedTo(m, target)
           IN  /\ after \in Memory /\ files \in Trees /\ touched \subseteq Paths
               /\ after.base = m.base /\ after.head = m.head /\ after.tracking = m.tracking
               /\ after.loaded = m.loaded /\ after.whole = m.whole
               /\ after.index = head /\ after.overlay = files
               /\ \A p \in Paths \ touched :
                     /\ files[p] = m.overlay[p] /\ (p \in after.whiteouts <=> p \in m.whiteouts)
                     /\ VisibleIn(after, p) = VisibleIn(m, p)
                     /\ m.index[p] = m.overlay[p] => head[p] = m.index[p]
<1> DEFINE after == After(m, target, head)
           touched == Touched(m, target, head)
           files == SwitchedTo(m, target)
           there == There(m, target)
           back == Back(m, target, head)
           again == SwitchedTo(there, head)
<1>1. files \in Trees
  BY SwitchType
<1>2. /\ there \in Memory
      /\ there.base = m.base /\ there.head = m.head /\ there.tracking = m.tracking
      /\ there.loaded = m.loaded /\ there.whole = m.whole
      /\ there.index = target /\ there.overlay = files
      /\ \A p \in Paths : files[p] = m.overlay[p] =>
            (p \in there.whiteouts <=> p \in m.whiteouts) /\ VisibleIn(there, p) = VisibleIn(m, p)
  BY ThereIs
<1>4. \A p \in Paths : again[p] = IF target[p] # head[p] THEN head[p] ELSE files[p]
  BY <1>2 DEF SwitchedTo
<1>5. /\ back \in Memory
      /\ back.base = there.base /\ back.head = there.head /\ back.tracking = there.tracking
      /\ back.loaded = there.loaded /\ back.whole = there.whole
      /\ back.overlay = again
      /\ \A p \in Paths : again[p] = there.overlay[p] =>
            (p \in back.whiteouts <=> p \in there.whiteouts)
  BY BackIs
<1>6. /\ after \in Memory /\ after.whiteouts = back.whiteouts
      /\ after.base = back.base /\ after.head = back.head /\ after.tracking = back.tracking
      /\ after.loaded = back.loaded /\ after.whole = back.whole
      /\ after.index = head /\ after.overlay = files
  BY AfterIs
<1>7. touched \subseteq Paths
  BY DEF Changed, Touched
<1>8. ASSUME NEW p \in Paths \ touched
      PROVE  /\ files[p] = m.overlay[p] /\ (p \in after.whiteouts <=> p \in m.whiteouts)
             /\ VisibleIn(after, p) = VisibleIn(m, p)
             /\ m.index[p] = m.overlay[p] => head[p] = m.index[p]
  <2>1. files[p] = m.overlay[p] /\ again[p] = there.overlay[p]
    BY <1>5, <1>8 DEF Changed, Touched
  <2>2. p \in after.whiteouts <=> p \in m.whiteouts
    BY <1>2, <1>5, <1>6, <2>1
  <2>3. VisibleIn(after, p) = VisibleIn(m, p)
    BY <1>2, <1>5, <1>6, <2>1, <2>2 DEF VisibleIn
  <2>4. files[p] = IF m.index[p] # target[p] THEN target[p] ELSE m.overlay[p]
    BY DEF SwitchedTo
  <2>5. again[p] = IF target[p] # head[p] THEN head[p] ELSE files[p]
    BY <1>4
  <2>6. m.index[p] = m.overlay[p] => head[p] = m.index[p]
    BY <1>2, <2>1, <2>4, <2>5
  <2> QED
    BY <2>1, <2>2, <2>3, <2>6
<1> QED
  BY <1>1, <1>2, <1>5, <1>6, <1>7, <1>8

(* A forced checkout.                                                      *)
LEMMA ForcedType ==
    ASSUME NEW m \in Memory, NEW tree \in Trees
    PROVE  ForcedTo(m, tree) \in Trees
BY FieldsOfMemory DEF ForcedTo, Trees

-----------------------------------------------------------------------------
(* Loading the base.                                                       *)

(* A load that leaves at most one failure behind has the base under the    *)
(* rows, and nothing was under way before it.                              *)
LEMMA LoadingKeeps ==
    ASSUME Inv, up, NEW m \in Ready(mem),
           (IF m.loaded THEN fetchFailures ELSE fetchFailures + 1) <= 1
    PROVE  /\ m.loaded /\ fetchFailures <= 1
           /\ mem.loaded => m = mem
           /\ ~mem.loaded => fetchFailures = 1 /\ queue = 0 /\ push = 0 /\
                             \A c \in Callers : call[c].pc \in {"idle", "open", "fetch"}
           /\ \A p \in Paths \ undone : m.whole \/ p \in dirty => VisibleIn(m, p) = m.overlay[p]
           /\ \A p \in Covered : Restored(p) = VisibleIn(m, p)
<1>0. Typed /\ fetchFailures \in Nat /\ mem \in Memory
  BY DEF Inv, Typed
<1>1. CASE mem.loaded /\ m = mem
  <2>1. fetchFailures <= 1 /\ Complete
    BY <1>0, <1>1 DEF Complete, Loads
  <2> QED
    BY <1>1, <2>1 DEF Inv, Settled, SavedToo, Visible
<1>2. CASE ~mem.loaded /\ m = Replayed(WithBase(mem)) /\ m.loaded
  <2>1. Loads /\ ~mem.loaded
    BY <1>0, <1>2 DEF Loads
  <2>2. /\ fetchFailures = 1 /\ queue = 0 /\ push = 0 /\ undone = {} /\ mem.base = Empty
        /\ \A c \in Callers : call[c].pc \in {"idle", "open", "fetch"}
        /\ \A p \in dirty : mem.overlay[p] # Absent
        /\ \A p \in Paths \ dirty :
              IF p \in DOMAIN checkpoint THEN mem.overlay[p] = checkpoint[p]
              ELSE mem.overlay[p] = Absent /\ p \notin mem.whiteouts
    BY <2>1 DEF Inv, Degraded
  <2> DEFINE w == WithBase(mem)
  <2>3. /\ w \in Memory /\ w.overlay = mem.overlay /\ w.whiteouts = mem.whiteouts
        /\ w.base = IF known /\ remote # 0 THEN TreeOf(remote) ELSE mem.base
        /\ known /\ remote # 0 => w.whole = FALSE
    BY <1>0, WithBaseIs DEF Typed
  <2> HIDE DEF w
  <2>4. m = Replayed(w)
    BY <1>2 DEF w
  <2>5. /\ m.base = w.base /\ m.whole = w.whole
        /\ m.whiteouts = w.whiteouts \cup Deleted(checkpoint)
        /\ \A p \in Paths : m.overlay[p] = IF p \in DOMAIN checkpoint /\ checkpoint[p] # Absent
                                           THEN checkpoint[p] ELSE w.overlay[p]
    BY <1>0, <2>3, <2>4, ReplayedIs
  <2>6. m.base = TreeOf(remote)
    <3>1. remote # 0 => known
      BY DEF Inv, Sending
    <3>2. CASE remote # 0
      BY <2>3, <2>5, <3>1, <3>2
    <3>3. CASE remote = 0
      BY <2>2, <2>3, <2>5, <3>3 DEF TreeOf
    <3> QED
      BY <3>2, <3>3
  <2>7. ASSUME NEW p \in Paths, m.whole \/ p \in dirty
        PROVE  VisibleIn(m, p) = m.overlay[p]
    <3>1. CASE p \in dirty
      BY <2>2, <2>3, <2>5, <3>1 DEF VisibleIn
    <3>2. CASE m.whole
      <4>1. m.base = Empty
        <5>1. ~(known /\ remote # 0)
          BY <2>3, <2>5, <3>2
        <5> QED
          BY <2>2, <2>3, <2>5, <5>1
      <4>2. m.base[p] = Absent
        BY <4>1 DEF Empty
      <4> QED
        BY <4>2 DEF VisibleIn
    <3> QED
      BY <2>7, <3>1, <3>2
  <2>8. ASSUME NEW p \in Paths \ dirty
        PROVE  Restored(p) = VisibleIn(m, p)
    <3>1. CASE p \in DOMAIN checkpoint /\ checkpoint[p] # Absent
      BY <2>5, <3>1 DEF Restored, RestoredFrom, VisibleIn
    <3>2. CASE p \in DOMAIN checkpoint /\ checkpoint[p] = Absent
      <4>1. m.overlay[p] = Absent /\ p \in m.whiteouts
        BY <2>2, <2>3, <2>5, <3>2 DEF Deleted
      <4> QED
        BY <3>2, <4>1 DEF Restored, RestoredFrom, VisibleIn
    <3>3. CASE p \notin DOMAIN checkpoint
      <4>1. m.overlay[p] = Absent /\ p \notin m.whiteouts
        BY <2>2, <2>3, <2>5, <3>3 DEF Deleted
      <4> QED
        BY <2>6, <3>3, <4>1 DEF Restored, RestoredFrom, VisibleIn
    <3> QED
      BY <3>1, <3>2, <3>3
  <2> QED
    BY <1>2, <2>2, <2>7, <2>8 DEF Covered
<1>3. CASE ~mem.loaded /\ ~m.loaded
  <2>1. Loads
    BY <1>0, <1>3 DEF Loads
  <2> QED
    BY <1>3, <2>1 DEF Inv, Degraded
<1> QED
  BY <1>0, <1>1, <1>2, <1>3, ReadyIs

-----------------------------------------------------------------------------
(* Types.                                                                  *)

LEMMA InitTyped == Init => Typed
<1> SUFFICES ASSUME Init PROVE Typed
  OBVIOUS
<1>1. mem \in Memory /\ mem.head = 0 /\ mem.tracking = 0
  BY Zero DEF Init, Cold, Memory
<1>2. commits \in Seq(Trace) /\ Len(commits) = 0
  BY DEF Init
<1>3. NothingBuilt \in Bundle /\ NothingBuilt.commit = 0
  BY Zero DEF NothingBuilt, Bundle
<1>4. /\ call \in [Callers -> [pc : Pcs, job : Jobs, built : Bundle]]
      /\ \A c \in Callers : call[c].built.commit = 0
  BY <1>3 DEF Init, NoCall, Pcs, Jobs
<1>5. checkpoint = NoRows /\ DOMAIN checkpoint = {}
  BY DEF Init, NoRows
<1>6. client \in {"sequential", "concurrent"} /\ MaxCommits \in Nat /\ MaxWrites \in Nat
  BY SpaceAssumption DEF Init
<1>8. /\ remote = 0 /\ push = 0 /\ seen = 0 /\ queue = 0 /\ clock = 0 /\ fetchFailures = 0
      /\ dirty = {} /\ raced = {} /\ undone = {} /\ expect = Empty /\ deployed = NothingBuilt
  BY DEF Init
<1>9. 0 \in 0 .. Len(commits) /\ 0 \in 0 .. MaxWrites /\ Len(commits) <= MaxCommits
  BY <1>2, <1>6
<1>10. expect \in Trees /\ deployed \in Bundle /\ deployed.commit \in 0 .. Len(commits)
  BY <1>3, <1>8, <1>9, Zero
<1>12. \A id \in 1 .. Len(commits) : commits[id].history \subseteq 1 .. Len(commits)
  BY <1>2
<1>11. DOMAIN checkpoint \subseteq Paths /\ \A p \in DOMAIN checkpoint : checkpoint[p] \in Contents
  BY <1>5
<1> QED
  BY <1>1, <1>2, <1>4, <1>6, <1>8, <1>9, <1>10, <1>11, <1>12 DEF Typed

LEMMA GotoMakes ==
    ASSUME Typed, NEW c \in Callers, NEW q \in Pcs, Goto(c, q)
    PROVE  /\ call' \in [Callers -> [pc : Pcs, job : Jobs, built : Bundle]]
           /\ \A d \in Callers : call'[d].built.commit \in 0 .. Len(commits)
           /\ call'[c].pc = q
           /\ q # "idle" => call'[c].built = call[c].built
           /\ \A d \in Callers \ {c} : call'[d] = call[d]
<1>1. call \in [Callers -> [pc : Pcs, job : Jobs, built : Bundle]]
  BY DEF Typed
<1>2. CASE q = "idle"
  <2>1. NoCall \in [pc : Pcs, job : Jobs, built : Bundle] /\ NoCall.pc = "idle"
        /\ NoCall.built.commit = 0
    BY Zero DEF NoCall, NothingBuilt, Pcs, Jobs, Bundle
  <2>2. call' = [call EXCEPT ![c] = NoCall]
    BY <1>2 DEF Goto
  <2> HIDE DEF NoCall
  <2> QED
    BY <1>1, <1>2, <2>1, <2>2 DEF Typed
<1>3. CASE q # "idle"
  <2>1. call' = [call EXCEPT ![c].pc = q]
    BY <1>3 DEF Goto
  <2> QED
    BY <1>1, <1>3, <2>1 DEF Typed
<1> QED
  BY <1>2, <1>3

LEMMA SavedType ==
    ASSUME Typed, NEW m \in Memory, NEW rows, DOMAIN rows \subseteq Paths,
           \A p \in DOMAIN rows : rows[p] \in Contents
    PROVE  /\ DOMAIN Saved(rows, m) = DOMAIN rows \cup dirty
           /\ DOMAIN Saved(rows, m) \subseteq Paths
           /\ \A p \in DOMAIN Saved(rows, m) :
                 /\ Saved(rows, m)[p] = IF p \in dirty THEN m.overlay[p] ELSE rows[p]
                 /\ Saved(rows, m)[p] \in Contents
<1>1. m.overlay \in Trees /\ dirty \subseteq Paths
  BY FieldsOfMemory DEF Typed
<1> QED
  BY <1>1 DEF Saved, Trees

(* A commit leaves the commits there were.                                 *)
LEMMA TreesStay ==
    ASSUME Typed, [Next]_vars
    PROVE  /\ commits' \in Seq(Trace) /\ Len(commits') <= MaxCommits
           /\ Len(commits) <= Len(commits')
           /\ \A id \in 0 .. Len(commits) :
                 TreeOf(id)' = TreeOf(id) /\ Ancestors(id)' = Ancestors(id)
           /\ (\E c \in Callers : Commit(c)) \/ commits' = commits
<1>1. CASE commits' = commits
  BY <1>1 DEF Typed, TreeOf, Ancestors
<1>2. ASSUME NEW c \in Callers, Commit(c)
      PROVE  /\ commits' \in Seq(Trace) /\ Len(commits') <= MaxCommits
             /\ Len(commits) <= Len(commits')
             /\ \A id \in 0 .. Len(commits) :
                   TreeOf(id)' = TreeOf(id) /\ Ancestors(id)' = Ancestors(id)
  <2> DEFINE trace == [tree |-> mem.index, history |-> Ancestors(mem.head) \cup {Len(commits) + 1}]
  <2>1. /\ commits \in Seq(Trace) /\ Len(commits) \in Nat /\ Len(commits) < MaxCommits
        /\ MaxCommits \in Nat /\ mem \in Memory /\ mem.head \in 0 .. Len(commits)
    BY <1>2, SpaceAssumption DEF Commit, Typed
  <2>2. trace \in Trace
    <3>1. mem.index \in Trees /\ Ancestors(mem.head) \subseteq Ids
      BY <2>1, TreeType, FieldsOfMemory
    <3>2. Len(commits) + 1 \in Ids
      BY <2>1 DEF Ids
    <3> QED
      BY <3>1, <3>2 DEF Trace
  <2>3. commits' = Append(commits, trace)
    BY <1>2 DEF Commit
  <2> HIDE DEF trace
  <2>4. /\ commits' \in Seq(Trace) /\ Len(commits') = Len(commits) + 1
        /\ \A id \in 1 .. Len(commits) : commits'[id] = commits[id]
    BY SMTT(40), <2>1, <2>2, <2>3
  <2> QED
    BY <2>1, <2>4 DEF TreeOf, Ancestors
<1>3. (\E c \in Callers : Commit(c)) \/ commits' = commits
  BY ZenonT(60) DEF Next, Boot, Read, Reset, TimerFires, Pushing, PushStart, PushLands, PushDone, PushFails,
         Write, Remove, Call, Steps, Open, Opening, Stage, Prepare, Checkout, Build,
         RollbackFetch, Restore, durable, vars
<1> QED
  BY <1>1, <1>2, <1>3

(* The other variables of Typed, for a step that leaves the commits alone. *)
LEMMA TypedNext ==
    ASSUME Typed, commits' = commits, client' = client,
           mem' \in Memory, mem'.head \in 0 .. Len(commits), mem'.tracking \in 0 .. Len(commits),
           DOMAIN checkpoint' \subseteq Paths, \A p \in DOMAIN checkpoint' : checkpoint'[p] \in Contents,
           remote' \in 0 .. Len(commits), push' \in 0 .. Len(commits), seen' \in 0 .. Len(commits),
           deployed' \in Bundle, deployed'.commit \in 0 .. Len(commits),
           dirty' \subseteq Paths, raced' \subseteq Paths, undone' \subseteq Paths,
           queue' \in Nat, clock' \in 0 .. MaxWrites, fetchFailures' \in Nat, expect' \in Trees,
           call' \in [Callers -> [pc : Pcs, job : Jobs, built : Bundle]],
           \A c \in Callers : call'[c].built.commit \in 0 .. Len(commits)
    PROVE  Typed'
BY DEF Typed

LEMMA OpeningTyped ==
    ASSUME Typed, NEW c \in Callers, NEW from, NEW to \in Pcs, Opening(c, from, to)
    PROVE  Typed'
<1>1. PICK m \in Ready(mem) : mem' = Materialized(m) /\ Flush(Materialized(m)) /\ CountFailure(m)
  BY DEF Opening
<1>2. m \in Memory /\ m.head \in 0 .. Len(commits) /\ m.tracking \in 0 .. Len(commits)
  BY ReadyIs
<1>3. mem' \in Memory /\ mem'.head \in 0 .. Len(commits) /\ mem'.tracking \in 0 .. Len(commits)
  BY <1>1, <1>2, MaterializedIs
<1>4. /\ DOMAIN checkpoint' \subseteq Paths /\ \A p \in DOMAIN checkpoint' : checkpoint'[p] \in Contents
      /\ dirty' \subseteq Paths /\ raced' \subseteq Paths
  <2>1. checkpoint' = Saved(checkpoint, mem') /\ dirty' = {}
        /\ raced' = IF Pending THEN raced \cup dirty ELSE raced \ dirty
    BY <1>1 DEF Flush
  <2>2. DOMAIN checkpoint \subseteq Paths /\ \A p \in DOMAIN checkpoint : checkpoint[p] \in Contents
    BY DEF Typed
  <2>3. raced \subseteq Paths /\ dirty \subseteq Paths
    BY DEF Typed
  <2> QED
    BY <1>3, <2>1, <2>2, <2>3, SavedType
<1>5. fetchFailures' \in Nat
  BY <1>1 DEF CountFailure, Typed
<1>6. /\ call' \in [Callers -> [pc : Pcs, job : Jobs, built : Bundle]]
      /\ \A d \in Callers : call'[d].built.commit \in 0 .. Len(commits)
  BY GotoMakes DEF Opening
<1>7. UNCHANGED <<remote, deployed, commits, push, seen, queue, client, clock, expect, undone>>
  BY DEF Opening, pushes
<1> QED
  BY <1>3, <1>4, <1>5, <1>6, <1>7, TypedNext DEF Typed

LEMMA TypedKept ==
    ASSUME Typed, [Next]_vars
    PROVE  Typed'
<1> USE DEF durable, memory, pushes, counters
<1>0. /\ mem \in Memory /\ MaxWrites \in Nat /\ 0 \in 0 .. Len(commits)
      /\ DOMAIN checkpoint \subseteq Paths /\ \A p \in DOMAIN checkpoint : checkpoint[p] \in Contents
      /\ dirty \subseteq Paths /\ raced \subseteq Paths /\ undone \subseteq Paths
      /\ expect \in Trees /\ clock \in 0 .. MaxWrites
      /\ mem.head \in 0 .. Len(commits) /\ mem.tracking \in 0 .. Len(commits)
  BY SMTT(40), SpaceAssumption DEF Typed
<1>1. ASSUME Boot PROVE Typed'
  <2>1. PICK m \in Ready(mem) : mem' = m /\ CountFailure(m)
    BY <1>1 DEF Boot
  <2>2. m \in Memory /\ m.head \in 0 .. Len(commits) /\ m.tracking \in 0 .. Len(commits)
    BY ReadyIs
  <2>3. fetchFailures' \in Nat
    BY <2>1 DEF CountFailure, Typed
  <2>4. UNCHANGED <<durable, dirty, pushes, call, client, clock, expect, raced, undone>>
    BY <1>1 DEF Boot
  <2> QED
    BY <2>1, <2>2, <2>3, <2>4, TypedNext DEF Typed
<1>2. ASSUME Reset PROVE Typed'
  <2>1. Cold \in Memory /\ Cold.head = 0 /\ Cold.tracking = 0
    BY Zero DEF Cold, Memory
  <2>2. NoCall \in [pc : Pcs, job : Jobs, built : Bundle] /\ NoCall.built.commit = 0
    BY Zero DEF NoCall, NothingBuilt, Pcs, Jobs, Bundle
  <2>3. /\ mem' = Cold /\ dirty' = {} /\ raced' = {} /\ undone' = {}
        /\ queue' = 0 /\ push' = 0 /\ seen' = 0 /\ call' = [c \in Callers |-> NoCall]
        /\ UNCHANGED <<checkpoint, known, deployed, commits, client, clock, fetchFailures>>
    BY <1>2 DEF Reset
  <2>4. PICK head \in (IF push = 0 THEN {remote} ELSE {remote, push}) :
           remote' = head /\ expect' = [p \in Paths |-> RestoredFrom(checkpoint, head, p)]
    BY <1>2 DEF Reset
  <2>5. head \in 0 .. Len(commits)
    BY <2>4 DEF Typed
  <2>6. expect' \in Trees
    BY <1>0, <2>4, <2>5, TreeType DEF RestoredFrom, Trees
  <2> HIDE DEF NoCall, Cold
  <2>7. /\ call' \in [Callers -> [pc : Pcs, job : Jobs, built : Bundle]]
        /\ \A d \in Callers : call'[d].built.commit \in 0 .. Len(commits)
    BY <1>0, <2>2, <2>3
  <2> QED
    BY <1>0, <2>1, <2>3, <2>4, <2>5, <2>6, <2>7, TypedNext DEF Typed
<1>3. ASSUME TimerFires PROVE Typed'
  <2>1. /\ checkpoint' = Saved(checkpoint, mem) /\ dirty' = {}
        /\ raced' = IF Pending THEN raced \cup dirty ELSE raced \ dirty
        /\ UNCHANGED <<remote, deployed, commits, mem, pushes, call, client, counters, expect, undone>>
    BY <1>3 DEF TimerFires, Flush
  <2>2. DOMAIN checkpoint' \subseteq Paths /\ \A p \in DOMAIN checkpoint' : checkpoint'[p] \in Contents
    BY <1>0, <2>1, SavedType
  <2>3. raced' \subseteq Paths
    BY <1>0, <2>1
  <2> QED
    BY <2>1, <2>2, <2>3, TypedNext DEF Typed
<1>4. ASSUME PushStart PROVE Typed'
  <2>1. push' \in 0 .. Len(commits) /\ seen' \in 0 .. Len(commits) /\ queue' \in Nat
    BY <1>0, <1>4 DEF PushStart, Typed
  <2> QED
    BY <1>4, <2>1, TypedNext DEF PushStart, Typed
<1>5. ASSUME PushLands PROVE Typed'
  BY <1>5, TypedNext DEF PushLands, Typed
<1>6. ASSUME PushDone PROVE Typed'
  <2>1. mem' = [mem EXCEPT !.tracking = push] /\ push \in 0 .. Len(commits) /\ push \in Ids
    BY <1>6, SpaceAssumption DEF PushDone, Typed, Ids
  <2>2. mem' \in Memory /\ mem'.head = mem.head /\ mem'.tracking = push
    BY <1>0, <2>1 DEF Memory
  <2>3. /\ checkpoint' = Saved(NoRows, mem) /\ dirty' = {} /\ push' = 0
        /\ raced' = IF queue > 0 \/ ~Idle THEN raced \cup dirty ELSE raced \ dirty
        /\ UNCHANGED <<remote, deployed, commits, queue, seen, call, client, counters, expect, undone>>
    BY <1>6 DEF PushDone
  <2>4. DOMAIN checkpoint' \subseteq Paths /\ \A p \in DOMAIN checkpoint' : checkpoint'[p] \in Contents
    <3>1. DOMAIN NoRows = {}
      BY DEF NoRows
    <3> QED
      BY <1>0, <2>3, <3>1, SavedType
  <2>5. raced' \subseteq Paths
    BY <1>0, <2>3
  <2> QED
    BY <1>0, <2>1, <2>2, <2>3, <2>4, <2>5, TypedNext DEF Typed
<1>7. ASSUME PushFails PROVE Typed'
  <2>1. push' \in 0 .. Len(commits) /\ queue' \in Nat
    BY SMTT(40), <1>0, <1>7 DEF PushFails, Typed
  <2> QED
    BY <1>7, <2>1, TypedNext DEF PushFails, Typed
<1>8. ASSUME NEW p \in Paths, Read(p) PROVE Typed'
  <2>1. PICK m \in Ready(mem) : mem' = Hydrated(m, p) /\ CountFailure(m)
    BY <1>8 DEF Read, Hydrated
  <2>2. m \in Memory /\ m.head \in 0 .. Len(commits) /\ m.tracking \in 0 .. Len(commits)
    BY ReadyIs
  <2>3. mem' \in Memory /\ Same(m, mem')
    BY <2>1, <2>2, ReadMakes
  <2>4. fetchFailures' \in Nat
    BY <2>1 DEF CountFailure, Typed
  <2>5. UNCHANGED <<durable, dirty, pushes, call, client, clock, expect, raced, undone>>
    BY <1>8 DEF Read
  <2> QED
    BY <2>2, <2>3, <2>4, <2>5, TypedNext DEF Typed, Same
<1>9. ASSUME NEW p \in Paths, Write(p) PROVE Typed'
  <2>1. mem' = Written(mem, p, clock + 1)
    BY <1>9 DEF Write, Written
  <2>2. clock + 1 \in Contents \ {Absent} /\ clock + 1 \in 0 .. MaxWrites
    BY <1>0, <1>9 DEF Write, Contents, Absent
  <2>3. mem' \in Memory /\ Same(mem, mem')
    BY <1>0, <2>1, <2>2, WriteMakes
  <2>4. expect' \in Trees
    BY <1>0, <1>9, <2>2 DEF Write, Trees
  <2>5. /\ dirty' \subseteq Paths /\ undone' \subseteq Paths /\ clock' \in 0 .. MaxWrites
        /\ UNCHANGED <<durable, pushes, call, client, fetchFailures, raced>>
    BY <1>0, <1>9, <2>2 DEF Write, Note
  <2> QED
    BY <1>0, <2>3, <2>4, <2>5, TypedNext DEF Typed, Same
<1>10. ASSUME NEW p \in Paths, Remove(p) PROVE Typed'
  <2>1. PICK m \in Ready(mem) : mem' = Removed(m, p) /\ CountFailure(m)
    BY <1>10 DEF Remove, Removed
  <2>2. m \in Memory /\ m.head \in 0 .. Len(commits) /\ m.tracking \in 0 .. Len(commits)
    BY ReadyIs
  <2>3. mem' \in Memory /\ Same(m, mem')
    BY <2>1, <2>2, RemoveMakes
  <2>4. fetchFailures' \in Nat
    BY <2>1 DEF CountFailure, Typed
  <2>5. expect' \in Trees
    BY <1>0, <1>10, Zero DEF Remove, Trees
  <2>6. /\ dirty' \subseteq Paths /\ undone' \subseteq Paths
        /\ UNCHANGED <<durable, pushes, call, client, clock, raced>>
    BY <1>0, <1>10 DEF Remove, Note
  <2> QED
    BY <2>2, <2>3, <2>4, <2>5, <2>6, TypedNext DEF Typed, Same
<1>11. ASSUME NEW c \in Callers, NEW j \in {"local", "commit", "deploy", "rollback"}, Call(c, j)
       PROVE  Typed'
  <2>1. /\ call' = [call EXCEPT ![c].job = j, ![c].pc = IF j = "rollback" THEN "fetch" ELSE "open"]
        /\ UNCHANGED <<durable, mem, dirty, pushes, client, clock, fetchFailures, expect, raced, undone>>
    BY <1>11 DEF Call
  <2>2. call \in [Callers -> [pc : Pcs, job : Jobs, built : Bundle]]
    BY DEF Typed
  <2>3. /\ call' \in [Callers -> [pc : Pcs, job : Jobs, built : Bundle]]
        /\ \A d \in Callers : call'[d].built = call[d].built
    BY ZenonT(60), <2>1, <2>2 DEF Pcs, Jobs
  <2> QED
    BY <2>1, <2>3, TypedNext DEF Typed
<1>12. ASSUME NEW c \in Callers, Open(c) PROVE Typed'
  BY <1>12, OpeningTyped DEF Open, Pcs
<1>13. ASSUME NEW c \in Callers, Stage(c) PROVE Typed'
  <2>1. mem' = [mem EXCEPT !.index = mem.overlay]
    BY <1>13 DEF Stage
  <2>2. mem' \in Memory /\ mem'.head = mem.head /\ mem'.tracking = mem.tracking
    BY <1>0, <2>1 DEF Memory
  <2>3. PICK q \in Pcs : Goto(c, q)
    BY <1>13 DEF Stage, AfterCommit, Pcs
  <2>4. UNCHANGED <<durable, dirty, pushes, client, counters, expect, raced, undone>>
    BY <1>13 DEF Stage
  <2> QED
    BY <1>0, <2>2, <2>3, <2>4, GotoMakes, TypedNext DEF Typed
<1>14. ASSUME NEW c \in Callers, Commit(c) PROVE Typed'
  <2>1. /\ commits' \in Seq(Trace) /\ Len(commits') <= MaxCommits /\ Len(commits) <= Len(commits')
        /\ Len(commits') = Len(commits) + 1
    BY SMTT(40), <1>14, TreesStay DEF Commit, Typed, Next, Steps
  <2>9. \A i \in 1 .. Len(commits') : commits'[i].history \subseteq 1 .. Len(commits')
    <3> DEFINE trace == [tree |-> mem.index, history |-> Ancestors(mem.head) \cup {Len(commits) + 1}]
    <3>1. commits' = Append(commits, trace) /\ commits \in Seq(Trace) /\ Len(commits) \in Nat
      BY <1>14 DEF Commit, Typed
    <3>2. trace.history = Ancestors(mem.head) \cup {Len(commits) + 1}
      OBVIOUS
    <3>3. Ancestors(mem.head) \subseteq 1 .. Len(commits)
      BY <1>0, TreeType
    <3> HIDE DEF trace
    <3>4. /\ \A i \in 1 .. Len(commits) : commits'[i] = commits[i]
          /\ commits'[Len(commits) + 1] = trace
      BY <3>1
    <3>5. ASSUME NEW i \in 1 .. Len(commits')
          PROVE  commits'[i].history \subseteq 1 .. Len(commits')
      <4>1. CASE i \in 1 .. Len(commits)
        <5>1. commits'[i].history \subseteq 1 .. Len(commits)
          BY <3>4, <4>1 DEF Typed
        <5> QED
          BY <2>1, <3>1, <5>1
      <4>2. CASE i = Len(commits) + 1
        <5>1. commits'[i].history = Ancestors(mem.head) \cup {Len(commits) + 1}
          BY <3>2, <3>4, <4>2
        <5> QED
          BY <2>1, <3>1, <3>3, <5>1
      <4> QED
        BY <2>1, <3>1, <4>1, <4>2
    <3> QED
      BY <3>5
  <2>2. mem' = [mem EXCEPT !.head = Len(commits) + 1]
    BY <1>14 DEF Commit
  <2>3. Len(commits) + 1 \in Ids /\ Len(commits) + 1 \in 0 .. Len(commits') /\ Len(commits) \in Nat
        /\ \A i \in 0 .. Len(commits) : i \in 0 .. Len(commits')
    BY <2>1, SpaceAssumption DEF Typed, Ids
  <2>4. mem' \in Memory /\ mem'.head = Len(commits) + 1 /\ mem'.tracking = mem.tracking
    BY <1>0, <2>2, <2>3 DEF Memory
  <2>5. PICK q \in Pcs : Goto(c, q)
    BY <1>14 DEF Commit, AfterCommit, Pcs
  <2>6. /\ call' \in [Callers -> [pc : Pcs, job : Jobs, built : Bundle]]
        /\ \A d \in Callers : call'[d].built.commit \in 0 .. Len(commits)
    BY <2>5, GotoMakes
  <2>7. queue' \in Nat
    BY <1>14 DEF Commit, Typed
  <2>8. UNCHANGED <<checkpoint, remote, deployed, dirty, push, seen, client, counters,
                    expect, raced, undone>>
    BY <1>14 DEF Commit
  <2> QED
    BY <1>0, <2>1, <2>3, <2>4, <2>6, <2>7, <2>8, <2>9 DEF Typed
<1>15. ASSUME NEW c \in Callers, Prepare(c) PROVE Typed'
  BY <1>15, OpeningTyped DEF Prepare, Pcs
<1>16. ASSUME NEW c \in Callers, Checkout(c) PROVE Typed'
  <2>1. CASE mem.head = 0
    <3>1. /\ Goto(c, "idle") /\ UNCHANGED <<mem, dirty>>
          /\ UNCHANGED <<durable, pushes, client, counters, expect, raced, undone>>
      BY <1>16, <2>1 DEF Checkout
    <3>2. "idle" \in Pcs
      BY DEF Pcs
    <3> QED
      BY <3>1, <3>2, GotoMakes, TypedNext DEF Typed
  <2>2. CASE mem.head # 0
    <3> DEFINE tree == TreeOf(mem.head)
               files == ForcedTo(mem, tree)
    <3>1. tree \in Trees /\ files \in Trees /\ mem.head \in Ids
      BY <1>0, TreeType, ForcedType, FieldsOfMemory
    <3>2. /\ mem' = Switched(mem, files, tree)
          /\ Note(Changed(mem, files))
          /\ call' = [call EXCEPT ![c].pc = "build",
                                  ![c].built = [commit |-> mem.head, files |-> files]]
          /\ UNCHANGED <<durable, pushes, client, counters, expect, raced, undone>>
      BY <1>16, <2>2 DEF Checkout, Switched
    <3> HIDE DEF files, tree
    <3>3. mem' \in Memory /\ mem'.head = mem.head /\ mem'.tracking = mem.tracking
      <4>1. mem \in Memory /\ mem' = Switched(mem, files, tree)
        BY <1>0, <3>2 DEF Typed
      <4>2. ASSUME NEW n, n = Switched(mem, files, tree)
            PROVE  n \in Memory /\ n.head = mem.head /\ n.tracking = mem.tracking
        BY SMTT(40), <3>1, <4>1, <4>2, SwitchMakes
      <4> QED
        BY <4>1, <4>2
    <3>4. dirty' \subseteq Paths
      BY <1>0, <3>2 DEF Note, Changed
    <3> DEFINE bundle == [commit |-> mem.head, files |-> files]
    <3>5. bundle \in Bundle /\ bundle.commit = mem.head
      BY <3>1 DEF Bundle
    <3>6. call' = [call EXCEPT ![c].pc = "build", ![c].built = bundle]
      BY <3>2
    <3>7. call \in [Callers -> [pc : Pcs, job : Jobs, built : Bundle]] /\ "build" \in Pcs
      BY DEF Typed, Pcs
    <3> HIDE DEF bundle
    <3>8. /\ call' \in [Callers -> [pc : Pcs, job : Jobs, built : Bundle]]
          /\ \A d \in Callers : call'[d].built.commit \in 0 .. Len(commits)
      BY <1>0, <3>5, <3>6, <3>7 DEF Typed
    <3> QED
      BY <1>0, <3>2, <3>3, <3>4, <3>8, TypedNext DEF Typed
  <2> QED
    BY <2>1, <2>2
<1>17. ASSUME NEW c \in Callers, Build(c) PROVE Typed'
  <2>1. Goto(c, "idle") /\ "idle" \in Pcs
    BY <1>17 DEF Build, Pcs
  <2>2. deployed' \in Bundle /\ deployed'.commit \in 0 .. Len(commits) /\ queue' \in Nat
    BY SMTT(40), <1>17 DEF Build, Typed
  <2>3. UNCHANGED <<checkpoint, remote, commits, mem, dirty, push, seen, client, counters,
                    expect, raced, undone>>
    BY <1>17 DEF Build
  <2> QED
    BY <2>1, <2>2, <2>3, GotoMakes, TypedNext DEF Typed
<1>18. ASSUME NEW c \in Callers, RollbackFetch(c) PROVE Typed'
  <2>1. PICK m \in Ready(mem), fetched \in {mem.tracking, remote} \cup {x.tracking : x \in Ready(mem)} :
           mem' = [Materialized(m) EXCEPT !.tracking = fetched] /\ CountFailure(m)
    BY <1>18 DEF RollbackFetch
  <2>2. m \in Memory /\ m.head \in 0 .. Len(commits)
    BY ReadyIs
  <2>3. fetched \in 0 .. Len(commits) /\ fetched \in Ids
    <3>1. fetched \in 0 .. Len(commits)
      BY <1>0, <2>1, ReadyIs DEF Typed
    <3> QED
      BY <3>1, SpaceAssumption DEF Typed, Ids
  <2>4. Materialized(m) \in Memory /\ Materialized(m).head = m.head
    BY <2>2, MaterializedIs
  <2>5. mem' \in Memory /\ mem'.head = m.head /\ mem'.tracking = fetched
    BY <2>1, <2>3, <2>4 DEF Memory
  <2>6. PICK q \in Pcs : Goto(c, q)
    BY <1>18 DEF RollbackFetch, Pcs
  <2>7. fetchFailures' \in Nat
    BY <2>1 DEF CountFailure, Typed
  <2>8. UNCHANGED <<durable, dirty, pushes, client, clock, expect, raced, undone>>
    BY <1>18 DEF RollbackFetch
  <2> QED
    BY <2>2, <2>3, <2>5, <2>6, <2>7, <2>8, GotoMakes, TypedNext DEF Typed
<1>19. ASSUME NEW c \in Callers, NEW id \in Ids, Restore(c, id) PROVE Typed'
  <2> DEFINE target == TreeOf(id)
             head == TreeOf(mem.head)
             files == SwitchedTo(mem, target)
             touched == Touched(mem, target, head)
             after == After(mem, target, head)
  <2>1. CASE Conflict(mem, target)
    <3>1. /\ Goto(c, "idle") /\ UNCHANGED <<mem, dirty, expect, undone>>
          /\ UNCHANGED <<durable, pushes, client, counters, raced>>
      BY <1>19, <2>1 DEF Restore
    <3>2. "idle" \in Pcs
      BY DEF Pcs
    <3> QED
      BY <3>1, <3>2, GotoMakes, TypedNext DEF Typed
  <2>2. CASE ~Conflict(mem, target)
    <3>1. target \in Trees /\ head \in Trees
      <4>1. mem.head \in 0 .. Len(commits) /\ id \in Ancestors(mem.head)
        BY <1>0, <1>19 DEF Restore
      <4>2. id \in 0 .. Len(commits)
        BY <4>1, TreeType
      <4> QED
        BY <4>1, <4>2, TreeType
    <3>2. /\ mem' = after /\ Note(touched) /\ Goto(c, "open")
          /\ expect' = [p \in Paths |-> IF p \in touched THEN files[p] ELSE expect[p]]
          /\ undone' = (undone \ touched) \cup {p \in touched : VisibleIn(after, p) # files[p]}
          /\ UNCHANGED <<durable, up, pushes, client, counters, raced>>
      BY <1>19, <2>2 DEF Restore, Touched, After, Back, There, Switched
    <3>3. after \in Memory /\ files \in Trees /\ touched \subseteq Paths
          /\ after.head = mem.head /\ after.tracking = mem.tracking
      BY <1>0, <3>1, RestoreMakes
    <3> HIDE DEF after, files, touched
    <3>4. dirty' \subseteq Paths /\ undone' \subseteq Paths
      BY <1>0, <3>2, <3>3 DEF Note
    <3>5. expect' \in Trees
      BY <1>0, <3>2, <3>3 DEF Trees
    <3>6. "open" \in Pcs
      BY DEF Pcs
    <3> QED
      BY <1>0, <3>2, <3>3, <3>4, <3>5, <3>6, GotoMakes, TypedNext DEF Typed
  <2> QED
    BY <2>1, <2>2
<1>20. CASE UNCHANGED vars
  BY <1>0, <1>20, TypedNext DEF vars, Typed
<1> QED
  BY <1>1, <1>2, <1>3, <1>4, <1>5, <1>6, <1>7, <1>8, <1>9, <1>10, <1>11, <1>12, <1>13, <1>14,
     <1>15, <1>16, <1>17, <1>18, <1>19, <1>20 DEF Next, Pushing, Steps

-----------------------------------------------------------------------------
(* An instance that has not started.                                       *)

LEMMA InitAtRest == Init => AtRest
<1> SUFFICES ASSUME Init PROVE AtRest
  OBVIOUS
<1>1. mem = Cold /\ dirty = {} /\ timer = FALSE /\ queue = 0 /\ push = 0 /\ raced = {} /\ undone = {}
  BY DEF Init
<1>2. Idle
  BY DEF Init, Idle, NoCall
<1>3. \A p \in Paths : expect[p] = Restored(p)
  BY DEF Init, Restored, RestoredFrom, NoRows, TreeOf
<1> QED
  BY <1>1, <1>2, <1>3 DEF AtRest

(* It can only start.                                                      *)
LEMMA OnlyBoot ==
    ASSUME AtRest, ~up, [Next]_vars
    PROVE  Boot \/ UNCHANGED vars
<1>1. timer = FALSE /\ queue = 0 /\ push = 0 /\ \A c \in Callers : call[c].pc = "idle"
  BY DEF AtRest, Idle
<1>2. ~TimerFires /\ ~Pushing /\ ~PushFails /\ ~Reset
  BY <1>1 DEF TimerFires, Pushing, PushStart, PushLands, PushDone, PushFails, Reset
<1>3. \A p \in Paths : ~Read(p) /\ ~Write(p) /\ ~Remove(p)
  BY ZenonT(60) DEF Read, Write, Remove
<1>4. ASSUME NEW c \in Callers
      PROVE  ~Steps(c) /\ \A j \in Jobs : ~Call(c, j)
  BY <1>1 DEF Steps, Open, Opening, Stage, Commit, Prepare, Checkout, Build, RollbackFetch,
              Restore, Call
<1> QED
  BY <1>2, <1>3, <1>4 DEF Next, Jobs

(* Starting: either the base is loaded under the rows, or there are only   *)
(* the rows.                                                               *)
LEMMA BootMakes ==
    ASSUME Typed, AtRest, Sending, Boot
    PROVE  /\ up' /\ UNCHANGED <<durable, dirty, pushes, call, expect, raced, undone>>
           /\ dirty = {} /\ queue = 0 /\ push = 0 /\ Idle /\ raced = {} /\ undone = {}
           /\ mem'.whole = FALSE
           /\ mem'.loaded => \A p \in Paths : VisibleIn(mem', p) = Restored(p)
           /\ ~mem'.loaded =>
                 /\ fetchFailures' = fetchFailures + 1 /\ mem'.base = Empty
                 /\ \A p \in Paths :
                       IF p \in DOMAIN checkpoint THEN mem'.overlay[p] = checkpoint[p]
                       ELSE mem'.overlay[p] = Absent /\ p \notin mem'.whiteouts
<1>1. /\ mem = Cold /\ dirty = {} /\ queue = 0 /\ push = 0 /\ Idle /\ raced = {} /\ undone = {}
      /\ up' /\ UNCHANGED <<durable, dirty, pushes, call, expect, raced, undone>>
  BY DEF AtRest, Boot
<1>2. PICK m \in Ready(mem) : mem' = m /\ CountFailure(m)
  BY DEF Boot
<1>3. /\ mem.loaded = FALSE /\ mem.whole = FALSE /\ mem.base = Empty /\ mem.whiteouts = {}
      /\ mem.overlay = Empty /\ mem \in Memory
      /\ mem.head \in 0 .. Len(commits) /\ mem.tracking \in 0 .. Len(commits)
  BY <1>1 DEF Cold, Typed
<1>4. \A p \in Paths : mem.overlay[p] = Absent /\ mem.base[p] = Absent
  BY <1>3 DEF Empty
<1>5. CASE m.loaded
  <2> DEFINE w == WithBase(mem)
  <2>1. /\ w \in Memory /\ w.overlay = mem.overlay /\ w.whiteouts = mem.whiteouts
        /\ w.base = IF known /\ remote # 0 THEN TreeOf(remote) ELSE mem.base
        /\ w.whole = FALSE
    <3>1. w.whole = mem.whole \/ w.whole = FALSE
      BY <1>3 DEF WithBase, Memory
    <3> QED
      BY <1>3, <3>1, WithBaseIs
  <2>2. m = Replayed(w)
    BY <1>2, <1>3, <1>5, ReadyIs
  <2> HIDE DEF w
  <2>3. /\ m.base = w.base /\ m.whole = w.whole
        /\ m.whiteouts = w.whiteouts \cup Deleted(checkpoint)
        /\ \A p \in Paths : m.overlay[p] = IF p \in DOMAIN checkpoint /\ checkpoint[p] # Absent
                                           THEN checkpoint[p] ELSE w.overlay[p]
    BY <2>1, <2>2, ReplayedIs
  <2>4. m.base = TreeOf(remote)
    BY <1>3, <2>1, <2>3 DEF Sending, TreeOf
  <2>5. ASSUME NEW p \in Paths
        PROVE  VisibleIn(m, p) = Restored(p)
    <3>1. CASE p \in DOMAIN checkpoint /\ checkpoint[p] # Absent
      BY <2>3, <3>1 DEF Restored, RestoredFrom, VisibleIn
    <3>2. CASE p \in DOMAIN checkpoint /\ checkpoint[p] = Absent
      <4>1. m.overlay[p] = Absent /\ p \in m.whiteouts
        BY <1>4, <2>1, <2>3, <3>2 DEF Deleted
      <4> QED
        BY <3>2, <4>1 DEF Restored, RestoredFrom, VisibleIn
    <3>3. CASE p \notin DOMAIN checkpoint
      <4>1. m.overlay[p] = Absent /\ p \notin m.whiteouts
        BY <1>3, <1>4, <2>1, <2>3, <3>3 DEF Deleted
      <4> QED
        BY <2>4, <3>3, <4>1 DEF Restored, RestoredFrom, VisibleIn
    <3> QED
      BY <3>1, <3>2, <3>3
  <2> QED
    BY <1>1, <1>2, <1>5, <2>1, <2>3, <2>5
<1>6. CASE ~m.loaded
  <2>1. m = Replayed(mem) /\ fetchFailures' = fetchFailures + 1
    BY <1>2, <1>3, <1>6, ReadyIs DEF CountFailure
  <2>2. /\ m.base = mem.base /\ m.whole = mem.whole
        /\ m.whiteouts = mem.whiteouts \cup Deleted(checkpoint)
        /\ \A p \in Paths : m.overlay[p] = IF p \in DOMAIN checkpoint /\ checkpoint[p] # Absent
                                           THEN checkpoint[p] ELSE mem.overlay[p]
    BY <1>3, <2>1, ReplayedIs
  <2>3. ASSUME NEW p \in Paths
        PROVE  IF p \in DOMAIN checkpoint THEN m.overlay[p] = checkpoint[p]
               ELSE m.overlay[p] = Absent /\ p \notin m.whiteouts
    BY <1>3, <1>4, <2>2 DEF Deleted
  <2> QED
    BY <1>1, <1>2, <1>3, <1>6, <2>1, <2>2, <2>3
<1> QED
  BY <1>5, <1>6

LEMMA ResetMakes ==
    ASSUME Typed, Reset
    PROVE  /\ ~up' /\ mem' = Cold /\ dirty' = {} /\ timer' = FALSE /\ queue' = 0 /\ push' = 0
           /\ raced' = {} /\ undone' = {} /\ landed' = FALSE
           /\ remote' \in {remote, push} /\ UNCHANGED <<known, deployed, client, fetchFailures>>
           /\ \A c \in Callers : call'[c].pc = "idle"
           /\ \A p \in Paths : expect'[p] = Restored(p)'
<1>1. \A c \in Callers : call'[c].pc = "idle"
  BY DEF Reset, NoCall
<1>2. PICK head \in (IF push = 0 THEN {remote} ELSE {remote, push}) :
         remote' = head /\ expect' = [p \in Paths |-> RestoredFrom(checkpoint, head, p)]
  BY DEF Reset
<1>3. checkpoint' = checkpoint /\ commits' = commits
  BY DEF Reset
<1>4. \A p \in Paths : expect'[p] = Restored(p)'
  BY <1>2, <1>3 DEF Restored, RestoredFrom, TreeOf
<1> QED
  BY <1>1, <1>2, <1>4 DEF Reset

LEMMA AtRestKept ==
    ASSUME Inv, [Next]_vars
    PROVE  AtRest'
<1>0. Typed /\ AtRest /\ Sending
  BY DEF Inv
<1>1. CASE Reset
  BY <1>0, <1>1, ResetMakes DEF AtRest, Idle
<1>2. CASE ~up
  <2>1. CASE Boot
    BY <1>0, <2>1, BootMakes DEF AtRest
  <2>2. CASE UNCHANGED vars
    BY <1>0, <1>2, <2>2
       DEF AtRest, Idle, vars, durable, memory, pushes, Restored, RestoredFrom, TreeOf
  <2> QED
    BY <1>0, <1>2, <2>1, <2>2, OnlyBoot
<1>3. CASE up /\ ~Reset
  <2>1. up'
    BY ZenonT(60), <1>3 DEF Next, Boot, Read, TimerFires, Pushing, PushStart, PushLands, PushDone,
       PushFails, Write, Remove, Call, Steps, Open, Opening, Stage, Commit, Prepare, Checkout,
       Build, RollbackFetch, Restore, memory, vars
  <2> QED
    BY <2>1 DEF AtRest
<1> QED
  BY <1>1, <1>2, <1>3

-----------------------------------------------------------------------------
(* What is pushed.                                                         *)

LEMMA OnlyPushes ==
    ASSUME [Next]_vars, ~Reset, ~Pushing, ~PushFails
    PROVE  UNCHANGED <<remote, known, push, landed, seen>>
<1> USE DEF durable, pushes
<1>1. CASE Boot \/ TimerFires \/ UNCHANGED vars
  BY <1>1 DEF Boot, TimerFires, vars
<1>2. ASSUME NEW p \in Paths, Read(p) \/ Write(p) \/ Remove(p)
      PROVE  UNCHANGED <<remote, known, push, landed, seen>>
  BY <1>2 DEF Read, Write, Remove
<1>3. ASSUME NEW c \in Callers, NEW j \in {"local", "commit", "deploy", "rollback"}, Call(c, j)
      PROVE  UNCHANGED <<remote, known, push, landed, seen>>
  BY <1>3 DEF Call
<1>4. ASSUME NEW c \in Callers, Steps(c)
      PROVE  UNCHANGED <<remote, known, push, landed, seen>>
  <2>1. CASE Open(c) \/ Prepare(c)
    BY <2>1 DEF Open, Prepare, Opening
  <2>2. CASE Stage(c)
    BY <2>2 DEF Stage
  <2>3. CASE Commit(c)
    BY <2>3 DEF Commit
  <2>4. CASE Checkout(c)
    BY <2>4 DEF Checkout
  <2>5. CASE Build(c)
    BY <2>5 DEF Build
  <2>6. CASE RollbackFetch(c)
    BY <2>6 DEF RollbackFetch
  <2>7. ASSUME NEW id \in Ids, Restore(c, id)
        PROVE  UNCHANGED <<remote, known, push, landed, seen>>
    BY <2>7 DEF Restore
  <2> QED
    BY <1>4, <2>1, <2>2, <2>3, <2>4, <2>5, <2>6, <2>7 DEF Steps
<1> QED
  BY <1>1, <1>2, <1>3, <1>4 DEF Next

LEMMA SendingKept ==
    ASSUME Inv, [Next]_vars
    PROVE  Sending'
<1>0. Typed /\ Sending
  BY DEF Inv
<1>1. CASE Reset
  BY <1>0, <1>1, ResetMakes DEF Sending
<1>2. CASE PushStart
  <2>1. push' # 0 => (seen' # 0 => seen' \in Ancestors(push'))
    BY <1>2 DEF PushStart, Contained
  <2>2. Ancestors(push)' = Ancestors(push')
    BY <1>2 DEF PushStart, Ancestors
  <2> QED
    BY <1>0, <1>2, <2>1, <2>2 DEF PushStart, Sending
<1>3. CASE PushLands
  BY <1>0, <1>3 DEF PushLands, Sending, Ancestors
<1>4. CASE PushDone
  BY <1>0, <1>4 DEF PushDone, Sending
<1>5. CASE PushFails
  BY <1>0, <1>5 DEF PushFails, Sending, Ancestors, durable
<1>6. CASE UNCHANGED <<remote, known, push, landed, seen>>
  <2>1. push \in 0 .. Len(commits)
    BY <1>0 DEF Typed
  <2>2. Ancestors(push)' = Ancestors(push)
    <3>1. \A id \in 0 .. Len(commits) : Ancestors(id)' = Ancestors(id)
      BY <1>0, TreesStay
    <3>2. Ancestors(push)' = IF push = 0 THEN {} ELSE commits'[push].history
      BY <1>6 DEF Ancestors
    <3>3. Ancestors(push) = IF push = 0 THEN {} ELSE commits'[push].history
      BY <2>1, <3>1 DEF Ancestors
    <3> QED
      BY <3>2, <3>3
  <2> QED
    BY <1>0, <1>6, <2>2 DEF Sending
<1>7. \/ Reset \/ Pushing \/ PushFails \/ UNCHANGED <<remote, known, push, landed, seen>>
  BY OnlyPushes
<1> QED
  BY <1>1, <1>2, <1>3, <1>4, <1>5, <1>6, <1>7 DEF Pushing

(* The step of KnownHistoryKept.                                           *)
LEMMA KnownHistoryStep ==
    ASSUME Inv, [Next]_vars, remote' # remote, seen # 0
    PROVE  seen \in commits[remote'].history
<1>1. remote' = push /\ push # 0
  <2>1. Reset \/ Pushing
    BY OnlyPushes DEF PushFails, durable
  <2>2. CASE Reset
    BY <2>2, ResetMakes DEF Inv, Reset
  <2>3. CASE Pushing
    BY <2>3 DEF Pushing, PushStart, PushLands, PushDone
  <2> QED
    BY <2>1, <2>2, <2>3
<1> QED
  BY <1>1 DEF Inv, Sending, Ancestors

-----------------------------------------------------------------------------
(* How a call moves.                                                       *)
LEMMA CallMoves ==
    ASSUME Typed, [Next]_vars, ~Reset, NEW c \in Callers
    PROVE  \/ call'[c] = call[c]
           \/ call'[c].pc = "idle"
           \/ call'[c].pc \in {"open", "fetch"} /\ \E j \in Jobs : Call(c, j)
           \/ call'[c].pc = "open" /\ \E id \in Ids : Restore(c, id)
           \/ call'[c].pc = "stage" /\ Open(c)
           \/ call'[c].pc = "commit" /\ Stage(c)
           \/ call'[c].pc = "prepare" /\ (Stage(c) \/ Commit(c))
           \/ call'[c].pc = "checkout" /\ Prepare(c)
           \/ call'[c].pc = "build" /\ Checkout(c)
           \/ call'[c].pc = "restore" /\ RollbackFetch(c)
<1>1. call \in [Callers -> [pc : Pcs, job : Jobs, built : Bundle]]
  BY DEF Typed
<1>2. CASE call' = call
  BY <1>2
<1>3. ASSUME NEW d \in Callers, NEW j \in {"local", "commit", "deploy", "rollback"}, Call(d, j)
      PROVE  /\ \A e \in Callers \ {d} : call'[e] = call[e]
             /\ call'[d].pc \in {"open", "fetch"} /\ j \in Jobs
  <2>1. call' = [call EXCEPT ![d].job = j, ![d].pc = IF j = "rollback" THEN "fetch" ELSE "open"]
    BY <1>3 DEF Call
  <2> QED
    BY <1>1, <2>1 DEF Jobs
<1>4. ASSUME NEW d \in Callers, NEW q \in Pcs, Goto(d, q)
      PROVE  (\A e \in Callers \ {d} : call'[e] = call[e]) /\ call'[d].pc = q
  BY <1>4, GotoMakes
<1>5. ASSUME NEW d \in Callers, Checkout(d)
      PROVE  (\A e \in Callers \ {d} : call'[e] = call[e]) /\ call'[d].pc \in {"idle", "build"}
  <2>1. CASE mem.head = 0
    <3>1. Goto(d, "idle") /\ "idle" \in Pcs
      BY <1>5, <2>1 DEF Checkout, Pcs
    <3> QED
      BY <1>4, <3>1
  <2>2. CASE mem.head # 0
    <3> DEFINE b == [commit |-> mem.head, files |-> ForcedTo(mem, TreeOf(mem.head))]
    <3>1. call' = [call EXCEPT ![d].pc = "build", ![d].built = b]
      BY SMTT(40), <1>5, <2>2 DEF Checkout
    <3> HIDE DEF b
    <3> QED
      BY <1>1, <3>1
  <2> QED
    BY <2>1, <2>2
<1>6. \/ UNCHANGED call
      \/ \E d \in Callers : \E j \in {"local", "commit", "deploy", "rollback"} : Call(d, j)
      \/ \E d \in Callers : Steps(d)
  BY DEF Next, Boot, Read, TimerFires, Write, Remove, Pushing, PushStart, PushLands, PushDone,
         PushFails, vars
<1>7. ASSUME NEW d \in Callers, Steps(d), d # c
      PROVE  call'[c] = call[c]
  <2>1. CASE Checkout(d)
    BY <1>5, <1>7, <2>1
  <2>2. CASE ~Checkout(d)
    <3>1. PICK q \in Pcs : Goto(d, q)
      BY <1>7, <2>2 DEF Steps, Open, Opening, Stage, AfterCommit, Commit, Prepare, Build,
                        RollbackFetch, Restore, Pcs
    <3> QED
      BY SMTT(40), <1>4, <1>7, <3>1
  <2> QED
    BY <2>1, <2>2
<1>8. ASSUME Steps(c)
      PROVE  \/ call'[c].pc = "idle"
             \/ call'[c].pc = "open" /\ \E id \in Ids : Restore(c, id)
             \/ call'[c].pc = "stage" /\ Open(c)
             \/ call'[c].pc = "commit" /\ Stage(c)
             \/ call'[c].pc = "prepare" /\ (Stage(c) \/ Commit(c))
             \/ call'[c].pc = "checkout" /\ Prepare(c)
             \/ call'[c].pc = "build" /\ Checkout(c)
             \/ call'[c].pc = "restore" /\ RollbackFetch(c)
  <2>0. \A q \in Pcs : Goto(c, q) => call'[c].pc = q
    BY <1>4
  <2>1. CASE Open(c)
    BY <2>0, <2>1 DEF Open, Opening, Pcs
  <2>2. CASE Stage(c)
    BY <2>0, <2>2 DEF Stage, AfterCommit, Pcs
  <2>3. CASE Commit(c)
    BY <2>0, <2>3 DEF Commit, AfterCommit, Pcs
  <2>4. CASE Prepare(c)
    BY <2>0, <2>4 DEF Prepare, Opening, Pcs
  <2>5. CASE Checkout(c)
    BY <1>5, <2>5
  <2>6. CASE Build(c)
    BY <2>0, <2>6 DEF Build, Pcs
  <2>7. CASE RollbackFetch(c)
    BY <2>0, <2>7 DEF RollbackFetch, Pcs
  <2>8. ASSUME NEW id \in Ids, Restore(c, id)
        PROVE  call'[c].pc \in {"idle", "open"}
    BY <2>0, <2>8 DEF Restore, Pcs
  <2> QED
    BY <1>8, <2>1, <2>2, <2>3, <2>4, <2>5, <2>6, <2>7, <2>8 DEF Steps
<1> QED
  BY <1>2, <1>3, <1>6, <1>7, <1>8

-----------------------------------------------------------------------------
(* What a step does to the files.                                          *)

Wanted == queue > 0 \/ push' # 0 \/ \E c \in Callers : call[c].pc \notin {"idle", "open"}

(* From m, which may be the base just loaded, the files T were changed.    *)
Kept(m, T) ==
    /\ \A p \in Paths \ T :
          /\ VisibleIn(mem', p) = VisibleIn(m, p)
          /\ m.overlay[p] = VisibleIn(m, p) => mem'.overlay[p] = m.overlay[p]
          /\ expect'[p] = expect[p]
    /\ \A p \in T \ undone' : VisibleIn(mem', p) = mem'.overlay[p]
    /\ \/ \A p \in T : expect'[p] = mem'.overlay[p]
       \/ \E c \in Callers : Checkout(c) /\ expect' = expect
    /\ m.whole => mem'.whole
    /\ mem'.whole /\ ~m.whole => \A p \in Paths : mem'.overlay[p] = VisibleIn(mem', p)
    /\ undone \subseteq undone' \cup T

Unsaved(T) == dirty' = dirty \cup T /\ raced' = raced /\ checkpoint' = checkpoint

AllSaved ==
    /\ dirty' = {}
    /\ raced' = raced \cup dirty \/ (raced' = raced \ dirty /\ ~Wanted)
    /\ \A p \in dirty : p \in DOMAIN checkpoint' /\ checkpoint'[p] = mem'.overlay[p]
    /\ \A p \in Paths \ dirty : 
          \/ p \in DOMAIN checkpoint' /\ p \in DOMAIN checkpoint /\ checkpoint'[p] = checkpoint[p]
          \/ p \notin DOMAIN checkpoint' /\ (p \in DOMAIN checkpoint => PushDone)

LEMMA QuietKept ==
    ASSUME NEW m \in Memory, mem' \in Memory, mem'.overlay = m.overlay, mem'.whiteouts = m.whiteouts,
           mem'.base = m.base, mem'.whole = m.whole, UNCHANGED <<expect, undone>>
    PROVE  Kept(m, {})
BY DEF Kept, VisibleIn

(* Nothing is written while the base cannot be loaded but what Write makes.*)
LEMMA FetchCounts ==
    ASSUME Typed, [Next]_vars
    PROVE  fetchFailures <= fetchFailures'
<1> USE DEF counters
<1>0. fetchFailures \in Nat
  BY DEF Typed
<1>1. ASSUME NEW m, CountFailure(m)
      PROVE  fetchFailures <= fetchFailures'
  BY <1>0, <1>1 DEF CountFailure
<1>2. CASE Boot
  BY <1>1, <1>2 DEF Boot
<1>3. CASE Reset \/ TimerFires \/ Pushing \/ PushFails \/ UNCHANGED vars
  BY <1>0, <1>3 DEF Reset, TimerFires, Pushing, PushStart, PushLands, PushDone, PushFails, vars
<1>4. ASSUME NEW p \in Paths, Read(p) \/ Write(p) \/ Remove(p)
      PROVE  fetchFailures <= fetchFailures'
  <2>1. CASE Read(p)
    BY <1>1, <2>1 DEF Read
  <2>2. CASE Write(p)
    BY <1>0, <2>2 DEF Write
  <2>3. CASE Remove(p)
    BY <1>1, <2>3 DEF Remove
  <2> QED
    BY <1>4, <2>1, <2>2, <2>3
<1>5. ASSUME NEW c \in Callers, NEW j \in {"local", "commit", "deploy", "rollback"}, Call(c, j)
      PROVE  fetchFailures <= fetchFailures'
  BY <1>0, <1>5 DEF Call
<1>6. ASSUME NEW c \in Callers, Steps(c)
      PROVE  fetchFailures <= fetchFailures'
  <2>1. CASE Open(c) \/ Prepare(c)
    BY <1>1, <2>1 DEF Open, Prepare, Opening
  <2>2. CASE Stage(c) \/ Commit(c)
    BY <1>0, <2>2 DEF Stage, Commit
  <2>3. CASE Checkout(c) \/ Build(c)
    BY <1>0, <2>3 DEF Checkout, Build
  <2>4. CASE RollbackFetch(c)
    BY <1>1, <2>4 DEF RollbackFetch
  <2>5. ASSUME NEW id \in Ids, Restore(c, id)
        PROVE  fetchFailures <= fetchFailures'
    BY <1>0, <2>5 DEF Restore
  <2> QED
    BY <1>6, <2>1, <2>2, <2>3, <2>4, <2>5 DEF Steps
<1> QED
  BY <1>2, <1>3, <1>4, <1>5, <1>6 DEF Next

LEMMA OpeningEffects ==
    ASSUME Inv, up, Complete', NEW c \in Callers, NEW from, NEW to \in Pcs, Opening(c, from, to),
           from \notin {"idle", "open"} \/ from = "open"
    PROVE  \E m \in Ready(mem) : m.loaded /\ CountFailure(m) /\ Kept(m, {}) /\ AllSaved
<1>0. Typed /\ mem \in Memory
  BY DEF Inv, Typed
<1>1. PICK m \in Ready(mem) : mem' = Materialized(m) /\ Flush(Materialized(m)) /\ CountFailure(m)
  BY DEF Opening
<1>2. /\ UNCHANGED <<push, queue, expect, undone>>
      /\ m \in Memory
  BY <1>0, ReadyIs DEF Opening, pushes
<1> DEFINE n == Materialized(m)
<1>7. /\ n \in Memory /\ n.loaded = m.loaded /\ n.whole
      /\ \A p \in Paths : /\ VisibleIn(n, p) = VisibleIn(m, p)
                          /\ ~m.whole \/ VisibleIn(m, p) = m.overlay[p] => n.overlay[p] = VisibleIn(m, p)
  BY <1>2, MaterializedIs
<1>8. mem' = n
  BY <1>1
<1> HIDE DEF n
<1>3. /\ mem' \in Memory /\ mem'.loaded = m.loaded /\ mem'.whole
      /\ \A p \in Paths : /\ VisibleIn(mem', p) = VisibleIn(m, p)
                          /\ ~m.whole \/ VisibleIn(m, p) = m.overlay[p] => mem'.overlay[p] = VisibleIn(m, p)
  BY <1>7, <1>8
<1>4. Kept(m, {})
  BY <1>2, <1>3 DEF Kept
<1>5. AllSaved
  <2>1. checkpoint' = Saved(checkpoint, mem') /\ dirty' = {}
        /\ raced' = IF Pending THEN raced \cup dirty ELSE raced \ dirty
    BY <1>1, <1>8 DEF Flush, n
  <2>2. ~Pending => ~Wanted
    BY <1>2 DEF Pending, Wanted
  <2>3. DOMAIN checkpoint \subseteq Paths /\ \A p \in DOMAIN checkpoint : checkpoint[p] \in Contents
    BY <1>0 DEF Typed
  <2>4. /\ DOMAIN checkpoint' = DOMAIN checkpoint \cup dirty
        /\ \A p \in DOMAIN checkpoint' :
              checkpoint'[p] = IF p \in dirty THEN mem'.overlay[p] ELSE checkpoint[p]
    BY <2>1 DEF Saved
  <2>5. raced' = raced \cup dirty \/ (raced' = raced \ dirty /\ ~Wanted)
    BY <2>1, <2>2
  <2> QED
    BY <2>1, <2>4, <2>5 DEF AllSaved
<1>6. m.loaded
  BY <1>3 DEF Complete
<1> QED
  BY <1>1, <1>4, <1>5, <1>6

LEMMA Effects ==
    ASSUME Inv, up, Complete', [Next]_vars
    PROVE  \E m \in Ready(mem), T \in SUBSET Paths :
              /\ m.loaded /\ CountFailure(m) /\ Kept(m, T)
              /\ Unsaved(T) \/ (T = {} /\ AllSaved)
<1> DEFINE Goal == \E m \in Ready(mem), T \in SUBSET Paths :
                      /\ m.loaded /\ CountFailure(m) /\ Kept(m, T)
                      /\ Unsaved(T) \/ (T = {} /\ AllSaved)
<1> USE DEF durable, memory, pushes, counters
<1>0. /\ Typed /\ mem \in Memory /\ mem' \in Memory /\ up' /\ mem'.loaded
      /\ DOMAIN checkpoint \subseteq Paths /\ \A p \in DOMAIN checkpoint : checkpoint[p] \in Contents
      /\ dirty \subseteq Paths /\ expect \in Trees
  BY TypedKept DEF Inv, Typed, Complete, Loads
<1>Q. ASSUME mem'.overlay = mem.overlay, mem'.whiteouts = mem.whiteouts, mem'.base = mem.base,
             mem'.whole = mem.whole, mem'.loaded = mem.loaded,
             UNCHANGED <<expect, undone, fetchFailures, dirty, raced, checkpoint>>
      PROVE  Goal
  <2>1. mem \in Ready(mem) /\ mem.loaded /\ CountFailure(mem)
    BY <1>0, <1>Q DEF Ready, CountFailure
  <2>2. Kept(mem, {}) /\ Unsaved({})
    BY <1>0, <1>Q, QuietKept DEF Unsaved
  <2> QED
    BY <2>1, <2>2
<1>S. ASSUME UNCHANGED <<mem, expect, undone, fetchFailures, dirty, raced, checkpoint>>
      PROVE  Goal
  BY <1>S, <1>Q
<1>1. ~Boot /\ ~Reset
  BY <1>0, ResetMakes DEF Boot
<1>2. CASE TimerFires
  <2>1. /\ checkpoint' = Saved(checkpoint, mem) /\ dirty' = {}
        /\ raced' = IF Pending THEN raced \cup dirty ELSE raced \ dirty
        /\ UNCHANGED <<mem, push, fetchFailures, expect, undone>>
    BY <1>2 DEF TimerFires, Flush
  <2>2. ~Pending => ~Wanted
    BY <2>1 DEF Pending, Wanted
  <2>3. /\ DOMAIN checkpoint' = DOMAIN checkpoint \cup dirty
        /\ \A p \in DOMAIN checkpoint' :
              checkpoint'[p] = IF p \in dirty THEN mem.overlay[p] ELSE checkpoint[p]
    BY <2>1 DEF Saved
  <2>7. raced' = raced \cup dirty \/ (raced' = raced \ dirty /\ ~Wanted)
    BY <2>1, <2>2
  <2>4. AllSaved
    BY <2>1, <2>3, <2>7 DEF AllSaved
  <2>5. mem \in Ready(mem) /\ mem.loaded /\ CountFailure(mem)
    BY <1>0, <2>1 DEF Ready, CountFailure
  <2>6. Kept(mem, {})
    BY <1>0, <2>1, QuietKept
  <2> QED
    BY <2>4, <2>5, <2>6
<1>3. CASE PushStart \/ PushLands \/ PushFails \/ UNCHANGED vars
  BY <1>3, <1>S DEF PushStart, PushLands, PushFails, vars
<1>4. CASE PushDone
  <2>1. /\ checkpoint' = Saved(NoRows, mem) /\ dirty' = {} /\ push' = 0
        /\ raced' = IF queue > 0 \/ ~Idle THEN raced \cup dirty ELSE raced \ dirty
        /\ UNCHANGED <<fetchFailures, expect, undone>>
        /\ mem' = [mem EXCEPT !.tracking = push]
    BY <1>4 DEF PushDone
  <2>2. /\ mem'.overlay = mem.overlay /\ mem'.whiteouts = mem.whiteouts /\ mem'.base = mem.base
        /\ mem'.whole = mem.whole /\ mem'.loaded = mem.loaded
    BY <1>0, <2>1 DEF Memory
  <2>3. ~(queue > 0 \/ ~Idle) => ~Wanted
    BY <2>1 DEF Wanted, Idle
  <2>4. DOMAIN NoRows = {}
    BY DEF NoRows
  <2>5. /\ DOMAIN checkpoint' = dirty
        /\ \A p \in dirty : checkpoint'[p] = mem.overlay[p]
    BY <2>1, <2>4 DEF Saved
  <2>9. raced' = raced \cup dirty \/ (raced' = raced \ dirty /\ ~Wanted)
    BY <2>1, <2>3
  <2>6. AllSaved
    BY <1>4, <2>1, <2>2, <2>5, <2>9 DEF AllSaved
  <2>7. mem \in Ready(mem) /\ mem.loaded /\ CountFailure(mem)
    BY <1>0, <2>1, <2>2 DEF Ready, CountFailure
  <2>8. Kept(mem, {})
    BY <1>0, <2>1, <2>2, QuietKept
  <2> QED
    BY <2>6, <2>7, <2>8
<1>5. ASSUME NEW p \in Paths, Read(p)
      PROVE  Goal
  <2>1. PICK m \in Ready(mem) : mem' = Hydrated(m, p) /\ CountFailure(m)
    BY <1>5 DEF Read, Hydrated
  <2>2. m \in Memory
    BY <1>0, ReadyIs
  <2>3. /\ Same(m, mem')
        /\ \A q \in Paths : /\ VisibleIn(mem', q) = VisibleIn(m, q)
                            /\ m.overlay[q] = VisibleIn(m, q) => mem'.overlay[q] = m.overlay[q]
    BY <2>1, <2>2, ReadMakes
  <2>4. UNCHANGED <<checkpoint, dirty, raced, expect, undone>>
    BY <1>5 DEF Read
  <2>5. Kept(m, {}) /\ Unsaved({})
    BY <2>3, <2>4 DEF Kept, Unsaved, Same
  <2> QED
    BY <1>0, <2>1, <2>3, <2>5 DEF Same
<1>6. ASSUME NEW p \in Paths, Write(p)
      PROVE  Goal
  <2>1. mem' = Written(mem, p, clock + 1) /\ clock + 1 \in Contents \ {Absent}
    <3>1. mem' = Written(mem, p, clock + 1)
      BY <1>6 DEF Write, Written
    <3>2. clock \in 0 .. MaxWrites /\ clock < MaxWrites
      BY <1>0, <1>6 DEF Write, Typed
    <3>3. clock + 1 \in Contents \ {Absent}
      BY <3>2, SpaceAssumption DEF Contents, Absent
    <3> QED
      BY <3>1, <3>3
  <2>2. /\ Same(mem, mem') /\ mem'.overlay[p] = clock + 1 /\ VisibleIn(mem', p) = clock + 1
        /\ \A q \in Paths \ {p} : mem'.overlay[q] = mem.overlay[q] /\ VisibleIn(mem', q) = VisibleIn(mem, q)
    BY <1>0, <2>1, WriteMakes
  <2>3. /\ dirty' = dirty \cup {p} /\ undone' = undone \ {p} /\ UNCHANGED <<checkpoint, raced, fetchFailures>>
        /\ expect' = [expect EXCEPT ![p] = clock + 1]
    BY <1>6 DEF Write, Note
  <2>4. expect'[p] = clock + 1 /\ \A q \in Paths \ {p} : expect'[q] = expect[q]
    BY <1>0, <2>3 DEF Trees
  <2>5. Kept(mem, {p}) /\ Unsaved({p})
    BY <2>2, <2>3, <2>4 DEF Kept, Unsaved, Same
  <2>6. mem \in Ready(mem) /\ mem.loaded /\ CountFailure(mem)
    BY <1>0, <2>2, <2>3 DEF Ready, CountFailure, Same
  <2> QED
    BY <2>5, <2>6
<1>7. ASSUME NEW p \in Paths, Remove(p)
      PROVE  Goal
  <2>1. PICK m \in Ready(mem) : mem' = Removed(m, p) /\ CountFailure(m)
    BY <1>7 DEF Remove, Removed
  <2>2. m \in Memory
    BY <1>0, ReadyIs
  <2>3. /\ Same(m, mem') /\ mem'.overlay[p] = Absent /\ VisibleIn(mem', p) = Absent
        /\ \A q \in Paths \ {p} : mem'.overlay[q] = m.overlay[q] /\ VisibleIn(mem', q) = VisibleIn(m, q)
    BY <2>1, <2>2, RemoveMakes
  <2>4. /\ dirty' = dirty \cup {p} /\ undone' = undone \ {p} /\ UNCHANGED <<checkpoint, raced>>
        /\ expect' = [expect EXCEPT ![p] = Absent]
    BY <1>7 DEF Remove, Note
  <2>5. expect'[p] = Absent /\ \A q \in Paths \ {p} : expect'[q] = expect[q]
    BY <1>0, <2>4 DEF Trees
  <2>6. Kept(m, {p}) /\ Unsaved({p})
    BY <2>3, <2>4, <2>5 DEF Kept, Unsaved, Same
  <2> QED
    BY <1>0, <2>1, <2>3, <2>6 DEF Same
<1>8. ASSUME NEW c \in Callers, NEW j \in {"local", "commit", "deploy", "rollback"}, Call(c, j)
      PROVE  Goal
  BY <1>8, <1>S DEF Call
<1>9. ASSUME NEW c \in Callers, Open(c)
      PROVE  Goal
  <2>1. \E m \in Ready(mem) : m.loaded /\ CountFailure(m) /\ Kept(m, {}) /\ AllSaved
    BY <1>9, OpeningEffects DEF Open, Pcs
  <2> QED
    BY <2>1
<1>10. ASSUME NEW c \in Callers, Prepare(c)
      PROVE  Goal
  <2>1. \E m \in Ready(mem) : m.loaded /\ CountFailure(m) /\ Kept(m, {}) /\ AllSaved
    BY <1>10, OpeningEffects DEF Prepare, Pcs
  <2> QED
    BY <2>1
<1>11. ASSUME NEW c \in Callers, Stage(c)
      PROVE  Goal
  <2>1. mem' = [mem EXCEPT !.index = mem.overlay] 
        /\ UNCHANGED <<expect, undone, fetchFailures, dirty, raced, checkpoint>>
    BY <1>11 DEF Stage
  <2>2. /\ mem'.overlay = mem.overlay /\ mem'.whiteouts = mem.whiteouts /\ mem'.base = mem.base
        /\ mem'.whole = mem.whole /\ mem'.loaded = mem.loaded
    BY <1>0, <2>1 DEF Memory
  <2> QED
    BY <1>Q, <2>1, <2>2
<1>12. ASSUME NEW c \in Callers, Commit(c)
      PROVE  Goal
  <2>1. mem' = [mem EXCEPT !.head = Len(commits) + 1]
        /\ UNCHANGED <<expect, undone, fetchFailures, dirty, raced, checkpoint>>
    BY <1>12 DEF Commit
  <2>2. /\ mem'.overlay = mem.overlay /\ mem'.whiteouts = mem.whiteouts /\ mem'.base = mem.base
        /\ mem'.whole = mem.whole /\ mem'.loaded = mem.loaded
    BY <1>0, <2>1 DEF Memory
  <2> QED
    BY <1>Q, <2>1, <2>2
<1>13. ASSUME NEW c \in Callers, Checkout(c)
      PROVE  Goal
  <2>0. UNCHANGED <<expect, undone, fetchFailures, raced, checkpoint>>
    BY <1>13 DEF Checkout
  <2>1. CASE mem.head = 0
    BY <1>13, <1>S, <2>0, <2>1 DEF Checkout
  <2>2. CASE mem.head # 0
    <3> DEFINE tree == TreeOf(mem.head)
               files == ForcedTo(mem, tree)
    <3>1. tree \in Trees /\ files \in Trees
      <4>1. mem.head \in 0 .. Len(commits)
        BY <1>0 DEF Typed
      <4> QED
        BY <1>0, <4>1, TreeType, ForcedType
    <3>2. mem' = Switched(mem, files, tree) /\ dirty' = dirty \cup Changed(mem, files)
      BY <1>13, <2>2 DEF Checkout, Switched, Note
    <3> HIDE DEF files, tree
    <3>3. /\ mem'.loaded = mem.loaded /\ mem'.whole = mem.whole /\ mem'.overlay = files
          /\ \A p \in Paths : files[p] = mem.overlay[p] => VisibleIn(mem', p) = VisibleIn(mem, p)
          /\ \A p \in Paths : files[p] # mem.overlay[p] => VisibleIn(mem', p) = files[p]
      <4> DEFINE n == Switched(mem, files, tree)
      <4>1. /\ n.loaded = mem.loaded /\ n.whole = mem.whole /\ n.overlay = files
            /\ \A p \in Paths : files[p] = mem.overlay[p] => VisibleIn(n, p) = VisibleIn(mem, p)
            /\ \A p \in Paths : files[p] # mem.overlay[p] => VisibleIn(n, p) = files[p]
        <5>1. n.loaded = mem.loaded /\ n.whole = mem.whole /\ n.overlay = files
          BY <1>0, <3>1, SwitchMakes
        <5>2. \A p \in Paths : files[p] = mem.overlay[p] => VisibleIn(n, p) = VisibleIn(mem, p)
          BY <1>0, <3>1, SwitchMakes
        <5>3. \A p \in Paths : files[p] # mem.overlay[p] => VisibleIn(n, p) = files[p]
          BY <1>0, <3>1, SwitchMakes
        <5> QED
          BY <5>1, <5>2, <5>3
      <4>2. mem' = n
        BY <3>2
      <4> HIDE DEF n
      <4> QED
        BY <4>1, <4>2
    <3> DEFINE T == Changed(mem, files)
    <3>4. T \in SUBSET Paths /\ \A p \in Paths : p \in T <=> files[p] # mem.overlay[p]
      BY DEF Changed
    <3>5. Kept(mem, T)
      <4> HIDE DEF T
      <4> QED
        BY <1>13, <2>0, <3>3, <3>4 DEF Kept
    <3>6. Unsaved(T)
      BY <2>0, <3>2 DEF Unsaved
    <3>7. mem \in Ready(mem) /\ mem.loaded /\ CountFailure(mem)
      BY <1>0, <2>0, <3>3 DEF Ready, CountFailure
    <3> HIDE DEF T
    <3> QED
      BY <3>4, <3>5, <3>6, <3>7
  <2> QED
    BY <2>1, <2>2
<1>14. ASSUME NEW c \in Callers, Build(c)
      PROVE  Goal
  BY <1>14, <1>S DEF Build
<1>15. ASSUME NEW c \in Callers, RollbackFetch(c)
      PROVE  Goal
  <2>1. PICK m \in Ready(mem) : CountFailure(m) /\ \E f : mem' = [Materialized(m) EXCEPT !.tracking = f]
    BY <1>15 DEF RollbackFetch
  <2>2. m \in Memory
    BY <1>0, ReadyIs
  <2> DEFINE n == Materialized(m)
  <2>3. /\ n \in Memory /\ n.loaded = m.loaded /\ n.whole
        /\ \A p \in Paths : /\ VisibleIn(n, p) = VisibleIn(m, p)
                            /\ ~m.whole \/ VisibleIn(m, p) = m.overlay[p] => n.overlay[p] = VisibleIn(m, p)
    BY <2>2, MaterializedIs
  <2>4. \E f : mem' = [n EXCEPT !.tracking = f]
    BY <2>1
  <2> HIDE DEF n
  <2>5. /\ mem'.overlay = n.overlay /\ mem'.whiteouts = n.whiteouts /\ mem'.base = n.base
        /\ mem'.whole = n.whole /\ mem'.loaded = n.loaded
    BY <2>3, <2>4 DEF Memory
  <2>6. \A p \in Paths : VisibleIn(mem', p) = VisibleIn(n, p)
    BY <2>5 DEF VisibleIn
  <2>7. UNCHANGED <<checkpoint, dirty, raced, expect, undone>>
    BY <1>15 DEF RollbackFetch
  <2>8. Kept(m, {}) /\ Unsaved({})
    BY <2>3, <2>5, <2>6, <2>7 DEF Kept, Unsaved
  <2> QED
    BY <1>0, <2>1, <2>3, <2>5, <2>8
<1>16. ASSUME NEW c \in Callers, NEW id \in Ids, Restore(c, id)
      PROVE  Goal
  <2> DEFINE target == TreeOf(id)
             head == TreeOf(mem.head)
             files == SwitchedTo(mem, target)
             T == Touched(mem, target, head)
             after == After(mem, target, head)
  <2>0. UNCHANGED <<fetchFailures, raced, checkpoint>>
    BY <1>16 DEF Restore
  <2>1. CASE Conflict(mem, target)
    BY <1>16, <1>S, <2>0, <2>1 DEF Restore
  <2>2. CASE ~Conflict(mem, target)
    <3>1. target \in Trees /\ head \in Trees
      <4>1. mem.head \in 0 .. Len(commits) /\ id \in Ancestors(mem.head)
        BY <1>0, <1>16 DEF Restore, Typed
      <4>2. id \in 0 .. Len(commits)
        BY <1>0, <4>1, TreeType
      <4> QED
        BY <1>0, <4>1, <4>2, TreeType
    <3>2. /\ mem' = after /\ Note(T)
          /\ expect' = [p \in Paths |-> IF p \in T THEN files[p] ELSE expect[p]]
          /\ undone' = (undone \ T) \cup {p \in T : VisibleIn(after, p) # files[p]}
      BY <1>16, <2>2 DEF Restore, Touched, After, Back, There, Switched
    <3>3. /\ after.loaded = mem.loaded /\ after.whole = mem.whole /\ after.overlay = files
          /\ T \subseteq Paths
          /\ \A p \in Paths \ T : files[p] = mem.overlay[p] /\ VisibleIn(after, p) = VisibleIn(mem, p)
      <4> HIDE DEF target, head
      <4>1. /\ after.loaded = mem.loaded /\ after.whole = mem.whole /\ after.overlay = files
            /\ T \subseteq Paths
        BY <1>0, <3>1, RestoreMakes
      <4>2. \A p \in Paths \ T : files[p] = mem.overlay[p] /\ VisibleIn(after, p) = VisibleIn(mem, p)
        BY <1>0, <3>1, RestoreMakes
      <4> QED
        BY <4>1, <4>2
    <3> HIDE DEF after, files, T
    <3>4. Kept(mem, T)
      BY <3>2, <3>3 DEF Kept
    <3>5. Unsaved(T)
      BY <2>0, <3>2 DEF Unsaved, Note
    <3>6. mem \in Ready(mem) /\ mem.loaded /\ CountFailure(mem)
      BY <1>0, <2>0, <3>2, <3>3 DEF Ready, CountFailure
    <3> QED
      BY <3>3, <3>4, <3>5, <3>6
  <2> QED
    BY <2>1, <2>2
<1> HIDE DEF Goal
<1>17. ASSUME NEW c \in Callers, Steps(c)
       PROVE  Goal
  BY <1>9, <1>10, <1>11, <1>12, <1>13, <1>14, <1>15, <1>16, <1>17 DEF Steps
<1>18. Next \/ UNCHANGED vars
  OBVIOUS
<1>19. CASE UNCHANGED vars
  BY <1>3, <1>19
<1>20. ASSUME NEW p \in Paths, Read(p) \/ Write(p) \/ Remove(p)
       PROVE  Goal
  BY <1>5, <1>6, <1>7, <1>20
<1>21. ASSUME Next
       PROVE  Goal
  <2>1. ASSUME TimerFires \/ Pushing \/ PushFails
        PROVE  \E m \in Ready(mem), T \in SUBSET Paths :
                  /\ m.loaded /\ CountFailure(m) /\ Kept(m, T)
                  /\ Unsaved(T) \/ (T = {} /\ AllSaved)
    BY <1>2, <1>3, <1>4, <2>1 DEF Pushing
  <2>2. TimerFires \/ Pushing \/ PushFails => Goal
    BY <2>1 DEF Goal
  <2> QED
    BY <1>1, <1>8, <1>17, <1>20, <1>21, <2>2 DEF Next
<1> QED
  BY <1>18, <1>19, <1>21 DEF Goal

-----------------------------------------------------------------------------
(* The base, once loaded, stays, and a load that leaves at most one        *)
(* failure behind has succeeded.                                           *)

LEMMA LoadSucceeds ==
    ASSUME Inv, up, NEW m \in Ready(mem), CountFailure(m), fetchFailures' <= 1
    PROVE  m.loaded
BY LoadingKeeps DEF CountFailure

LEMMA OpeningLoads ==
    ASSUME Inv, up, NEW c \in Callers, NEW from, NEW to, Opening(c, from, to), fetchFailures' <= 1
    PROVE  mem'.loaded
<1>1. PICK m \in Ready(mem) : mem' = Materialized(m) /\ CountFailure(m)
  BY DEF Opening
<1>2. m.loaded /\ m \in Memory
  BY <1>1, LoadSucceeds, ReadyIs DEF Inv
<1> QED
  BY <1>1, <1>2, MaterializedIs

LEMMA DegradedKept ==
    ASSUME Inv, [Next]_vars
    PROVE  Degraded'
<1> SUFFICES ASSUME up', fetchFailures' <= 1, ~mem'.loaded
             PROVE  Degraded'
  BY DEF Degraded, Loads
<1> USE DEF durable, memory, pushes, counters
<1>0. Typed /\ mem \in Memory /\ fetchFailures \in Nat /\ fetchFailures <= 1 /\ ~Reset
  <2>1. Typed /\ ~Reset
    BY ResetMakes DEF Inv
  <2>2. fetchFailures \in Nat /\ fetchFailures' \in Nat /\ fetchFailures <= fetchFailures'
    BY <2>1, FetchCounts, TypedKept DEF Typed
  <2> QED
    BY <2>1, <2>2 DEF Typed
<1>1. CASE ~up
  <2>1. Boot
    BY <1>1, OnlyBoot DEF Inv, vars
  <2>2. /\ UNCHANGED <<checkpoint, dirty, queue, push, call, undone>>
        /\ dirty = {} /\ queue = 0 /\ push = 0 /\ Idle /\ undone = {}
        /\ fetchFailures' = fetchFailures + 1 /\ mem'.base = Empty
        /\ \A p \in Paths :
              IF p \in DOMAIN checkpoint THEN mem'.overlay[p] = checkpoint[p]
              ELSE mem'.overlay[p] = Absent /\ p \notin mem'.whiteouts
    BY <2>1, BootMakes DEF Inv
  <2>3. fetchFailures' = 1
    BY <1>0, <2>2
  <2>4. \A c \in Callers : call'[c].pc = "idle"
    BY <2>2 DEF Idle
  <2> QED
    BY <2>2, <2>3, <2>4 DEF Degraded
<1>2. CASE up
  <2>1. ASSUME NEW p \in Paths, Read(p) \/ Remove(p)
        PROVE  FALSE
    <3>1. PICK m \in Ready(mem) : (mem' = Hydrated(m, p) \/ mem' = Removed(m, p)) /\ CountFailure(m)
      BY <2>1 DEF Read, Remove, Hydrated, Removed
    <3>2. m.loaded /\ m \in Memory
      BY <1>0, <1>2, <3>1, LoadSucceeds, ReadyIs
    <3>3. Same(m, mem')
      BY <3>1, <3>2, ReadMakes, RemoveMakes
    <3> QED
      BY SMTT(40), <3>2, <3>3 DEF Same
  <2>2. ASSUME NEW c \in Callers, Open(c) \/ Prepare(c)
        PROVE  FALSE
    BY <1>2, <2>2, OpeningLoads DEF Open, Prepare
  <2>3. ASSUME NEW c \in Callers, RollbackFetch(c)
        PROVE  FALSE
    <3>1. PICK m \in Ready(mem) : CountFailure(m) /\ \E f : mem' = [Materialized(m) EXCEPT !.tracking = f]
      BY <2>3 DEF RollbackFetch
    <3>2. m.loaded /\ m \in Memory
      BY <1>0, <1>2, <3>1, LoadSucceeds, ReadyIs
    <3> DEFINE n == Materialized(m)
    <3>3. n \in Memory /\ n.loaded
      BY <3>2, MaterializedIs
    <3>4. \E f : mem' = [n EXCEPT !.tracking = f]
      BY <3>1
    <3> HIDE DEF n
    <3> QED
      BY <3>3, <3>4 DEF Memory
  <2>4. ASSUME ~mem.loaded
        PROVE  /\ fetchFailures = 1 /\ queue = 0 /\ push = 0 /\ undone = {} /\ mem.base = Empty
               /\ \A c \in Callers : call[c].pc \in {"idle", "open", "fetch"}
               /\ \A p \in dirty : mem.overlay[p] # Absent
               /\ \A p \in Paths \ dirty :
                     IF p \in DOMAIN checkpoint THEN mem.overlay[p] = checkpoint[p]
                     ELSE mem.overlay[p] = Absent /\ p \notin mem.whiteouts
    BY <1>0, <1>2, <2>4 DEF Inv, Degraded, Loads
  <2>5. CASE TimerFires
    <3>1. /\ checkpoint' = Saved(checkpoint, mem) /\ dirty' = {}
          /\ UNCHANGED <<mem, queue, push, call, fetchFailures, undone>>
      BY <2>5 DEF TimerFires, Flush
    <3>2. /\ DOMAIN checkpoint' = DOMAIN checkpoint \cup dirty
          /\ \A p \in DOMAIN checkpoint' :
                checkpoint'[p] = IF p \in dirty THEN mem.overlay[p] ELSE checkpoint[p]
      BY <3>1 DEF Saved
    <3>3. \A p \in Paths : IF p \in DOMAIN checkpoint' THEN mem.overlay[p] = checkpoint'[p]
                           ELSE mem.overlay[p] = Absent /\ p \notin mem.whiteouts
      BY <2>4, <3>1, <3>2
    <3> QED
      BY <2>4, <3>1, <3>3 DEF Degraded
  <2>6. ASSUME NEW p \in Paths, Write(p)
        PROVE  Degraded'
    <3>1. mem' = Written(mem, p, clock + 1) /\ clock + 1 \in Contents \ {Absent}
      <4>1. mem' = Written(mem, p, clock + 1)
        BY <2>6 DEF Write, Written
      <4>2. clock \in 0 .. MaxWrites /\ clock < MaxWrites
        BY <1>0, <2>6 DEF Write, Typed
      <4>3. clock + 1 \in Contents \ {Absent}
        BY <4>2, SpaceAssumption DEF Contents, Absent
      <4> QED
        BY <4>1, <4>3
    <3>2. /\ Same(mem, mem') /\ mem'.overlay[p] = clock + 1
          /\ \A q \in Paths \ {p} : mem'.overlay[q] = mem.overlay[q]
                                    /\ (q \in mem'.whiteouts <=> q \in mem.whiteouts)
      BY <1>0, <3>1, WriteMakes
    <3>3. /\ dirty' = dirty \cup {p} /\ undone' = undone \ {p}
          /\ UNCHANGED <<checkpoint, queue, push, call, fetchFailures>>
      BY <2>6 DEF Write, Note
    <3>4. ~mem.loaded /\ mem'.base = mem.base
      BY <3>2 DEF Same
    <3>5. dirty \subseteq Paths
      BY <1>0 DEF Typed
    <3>6. \A q \in dirty' : mem'.overlay[q] # Absent
      BY <2>4, <3>1, <3>2, <3>3, <3>4, <3>5
    <3>7. \A q \in Paths \ dirty' : IF q \in DOMAIN checkpoint' THEN mem'.overlay[q] = checkpoint'[q]
                                    ELSE mem'.overlay[q] = Absent /\ q \notin mem'.whiteouts
      BY <2>4, <3>2, <3>3, <3>4
    <3> QED
      BY <2>4, <3>3, <3>4, <3>6, <3>7 DEF Degraded
  <2>7. ASSUME NEW c \in Callers, NEW j \in {"local", "commit", "deploy", "rollback"}, Call(c, j)
        PROVE  Degraded'
    <3>1. /\ UNCHANGED <<mem, checkpoint, dirty, queue, push, fetchFailures, undone>>
          /\ call' = [call EXCEPT ![c].job = j, ![c].pc = IF j = "rollback" THEN "fetch" ELSE "open"]
      BY <2>7 DEF Call
    <3>2. call \in [Callers -> [pc : Pcs, job : Jobs, built : Bundle]]
      BY <1>0 DEF Typed
    <3>3. \A d \in Callers : call'[d].pc \in {"idle", "open", "fetch"}
      BY <2>4, <3>1, <3>2
    <3>4. ~mem.loaded
      BY <3>1
    <3> QED
      BY <2>4, <3>1, <3>3, <3>4 DEF Degraded
  <2>8. CASE UNCHANGED vars
    BY <2>4, <2>8 DEF Degraded, vars
  <2>9. CASE PushStart \/ PushLands \/ PushDone \/ PushFails
    <3>1. ~mem.loaded
      <4>1. CASE PushDone
        <5>1. mem' = [mem EXCEPT !.tracking = push]
          BY <4>1 DEF PushDone
        <5> QED
          BY <1>0, <5>1 DEF Memory
      <4>2. CASE ~PushDone
        BY <2>9, <4>2 DEF PushStart, PushLands, PushFails
      <4> QED
        BY <4>1, <4>2
    <3> QED
      <4>1. queue = 0 /\ push = 0
        BY <2>4, <3>1
      <4>2. ~PushStart /\ ~PushLands /\ ~PushDone
        BY <4>1 DEF PushStart, PushLands, PushDone
      <4>3. ~PushFails
        BY <4>1 DEF PushFails
      <4> QED
        BY <2>9, <4>2, <4>3
  <2>10. ASSUME NEW c \in Callers, Stage(c) \/ Commit(c) \/ Checkout(c) \/ Build(c) 
                                   \/ \E id \in Ids : Restore(c, id)
         PROVE  FALSE
    <3>1. call[c].pc \in {"stage", "commit", "checkout", "build", "restore"}
      BY <2>10 DEF Stage, Commit, Checkout, Build, Restore
    <3>2. mem.loaded
      BY <2>4, <3>1
    <3>3. Inv /\ up /\ Typed'
      BY <1>0, <1>2, TypedKept
    <3>4. CASE Stage(c)
      <4>1. mem' = [mem EXCEPT !.index = mem.overlay]
        BY <3>4 DEF Stage
      <4> QED
        BY <1>0, <3>2, <4>1 DEF Memory
    <3>5. CASE Commit(c)
      <4>1. mem' = [mem EXCEPT !.head = Len(commits) + 1]
        BY <3>5 DEF Commit
      <4> QED
        BY <1>0, <3>2, <4>1 DEF Memory
    <3>6. CASE Build(c)
      BY <3>2, <3>6 DEF Build
    <3>7. CASE Checkout(c)
      <4> DEFINE tree == TreeOf(mem.head)
                 files == ForcedTo(mem, tree)
      <4>1. tree \in Trees /\ files \in Trees
        <5>1. mem.head \in 0 .. Len(commits)
          BY <1>0 DEF Typed
        <5> QED
          BY <1>0, <5>1, TreeType, ForcedType
      <4>2. mem' = mem \/ mem' = Switched(mem, files, tree)
        BY <3>7 DEF Checkout, Switched
      <4> HIDE DEF files, tree
      <4> QED
        BY <1>0, <3>2, <4>1, <4>2, SwitchMakes
    <3>8. ASSUME NEW id \in Ids, Restore(c, id)
          PROVE  FALSE
      <4> DEFINE target == TreeOf(id)
                 head == TreeOf(mem.head)
      <4>1. target \in Trees /\ head \in Trees
        <5>1. mem.head \in 0 .. Len(commits) /\ id \in Ancestors(mem.head)
          BY <1>0, <3>8 DEF Restore, Typed
        <5>2. id \in 0 .. Len(commits)
          BY <1>0, <5>1, TreeType
        <5> QED
          BY <1>0, <5>1, <5>2, TreeType
      <4>2. mem' = mem \/ mem' = After(mem, target, head)
        BY <3>8 DEF Restore, After, Back, There, Switched
      <4> HIDE DEF target, head
      <4> QED
        BY <1>0, <3>2, <4>1, <4>2, RestoreMakes
    <3> QED
      BY <2>10, <3>4, <3>5, <3>6, <3>7, <3>8
  <2>11. ASSUME NEW c \in Callers, Steps(c)
         PROVE  FALSE
    BY <2>2, <2>3, <2>10, <2>11 DEF Steps
  <2>12. ~Boot
    BY <1>2 DEF Boot
  <2>13. ASSUME NEW p \in Paths, Read(p) \/ Write(p) \/ Remove(p)
         PROVE  Degraded'
    BY <2>1, <2>6, <2>13
  <2>14. CASE Pushing \/ PushFails
    BY <2>9, <2>14 DEF Pushing
  <2> QED
    BY <1>0, <2>5, <2>7, <2>8, <2>11, <2>12, <2>13, <2>14 DEF Next
<1> QED
  BY <1>1, <1>2

-----------------------------------------------------------------------------
(* What is seen, saved, staged, committed and sent.                        *)

(* Effects, with what loading the base says of m.                          *)
LEMMA Changes ==
    ASSUME Inv, up, Complete', [Next]_vars
    PROVE  \E m \in Memory, T \in SUBSET Paths :
              /\ Kept(m, T)
              /\ Unsaved(T) \/ (T = {} /\ AllSaved)
              /\ mem.loaded => m = mem
              /\ ~mem.loaded => queue = 0 /\ push = 0 /\ fetchFailures' = 1
                                /\ \A c \in Callers : call[c].pc \in {"idle", "open", "fetch"}
              /\ \A p \in Paths \ undone : m.whole \/ p \in dirty => VisibleIn(m, p) = m.overlay[p]
              /\ \A p \in Covered : Restored(p) = VisibleIn(m, p)
<1>1. PICK m \in Ready(mem), T \in SUBSET Paths :
              /\ m.loaded /\ CountFailure(m) /\ Kept(m, T)
              /\ Unsaved(T) \/ (T = {} /\ AllSaved)
  BY Effects
<1>2. fetchFailures' <= 1 /\ fetchFailures' = fetchFailures
  BY <1>1 DEF Complete, Loads, CountFailure
<1>3. m \in Memory
  BY <1>1, ReadyIs DEF Inv
<1>4. (IF m.loaded THEN fetchFailures ELSE fetchFailures + 1) <= 1
  BY <1>1, <1>2
<1>5. /\ mem.loaded => m = mem
      /\ ~mem.loaded => fetchFailures = 1 /\ queue = 0 /\ push = 0 /\
                        \A c \in Callers : call[c].pc \in {"idle", "open", "fetch"}
      /\ \A p \in Paths \ undone : m.whole \/ p \in dirty => VisibleIn(m, p) = m.overlay[p]
      /\ \A p \in Covered : Restored(p) = VisibleIn(m, p)
  BY <1>1, <1>4, LoadingKeeps
<1> QED
  BY <1>1, <1>2, <1>3, <1>5

LEMMA SettledKept ==
    ASSUME Inv, [Next]_vars
    PROVE  Settled'
<1> SUFFICES ASSUME Complete'
             PROVE  Settled'
  BY DEF Settled
<1>0. Typed /\ up' /\ mem'.loaded /\ ~Reset
  BY ResetMakes DEF Inv, Complete, Loads
<1>1. CASE ~up
  <2>1. Boot
    BY <1>0, <1>1, OnlyBoot DEF Inv, vars, memory
  <2>2. dirty' = {} /\ ~mem'.whole /\ \A c \in Callers : call'[c].pc = "idle"
    BY <2>1, BootMakes DEF Inv, Idle
  <2> QED
    BY <2>2 DEF Settled
<1>2. CASE up
  <2>1. PICK m \in Memory, T \in SUBSET Paths :
              /\ Kept(m, T)
              /\ Unsaved(T) \/ (T = {} /\ AllSaved)
              /\ mem.loaded => m = mem
              /\ ~mem.loaded => \A c \in Callers : call[c].pc \in {"idle", "open", "fetch"}
              /\ \A p \in Paths \ undone : m.whole \/ p \in dirty => VisibleIn(m, p) = m.overlay[p]
    BY <1>2, Changes
  <2>2. ASSUME NEW p \in Paths \ undone', mem'.whole \/ p \in dirty'
        PROVE  VisibleIn(mem', p) = mem'.overlay[p]
    <3>1. CASE p \in T
      BY <2>1, <2>2, <3>1 DEF Kept
    <3>2. CASE p \notin T /\ mem'.whole /\ ~m.whole
      BY <2>1, <3>2 DEF Kept
    <3>3. CASE p \notin T /\ (m.whole \/ p \in dirty)
      <4>1. p \notin undone
        BY <2>1, <2>2, <3>3 DEF Kept
      <4>2. VisibleIn(m, p) = m.overlay[p]
        BY <2>1, <3>3, <4>1
      <4> QED
        BY <2>1, <3>3, <4>2 DEF Kept
    <3>4. p \in dirty' => p \in dirty \cup T
      BY <2>1 DEF Unsaved, AllSaved
    <3> QED
      BY <2>2, <3>1, <3>2, <3>3, <3>4
  <2>3. ASSUME NEW c \in Callers, call'[c].pc \notin {"idle", "open", "fetch"}
        PROVE  mem'.whole
    <3>1. CASE call[c].pc \notin {"idle", "open", "fetch"}
      <4>1. mem.loaded /\ m = mem
        BY <2>1, <3>1
      <4>2. mem.whole
        <5>1. fetchFailures' <= 1 /\ fetchFailures <= fetchFailures' /\ fetchFailures \in Nat /\ fetchFailures' \in Nat
          BY <1>0, FetchCounts, TypedKept DEF Complete, Loads, Typed
        <5>2. Complete
          BY <1>2, <4>1, <5>1 DEF Complete, Loads
        <5> QED
          BY <3>1, <5>2 DEF Inv, Settled
      <4> QED
        BY <2>1, <4>1, <4>2 DEF Kept
    <3>2. CASE Open(c) \/ RollbackFetch(c)
      <4>1. PICK n \in Ready(mem) : mem' = Materialized(n) \/ \E f : mem' = [Materialized(n) EXCEPT !.tracking = f]
        BY <3>2 DEF Open, Opening, RollbackFetch
      <4> DEFINE x == Materialized(n)
      <4>2. x \in Memory /\ x.whole
        BY <1>0, ReadyIs, MaterializedIs
      <4>3. mem' = x \/ \E f : mem' = [x EXCEPT !.tracking = f]
        BY <4>1
      <4> HIDE DEF x
      <4> QED
        BY <4>2, <4>3 DEF Memory
    <3> QED
      BY <1>0, <2>3, <3>1, <3>2, CallMoves DEF Stage, Commit, Prepare, Opening, Checkout
  <2> QED
    BY <2>2, <2>3 DEF Settled, Visible
<1> QED
  BY <1>1, <1>2

LEMMA CompleteBefore ==
    ASSUME Inv, up, mem.loaded, Complete', [Next]_vars
    PROVE  Complete
<1>1. fetchFailures' <= 1 /\ fetchFailures <= fetchFailures' /\ fetchFailures \in Nat /\ fetchFailures' \in Nat
  BY FetchCounts, TypedKept DEF Inv, Complete, Loads, Typed
<1> QED
  BY <1>1 DEF Complete, Loads

(* While something is under way, files only leave those covered, and       *)
(* those that stay do not change.                                          *)
LEMMA CoveredKept ==
    ASSUME Inv, up, Complete', [Next]_vars, Wanted, mem.loaded \/ queue # 0 \/ push # 0
    PROVE  Complete /\ \A p \in Covered' : p \in Covered /\ VisibleIn(mem', p) = VisibleIn(mem, p)
<1>1. PICK m \in Memory, T \in SUBSET Paths :
            /\ Kept(m, T)
            /\ Unsaved(T) \/ (T = {} /\ AllSaved)
            /\ mem.loaded => m = mem
            /\ ~mem.loaded => queue = 0 /\ push = 0
  BY Changes
<1>2. mem.loaded /\ m = mem
  BY <1>1
<1>3. ASSUME NEW p \in Covered'
      PROVE  p \in Covered /\ VisibleIn(mem', p) = VisibleIn(mem, p)
  <2>1. p \in Paths /\ p \notin dirty' /\ p \notin raced' /\ p \notin undone'
    BY DEF Covered
  <2>2. p \notin dirty /\ p \notin raced /\ p \notin T
    BY <1>1, <2>1 DEF Unsaved, AllSaved
  <2>3. p \notin undone
    BY <1>1, <2>1, <2>2 DEF Kept
  <2> QED
    BY <1>1, <1>2, <2>1, <2>2, <2>3 DEF Kept, Covered
<1> QED
  BY <1>2, <1>3, CompleteBefore

LEMMA SavedKept ==
    ASSUME Inv, [Next]_vars
    PROVE  SavedToo'
<1> SUFFICES ASSUME Complete', NEW p \in Covered'
             PROVE  Restored(p)' = VisibleIn(mem', p)
  BY DEF SavedToo, Visible
<1> USE DEF durable
<1>0. /\ Typed /\ up' /\ mem'.loaded /\ ~Reset
      /\ p \in Paths /\ p \notin dirty' /\ p \notin raced' /\ p \notin undone'
  BY ResetMakes DEF Inv, Complete, Loads, Covered
<1>1. TreeOf(remote)' = TreeOf(remote') \/ commits' # commits
  BY DEF TreeOf
<1>2. CASE ~up
  <2>1. Boot
    BY <1>0, <1>2, OnlyBoot DEF Inv, vars, memory
  <2>2. /\ UNCHANGED <<checkpoint, remote, commits>>
        /\ \A q \in Paths : VisibleIn(mem', q) = Restored(q)
    BY <1>0, <2>1, BootMakes DEF Inv
  <2> QED
    BY <1>0, <2>2 DEF Restored, RestoredFrom, TreeOf
<1>3. CASE up
  <2>1. PICK m \in Memory, T \in SUBSET Paths :
              /\ Kept(m, T)
              /\ Unsaved(T) \/ (T = {} /\ AllSaved)
              /\ mem.loaded => m = mem
              /\ ~mem.loaded => push = 0
              /\ \A q \in Paths \ undone : m.whole \/ q \in dirty => VisibleIn(m, q) = m.overlay[q]
              /\ \A q \in Covered : Restored(q) = VisibleIn(m, q)
    BY <1>3, Changes
  <2>2. p \notin T /\ p \notin undone
    <3>1. p \notin T
      BY <1>0, <2>1 DEF Unsaved
    <3> QED
      BY <1>0, <2>1, <3>1 DEF Kept
  <2>3. VisibleIn(mem', p) = VisibleIn(m, p)
    BY <1>0, <2>1, <2>2 DEF Kept
  <2>4. CASE p \in dirty
    <3>1. AllSaved
      BY <1>0, <2>1, <2>4 DEF Unsaved
    <3>2. p \in DOMAIN checkpoint' /\ checkpoint'[p] = mem'.overlay[p]
      BY <2>4, <3>1 DEF AllSaved
    <3>3. m.overlay[p] = VisibleIn(m, p) /\ mem'.overlay[p] = m.overlay[p]
      BY <1>0, <2>1, <2>2, <2>4 DEF Kept
    <3> QED
      BY <2>3, <3>2, <3>3 DEF Restored, RestoredFrom
  <2>5. CASE p \notin dirty
    <3>1. p \in Covered
      BY <1>0, <2>1, <2>2, <2>5 DEF Unsaved, AllSaved, Covered
    <3>2. Restored(p) = VisibleIn(mem', p)
      BY <2>1, <2>3, <3>1
    <3>3. ASSUME PushLands \/ PushDone
          PROVE  TreeOf(push)[p] = VisibleIn(mem', p)
      <4>1. push # 0 /\ mem.loaded /\ m = mem
        BY <2>1, <3>3 DEF PushLands, PushDone
      <4>2. Complete
        BY <1>3, <4>1, CompleteBefore
      <4> QED
        BY <2>3, <3>1, <4>1, <4>2 DEF Inv, SentToo, Visible
    <3>4. CASE PushDone
      <4>1. remote' = push /\ commits' = commits
        BY <3>4 DEF PushDone, Inv, Sending
      <4>2. p \in DOMAIN checkpoint' => p \in DOMAIN checkpoint /\ checkpoint'[p] = checkpoint[p]
        BY <1>0, <2>1, <2>5 DEF Unsaved, AllSaved
      <4>3. TreeOf(remote)' = TreeOf(push)
        BY <4>1 DEF TreeOf
      <4> QED
        BY <3>2, <3>3, <3>4, <4>2, <4>3 DEF Restored, RestoredFrom
    <3>5. CASE PushLands
      <4>1. remote' = push /\ commits' = commits /\ checkpoint' = checkpoint
        BY <3>5 DEF PushLands
      <4>2. TreeOf(remote)' = TreeOf(push)
        BY <4>1 DEF TreeOf
      <4> QED
        BY <3>2, <3>3, <3>5, <4>1, <4>2 DEF Restored, RestoredFrom
    <3>6. CASE ~PushDone /\ ~PushLands
      <4>1. remote' = remote
        BY <1>0, <3>6, OnlyPushes DEF Pushing, PushStart, PushFails
      <4>2. TreeOf(remote)' = TreeOf(remote)
        <5>1. remote \in 0 .. Len(commits)
          BY <1>0 DEF Typed
        <5>2. \A id \in 0 .. Len(commits) : TreeOf(id)' = TreeOf(id)
          BY <1>0, TreesStay
        <5>3. TreeOf(remote)' = IF remote = 0 THEN Empty ELSE commits'[remote].tree
          BY <4>1 DEF TreeOf
        <5>4. TreeOf(remote) = IF remote = 0 THEN Empty ELSE commits'[remote].tree
          BY <5>1, <5>2 DEF TreeOf
        <5> QED
          BY <5>3, <5>4
      <4>3. \/ p \in DOMAIN checkpoint' /\ p \in DOMAIN checkpoint /\ checkpoint'[p] = checkpoint[p]
            \/ p \notin DOMAIN checkpoint' /\ p \notin DOMAIN checkpoint
        BY <1>0, <2>1, <2>5, <3>6 DEF Unsaved, AllSaved
      <4> QED
        BY <3>2, <4>2, <4>3 DEF Restored, RestoredFrom
    <3> QED
      BY <3>4, <3>5, <3>6
  <2> QED
    BY <2>4, <2>5
<1> QED
  BY <1>2, <1>3

-----------------------------------------------------------------------------
(* The head and the index of a base that is loaded.                        *)
LEMMA FieldsStay ==
    ASSUME Inv, up, mem.loaded, [Next]_vars, ~Reset
    PROVE  /\ mem'.head = mem.head \/ \E c \in Callers : Commit(c)
           /\ \/ mem'.index = mem.index
              \/ \E c \in Callers : Stage(c) \/ Checkout(c) \/ \E id \in Ids : Restore(c, id)
<1> DEFINE Goal == /\ mem'.head = mem.head \/ \E c \in Callers : Commit(c)
                   /\ \/ mem'.index = mem.index
                      \/ \E c \in Callers : Stage(c) \/ Checkout(c) \/ \E id \in Ids : Restore(c, id)
<1> USE DEF durable, memory, pushes, counters
<1>0. Typed /\ mem \in Memory /\ Ready(mem) = {mem}
  BY DEF Inv, Typed, Ready
<1>1. ASSUME mem'.head = mem.head, mem'.index = mem.index
      PROVE  Goal
  BY <1>1
<1>2. mem' = mem => Goal
  BY <1>1
<1>3. ASSUME NEW p \in Paths, Read(p) \/ Write(p) \/ Remove(p)
      PROVE  Goal
  <2>1. CASE Read(p)
    <3>1. mem' = Hydrated(mem, p)
      BY <1>0, <2>1 DEF Read, Hydrated
    <3> QED
      BY <1>0, <1>1, <3>1, ReadMakes DEF Same
  <2>2. CASE Write(p)
    <3>1. mem' = Written(mem, p, clock + 1) /\ clock + 1 \in Contents \ {Absent}
      <4>1. mem' = Written(mem, p, clock + 1)
        BY <2>2 DEF Write, Written
      <4>2. clock \in 0 .. MaxWrites /\ clock < MaxWrites
        BY <1>0, <2>2 DEF Write, Typed
      <4>3. clock + 1 \in Contents \ {Absent}
        BY <4>2, SpaceAssumption DEF Contents, Absent
      <4> QED
        BY <4>1, <4>3
    <3> QED
      BY <1>0, <1>1, <3>1, WriteMakes DEF Same
  <2>3. CASE Remove(p)
    <3>1. mem' = Removed(mem, p)
      BY <1>0, <2>3 DEF Remove, Removed
    <3> QED
      BY <1>0, <1>1, <3>1, RemoveMakes DEF Same
  <2> QED
    BY <1>3, <2>1, <2>2, <2>3
<1>4. ASSUME NEW c \in Callers, NEW j \in {"local", "commit", "deploy", "rollback"}, Call(c, j)
      PROVE  Goal
  BY <1>2, <1>4 DEF Call
<1>5. ASSUME NEW c \in Callers, Open(c) \/ Prepare(c)
      PROVE  Goal
  <2>1. mem' = Materialized(mem)
    BY <1>0, <1>5 DEF Open, Prepare, Opening
  <2> QED
    BY <1>0, <1>1, <2>1, MaterializedIs
<1>6. ASSUME NEW c \in Callers, Stage(c)
      PROVE  Goal
  <2>1. mem' = [mem EXCEPT !.index = mem.overlay]
    BY <1>6 DEF Stage
  <2>2. mem'.head = mem.head
    BY <1>0, <2>1 DEF Memory
  <2> QED
    BY <1>6, <2>2
<1>7. ASSUME NEW c \in Callers, Commit(c)
      PROVE  Goal
  <2>1. mem' = [mem EXCEPT !.head = Len(commits) + 1]
    BY <1>7 DEF Commit
  <2>2. mem'.index = mem.index
    BY <1>0, <2>1 DEF Memory
  <2> QED
    BY <1>7, <2>2
<1>8. ASSUME NEW c \in Callers, Checkout(c)
      PROVE  Goal
  <2> DEFINE tree == TreeOf(mem.head)
             files == ForcedTo(mem, tree)
  <2>1. tree \in Trees /\ files \in Trees
    <3>1. mem.head \in 0 .. Len(commits)
      BY <1>0 DEF Typed
    <3> QED
      BY <1>0, <3>1, TreeType, ForcedType
  <2>2. mem' = mem \/ mem' = Switched(mem, files, tree)
    BY <1>8 DEF Checkout, Switched
  <2> HIDE DEF files, tree
  <2>3. mem'.head = mem.head
    BY <1>0, <2>1, <2>2, SwitchMakes
  <2> QED
    BY <1>8, <2>3
<1>9. ASSUME NEW c \in Callers, Build(c)
      PROVE  Goal
  BY <1>2, <1>9 DEF Build
<1>10. ASSUME NEW c \in Callers, RollbackFetch(c)
       PROVE  Goal
  <2>1. \E f : mem' = [Materialized(mem) EXCEPT !.tracking = f]
    BY <1>0, <1>10 DEF RollbackFetch
  <2> DEFINE n == Materialized(mem)
  <2>2. n \in Memory /\ n.head = mem.head /\ n.index = mem.index
    BY <1>0, MaterializedIs
  <2>3. \E f : mem' = [n EXCEPT !.tracking = f]
    BY <2>1
  <2> HIDE DEF n
  <2>4. mem'.head = mem.head /\ mem'.index = mem.index
    BY <2>2, <2>3 DEF Memory
  <2> QED
    BY <1>1, <2>4
<1>11. ASSUME NEW c \in Callers, NEW id \in Ids, Restore(c, id)
       PROVE  Goal
  <2> DEFINE target == TreeOf(id)
             head == TreeOf(mem.head)
  <2>1. target \in Trees /\ head \in Trees
    <3>1. mem.head \in 0 .. Len(commits) /\ id \in Ancestors(mem.head)
      BY <1>0, <1>11 DEF Restore, Typed
    <3>2. id \in 0 .. Len(commits)
      BY <1>0, <3>1, TreeType
    <3> QED
      BY <1>0, <3>1, <3>2, TreeType
  <2>2. mem' = mem \/ mem' = After(mem, target, head)
    BY <1>11 DEF Restore, After, Back, There, Switched
  <2> HIDE DEF target, head
  <2>3. mem'.head = mem.head
    BY <1>0, <2>1, <2>2, RestoreMakes
  <2> QED
    BY <1>11, <2>3
<1>12. ASSUME PushDone
       PROVE  Goal
  <2>1. mem' = [mem EXCEPT !.tracking = push]
    BY <1>12 DEF PushDone
  <2>2. mem'.head = mem.head /\ mem'.index = mem.index
    BY <1>0, <2>1 DEF Memory
  <2> QED
    BY <1>1, <2>2
<1>13. ASSUME TimerFires \/ PushStart \/ PushLands \/ PushFails \/ UNCHANGED vars
       PROVE  Goal
  <2>1. mem' = mem
    BY <1>13 DEF TimerFires, PushStart, PushLands, PushFails, vars
  <2> QED
    BY <1>2, <2>1
<1> HIDE DEF Goal
<1>14. ASSUME NEW c \in Callers, Steps(c)
       PROVE  Goal
  BY <1>5, <1>6, <1>7, <1>8, <1>9, <1>10, <1>11, <1>14 DEF Steps
<1>15. ~Boot
  BY DEF Boot
<1>16. Goal
  BY <1>3, <1>4, <1>12, <1>13, <1>14, <1>15 DEF Next, Pushing
<1> QED
  BY <1>16 DEF Goal

LEMMA StagedKept ==
    ASSUME Inv, [Next]_vars
    PROVE  StagedToo'
<1> SUFFICES ASSUME Complete', NEW c \in Callers, call'[c].pc = "commit", NEW p \in Covered'
             PROVE  mem'.index[p] = VisibleIn(mem', p)
  BY DEF StagedToo, Visible
<1>0. Typed /\ up' /\ mem'.loaded /\ ~Reset /\ p \in Paths /\ p \notin dirty' /\ p \notin undone'
  BY ResetMakes DEF Inv, Complete, Loads, Covered
<1>1. up
  <2>1. CASE ~up
    <3>1. Boot
      BY <1>0, <2>1, OnlyBoot DEF Inv, vars, memory
    <3>2. call' = call /\ Idle
      BY <1>0, <3>1, BootMakes DEF Inv
    <3> QED
      BY <3>2 DEF Idle
  <2> QED
    BY <2>1
<1>2. call[c].pc = "commit" \/ Stage(c)
  BY <1>0, CallMoves
<1>3. call[c].pc \in {"commit", "stage"}
  BY <1>2 DEF Stage
<1>4. mem.loaded /\ Wanted
  <2>1. Wanted
    BY <1>3 DEF Wanted
  <2>2. mem.loaded
    BY <1>1, <1>3, Changes
  <2> QED
    BY <2>1, <2>2
<1>5. Complete /\ p \in Covered /\ VisibleIn(mem', p) = VisibleIn(mem, p)
  BY <1>1, <1>4, CoveredKept
<1>6. VisibleIn(mem, p) = mem.overlay[p]
  <2>1. mem.whole
    BY <1>3, <1>5 DEF Inv, Settled
  <2>2. p \notin undone
    BY <1>5 DEF Covered
  <2> QED
    BY <1>0, <1>5, <2>1, <2>2 DEF Inv, Settled, Visible
<1>7. ASSUME NEW d \in Callers, Stage(d)
      PROVE  mem'.index[p] = mem.overlay[p]
  <2>1. mem' = [mem EXCEPT !.index = mem.overlay] /\ mem \in Memory
    BY <1>0, <1>7 DEF Stage, Typed
  <2>2. mem'.index = mem.overlay
    BY <2>1 DEF Memory
  <2> QED
    BY <2>2
<1>8. CASE \E d \in Callers : Stage(d)
  BY <1>5, <1>6, <1>7, <1>8
<1>9. CASE call[c].pc = "commit" /\ ~\E d \in Callers : Stage(d)
  <2>1. mem.index[p] = VisibleIn(mem, p)
    BY <1>5, <1>9 DEF Inv, StagedToo, Visible
  <2>2. ASSUME NEW d \in Callers, Checkout(d)
        PROVE  mem'.index[p] = VisibleIn(mem, p)
    <3>1. HeadWanted
      BY <2>2 DEF HeadWanted, Checkout
    <3>2. TreeOf(mem.head)[p] = VisibleIn(mem, p)
      BY <1>5, <3>1 DEF Inv, CommittedToo, Visible
    <3> DEFINE tree == TreeOf(mem.head)
               files == ForcedTo(mem, tree)
    <3>3. mem' = mem \/ mem' = Switched(mem, files, tree)
      BY <2>2 DEF Checkout, Switched
    <3>4. tree \in Trees /\ files \in Trees /\ mem \in Memory
      <4>1. mem.head \in 0 .. Len(commits) /\ mem \in Memory
        BY <1>0 DEF Typed
      <4> QED
        BY <1>0, <4>1, TreeType, ForcedType
    <3>5. tree[p] = VisibleIn(mem, p)
      BY <3>2
    <3> HIDE DEF tree, files
    <3>6. mem' = mem \/ mem'.index = tree
      BY SMTT(40), <3>3, <3>4, SwitchMakes
    <3> QED
      BY <2>1, <3>5, <3>6
  <2>3. ASSUME NEW d \in Callers, NEW id \in Ids, Restore(d, id)
        PROVE  mem'.index[p] = VisibleIn(mem, p)
    <3> DEFINE target == TreeOf(id)
               head == TreeOf(mem.head)
               T == Touched(mem, target, head)
    <3>1. target \in Trees /\ head \in Trees /\ mem \in Memory
      <4>1. mem.head \in 0 .. Len(commits) /\ id \in Ancestors(mem.head) /\ mem \in Memory
        BY <1>0, <2>3 DEF Restore, Typed
      <4>2. id \in 0 .. Len(commits)
        BY <1>0, <4>1, TreeType
      <4> QED
        BY <1>0, <4>1, <4>2, TreeType
    <3>2. mem' = mem \/ (mem' = After(mem, target, head) /\ dirty' = dirty \cup T)
      BY <2>3 DEF Restore, Touched, After, Back, There, Switched, Note
    <3> HIDE DEF target, head
    <3>3. CASE mem' = mem
      BY <2>1, <3>3
    <3>4. CASE mem' = After(mem, target, head) /\ dirty' = dirty \cup T
      <4>1. p \in Paths \ T
        BY <1>0, <3>4
      <4>2. mem'.index = head
        BY <3>1, <3>4, RestoreMakes
      <4>3. mem.index[p] = mem.overlay[p] => head[p] = mem.index[p]
        <5>1. \A q \in Paths \ T : mem.index[q] = mem.overlay[q] => head[q] = mem.index[q]
          BY SMTT(40), <3>1, RestoreMakes
        <5> HIDE DEF T
        <5> QED
          BY <4>1, <5>1
      <4> QED
        BY <1>6, <2>1, <4>2, <4>3
    <3> QED
      BY <3>2, <3>3, <3>4
  <2> QED
    BY <1>0, <1>1, <1>4, <1>5, <1>9, <2>1, <2>2, <2>3, FieldsStay
<1> QED
  BY <1>2, <1>8, <1>9

LEMMA QueueStays ==
    ASSUME [Next]_vars, ~Reset, ~Pushing, ~PushFails, ~\E c \in Callers : Commit(c) \/ Build(c)
    PROVE  UNCHANGED queue
<1> USE DEF pushes
<1>1. CASE Boot \/ TimerFires \/ UNCHANGED vars
  BY <1>1 DEF Boot, TimerFires, vars
<1>2. ASSUME NEW p \in Paths, Read(p) \/ Write(p) \/ Remove(p)
      PROVE  UNCHANGED queue
  BY <1>2 DEF Read, Write, Remove
<1>3. ASSUME NEW c \in Callers, NEW j \in {"local", "commit", "deploy", "rollback"}, Call(c, j)
      PROVE  UNCHANGED queue
  BY <1>3 DEF Call
<1>4. ASSUME NEW c \in Callers, Steps(c)
      PROVE  UNCHANGED queue
  <2>1. CASE Open(c) \/ Prepare(c)
    BY <2>1 DEF Open, Prepare, Opening
  <2>2. CASE Stage(c)
    BY <2>2 DEF Stage
  <2>3. CASE Checkout(c)
    BY <2>3 DEF Checkout
  <2>4. CASE RollbackFetch(c)
    BY <2>4 DEF RollbackFetch
  <2>5. ASSUME NEW id \in Ids, Restore(c, id)
        PROVE  UNCHANGED queue
    BY <2>5 DEF Restore
  <2> QED
    BY <1>4, <2>1, <2>2, <2>3, <2>4, <2>5 DEF Steps
<1> QED
  BY <1>1, <1>2, <1>3, <1>4 DEF Next

LEMMA CommittedKept ==
    ASSUME Inv, [Next]_vars
    PROVE  CommittedToo'
<1> SUFFICES ASSUME Complete', HeadWanted', NEW p \in Covered'
             PROVE  TreeOf(mem.head)'[p] = VisibleIn(mem', p)
  BY DEF CommittedToo, Visible
<1>0. /\ Typed /\ Typed' /\ up' /\ mem'.loaded /\ ~Reset
      /\ p \in Paths /\ p \notin dirty' /\ p \notin undone'
  BY TypedKept, ResetMakes DEF Inv, Complete, Loads, Covered
<1>1. up
  <2>1. CASE ~up
    <3>1. Boot
      BY <1>0, <2>1, OnlyBoot DEF Inv, vars, memory
    <3>2. call' = call /\ Idle /\ queue' = 0
      BY <1>0, <3>1, BootMakes DEF Inv, pushes
    <3> QED
      BY <3>2 DEF Idle, HeadWanted
  <2> QED
    BY <2>1
(* A head newly wanted was committed or was found to be what is staged.    *)
<1>2. HeadWanted \/ \E c \in Callers : Commit(c) \/ (Stage(c) /\ mem.overlay = TreeOf(mem.head))
  <2>1. CASE queue' > 0
    <3>1. queue' <= queue \/ \E c \in Callers : Commit(c) \/ Build(c)
      <4>1. CASE \E c \in Callers : Commit(c) \/ Build(c)
        BY <4>1
      <4>2. CASE Pushing \/ PushFails
        <5>1. queue \in Nat
          BY <1>0 DEF Typed
        <5>2. queue' = queue \/ queue' = queue - 1
          BY <4>2 DEF Pushing, PushStart, PushLands, PushDone, PushFails
        <5>3. queue' <= queue
          BY <5>1, <5>2
        <5> QED
          BY <5>3
      <4>3. CASE ~Pushing /\ ~PushFails /\ ~\E c \in Callers : Commit(c) \/ Build(c)
        <5>1. UNCHANGED queue
          BY <1>0, <4>3, QueueStays
        <5> QED
          BY <1>0, <5>1 DEF Typed
      <4> QED
        BY <4>1, <4>2, <4>3
    <3>2. (\E c \in Callers : Build(c)) => HeadWanted
      BY DEF Build, HeadWanted
    <3>3. queue' <= queue => HeadWanted
      <4>1. queue \in Nat /\ queue' \in Nat
        BY <1>0 DEF Typed
      <4>2. queue' <= queue => queue > 0
        BY <2>1, <4>1
      <4> QED
        BY <4>2 DEF HeadWanted
    <3> QED
      BY <3>1, <3>2, <3>3
  <2>2. ASSUME NEW c \in Callers, call'[c].pc \in {"prepare", "checkout", "build"}
        PROVE  HeadWanted \/ Commit(c) \/ (Stage(c) /\ mem.overlay = TreeOf(mem.head))
    <3>1. call'[c].pc = call[c].pc \/ Stage(c) \/ Commit(c) \/ Prepare(c) \/ Checkout(c)
      BY <1>0, <2>2, CallMoves
    <3>2. CASE call'[c].pc = call[c].pc \/ Prepare(c) \/ Checkout(c)
      BY <2>2, <3>2 DEF HeadWanted, Prepare, Opening, Checkout
    <3>3. CASE Stage(c)
      <4>1. \/ mem.overlay = TreeOf(mem.head)
            \/ Goto(c, "commit") /\ "commit" \in Pcs
        BY <3>3 DEF Stage, Pcs
      <4> QED
        BY <1>0, <2>2, <3>3, <4>1, GotoMakes
    <3> QED
      BY <3>1, <3>2, <3>3
  <2> QED
    BY <2>1, <2>2 DEF HeadWanted
<1>3. mem.loaded /\ Wanted
  <2>1. HeadWanted => Wanted
    BY DEF HeadWanted, Wanted
  <2>2. ASSUME NEW c \in Callers, Commit(c) \/ Stage(c)
        PROVE  Wanted
    <3>1. call[c].pc \in {"commit", "stage"}
      BY <2>2 DEF Commit, Stage
    <3> QED
      BY <3>1 DEF Wanted
  <2>3. Wanted /\ (queue > 0 \/ \E c \in Callers : call[c].pc \notin {"idle", "open", "fetch"})
    <3>1. HeadWanted => queue > 0 \/ \E c \in Callers : call[c].pc \notin {"idle", "open", "fetch"}
      BY DEF HeadWanted
    <3>2. ASSUME NEW c \in Callers, Commit(c) \/ Stage(c)
          PROVE  call[c].pc \notin {"idle", "open", "fetch"}
      BY <3>2 DEF Commit, Stage
    <3> QED
      BY <1>2, <2>1, <2>2, <3>1, <3>2
  <2>4. mem.loaded
    <3>1. ~mem.loaded => queue = 0 /\ \A c \in Callers : call[c].pc \in {"idle", "open", "fetch"}
      BY <1>1, Changes
    <3>2. ~(queue > 0 /\ queue = 0)
      OBVIOUS
    <3> QED
      BY <2>3, <3>1, <3>2
  <2> QED
    BY <2>3, <2>4
<1>4. Complete /\ p \in Covered /\ VisibleIn(mem', p) = VisibleIn(mem, p)
  BY <1>1, <1>3, CoveredKept
<1>5. mem.head \in 0 .. Len(commits) /\ mem \in Memory
  BY <1>0 DEF Typed
<1>6. TreeOf(mem.head)' = TreeOf(mem.head) \/ \E c \in Callers : Commit(c)
  <2>1. CASE mem'.head = mem.head
    <3>1. \A id \in 0 .. Len(commits) : TreeOf(id)' = TreeOf(id)
      BY <1>0, TreesStay
    <3>2. TreeOf(mem.head)' = IF mem.head = 0 THEN Empty ELSE commits'[mem.head].tree
      BY <2>1 DEF TreeOf
    <3>3. TreeOf(mem.head) = IF mem.head = 0 THEN Empty ELSE commits'[mem.head].tree
      BY <1>5, <3>1 DEF TreeOf
    <3> QED
      BY <3>2, <3>3
  <2> QED
    BY <1>0, <1>1, <1>3, <2>1, FieldsStay
<1>7. ASSUME NEW c \in Callers, Commit(c)
      PROVE  TreeOf(mem.head)'[p] = VisibleIn(mem', p)
  <2> DEFINE trace == [tree |-> mem.index, history |-> Ancestors(mem.head) \cup {Len(commits) + 1}]
  <2>1. commits' = Append(commits, trace) /\ mem' = [mem EXCEPT !.head = Len(commits) + 1]
    BY <1>7 DEF Commit
  <2>2. trace.tree = mem.index
    OBVIOUS
  <2> HIDE DEF trace
  <2>3. mem'.head = Len(commits) + 1
    BY <1>5, <2>1 DEF Memory
  <2>4. commits'[Len(commits) + 1] = trace /\ Len(commits) + 1 # 0
    BY SMTT(40), <1>0, <2>1 DEF Typed
  <2>5. TreeOf(mem.head)' = mem.index
    BY <2>2, <2>3, <2>4 DEF TreeOf
  <2>6. call[c].pc = "commit"
    BY <1>7 DEF Commit
  <2>7. mem.index[p] = VisibleIn(mem, p)
    BY <1>4, <2>6 DEF Inv, StagedToo, Visible
  <2> QED
    BY <1>4, <2>5, <2>7
<1>8. CASE HeadWanted
  <2>1. TreeOf(mem.head)[p] = VisibleIn(mem, p)
    BY <1>4, <1>8 DEF Inv, CommittedToo, Visible
  <2> QED
    BY <1>4, <1>6, <1>7, <2>1
<1>9. ASSUME NEW c \in Callers, Stage(c), mem.overlay = TreeOf(mem.head)
      PROVE  TreeOf(mem.head)'[p] = VisibleIn(mem', p)
  <2>1. mem.whole
    BY <1>4, <1>9 DEF Inv, Settled, Stage
  <2>2. VisibleIn(mem, p) = mem.overlay[p]
    BY <1>0, <1>4, <2>1 DEF Inv, Settled, Covered, Visible
  <2> QED
    BY <1>4, <1>6, <1>7, <1>9, <2>2
<1> QED
  BY <1>2, <1>7, <1>8, <1>9

LEMMA SentKept ==
    ASSUME Inv, [Next]_vars
    PROVE  SentToo'
<1> SUFFICES ASSUME Complete', push' # 0, NEW p \in Covered'
             PROVE  TreeOf(push)'[p] = VisibleIn(mem', p)
  BY DEF SentToo, Visible
<1>0. Typed /\ up' /\ mem'.loaded /\ ~Reset
  BY ResetMakes DEF Inv, Complete, Loads
<1>1. up
  <2>1. CASE ~up
    <3>1. Boot
      BY <1>0, <2>1, OnlyBoot DEF Inv, vars, memory
    <3>2. push' = 0
      BY <1>0, <3>1, BootMakes DEF Inv, pushes
    <3> QED
      BY <3>2
  <2> QED
    BY <2>1
<1>2. push' = push \/ (PushStart /\ push' = mem.head /\ push = 0)
  BY <1>0, OnlyPushes DEF Pushing, PushStart, PushLands, PushDone, PushFails
<1>3. CASE push' = push
  <2>1. mem.loaded /\ Wanted
    <3>1. mem.loaded
      BY <1>1, <1>3, Changes
    <3>2. Wanted
      BY DEF Wanted
    <3> QED
      BY <3>1, <3>2
  <2>2. Complete /\ p \in Covered /\ VisibleIn(mem', p) = VisibleIn(mem, p)
    BY <1>1, <2>1, CoveredKept
  <2>3. TreeOf(push)[p] = VisibleIn(mem, p)
    BY <1>3, <2>2 DEF Inv, SentToo, Visible
  <2>4. TreeOf(push)' = TreeOf(push)
    <3>1. push \in 0 .. Len(commits)
      BY <1>0 DEF Typed
    <3>2. \A id \in 0 .. Len(commits) : TreeOf(id)' = TreeOf(id)
      BY <1>0, TreesStay
    <3>3. TreeOf(push)' = IF push = 0 THEN Empty ELSE commits'[push].tree
      BY <1>3 DEF TreeOf
    <3>4. TreeOf(push) = IF push = 0 THEN Empty ELSE commits'[push].tree
      BY <3>1, <3>2 DEF TreeOf
    <3> QED
      BY <3>3, <3>4
  <2> QED
    BY <2>2, <2>3, <2>4
<1>4. CASE PushStart /\ push' = mem.head /\ push = 0
  <2>1. /\ mem' = mem /\ commits' = commits /\ Covered' = Covered /\ queue > 0 /\ Complete
    BY <1>4 DEF PushStart, Covered, Complete, Loads, memory, counters
  <2>2. HeadWanted
    BY <2>1 DEF HeadWanted
  <2>3. TreeOf(mem.head)[p] = VisibleIn(mem, p)
    BY <2>1, <2>2 DEF Inv, CommittedToo, Visible
  <2>4. TreeOf(push)' = TreeOf(mem.head)
    BY <1>4, <2>1 DEF TreeOf
  <2> QED
    BY <2>1, <2>3, <2>4
<1> QED
  BY <1>2, <1>3, <1>4

-----------------------------------------------------------------------------
(* Callers that take turns.                                                *)

LEMMA RestStays ==
    ASSUME [Next]_vars
    PROVE  client' = client /\ (deployed' = deployed \/ \E c \in Callers : Build(c))
<1> DEFINE Goal == client' = client /\ (deployed' = deployed \/ \E c \in Callers : Build(c))
<1> USE DEF durable
<1>1. CASE Boot \/ Reset \/ TimerFires \/ Pushing \/ PushFails \/ UNCHANGED vars
  BY <1>1 DEF Boot, Reset, TimerFires, Pushing, PushStart, PushLands, PushDone, PushFails, vars
<1>2. ASSUME NEW p \in Paths, Read(p) \/ Write(p) \/ Remove(p)
      PROVE  Goal
  BY <1>2 DEF Read, Write, Remove
<1>3. ASSUME NEW c \in Callers, NEW j \in {"local", "commit", "deploy", "rollback"}, Call(c, j)
      PROVE  Goal
  BY <1>3 DEF Call
<1>4. ASSUME NEW c \in Callers, Steps(c)
      PROVE  Goal
  <2>1. CASE Open(c) \/ Prepare(c)
    BY <2>1 DEF Open, Prepare, Opening
  <2>2. CASE Stage(c)
    BY <2>2 DEF Stage
  <2>3. CASE Commit(c)
    BY <2>3 DEF Commit
  <2>4. CASE Checkout(c)
    BY <2>4 DEF Checkout
  <2>5. CASE Build(c)
    BY <2>5 DEF Build
  <2>6. CASE RollbackFetch(c)
    BY <2>6 DEF RollbackFetch
  <2>7. ASSUME NEW id \in Ids, Restore(c, id)
        PROVE  Goal
    BY <2>7 DEF Restore
  <2> QED
    BY <1>4, <2>1, <2>2, <2>3, <2>4, <2>5, <2>6, <2>7 DEF Steps
<1> QED
  BY <1>1, <1>2, <1>3, <1>4 DEF Next

LEMMA InTurnKept ==
    ASSUME Inv, [Next]_vars
    PROVE  InTurn'
<1> SUFFICES ASSUME client = "sequential", NEW c \in Callers, NEW d \in Callers,
                    call'[c].pc # "idle", call'[d].pc # "idle", c # d
             PROVE  FALSE
  BY RestStays DEF InTurn
<1>0. Typed /\ InTurn /\ ~Reset
  BY ResetMakes DEF Inv
<1>1. ASSUME NEW e \in Callers, call'[e].pc # "idle"
      PROVE  call[e].pc # "idle" \/ \E j \in Jobs : Call(e, j)
  BY <1>0, <1>1, CallMoves DEF Restore, Open, Opening, Stage, Commit, Prepare, Checkout, RollbackFetch
<1>2. ASSUME NEW e \in Callers, NEW f \in Callers \ {e}, NEW j \in Jobs, Call(e, j)
      PROVE  call[f].pc = "idle" /\ call'[f] = call[f]
  <2>1. call \in [Callers -> [pc : Pcs, job : Jobs, built : Bundle]]
    BY <1>0 DEF Typed
  <2>2. call' = [call EXCEPT ![e].job = j, ![e].pc = IF j = "rollback" THEN "fetch" ELSE "open"]
    BY <1>2 DEF Call
  <2>3. call[f].pc = "idle"
    BY <1>2 DEF Call, Idle
  <2> QED
    BY <2>1, <2>2, <2>3
<1>3. call[c].pc # "idle" /\ call[d].pc # "idle"
  BY <1>1, <1>2
<1> QED
  BY <1>0, <1>3 DEF InTurn

(* While one call is under way, only its steps change the files, the index *)
(* and the head.                                                           *)
LEMMA InTurnQuiet ==
    ASSUME Inv, [Next]_vars, ~Reset, client = "sequential", NEW c \in Callers, call[c].pc # "idle"
    PROVE  \/ Steps(c)
           \/ mem'.overlay = mem.overlay /\ mem'.index = mem.index /\ mem'.head = mem.head
<1>0. Typed /\ InTurn /\ mem \in Memory
  BY DEF Inv, Typed
<1>1. up /\ ~Idle
  BY DEF Inv, AtRest, Idle
<1>2. ~Boot
  BY <1>1 DEF Boot
<1>3. \A p \in Paths : ~Read(p) /\ ~Write(p) /\ ~Remove(p)
  BY <1>1 DEF Read, Write, Remove, MayWrite
<1>4. \A d \in Callers, j \in Jobs : ~Call(d, j)
  BY <1>1 DEF Call
<1>5. ASSUME NEW d \in Callers, Steps(d)
      PROVE  d = c
  <2>1. call[d].pc # "idle"
    BY <1>5 DEF Steps, Open, Opening, Stage, Commit, Prepare, Checkout, Build, RollbackFetch, Restore
  <2> QED
    BY SMTT(40), <1>0, <2>1 DEF InTurn
<1>6. CASE PushDone
  <2>1. mem' = [mem EXCEPT !.tracking = push]
    BY <1>6 DEF PushDone
  <2> QED
    BY <1>0, <2>1 DEF Memory
<1>7. CASE TimerFires \/ PushStart \/ PushLands \/ PushFails \/ UNCHANGED vars
  BY <1>7 DEF TimerFires, PushStart, PushLands, PushFails, vars, memory
<1> QED
  BY <1>2, <1>3, <1>4, <1>5, <1>6, <1>7 DEF Next, Pushing, Jobs

(* In turn, the working tree is what is checked out already.               *)
LEMMA CheckoutInTurn ==
    ASSUME Inv, client = "sequential", fetchFailures <= 1, NEW c \in Callers, Checkout(c)
    PROVE  /\ ForcedTo(mem, TreeOf(mem.head)) = TreeOf(mem.head) /\ mem.head # 0
           /\ mem'.overlay = mem.overlay /\ undone' = undone
           /\ \A p \in Paths : VisibleIn(mem', p) = VisibleIn(mem, p)
<1> DEFINE tree == TreeOf(mem.head)
           files == ForcedTo(mem, tree)
<1>1. mem.head # 0 /\ mem.overlay = tree
  BY DEF Inv, Deploying, Checkout
<1>2. tree \in Trees /\ files \in Trees /\ mem \in Memory
  <2>1. Typed /\ mem.head \in 0 .. Len(commits) /\ mem \in Memory
    BY DEF Inv, Typed
  <2> QED
    BY <2>1, TreeType, ForcedType
<1>3. files = tree
  <2>1. \A p \in Paths : files[p] = tree[p]
    BY <1>1 DEF ForcedTo
  <2> HIDE DEF files, tree
  <2> QED
    BY <1>2, <2>1 DEF Trees
<1>4. mem' = Switched(mem, files, tree) /\ undone' = undone
  BY <1>1 DEF Checkout, Switched
<1> HIDE DEF files, tree
<1>5. mem'.overlay = files
  BY ZenonT(60), <1>2, <1>4, SwitchMakes
<1>6. \A p \in Paths : files[p] = mem.overlay[p] => VisibleIn(mem', p) = VisibleIn(mem, p)
  <2> DEFINE n == Switched(mem, files, tree)
  <2>1. \A p \in Paths : files[p] = mem.overlay[p] => VisibleIn(n, p) = VisibleIn(mem, p)
    BY <1>2, SwitchMakes
  <2> QED
    BY <1>4, <2>1
<1> QED
  BY <1>1, <1>3, <1>4, <1>5, <1>6 DEF files, tree

LEMMA DeployingKept ==
    ASSUME Inv, [Next]_vars
    PROVE  Deploying'
<1> SUFFICES ASSUME client = "sequential", fetchFailures <= 1
             PROVE  Deploying'
  <2>1. fetchFailures' <= 1 => fetchFailures <= 1
    <3>1. fetchFailures <= fetchFailures' /\ fetchFailures \in Nat /\ fetchFailures' \in Nat
      BY FetchCounts, TypedKept DEF Inv, Typed
    <3> QED
      BY <3>1
  <2> QED
    BY <2>1, RestStays DEF Deploying
<1>0. Typed /\ mem \in Memory /\ mem.head \in 0 .. Len(commits) /\ Deploying
  BY DEF Inv, Typed
<1>T. \A id \in 0 .. Len(commits) :
         TreeOf(id) = IF id = 0 THEN Empty ELSE commits'[id].tree
  <2>1. \A id \in 0 .. Len(commits) : TreeOf(id)' = TreeOf(id)
    BY <1>0, TreesStay
  <2> QED
    BY <2>1 DEF TreeOf
<1>1. deployed'.files = TreeOf(deployed.commit)'
  <2>1. \/ deployed' = deployed
        \/ \E c \in Callers : call[c].pc = "build" /\ deployed' = call[c].built
    BY RestStays DEF Build
  <2>2. CASE deployed' = deployed
    <3>1. deployed.files = TreeOf(deployed.commit) /\ deployed.commit \in 0 .. Len(commits)
      BY <1>0 DEF Deploying, Typed
    <3> QED
      BY <1>T, <2>2, <3>1 DEF TreeOf
  <2>3. ASSUME NEW c \in Callers, call[c].pc = "build", deployed' = call[c].built
        PROVE  deployed'.files = TreeOf(deployed.commit)'
    <3>1. call[c].built.files = TreeOf(call[c].built.commit) /\ call[c].built.commit \in 0 .. Len(commits)
      BY <1>0, <2>3 DEF Deploying, Typed
    <3> QED
      BY <1>T, <2>3, <3>1 DEF TreeOf
  <2> QED
    BY <2>1, <2>2, <2>3
<1>2. ASSUME NEW c \in Callers, call'[c].pc = "commit"
      PROVE  mem'.index = mem'.overlay
  <2>0. ~Reset
    BY <1>0, <1>2, ResetMakes
  <2>1. CASE Stage(c)
    <3>1. mem' = [mem EXCEPT !.index = mem.overlay]
      BY <2>1 DEF Stage
    <3> QED
      BY <1>0, <3>1 DEF Memory
  <2>2. CASE call[c].pc = "commit" /\ call'[c] = call[c]
    <3>1. ~Steps(c)
      <4>1. Steps(c) => Commit(c)
        BY <2>2 DEF Steps, Open, Opening, Stage, Prepare, Checkout, Build, RollbackFetch, Restore
      <4>2. Commit(c) => \E q \in {"prepare", "idle"} : Goto(c, q)
        BY DEF Commit, AfterCommit
      <4>3. Commit(c) => call'[c].pc \in {"prepare", "idle"}
        BY <1>0, <4>2, GotoMakes DEF Pcs
      <4> QED
        BY <1>2, <4>1, <4>3
    <3> QED
      BY <1>0, <2>0, <2>2, <3>1, InTurnQuiet DEF Deploying
  <2> QED
    BY <1>0, <1>2, <2>0, <2>1, <2>2, CallMoves
<1>3. ASSUME NEW c \in Callers, call'[c].pc \in {"prepare", "checkout"}
      PROVE  mem'.head # 0 /\ mem'.overlay = TreeOf(mem.head)'
  <2>0. ~Reset
    BY <1>0, <1>3, ResetMakes
  <2>1. ASSUME mem'.head = mem.head, mem'.overlay = mem.overlay, mem.head # 0,
               mem.overlay = TreeOf(mem.head)
        PROVE  mem'.head # 0 /\ mem'.overlay = TreeOf(mem.head)'
    BY <1>0, <1>T, <2>1 DEF TreeOf
  <2>2. CASE Stage(c)
    <3>1. mem' = [mem EXCEPT !.index = mem.overlay]
      BY <2>2 DEF Stage
    <3>2. mem'.head = mem.head /\ mem'.overlay = mem.overlay
      BY <1>0, <3>1 DEF Memory
    <3>3. \/ mem.head # 0 /\ mem.overlay = TreeOf(mem.head)
          \/ Goto(c, "commit") /\ "commit" \in Pcs
      BY <2>2 DEF Stage, Pcs
    <3>4. mem.head # 0 /\ mem.overlay = TreeOf(mem.head)
      BY <1>0, <1>3, <3>3, GotoMakes
    <3> QED
      BY <2>1, <3>2, <3>4
  <2>3. CASE Commit(c)
    <3> DEFINE trace == [tree |-> mem.index, history |-> Ancestors(mem.head) \cup {Len(commits) + 1}]
    <3>1. commits' = Append(commits, trace) /\ mem' = [mem EXCEPT !.head = Len(commits) + 1]
      BY <2>3 DEF Commit
    <3>2. trace.tree = mem.index
      OBVIOUS
    <3> HIDE DEF trace
    <3>3. mem'.head = Len(commits) + 1 /\ mem'.overlay = mem.overlay
      BY <1>0, <3>1 DEF Memory
    <3>4. commits'[Len(commits) + 1] = trace /\ Len(commits) + 1 # 0
      BY <1>0, <3>1 DEF Typed
    <3>5. TreeOf(mem.head)' = mem.index
      BY <3>2, <3>3, <3>4 DEF TreeOf
    <3>6. mem.index = mem.overlay
      BY <1>0, <2>3 DEF Deploying, Commit
    <3> QED
      BY <3>3, <3>4, <3>5, <3>6
  <2>4. CASE Prepare(c)
    <3>1. call[c].pc = "prepare"
      BY <2>4 DEF Prepare, Opening
    <3>2. up
      BY <3>1 DEF Inv, AtRest, Idle
    <3>3. mem.loaded
      BY <3>1, <3>2 DEF Inv, Degraded, Loads
    <3>4. mem.whole
      BY <3>1, <3>2, <3>3 DEF Inv, Settled, Complete, Loads
    <3>5. mem' = mem
      BY <2>4, <3>3, <3>4 DEF Prepare, Opening, Ready, Materialized
    <3> QED
      BY <1>0, <2>1, <3>1, <3>5 DEF Deploying
  <2>5. CASE call[c].pc \in {"prepare", "checkout"} /\ call'[c] = call[c] /\ ~Prepare(c)
    <3>1. ~Steps(c)
      <4>1. Steps(c) => Checkout(c)
        BY <2>5 DEF Steps, Open, Opening, Stage, Commit, Build, RollbackFetch, Restore
      <4>2. Checkout(c) => mem.head # 0
        BY CheckoutInTurn
      <4>3. call \in [Callers -> [pc : Pcs, job : Jobs, built : Bundle]]
        BY <1>0 DEF Typed
      <4>4. Checkout(c) => call'[c].pc = "build"
        <5> DEFINE b == [commit |-> mem.head, files |-> ForcedTo(mem, TreeOf(mem.head))]
        <5>1. Checkout(c) => call' = [call EXCEPT ![c].pc = "build", ![c].built = b]
          BY <4>2 DEF Checkout
        <5> HIDE DEF b
        <5> QED
          BY <4>3, <5>1
      <4> QED
        BY SMTT(40), <1>3, <4>1, <4>4
    <3>2. mem'.overlay = mem.overlay /\ mem'.head = mem.head
      BY <2>0, <2>5, <3>1, InTurnQuiet
    <3> QED
      BY <1>0, <2>1, <2>5, <3>2 DEF Deploying
  <2> QED
    BY <1>0, <1>3, <2>0, <2>2, <2>3, <2>4, <2>5, CallMoves
<1>4. ASSUME NEW c \in Callers, call'[c].pc = "build"
      PROVE  call'[c].built.files = TreeOf(call[c].built.commit)'
  <2>0. ~Reset
    BY <1>0, <1>4, ResetMakes
  <2>1. CASE Checkout(c)
    <3> DEFINE b == [commit |-> mem.head, files |-> ForcedTo(mem, TreeOf(mem.head))]
    <3>1. call' = [call EXCEPT ![c].pc = "build", ![c].built = b] /\ commits' = commits
      BY <2>1, CheckoutInTurn DEF Checkout, durable
    <3>2. b.commit = mem.head /\ b.files = TreeOf(mem.head)
      BY <2>1, CheckoutInTurn
    <3>3. call \in [Callers -> [pc : Pcs, job : Jobs, built : Bundle]]
      BY <1>0 DEF Typed
    <3> HIDE DEF b
    <3>4. call'[c].built = b
      BY <3>1, <3>3
    <3> QED
      BY <3>1, <3>2, <3>4 DEF TreeOf
  <2>2. CASE call'[c] = call[c]
    <3>1. call[c].built.files = TreeOf(call[c].built.commit) /\ call[c].built.commit \in 0 .. Len(commits)
      BY <1>0, <1>4, <2>2 DEF Deploying, Typed
    <3> QED
      BY <1>T, <2>2, <3>1 DEF TreeOf
  <2> QED
    BY <1>0, <1>4, <2>0, <2>1, <2>2, CallMoves
<1> QED
  BY <1>1, <1>2, <1>3, <1>4 DEF Deploying

LEMMA WritesKept ==
    ASSUME Inv, [Next]_vars
    PROVE  WritesStay'
<1> SUFFICES ASSUME client' = "sequential", fetchFailures' = 0, up', mem'.loaded, NEW p \in Paths \ undone'
             PROVE  VisibleIn(mem', p) = expect'[p]
  BY DEF WritesStay, Visible
<1>0. Typed /\ client = "sequential" /\ ~Reset /\ Complete'
  BY RestStays, ResetMakes DEF Inv, Complete, Loads
<1>1. fetchFailures = 0
  <2>1. fetchFailures <= fetchFailures' /\ fetchFailures \in Nat
    BY FetchCounts DEF Inv, Typed
  <2> QED
    BY <2>1
<1>2. CASE ~up
  <2>1. Boot
    BY <1>0, <1>2, OnlyBoot DEF Inv, vars, memory
  <2>2. VisibleIn(mem', p) = Restored(p) /\ expect' = expect
    BY <1>0, <2>1, BootMakes DEF Inv
  <2> QED
    BY <1>2, <2>2 DEF Inv, AtRest
<1>3. CASE up
  <2>1. PICK m \in Memory, T \in SUBSET Paths :
              /\ Kept(m, T)
              /\ mem.loaded => m = mem
              /\ ~mem.loaded => fetchFailures' = 1
    BY <1>0, <1>3, Changes
  <2>2. mem.loaded /\ m = mem
    BY <2>1
  <2>3. \A q \in Paths \ undone : VisibleIn(mem, q) = expect[q]
    BY <1>0, <1>1, <1>3, <2>2 DEF Inv, WritesStay, Visible
  <2>4. CASE p \notin T
    BY <2>1, <2>2, <2>3, <2>4 DEF Kept
  <2>5. CASE p \in T /\ \A q \in T : expect'[q] = mem'.overlay[q]
    BY <2>1, <2>5 DEF Kept
  <2>6. ASSUME NEW c \in Callers, Checkout(c), expect' = expect
        PROVE  VisibleIn(mem', p) = expect'[p]
    <3>1. fetchFailures <= 1
      BY <1>1
    <3>2. undone' = undone /\ VisibleIn(mem', p) = VisibleIn(mem, p)
      BY <1>0, <2>6, <3>1, CheckoutInTurn
    <3> QED
      BY <2>3, <2>6, <3>2
  <2> QED
    BY <2>1, <2>4, <2>5, <2>6 DEF Kept
<1> QED
  BY <1>2, <1>3

-----------------------------------------------------------------------------
(* Theorems.                                                               *)

LEMMA InitInv == Init => Inv
<1> SUFFICES ASSUME Init PROVE Inv
  OBVIOUS
<1>1. Typed /\ AtRest
  BY InitTyped, InitAtRest
<1>2. /\ up = FALSE /\ remote = 0 /\ push = 0 /\ landed = FALSE /\ deployed = NothingBuilt
      /\ \A c \in Callers : call[c].pc = "idle"
  BY DEF Init, NoCall
<1>3. Sending
  BY <1>2 DEF Sending
<1>4. Degraded /\ Settled /\ SavedToo /\ StagedToo /\ CommittedToo /\ SentToo /\ WritesStay
  BY <1>2 DEF Degraded, Settled, SavedToo, StagedToo, CommittedToo, SentToo, WritesStay, Complete, Loads
<1>5. InTurn
  BY <1>2 DEF InTurn
<1>6. Deploying
  BY <1>2 DEF Deploying, NothingBuilt, TreeOf
<1> QED
  BY <1>1, <1>3, <1>4, <1>5, <1>6 DEF Inv

LEMMA InvKept ==
    ASSUME Inv, [Next]_vars
    PROVE  Inv'
BY TypedKept, AtRestKept, SendingKept, DegradedKept, SettledKept, SavedKept, StagedKept,
   CommittedKept, SentKept, InTurnKept, DeployingKept, WritesKept DEF Inv

(* The inductive invariant: what is saved, staged, committed and sent      *)
(* agrees with what is seen, at every await of every caller.               *)
THEOREM InvHolds == Spec => []Inv
<1>1. Init => Inv
  BY InitInv
<1>2. Inv /\ [Next]_vars => Inv'
  BY InvKept
<1> QED
  BY <1>1, <1>2, PTL DEF Spec

(* The rows, the commits and the workspace have their types, and every     *)
(* commit a reference points at exists.                                    *)
THEOREM TypesKept == Spec => []TypeOK
<1>1. Inv => TypeOK
  <2> SUFFICES ASSUME Typed PROVE TypeOK
    BY DEF Inv
  <2>1. /\ remote \in 0 .. Len(commits) /\ push \in 0 .. Len(commits) /\ seen \in 0 .. Len(commits)
        /\ mem.head \in 0 .. Len(commits) /\ mem.tracking \in 0 .. Len(commits)
        /\ deployed.commit \in 0 .. Len(commits)
    BY DEF Typed
  <2>2. {remote, push, seen, mem.head, mem.tracking, deployed.commit} \subseteq 0 .. Len(commits)
    BY <2>1
  <2> QED
    BY <2>2 DEF Typed, TypeOK, Trace
<1> QED
  BY <1>1, InvHolds, PTL

(* However writes, commits, rollbacks, pushes and the checkpoint           *)
(* interleave, and wherever an eviction falls: of a file that is neither   *)
(* to be saved, nor was saved while a commit or a push was under way, nor  *)
(* was taken away by a rollback, the next instance shows what this one     *)
(* shows, although every push clears the checkpoint.                       *)
THEOREM SavedWorkSurvives == Spec => []SavedSurvives
<1>1. Inv => SavedSurvives
  BY DEF Inv, SavedToo, SavedSurvives, Complete, Loads, Covered
<1> QED
  BY <1>1, InvHolds, PTL

(* When callers take turns and the base loads at the first attempt,        *)
(* neither a checkout, a rollback nor loading the base brings an older     *)
(* content back.                                                           *)
THEOREM FilesAreAsWritten == Spec => []WritesStay
<1>1. Inv => WritesStay
  BY DEF Inv
<1> QED
  BY <1>1, InvHolds, PTL

(* When callers take turns and the base loads at the latest with the       *)
(* second attempt, the files deployed are the tree of the commit recorded  *)
(* with them.                                                              *)
THEOREM DeploymentsAreCommits == Spec => []DeployedIsCommitted
<1>1. Inv => DeployedIsCommitted
  BY DEF Inv, Deploying, DeployedIsCommitted
<1> QED
  BY <1>1, InvHolds, PTL

(* Although pushes are forced, none takes a commit from the remote that    *)
(* the instance knew of when it sent it.                                   *)
THEOREM PushesKeepHistory == Spec => KnownHistoryKept
<1>1. Inv /\ [Next]_vars => [remote' # remote /\ seen # 0 => seen \in commits[remote'].history]_vars
  BY KnownHistoryStep
<1> QED
  BY <1>1, InvHolds, PTL DEF Spec, KnownHistoryKept

=============================================================================
