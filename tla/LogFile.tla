------------------------------- MODULE LogFile -------------------------------
(***************************************************************************)
(* The process log of an instance: the monitor appends lines and trims the *)
(* file, the monitor and the "logs get" command read it, with or without   *)
(* resetting it, under a lock file that is taken over after 30 seconds.    *)
(* One action per call of the file system, on which other processes and    *)
(* other appends of the same process interleave.                           *)
(*                                                                         *)
(* An append opens the path and writes to the file it opened, wherever     *)
(* that has been renamed to since.  Files are numbered; a path holds the   *)
(* number of a file or 0.                                                  *)
(***************************************************************************)
EXTENDS Integers, Sequences, FiniteSets, SequencesExt

CONSTANTS
    Lines,       \* what is appended
    Monitors,    \* calls of SimpleLogManager.getAllLogsAndReset
    Resets,      \* calls of LogCommands.get with reset
    Looks,       \* calls of LogCommands.get without
    Cleanups,    \* calls of SimpleLogManager.cleanup
    None,        \* no lock file
    MaxLines,    \* the lines above which the file is trimmed
    Keep,        \* the lines trimming keeps
    MaxRetries,  \* MAX_RETRIES
    MaxCalls,    \* bound on the readers that call
    MaxTrims, MaxAges, MaxCrashes

Readers == Monitors \cup Resets \cup Looks \cup Cleanups

ASSUME LogAssumption ==
    /\ Monitors \cap Resets = {} /\ (Monitors \cup Resets) \cap Looks = {}
    /\ (Monitors \cup Resets \cup Looks) \cap Cleanups = {}
    /\ None \notin Readers \cup [by : Readers, stale : BOOLEAN]
    /\ MaxLines \in Nat /\ Keep \in 0 .. MaxLines /\ MaxRetries \in Nat \ {0}
    /\ MaxCalls \in Nat /\ MaxTrims \in Nat /\ MaxAges \in Nat /\ MaxCrashes \in Nat

VARIABLES
    log,        \* the log path
    content,    \* the lines of every file there has been
    append,     \* where each append stands and the file it opened
    lock,       \* the lock file: who wrote it and whether it is stale
    reader,     \* where each reader stands, its attempts, its temp file
    got,        \* what each reader has read
    delivered,  \* the readers that have answered
    trim,       \* the trim under way: what it will leave
    trims, ages, crashes,
    hit,        \* history: lines appended while their file was replaced
    cut,        \* history: lines trimmed away or deleted
    crossed     \* history: a reset took the file while it was being trimmed

history == <<hit, cut, crossed>>
bounds == <<trims, ages, crashes>>
logVars == <<log, content, append, lock, reader, got, delivered, trim, bounds, history>>

NoTrim == [pc |-> "idle", kept |-> << >>, dropped |-> {}]

LogInit ==
    /\ log = 0 /\ content = << >>
    /\ append = [l \in Lines |-> [pc |-> "new", file |-> 0]]
    /\ lock = None
    /\ reader = [r \in Readers |-> [pc |-> "idle", tries |-> 0, temp |-> 0]]
    /\ got = [r \in Readers |-> << >>]
    /\ delivered = {}
    /\ trim = NoTrim
    /\ trims = 0 /\ ages = 0 /\ crashes = 0
    /\ hit = {} /\ cut = {} /\ crossed = FALSE

Open == {l \in Lines : append[l].pc = "open"}
At(pcs) == {r \in Readers : reader[r].pc \in pcs}
LinesOf(file) == IF file = 0 THEN {} ELSE ToSet(content[file])
Goto(r, q) == reader' = [reader EXCEPT ![r].pc = q]

-----------------------------------------------------------------------------
(* appendLog and trimLogFile, in the monitor.                              *)

(* appendFile opens the log, which makes it if need be ... *)
OpenLog(l) ==
    /\ append[l].pc = "new"
    /\ IF log = 0
       THEN content' = Append(content, << >>) /\ log' = Len(content')
       ELSE UNCHANGED <<log, content>>
    /\ append' = [append EXCEPT ![l] = [pc |-> "open", file |-> log']]
    /\ UNCHANGED <<lock, reader, got, delivered, trim, bounds, history>>

(* ... and writes at the end of the file it has opened. *)
WriteLine(l) ==
    /\ append[l].pc = "open"
    /\ append' = [append EXCEPT ![l].pc = "done"]
    /\ content' = [content EXCEPT ![append[l].file] = Append(@, l)]
    /\ hit' = IF At({"renamed"}) # {} \/ trim.pc = "read" THEN hit \cup {l} ELSE hit
    /\ UNCHANGED <<log, lock, reader, got, delivered, trim, bounds, cut, crossed>>

(* trimLogIfNeeded and trimLogFile up to the temporary file. *)
TrimRead ==
    /\ trim.pc = "idle" /\ trims < MaxTrims
    /\ log # 0 /\ Len(content[log]) > MaxLines
    /\ trims' = trims + 1
    /\ LET all == content[log]
           kept == SubSeq(all, Len(all) - Keep + 1, Len(all))
       IN  trim' = [pc |-> "read", kept |-> kept,
                    dropped |-> ToSet(SubSeq(all, 1, Len(all) - Keep))]
    /\ UNCHANGED <<log, content, append, lock, reader, got, delivered, ages, crashes, history>>

(* The temporary file is renamed to the log. *)
TrimRename ==
    /\ trim.pc = "read"
    /\ content' = Append(content, trim.kept)
    /\ log' = Len(content')
    /\ trim' = NoTrim
    /\ hit' = hit \cup Open
    /\ cut' = cut \cup trim.dropped
    /\ UNCHANGED <<append, lock, reader, got, delivered, bounds, crossed>>

-----------------------------------------------------------------------------
(* The lock.                                                               *)

Call(r) ==
    /\ reader[r].pc = "idle"
    /\ Cardinality(Readers \ At({"idle"})) < MaxCalls
    /\ Goto(r, "trying")
    /\ UNCHANGED <<log, content, append, lock, got, delivered, trim, bounds, history>>

(* Mutant of TryLock: an existing lock file is written over. *)
TryLockOver(r) ==
    /\ reader[r].pc = "trying" /\ reader[r].tries < MaxRetries
    /\ lock' = [by |-> r, stale |-> FALSE]
    /\ reader' = [reader EXCEPT ![r].pc = "locked", ![r].tries = @ + 1]
    /\ UNCHANGED <<log, content, append, got, delivered, trim, bounds, history>>

(* acquire: an attempt to create the lock file.  If there is one, its age  *)
(* decides whether it is removed.                                          *)
TryLock(r) ==
    /\ reader[r].pc = "trying" /\ reader[r].tries < MaxRetries
    /\ lock' = IF lock = None THEN [by |-> r, stale |-> FALSE] ELSE lock
    /\ reader' = [reader EXCEPT ![r].tries = @ + 1,
                                ![r].pc = CASE lock = None -> "locked"
                                            [] lock # None /\ lock.stale -> "stale"
                                            [] OTHER -> "trying"]
    /\ UNCHANGED <<log, content, append, got, delivered, trim, bounds, history>>

(* The lock file that was seen to be stale is removed, whichever there is  *)
(* now.                                                                    *)
BreakLock(r) ==
    /\ reader[r].pc = "stale"
    /\ lock' = None
    /\ Goto(r, "trying")
    /\ UNCHANGED <<log, content, append, got, delivered, trim, bounds, history>>

(* No lock: a reader answers nothing, cleanup deletes the log all the same.*)
GiveUp(r) ==
    /\ reader[r].pc = "trying" /\ reader[r].tries = MaxRetries
    /\ Goto(r, "done")
    /\ IF r \in Cleanups
       THEN log' = 0 /\ cut' = cut \cup LinesOf(log) /\ hit' = hit \cup Open
       ELSE UNCHANGED <<log, hit, cut>>
    /\ UNCHANGED <<content, append, lock, got, delivered, trim, bounds, crossed>>

(* release: the lock file is removed, whoever wrote it. *)
Release(r) ==
    /\ reader[r].pc = "release"
    /\ lock' = None
    /\ delivered' = delivered \cup {r}
    /\ Goto(r, "done")
    /\ UNCHANGED <<log, content, append, got, trim, bounds, history>>

-----------------------------------------------------------------------------
(* What is done under the lock.                                            *)

(* Mutant of Rename: the log is copied. *)
RenameByCopy(r) ==
    /\ reader[r].pc = "locked" /\ r \in Monitors \cup Resets
    /\ IF log = 0
       THEN Goto(r, "release") /\ UNCHANGED content
       ELSE /\ content' = Append(content, content[log])
            /\ reader' = [reader EXCEPT ![r].pc = "renamed", ![r].temp = Len(content')]
    /\ hit' = hit \cup Open
    /\ UNCHANGED <<log, append, lock, got, delivered, trim, bounds, cut, crossed>>

(* A reset renames the log, if there is one. *)
Rename(r) ==
    /\ reader[r].pc = "locked" /\ r \in Monitors \cup Resets
    /\ IF log = 0
       THEN Goto(r, "release") /\ UNCHANGED <<log, hit, crossed>>
       ELSE /\ reader' = [reader EXCEPT ![r].pc = "renamed", ![r].temp = log]
            /\ log' = 0
            /\ hit' = hit \cup Open
            /\ crossed' = (crossed \/ trim.pc = "read")
    /\ UNCHANGED <<content, append, lock, got, delivered, trim, bounds, cut>>

(* The new log: the monitor leaves one that an append has made meanwhile,  *)
(* the command empties it.                                                 *)
Recreate(r) ==
    /\ reader[r].pc = "renamed"
    /\ Goto(r, "recreated")
    /\ IF log = 0
       THEN content' = Append(content, << >>) /\ log' = Len(content')
       ELSE /\ content' = IF r \in Resets THEN [content EXCEPT ![log] = << >>] ELSE content
            /\ UNCHANGED log
    /\ UNCHANGED <<append, lock, got, delivered, trim, bounds, history>>

(* Mutant of Fetch: the new log is read. *)
FetchNew(r) ==
    /\ reader[r].pc = "recreated"
    /\ got' = [got EXCEPT ![r] = IF log = 0 THEN << >> ELSE content[log]]
    /\ reader' = [reader EXCEPT ![r].pc = "release", ![r].temp = 0]
    /\ UNCHANGED <<log, content, append, lock, delivered, trim, bounds, history>>

(* The renamed file is read and deleted. *)
Fetch(r) ==
    /\ reader[r].pc = "recreated"
    /\ got' = [got EXCEPT ![r] = content[reader[r].temp]]
    /\ reader' = [reader EXCEPT ![r].pc = "release", ![r].temp = 0]
    /\ UNCHANGED <<log, content, append, lock, delivered, trim, bounds, history>>

Look(r) ==
    /\ reader[r].pc = "locked" /\ r \in Looks
    /\ got' = [got EXCEPT ![r] = IF log = 0 THEN << >> ELSE content[log]]
    /\ Goto(r, "release")
    /\ UNCHANGED <<log, content, append, lock, delivered, trim, bounds, history>>

CleanLog(r) ==
    /\ reader[r].pc = "locked" /\ r \in Cleanups
    /\ log' = 0
    /\ cut' = cut \cup LinesOf(log) /\ hit' = hit \cup Open
    /\ Goto(r, "release")
    /\ UNCHANGED <<content, append, lock, got, delivered, trim, bounds, crossed>>

-----------------------------------------------------------------------------
(* Thirty seconds pass. *)
Age ==
    /\ lock # None /\ ~lock.stale
    /\ ages < MaxAges /\ ages' = ages + 1
    /\ lock' = [lock EXCEPT !.stale = TRUE]
    /\ UNCHANGED <<log, content, append, reader, got, delivered, trim, trims, crashes, history>>

(* A command is killed. *)
Crash(r) ==
    /\ r \in Resets \cup Looks /\ reader[r].pc \notin {"idle", "done", "dead"}
    /\ crashes < MaxCrashes /\ crashes' = crashes + 1
    /\ Goto(r, "dead")
    /\ UNCHANGED <<log, content, append, lock, got, delivered, trim, trims, ages, history>>

Work(r) ==
    \/ TryLock(r) \/ BreakLock(r) \/ GiveUp(r) \/ Rename(r) \/ Recreate(r) \/ Fetch(r)
    \/ Look(r) \/ CleanLog(r) \/ Release(r)

LogNext ==
    \/ \E l \in Lines : OpenLog(l) \/ WriteLine(l)
    \/ TrimRead \/ TrimRename
    \/ \E r \in Readers : Call(r) \/ Work(r) \/ Crash(r)
    \/ Age

(* Calls of the file system return. *)
LogFairness ==
    /\ \A r \in Readers : WF_logVars(Work(r))
    /\ WF_logVars(TrimRename)

LogSpec == LogInit /\ [][LogNext]_logVars /\ LogFairness

-----------------------------------------------------------------------------
(* Properties.                                                             *)

ReaderPcs == {"idle", "trying", "stale", "locked", "renamed", "recreated", "release",
              "done", "dead"}

(* Paths hold files that exist, no reader tries more than MAX_RETRIES      *)
(* times, and a lock file names its writer.                                *)
LogTypeOK ==
    /\ log \in 0 .. Len(content)
    /\ \A i \in DOMAIN content : content[i] \in Seq(Lines)
    /\ append \in [Lines -> [pc : {"new", "open", "done"}, file : 0 .. Len(content)]]
    /\ lock \in {None} \cup [by : Readers, stale : BOOLEAN]
    /\ reader \in [Readers -> [pc : ReaderPcs, tries : 0 .. MaxRetries,
                               temp : 0 .. Len(content)]]
    /\ got \in [Readers -> Seq(Lines)]
    /\ delivered \subseteq Readers
    /\ trim.pc \in {"idle", "read"} /\ trim.kept \in Seq(Lines)
    /\ hit \subseteq Lines /\ cut \subseteq Lines

Holding == {"locked", "renamed", "recreated", "release"}

(* As long as no lock file becomes stale, one reader at a time is at the   *)
(* log, and the lock file is its own.                                      *)
OneReader ==
    ages = 0 => \A r \in At(Holding) : lock # None /\ lock.by = r

(* One reader at a time is at the log, also when another one died, as      *)
(* process-monitor.ts:108 has it: "Both SimpleLogManager and CLI commands  *)
(* use this for mutual exclusion".                                         *)
AlwaysOneReader == Cardinality(At(Holding)) <= 1

Resetting == {r \in Monitors \cup Resets : reader[r].temp # 0}

Somewhere(l) ==
    \/ l \in LinesOf(log)
    \/ \E r \in Resetting : l \in LinesOf(reader[r].temp)
    \/ \E r \in Monitors \cup Resets : l \in ToSet(got[r])
    \/ l \in cut \/ (trim.pc = "read" /\ l \in ToSet(trim.kept) \cup trim.dropped)

(* A line that has been written is in the log, in the file of a reset, in  *)
(* its answer or trimmed away, unless it was being written just while its  *)
(* file was replaced.                                                      *)
NothingElseLost ==
    \A l \in Lines \ hit : append[l].pc = "done" => Somewhere(l)

(* A line that has been written is not lost, as cli-tools.ts:856 has it of *)
(* a reset: "Atomic operation to read and clear the file".                 *)
NothingLost ==
    \A l \in Lines : append[l].pc = "done" => Somewhere(l)

Places(l) ==
    {r \in Resetting : l \in LinesOf(reader[r].temp)}
    \cup {r \in Monitors \cup Resets : l \in ToSet(got[r])}
    \cup IF l \in LinesOf(log) THEN {None} ELSE {}

(* A line is handed out by one reset only and is not in the log after it,  *)
(* unless a reset took the file while it was being trimmed.                *)
HandedOutOnce == ~crossed => \A l \in Lines : Cardinality(Places(l)) <= 1

(* A line is handed out by one reset only, also when the log is trimmed.   *)
AlwaysHandedOutOnce == \A l \in Lines : Cardinality(Places(l)) <= 1

(* Unless its writer was killed, a lock file does not stay for ever.       *)
LockFreed == lock # None ~> (lock = None \/ crashes > 0)

=============================================================================
