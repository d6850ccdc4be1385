--------------------------- MODULE ToolResources ---------------------------
(* What a tool call declares that it uses, and when two calls may not run  *)
(* at the same time: worker/agents/tools/resources.ts, the argument types  *)
(* of resource-types.ts and the declarations in tools/toolkit. The second  *)
(* half says what the tools do to the files of the project, read from      *)
(* their implementations, to compare with what they declare.               *)
EXTENDS Integers, Sequences, FiniteSets, SequencesExt

CONSTANT Paths   \* the files of the project

(* Resources. An empty set of paths stands for all files, as in the code.  *)
NoFiles == [mode |-> "no", paths |-> {}]

Resources == [files: [mode: {"no", "read", "write"}, paths: SUBSET Paths],
              sandbox: {"no", "exec", "analysis", "deploy", "read"},
              blueprint: BOOLEAN, gitCommit: BOOLEAN]

Nothing == [files |-> NoFiles, sandbox |-> "no",
            blueprint |-> FALSE, gitCommit |-> FALSE]

Files(mode, paths) == [Nothing EXCEPT !.files = [mode |-> mode, paths |-> paths]]
Sandbox(operation) == [Nothing EXCEPT !.sandbox = operation]
Blueprint          == [Nothing EXCEPT !.blueprint = TRUE]
GitCommit          == [Nothing EXCEPT !.gitCommit = TRUE]
AllFiles(mode)     == Files(mode, {})

-----------------------------------------------------------------------------
MergedFiles(target, source) ==
    IF source.mode = "no" THEN target
    ELSE IF target.mode = "no" THEN source
    ELSE [mode  |-> IF source.mode = "write" THEN "write" ELSE target.mode,
          paths |-> IF target.paths = {} \/ source.paths = {} THEN {}
                    ELSE target.paths \union source.paths]

MergeResources(target, source) ==
    [files     |-> MergedFiles(target.files, source.files),
     sandbox   |-> IF source.sandbox # "no" THEN source.sandbox ELSE target.sandbox,
     blueprint |-> target.blueprint \/ source.blueprint,
     gitCommit |-> target.gitCommit \/ source.gitCommit]

(* Mutant of PathsOverlap: no path means no file instead of all of them. *)
PathsOverlapExact(paths1, paths2) == paths1 \intersect paths2 # {}

PathsOverlap(paths1, paths2) ==
    \/ paths1 = {}
    \/ paths2 = {}
    \/ paths1 \intersect paths2 # {}

FilesConflict(f1, f2) ==
    /\ f1.mode # "no" /\ f2.mode # "no"
    /\ "write" \in {f1.mode, f2.mode}
    /\ PathsOverlap(f1.paths, f2.paths)

SandboxConflict(op1, op2) ==
    /\ op1 # "no" /\ op2 # "no"
    /\ {op1, op2} \intersect {"exec", "analysis", "deploy"} # {}

HasResourceConflict(r1, r2) ==
    \/ FilesConflict(r1.files, r2.files)
    \/ SandboxConflict(r1.sandbox, r2.sandbox)
    \/ r1.blueprint /\ r2.blueprint
    \/ r1.gitCommit /\ r2.files.mode = "write"
    \/ r2.gitCommit /\ r1.files.mode = "write"

-----------------------------------------------------------------------------
(* What the arguments of a tool declare. One argument at most declares     *)
(* anything, but for the three of get_logs, which declare the same, and    *)
(* merging a declaration with itself changes nothing. A tool that is not   *)
(* here (wait, generate_images, mark_generation_complete, queue_request)   *)
(* declares nothing, and neither does virtual_filesystem's list, whose     *)
(* optional paths are missing.                                             *)
ToolArgs(call) ==
    CASE call.tool \in {"read_files", "fs_read", "fs_delete"} ->
            Files("read", call.paths)
      [] call.tool \in {"generate_files", "regenerate_file"} ->
            Files("write", call.paths)
      [] call.tool = "run_analysis"   -> Sandbox("analysis")
      [] call.tool = "exec_commands"  -> Sandbox("exec")
      [] call.tool = "deploy_preview" ->
            MergeResources(Sandbox("deploy"), AllFiles("read"))
      [] call.tool \in {"get_logs", "get_runtime_errors"} -> Sandbox("read")
      [] call.tool \in {"generate_blueprint", "alter_blueprint", "rename_project"} ->
            Blueprint
      [] call.tool \in {"git_commit", "git_reset"} -> GitCommit
      [] call.tool = "init_suitable_template" -> AllFiles("write")
      [] call.tool = "initialize_slides" ->
            MergeResources(AllFiles("write"), Sandbox("deploy"))
      [] OTHER -> Nothing

(* extractResources of a tool definition: the merge over its arguments.    *)
ExtractResources(call) == MergeResources(Nothing, ToolArgs(call))

-----------------------------------------------------------------------------
(* What the implementations do to the files.                               *)
Reads(call) ==
    CASE call.tool \in {"read_files", "fs_read", "regenerate_file"} -> call.paths
      [] call.tool \in {"fs_list", "deploy_preview", "git_commit"}  -> Paths
      [] OTHER -> {}

Writes(call) ==
    CASE call.tool \in {"generate_files", "regenerate_file", "fs_delete"} -> call.paths
      [] call.tool \in {"git_reset", "init_suitable_template", "initialize_slides"} -> Paths
      [] OTHER -> {}

Interfere(c, d) ==
    \/ Writes(c) \intersect (Reads(d) \union Writes(d)) # {}
    \/ Writes(d) \intersect Reads(c) # {}

(* The tools whose declaration says less than what they do: delete declares *)
(* a read (virtual-filesystem.ts:20), reset only a commit (git.ts:27) and   *)
(* list nothing.                                                            *)
SaysLess(call) == call.tool \in {"fs_delete", "git_reset", "fs_list"}

=============================================================================
