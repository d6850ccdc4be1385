------------------------------ MODULE MCTools ------------------------------
(* Every answer of up to three calls out of one call per kind of tool.     *)
EXTENDS ToolCalls

CONSTANTS a, b

Call(tool, paths) == [tool |-> tool, paths |-> paths, known |-> TRUE, parses |-> TRUE]

MCCalls ==
    {Call("read_files", {a}), Call("generate_files", {a}), Call("generate_files", {b}),
     Call("fs_delete", {a}), Call("deploy_preview", {}), Call("exec_commands", {}),
     Call("get_logs", {}), Call("alter_blueprint", {}), Call("git_commit", {}),
     Call("init_suitable_template", {}), Call("mark_generation_complete", {}),
     [Call("generate_files", {a}) EXCEPT !.parses = FALSE],
     [Call("unknown", {}) EXCEPT !.known = FALSE]}

MCBatches == UNION {[1..n -> MCCalls] : n \in 1..3}
=============================================================================
