---------------------------- MODULE MCWorkflowRun ----------------------------
(* Instances of WorkflowRun for TLC. *)
EXTENDS WorkflowRun

NoBranch == [value \in {"true", "false"} |-> {}]
Node(id, type, deps) ==
    [id |-> id, type |-> type, deps |-> deps, branch |-> NoBranch, calls |-> ""]

\* A tool's output decides a condition; one branch asks the user.
Branching == <<
    Node("done", "final", {"ask", "work"}),
    Node("look", "tool", {}),
    [Node("choose", "condition", {"look"}) EXCEPT
        !.branch = [value \in {"true", "false"} |-> IF value = "true" THEN {"ask"} ELSE {"work"}]],
    Node("ask", "human_input", {"choose"}),
    Node("work", "llm", {"choose"})>>

\* A question before the condition, which two answers may come to, and one after its branches.
Gated == <<
    Node("ask", "human_input", {}),
    [Node("choose", "condition", {"ask"}) EXCEPT
        !.branch = [value \in {"true", "false"} |-> IF value = "true" THEN {"yes"} ELSE {"no"}]],
    Node("yes", "tool", {"choose"}),
    Node("no", "tool", {"choose"}),
    Node("again", "human_input", {"choose"}),
    Node("done", "final", {"yes", "no", "again"})>>

\* Two questions with a tool between, and one asked in a called workflow.
Asking == <<
    Node("ask", "human_input", {}),
    [Node("call", "workflow_call", {"ask"}) EXCEPT !.calls = "asked"],
    Node("work", "tool", {"call"}),
    Node("again", "human_input", {"work"}),
    Node("done", "final", {"again"})>>

Asked == <<
    Node("ask", "human_input", {}),
    Node("note", "tool", {"ask"}),
    Node("done", "final", {"note"})>>

Looping == <<
    Node("here", "tool", {"there"}),
    Node("there", "tool", {"here"}),
    Node("done", "final", {})>>

Workflows == [name \in {"branching", "gated", "asking", "asked", "looping"} |->
    CASE name = "branching" -> Branching
      [] name = "gated" -> Gated
      [] name = "asking" -> Asking
      [] name = "asked" -> Asked
      [] name = "looping" -> Looping]

ASSUME BranchesAssumption == TargetsWait /\ WellBranched
=============================================================================
