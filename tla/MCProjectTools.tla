--------------------------- MODULE MCProjectTools ---------------------------
(* A command tool is run for a tool action, and then called by the agent,  *)
(* side by side with an MCP tool.                                          *)
EXTENDS ProjectTools

CONSTANTS c1, c2, c3, lint, docs

Calls == {c1, c2, c3}
Tools == {lint, docs}
ToolOfCall == [c \in Calls |-> IF c = c3 THEN docs ELSE lint]
JustDocs == {docs}
JustLint == {lint}
Action1 == {c1}
Second == {c2}
=============================================================================
