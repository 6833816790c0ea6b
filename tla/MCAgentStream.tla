--------------------------- MODULE MCAgentStream ---------------------------
\* Small instances of AgentStream for TLC: two calls of one tool.
EXTENDS AgentStream, TLC

CONSTANT TheTool
OneTool == [i \in Call |-> TheTool]
CallSymmetry == Permutations(Call)
=============================================================================
