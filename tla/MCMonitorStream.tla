-------------------------- MODULE MCMonitorStream --------------------------
EXTENDS MonitorStream, TLC

ManyFrames == [anthropic |-> 5, openai |-> 4, responses |-> 4, generic |-> 3]
Renaming == Permutations(ToolName) \cup Permutations(Key)
=============================================================================
