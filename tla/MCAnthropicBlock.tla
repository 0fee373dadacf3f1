-------------------------- MODULE MCAnthropicBlock --------------------------
(* Small instances of AnthropicBlock: tool names are interchangeable. *)
EXTENDS AnthropicBlock, TLC

SomeErrors == {<<"head", "tail">>}

ToolNameSymmetry == Permutations(ToolName)
=============================================================================
