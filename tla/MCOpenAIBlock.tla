--------------------------- MODULE MCOpenAIBlock ---------------------------
(* Small instances of OpenAIBlock: tool names are interchangeable. *)
EXTENDS OpenAIBlock, TLC

SomeContents == {<<"head", "tail">>}

ToolNameSymmetry == Permutations(ToolName)
=============================================================================
