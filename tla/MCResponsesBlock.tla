-------------------------- MODULE MCResponsesBlock --------------------------
(* Small instances of ResponsesBlock: tool names are interchangeable. *)
EXTENDS ResponsesBlock, TLC

SomeErrors   == {<<"head", "tail">>}
SomeContents == {<<>>, <<"head">>, <<"tail">>, <<"head", "tail">>}

\* What a server that streams no call may list at the end.
OneItem ==
  {<<>>} \cup {<<Item(i, n, a)>> : i \in Id \cup {NoId}, n \in Name,
                                   a \in {<<>>, <<"head", "tail">>}}

ToolNameSymmetry == Permutations(ToolName)
=============================================================================
