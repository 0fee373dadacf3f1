----------------------------- MODULE MCScanner -----------------------------
(* Five rules in two groups, two of which report the same and two of which have
   one id, and one indicator. *)
EXTENDS Scanner

SomeKeys == <<<<5, 1>>, <<2, 2>>, <<2, 3>>, <<2, 2>>, <<1, 5>>, <<4, 6>>>>
SomeHigh == {3, 6}

Text(o, t)   == [occurs |-> o, tried |-> t]
Clean        == Text({}, {1})
Rejected(s)  == [status |-> s, body |-> "whole", tool |-> FALSE, large |-> FALSE, text |-> Clean]
Small(tool, text) == [Rejected(200) EXCEPT !.tool = tool, !.text = text]
Broken            == [Rejected(200) EXCEPT !.body = "broken"]
Large(body, text) == [Rejected(200) EXCEPT !.large = TRUE, !.body = body, !.text = text]

SomeAnswers ==
  {Rejected(0), Rejected(404), [Rejected(401) EXCEPT !.tool = TRUE],
   Small(FALSE, Clean), Broken, Small(TRUE, Text({1}, {1, 2})),
   Large("whole", Text({2, 3, 4, 6}, {2, 3, 4})), Large("long", Text({2, 3}, {2, 3}))}
=============================================================================
