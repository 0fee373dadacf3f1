------------------------------- MODULE Engine -------------------------------
(***************************************************************************)
(* The inspection engine: Inspect in internal/inspect/inspect.go.  Rules   *)
(* are numbered in their order, the indicators of the blocklist follow     *)
(* them, and a finding is the number of what was found.  A large text is   *)
(* given to several goroutines, each with a contiguous group of rules.     *)
(* Patterns are data: a text is the set of rules whose pattern occurs in   *)
(* it, the set of rules whose keywords let the pattern be tried, and the   *)
(* set of indicators it contains.                                          *)
(***************************************************************************)
EXTENDS Naturals, SequencesExt, FiniteSets

CONSTANTS
  NumRules,          \* rules of the engine
  NumTerms,          \* indicators of the blocklist
  MinRulesPerGroup,  \* minRulesPerGroup
  Processors,        \* runtime.GOMAXPROCS(0)
  KeyOf,             \* rule id and matched text, by number
  High               \* the numbers of high severity

Finding == 1..(NumRules + NumTerms)

ASSUME EngineAssumption ==
  /\ NumRules \in Nat /\ NumTerms \in Nat
  /\ MinRulesPerGroup \in Nat \ {0} /\ Processors \in Nat \ {0}
  /\ KeyOf \in [Finding -> Nat \X Nat] /\ High \subseteq Finding

\* matchRule: the keyword prefilter, then the pattern.
MatchRule(text, i) == i \in text.tried /\ i \in text.occurs

\* What the rules from..to report of a text, in their order.
Matches(text, from, to) ==
  LET found[i \in Nat] ==
        IF i < from THEN <<>>
        ELSE IF MatchRule(text, i) THEN Append(found[i - 1], i) ELSE found[i - 1]
  IN found[to]

\* Every finding once, by rule id and match.
Deduplicate(found) ==
  FoldLeft(LAMBDA kept, f :
             IF \E k \in DOMAIN kept : KeyOf[kept[k]] = KeyOf[f]
             THEN kept ELSE Append(kept, f),
           <<>>, found)

\* Inspect once the rules have reported `found`: the indicators come last.
WithTerms(text, found) ==
  Deduplicate(found \o SelectSeq([k \in 1..NumTerms |-> NumRules + k],
                                 LAMBDA i : i \in text.occurs))

\* Inspect of a text below parallelInspectMin.
Sequential(text) == WithTerms(text, Matches(text, 1, NumRules))

-----------------------------------------------------------------------------
(* inspectRulesParallel *)

Groups == LET most == NumRules \div MinRulesPerGroup
          IN IF most < 1 THEN 1 ELSE IF Processors > most THEN most ELSE Processors

\* Mutant: the first rule of every group but the first is skipped.
GroupStartLate(g) == ((g - 1) * NumRules) \div Groups + (IF g = 1 THEN 1 ELSE 2)

GroupStart(g) == ((g - 1) * NumRules) \div Groups + 1
GroupEnd(g)   == (g * NumRules) \div Groups

GroupMatches(text, g) == Matches(text, GroupStart(g), GroupEnd(g))

\* Inspect of a large text, from what its groups have reported, in group order.
Merged(text, results) == WithTerms(text, FlattenSeq(results))

\* SortFindings: high severity first, then by rule id; the sort is stable.
Before(f, g) == IF (f \in High) # (g \in High) THEN f \in High
                ELSE KeyOf[f][1] < KeyOf[g][1]
Sorted(found) ==
  LET Place(i) == Cardinality({j \in DOMAIN found :
                     \/ Before(found[j], found[i])
                     \/ j <= i /\ ~Before(found[i], found[j])})
  IN [k \in DOMAIN found |-> found[CHOOSE i \in DOMAIN found : Place(i) = k]]

MaxSeverityHigh(found) == \E k \in DOMAIN found : found[k] \in High
=============================================================================
