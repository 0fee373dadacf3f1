---------------------------- MODULE ScannerProofs ----------------------------
(***************************************************************************)
(* Proofs about Scanner and the engine it uses, for any rules, indicators, *)
(* answers and number of goroutines: a large text is found the same in as  *)
(* a small one (FindingsOfRules), the report lists the right probes with   *)
(* their own answers (ReportIsTrue), and the verdict is one that they      *)
(* justify (VerdictIsTrue).                                                *)
(*                                                                         *)
(* The groups of rules follow one another and are all the rules            *)
(* (GroupsFollow), so that the findings of the first g groups are those of *)
(* the rules up to the end of group g.  The score is a sum, in which one   *)
(* probe is enough to pass its threshold (SumOfPoints).                    *)
(*                                                                         *)
(* The invariant (ScanInv) says which probes may run in which phase        *)
(* (Launched), what has been found while they run and after (ProbeOK), and *)
(* that the report is about probes that are finished (Reported): a slot    *)
(* that was read for the report is never written again.                    *)
(***************************************************************************)
EXTENDS Scanner, SequenceTheorems, WellFoundedInduction, TLAPS

-----------------------------------------------------------------------------
(* Induction and recursion over the natural numbers *)

LEMMA Least ==
  ASSUME NEW S \in SUBSET Nat, S # {}
  PROVE  \E n \in S : \A m \in S : n <= m
<1> DEFINE R == OpToRel(<, Nat)
<1>1. IsWellFoundedOn(R, Nat)
  BY NatLessThanWellFounded
<1>2. \A m, n \in Nat : m < n => <<m, n>> \in R
  BY DEF OpToRel
<1> HIDE DEF R
<1>3. PICK n \in S : \A m \in S : ~(<<m, n>> \in R)
  BY <1>1, WFMin
<1>4. \A m \in S : ~(m < n)
  BY <1>2, <1>3
<1> QED BY <1>4

LEMMA Induction ==
  ASSUME NEW S, 0 \in S, \A n \in Nat : n \in S => n + 1 \in S
  PROVE  Nat \subseteq S
<1> SUFFICES ASSUME Nat \ S # {} PROVE FALSE
  OBVIOUS
<1>1. PICK n \in Nat \ S : \A m \in Nat \ S : n <= m
  BY Least
<1>2. n # 0 /\ n - 1 \in Nat /\ n - 1 + 1 = n /\ ~(n <= n - 1)
  BY <1>1
<1>3. n - 1 \in S
  BY <1>1, <1>2
<1> QED BY <1>1, <1>2, <1>3

\* f is what c and step define, up to n.
Follows(f, V, c, step, n) ==
  /\ f \in [0..n -> V]
  /\ f[0] = c
  /\ \A i \in 1..n : f[i] = step[<<i, f[i - 1]>>]

LEMMA RecursionUpTo ==
  ASSUME NEW V, NEW c \in V, NEW step \in [Nat \X V -> V], NEW n \in Nat
  PROVE  \E f : Follows(f, V, c, step, n)
<1> DEFINE S == {k \in Nat : \E f : Follows(f, V, c, step, k)}
<1>1. 0 \in S
  <2>1. Follows([i \in 0..0 |-> c], V, c, step, 0)
    <3>1. [i \in 0..0 |-> c] \in [0..0 -> V] /\ [i \in 0..0 |-> c][0] = c /\ 1..0 = {}
      OBVIOUS
    <3> QED BY <3>1 DEF Follows
  <2> QED BY <2>1
<1>2. ASSUME NEW k \in Nat, k \in S PROVE k + 1 \in S
  <2>1. PICK f : Follows(f, V, c, step, k)
    BY <1>2
  <2>2. f \in [0..k -> V] /\ f[0] = c /\ \A i \in 1..k : f[i] = step[<<i, f[i - 1]>>]
    BY <2>1 DEF Follows
  <2> DEFINE v == step[<<k + 1, f[k]>>]
             g == [i \in 0..(k + 1) |-> IF i = k + 1 THEN v ELSE f[i]]
  <2>3. v \in V
    <3>1. f[k] \in V /\ <<k + 1, f[k]>> \in Nat \X V
      BY <2>2
    <3> QED BY <3>1
  <2> HIDE DEF v
  <2>4. g \in [0..(k + 1) -> V] /\ g[0] = c
    BY <2>2, <2>3
  <2>5. \A i \in 1..(k + 1) : g[i] = step[<<i, g[i - 1]>>]
    <3> SUFFICES ASSUME NEW i \in 1..(k + 1) PROVE g[i] = step[<<i, g[i - 1]>>]
      OBVIOUS
    <3>1. g[i - 1] = f[i - 1]
      OBVIOUS
    <3>2. CASE i = k + 1
      <4>1. i - 1 = k /\ g[i] = v
        BY <3>2
      <4> QED BY <3>1, <3>2, <4>1 DEF v
    <3>3. CASE i # k + 1
      <4>1. i \in 1..k /\ g[i] = f[i]
        BY <3>3
      <4> QED BY <2>2, <3>1, <4>1
    <3> QED BY <3>2, <3>3
  <2> HIDE DEF g
  <2>6. Follows(g, V, c, step, k + 1)
    BY <2>4, <2>5 DEF Follows
  <2> QED BY <2>6
<1> HIDE DEF S
<1>3. n \in S
  BY <1>1, <1>2, Induction
<1> QED BY <1>3 DEF S

LEMMA RecursionAgrees ==
  ASSUME NEW V, NEW c, NEW step, NEW m \in Nat, NEW n \in Nat, m <= n,
         NEW f, NEW g, Follows(f, V, c, step, m), Follows(g, V, c, step, n)
  PROVE  f[m] = g[m]
<1> DEFINE S == {k \in Nat : k <= m => f[k] = g[k]}
<1>1. 0 \in S
  BY DEF Follows
<1>2. ASSUME NEW k \in Nat, k \in S PROVE k + 1 \in S
  <2> SUFFICES ASSUME k + 1 <= m PROVE f[k + 1] = g[k + 1]
    OBVIOUS
  <2>1. f[k] = g[k] /\ k + 1 \in 1..m /\ k + 1 \in 1..n /\ (k + 1) - 1 = k
    BY <1>2
  <2>2. f[k + 1] = step[<<k + 1, f[k]>>] /\ g[k + 1] = step[<<k + 1, g[k]>>]
    BY <2>1 DEF Follows
  <2> QED BY <2>1, <2>2
<1>3. m \in S
  <2> HIDE DEF S
  <2> QED BY <1>1, <1>2, Induction
<1> QED BY <1>3

FollowsAll(f, V, c, step) ==
  /\ f \in [Nat -> V]
  /\ f[0] = c
  /\ \A i \in Nat \ {0} : f[i] = step[<<i, f[i - 1]>>]

\* A function may be defined by what it is at zero and a step.
LEMMA Recursion ==
  ASSUME NEW V, NEW c \in V, NEW step \in [Nat \X V -> V]
  PROVE  \E f : FollowsAll(f, V, c, step)
<1> DEFINE F(n) == CHOOSE f : Follows(f, V, c, step, n)
           G == [n \in Nat |-> F(n)[n]]
<1>1. \A n \in Nat : Follows(F(n), V, c, step, n)
  <2> TAKE n \in Nat
  <2>1. \E f : Follows(f, V, c, step, n)
    BY RecursionUpTo
  <2> QED BY <2>1
<1> HIDE DEF F
<1>2. G \in [Nat -> V]
  <2>1. \A n \in Nat : F(n)[n] \in V
    BY <1>1 DEF Follows
  <2> QED BY <2>1
<1>3. G[0] = c
  BY <1>1 DEF Follows
<1>4. \A i \in Nat \ {0} : G[i] = step[<<i, G[i - 1]>>]
  <2> TAKE i \in Nat \ {0}
  <2>1. i - 1 \in Nat /\ i - 1 <= i /\ i \in 1..i
    OBVIOUS
  <2>2. F(i)[i] = step[<<i, F(i)[i - 1]>>]
    BY <1>1, <2>1 DEF Follows
  <2>3. F(i - 1)[i - 1] = F(i)[i - 1]
    BY <1>1, <2>1, RecursionAgrees
  <2> QED BY <2>1, <2>2, <2>3
<1> HIDE DEF G
<1> QED BY <1>2, <1>3, <1>4 DEF FollowsAll

-----------------------------------------------------------------------------
(* What a group of rules reports *)

\* Matches, one rule at a time (the loop of Inspect, inspect.go).
LEMMA MatchesStep ==
  ASSUME NEW text, NEW from \in Nat \ {0}, NEW to \in Nat
  PROVE  /\ Matches(text, from, to) \in Seq(Nat)
         /\ Matches(text, from, to) =
              IF to < from THEN <<>>
              ELSE IF MatchRule(text, to) THEN Append(Matches(text, from, to - 1), to)
              ELSE Matches(text, from, to - 1)
<1> DEFINE Added(i, s) == IF i < from THEN <<>>
                          ELSE IF MatchRule(text, i) THEN Append(s, i) ELSE s
           Eq(f) == f = [i \in Nat |-> IF i < from THEN <<>>
                                       ELSE IF MatchRule(text, i)
                                            THEN Append(f[i - 1], i) ELSE f[i - 1]]
           F == CHOOSE f : Eq(f)
           step == [q \in Nat \X Seq(Nat) |-> Added(q[1], q[2])]
<1>1. step \in [Nat \X Seq(Nat) -> Seq(Nat)]
  <2>1. \A i \in Nat, s \in Seq(Nat) : Added(i, s) \in Seq(Nat)
    OBVIOUS
  <2> HIDE DEF Added
  <2> QED BY <2>1
<1>2. <<>> \in Seq(Nat)
  OBVIOUS
<1>3. PICK f \in [Nat -> Seq(Nat)] :
        f[0] = <<>> /\ \A i \in Nat \ {0} : f[i] = step[<<i, f[i - 1]>>]
  <2> HIDE DEF step
  <2>1. \E f : FollowsAll(f, Seq(Nat), <<>>, step)
    BY <1>1, <1>2, Recursion
  <2> QED BY <2>1 DEF FollowsAll
<1>4. Eq(f)
  <2>1. ASSUME NEW i \in Nat
        PROVE  f[i] = IF i < from THEN <<>>
                      ELSE IF MatchRule(text, i) THEN Append(f[i - 1], i) ELSE f[i - 1]
    <3>1. CASE i = 0
      BY <1>3, <3>1
    <3>2. CASE i # 0
      <4>1. i - 1 \in Nat /\ f[i - 1] \in Seq(Nat)
        BY <1>3, <3>2
      <4>2. <<i, f[i - 1]>> \in Nat \X Seq(Nat)
        BY <4>1
      <4>3. step[<<i, f[i - 1]>>] = Added(i, f[i - 1])
        BY <4>2
      <4>4. f[i] = Added(i, f[i - 1])
        BY <1>3, <3>2, <4>3
      <4> QED BY <4>4
    <3> QED BY <3>1, <3>2
  <2>2. f = [i \in Nat |-> f[i]]
    BY <1>3
  <2> QED BY <2>1, <2>2
<1>5. Eq(F)
  <2> HIDE DEF Eq
  <2> QED BY <1>4
<1>6. \A k : Matches(text, from, k) = F[k]
  BY DEF Matches
<1> HIDE DEF F
<1>7. \A i \in Nat : F[i] = IF i < from THEN <<>>
                            ELSE IF MatchRule(text, i)
                                 THEN Append(F[i - 1], i) ELSE F[i - 1]
  BY <1>5
<1> HIDE DEF Eq
<1>8. F[to] \in Seq(Nat)
  <2> DEFINE S == {k \in Nat : F[k] \in Seq(Nat)}
  <2>1. 0 \in S
    <3>1. 0 < from /\ <<>> \in Seq(Nat)
      OBVIOUS
    <3>2. F[0] = <<>>
      BY <1>7, <3>1
    <3> QED BY <3>1, <3>2
  <2>2. ASSUME NEW k \in Nat, k \in S PROVE k + 1 \in S
    <3>1. (k + 1) - 1 = k /\ k + 1 \in Nat /\ F[k] \in Seq(Nat)
      BY <2>2
    <3>2. F[k + 1] = IF k + 1 < from THEN <<>>
                     ELSE IF MatchRule(text, k + 1)
                          THEN Append(F[k], k + 1) ELSE F[k]
      BY <1>7, <3>1
    <3>3. F[k + 1] \in Seq(Nat)
      BY <3>1, <3>2
    <3> QED BY <3>3
  <2>3. to \in S
    <3> HIDE DEF S
    <3> QED BY <2>1, <2>2, Induction
  <2> QED BY <2>3
<1>9. F[to] = IF to < from THEN <<>>
              ELSE IF MatchRule(text, to) THEN Append(F[to - 1], to) ELSE F[to - 1]
  BY <1>7
<1> QED BY <1>6, <1>8, <1>9

\* The rules up to b, then those after it.
LEMMA MatchesJoin ==
  ASSUME NEW text, NEW b \in Nat, NEW c \in Nat, b <= c
  PROVE  Matches(text, 1, b) \o Matches(text, b + 1, c) = Matches(text, 1, c)
<1> DEFINE M(k) == Matches(text, 1, k)
           R(k) == Matches(text, b + 1, k)
           S == {k \in Nat : M(b) \o R(b + k) = M(b + k)}
<1>1. b + 1 \in Nat \ {0} /\ 1 \in Nat \ {0}
  OBVIOUS
<1>2. \A k \in Nat : M(k) \in Seq(Nat) /\ R(k) \in Seq(Nat)
  BY <1>1, MatchesStep
<1>3. \A k \in Nat : b + k + 1 \in Nat /\ (b + k + 1) - 1 = b + k /\ ~(b + k + 1 < b + 1)
                     /\ ~(b + k + 1 < 1)
  OBVIOUS
<1>4. R(b) = <<>>
  <2>1. b < b + 1
    OBVIOUS
  <2> QED BY <1>1, <2>1, MatchesStep
<1>5. \A k \in Nat :
        /\ M(b + k + 1) = IF MatchRule(text, b + k + 1)
                          THEN Append(M(b + k), b + k + 1) ELSE M(b + k)
        /\ R(b + k + 1) = IF MatchRule(text, b + k + 1)
                          THEN Append(R(b + k), b + k + 1) ELSE R(b + k)
  <2> TAKE k \in Nat
  <2>1. PICK m \in Nat : m = b + k + 1
    BY <1>3
  <2>2. m - 1 = b + k /\ ~(m < b + 1) /\ ~(m < 1)
    BY <2>1, <1>3
  <2>3. /\ M(m) = IF MatchRule(text, m) THEN Append(M(m - 1), m) ELSE M(m - 1)
        /\ R(m) = IF MatchRule(text, m) THEN Append(R(m - 1), m) ELSE R(m - 1)
    BY <1>1, <2>2, MatchesStep
  <2> HIDE DEF M, R
  <2> QED BY <2>1, <2>2, <2>3
<1> HIDE DEF M, R
<1>6. 0 \in S
  <2>1. M(b) \o <<>> = M(b)
    <3>1. M(b) \in Seq(Nat)
      BY <1>2
    <3> QED BY <3>1
  <2>2. b + 0 = b
    OBVIOUS
  <2> QED BY <1>4, <2>1, <2>2
<1>7. ASSUME NEW k \in Nat, k \in S PROVE k + 1 \in S
  <2> DEFINE e == b + k + 1
  <2>1. e \in Nat /\ b + k \in Nat /\ b + (k + 1) = e
    OBVIOUS
  <2>2. M(b) \o R(b + k) = M(b + k)
    BY <1>7
  <2>3. /\ M(e) = IF MatchRule(text, e) THEN Append(M(b + k), e) ELSE M(b + k)
        /\ R(e) = IF MatchRule(text, e) THEN Append(R(b + k), e) ELSE R(b + k)
    BY <1>5
  <2> HIDE DEF e
  <2>4. M(b) \o Append(R(b + k), e) = Append(M(b) \o R(b + k), e)
    <3>1. M(b) \in Seq(Nat) /\ R(b + k) \in Seq(Nat)
      BY <1>2, <2>1
    <3> QED BY <2>1, <3>1
  <2>5. M(b) \o R(e) = M(e)
    BY <2>2, <2>3, <2>4
  <2>6. M(b) \o R(b + (k + 1)) = M(b + (k + 1))
    BY <2>1, <2>5, Zenon
  <2>7. k + 1 \in Nat
    OBVIOUS
  <2> QED BY <2>6, <2>7, Zenon
<1>8. c - b \in Nat /\ b + (c - b) = c
  OBVIOUS
<1>9. c - b \in S
  <2> HIDE DEF S
  <2> QED BY <1>6, <1>7, <1>8, Induction
<1>10. M(b) \o R(c) = M(c)
  BY <1>8, <1>9
<1> QED BY <1>10 DEF M, R

-----------------------------------------------------------------------------
(* The groups of rules *)

LEMMA GroupsExist == Groups \in Nat \ {0}
<1>1. NumRules \in Nat /\ MinRulesPerGroup \in Nat \ {0} /\ Processors \in Nat \ {0}
  BY EngineAssumption
<1>2. NumRules \div MinRulesPerGroup \in Nat
  BY <1>1
<1> QED BY <1>1, <1>2 DEF Groups

LEMMA DivisionInOrder ==
  ASSUME NEW a \in Nat, NEW b \in Nat, a <= b, NEW d \in Nat \ {0}
  PROVE  a \div d \in Nat /\ a \div d <= b \div d
OBVIOUS

LEMMA DivisionOfProduct ==
  ASSUME NEW a \in Nat, NEW d \in Nat \ {0}
  PROVE  (d * a) \div d = a
OBVIOUS

LEMMA NextMultiple ==
  ASSUME NEW g \in Nat, NEW n \in Nat
  PROVE  g * n \in Nat /\ g * n <= (g + 1) * n
OBVIOUS

\* They follow one another, and are all the rules (inspectRulesParallel).
LEMMA GroupsFollow ==
  /\ \A g \in Nat : GroupEnd(g) \in Nat /\ GroupEnd(g) <= GroupEnd(g + 1)
  /\ GroupStart(1) = 1
  /\ \A g \in Nat : GroupStart(g + 1) = GroupEnd(g) + 1
  /\ GroupEnd(Groups) = NumRules
<1>1. NumRules \in Nat /\ Groups \in Nat \ {0}
  BY EngineAssumption, GroupsExist
<1>2. ASSUME NEW g \in Nat
      PROVE  GroupEnd(g) \in Nat /\ GroupEnd(g) <= GroupEnd(g + 1)
  <2>1. /\ g * NumRules \in Nat /\ (g + 1) * NumRules \in Nat
        /\ g * NumRules <= (g + 1) * NumRules
    BY <1>1, NextMultiple
  <2> QED BY <1>1, <2>1, DivisionInOrder DEF GroupEnd
<1>3. GroupStart(1) = 1
  <2>1. (1 - 1) * NumRules = 0 * Groups
    BY <1>1
  <2>2. (Groups * 0) \div Groups = 0 /\ 0 * Groups = Groups * 0
    BY <1>1, DivisionOfProduct
  <2> QED BY <2>1, <2>2 DEF GroupStart
<1>4. \A g \in Nat : GroupStart(g + 1) = GroupEnd(g) + 1
  <2> TAKE g \in Nat
  <2>1. (g + 1) - 1 = g
    OBVIOUS
  <2> QED BY <2>1 DEF GroupStart, GroupEnd
<1>5. GroupEnd(Groups) = NumRules
  BY <1>1, DivisionOfProduct DEF GroupEnd
<1> QED BY <1>2, <1>3, <1>4, <1>5

\* What the groups report, in their order, is what all rules report in theirs.
LEMMA MergedIsSequential ==
  ASSUME NEW text
  PROVE  Merged(text, [g \in 1..Groups |-> GroupMatches(text, g)]) = Sequential(text)
<1> DEFINE n == Groups
           r == [g \in 1..n |-> GroupMatches(text, g)]
           M(g) == Matches(text, 1, GroupEnd(g))
           Eq(f) == f = [i \in 1..Len(r) |-> IF i = 1 THEN r[i] ELSE f[i - 1] \o r[i]]
           all == [i \in 1..n |-> M(i)]
           F == CHOOSE f : Eq(f)
<1>1. n \in Nat \ {0}
  BY GroupsExist
<1> HIDE DEF n
<1>2. Len(r) = n
  BY <1>1
<1>3. r[1] = M(1)
  <2>1. r[1] = GroupMatches(text, 1)
    BY <1>1
  <2> QED BY <2>1, GroupsFollow DEF GroupMatches
<1>4. \A i \in 2..n : M(i - 1) \o r[i] = M(i)
  <2> TAKE i \in 2..n
  <2>1. PICK g \in Nat : g = i - 1
    BY <1>1
  <2>2. i = g + 1 /\ i \in 1..n
    BY <1>1, <2>1
  <2>3. r[i] = Matches(text, GroupEnd(g) + 1, GroupEnd(g + 1))
    BY <2>2, GroupsFollow DEF GroupMatches
  <2>4. GroupEnd(g) \in Nat /\ GroupEnd(g + 1) \in Nat /\ GroupEnd(g) <= GroupEnd(g + 1)
    BY GroupsFollow
  <2>5. M(g) \o r[i] = M(g + 1)
    BY <2>3, <2>4, MatchesJoin
  <2> QED BY <2>1, <2>2, <2>5
<1>5. \A f : Eq(f) => f[n] = M(n)
  <2> SUFFICES ASSUME NEW f, Eq(f) PROVE f[n] = M(n)
    OBVIOUS
  <2> DEFINE S == {k \in Nat : k + 1 <= n => f[k + 1] = M(k + 1)}
  <2>1. \A i \in 1..n : f[i] = IF i = 1 THEN r[i] ELSE f[i - 1] \o r[i]
    BY <1>2
  <2> HIDE DEF Eq, r, M
  <2>2. 0 \in S
    BY <1>1, <1>3, <2>1
  <2>3. ASSUME NEW k \in Nat, k \in S PROVE k + 1 \in S
    <3> SUFFICES ASSUME (k + 1) + 1 <= n PROVE f[(k + 1) + 1] = M((k + 1) + 1)
      OBVIOUS
    <3>1. PICK i : i = (k + 1) + 1
      OBVIOUS
    <3>2. i \in 2..n /\ i \in 1..n /\ i # 1 /\ i - 1 = k + 1
      BY <1>1, <3>1
    <3>3. f[i] = f[k + 1] \o r[i] /\ M(k + 1) \o r[i] = M(i)
      BY <1>4, <2>1, <3>2
    <3>4. f[k + 1] = M(k + 1)
      BY <1>1, <2>3
    <3> QED BY <3>1, <3>3, <3>4
  <2>4. n - 1 \in Nat /\ (n - 1) + 1 = n
    BY <1>1
  <2>5. n - 1 \in S
    <3> HIDE DEF S
    <3> QED BY <2>2, <2>3, <2>4, Induction
  <2> QED BY <2>4, <2>5
<1>6. Eq(all)
  <2>1. \A i \in 1..n : all[i] = M(i) /\ (i # 1 => i - 1 \in 1..n)
    BY <1>1
  <2>2. \A i \in 1..n : all[i] = IF i = 1 THEN r[i] ELSE all[i - 1] \o r[i]
    <3> SUFFICES ASSUME NEW i \in 1..n
                 PROVE  all[i] = IF i = 1 THEN r[i] ELSE all[i - 1] \o r[i]
      OBVIOUS
    <3> HIDE DEF r, M, all
    <3>1. CASE i = 1
      BY <1>3, <2>1, <3>1
    <3>2. CASE i # 1
      <4>1. i \in 2..n /\ i - 1 \in 1..n
        BY <1>1, <3>2
      <4>2. all[i] = M(i) /\ all[i - 1] = M(i - 1) /\ M(i - 1) \o r[i] = M(i)
        BY <1>4, <2>1, <4>1
      <4> QED BY <3>2, <4>2
    <3> QED BY <3>1, <3>2
  <2>3. all = [i \in 1..n |-> all[i]]
    OBVIOUS
  <2> HIDE DEF r, M, all
  <2> QED BY <1>2, <2>2, <2>3
<1>7. FlattenSeq(r) = F[n]
  <2>1. Len(r) # 0
    BY <1>1, <1>2
  <2>2. FlattenSeq(r) = F[Len(r)]
    BY <2>1, Zenon DEF FlattenSeq
  <2> QED BY <1>2, <2>2
<1>8. F[n] = M(n)
  <2> HIDE DEF Eq, M, all
  <2> QED BY <1>5, <1>6
<1>9. FlattenSeq(r) = Matches(text, 1, NumRules)
  <2> HIDE DEF r, F
  <2> QED BY <1>7, <1>8, GroupsFollow DEF n
<1> QED BY <1>9 DEF Merged, Sequential, n

-----------------------------------------------------------------------------
(* The score *)

PointsAt(probes, k) ==
  IF k \in Reachable(probes) THEN Points(probes[k], slot[probes[k]]) ELSE 0

LEMMA PointsAreNumbers ==
  ASSUME NEW probes, NEW k
  PROVE  PointsAt(probes, k) \in Nat
<1>1. \A j, r : Points(j, r) \in Nat
  BY DEF Points
<1> QED BY <1>1 DEF PointsAt

\* The score is at least what any probe adds, and more than the blocklist's only
\* if one adds something (scoreResult).
LEMMA SumOfPoints ==
  ASSUME listed \in {0, 1}, NEW probes, Len(probes) \in Nat
  PROVE  /\ Behavioral(probes) \in Nat
         /\ 100 * listed <= Behavioral(probes)
         /\ \A k \in 1..Len(probes) : PointsAt(probes, k) <= Behavioral(probes)
         /\ (\A k \in 1..Len(probes) : PointsAt(probes, k) = 0)
              => Behavioral(probes) = 100 * listed
<1> DEFINE P(k) == PointsAt(probes, k)
           c == 100 * listed
           Eq(f) == f = [k \in Nat |->
                           IF k = 0 THEN c
                           ELSE f[k - 1] + (IF k \in Reachable(probes)
                                            THEN Points(probes[k], slot[probes[k]]) ELSE 0)]
           F == CHOOSE f : Eq(f)
           step == [q \in Nat \X Nat |-> q[2] + P(q[1])]
<1>1. \A k : P(k) \in Nat
  BY PointsAreNumbers
<1>2. c \in Nat
  OBVIOUS
<1>3. PICK f \in [Nat -> Nat] :
        f[0] = c /\ \A i \in Nat \ {0} : f[i] = step[<<i, f[i - 1]>>]
  <2>1. step \in [Nat \X Nat -> Nat]
    <3> HIDE DEF P
    <3> QED BY <1>1
  <2> HIDE DEF step, c
  <2>2. \E f : FollowsAll(f, Nat, c, step)
    BY <1>2, <2>1, Recursion
  <2> QED BY <2>2 DEF FollowsAll
<1>4. Eq(f)
  <2>1. ASSUME NEW i \in Nat
        PROVE  f[i] = IF i = 0 THEN c ELSE f[i - 1] + P(i)
    <3>1. CASE i # 0
      <4>1. i - 1 \in Nat /\ f[i - 1] \in Nat
        BY <1>3, <3>1
      <4>2. <<i, f[i - 1]>> \in Nat \X Nat
        BY <4>1
      <4>3. step[<<i, f[i - 1]>>] = f[i - 1] + P(i)
        <5> HIDE DEF P
        <5> QED BY <4>2
      <4> QED BY <1>3, <3>1, <4>3
    <3> QED BY <1>3, <3>1
  <2>2. f = [i \in Nat |-> f[i]]
    BY <1>3
  <2> HIDE DEF c, step
  <2> QED BY <2>1, <2>2 DEF PointsAt
<1>5. Eq(F)
  <2> HIDE DEF Eq
  <2> QED BY <1>4
<1>6. Behavioral(probes) = F[Len(probes)]
  BY DEF Behavioral
<1> HIDE DEF F
<1>7. \A i \in Nat : F[i] = IF i = 0 THEN c ELSE F[i - 1] + P(i)
  <2> HIDE DEF c
  <2> QED BY <1>5 DEF PointsAt
<1> HIDE DEF Eq, P, c
<1> DEFINE Good(k) == /\ F[k] \in Nat /\ c <= F[k]
                      /\ \A i \in 1..k : P(i) <= F[k]
                      /\ (\A i \in 1..k : P(i) = 0) => F[k] = c
           S == {k \in Nat : Good(k)}
<1>8. 0 \in S
  <2>1. F[0] = c /\ F[0] \in Nat /\ c <= F[0]
    BY <1>2, <1>7
  <2>2. 1..0 = {}
    OBVIOUS
  <2>3. \A i \in 1..0 : P(i) <= F[0]
    BY <2>2, Zenon
  <2>4. Good(0)
    BY <2>1, <2>3, Zenon
  <2> QED BY <2>4, Zenon
<1>9. ASSUME NEW k \in Nat, k \in S PROVE k + 1 \in S
  <2>1. F[k + 1] = F[k] + P(k + 1)
    <3>1. k + 1 \in Nat /\ k + 1 # 0 /\ (k + 1) - 1 = k
      OBVIOUS
    <3> QED BY <1>7, <3>1
  <2>2. /\ F[k] \in Nat /\ c <= F[k]
        /\ \A i \in 1..k : P(i) <= F[k]
        /\ (\A i \in 1..k : P(i) = 0) => F[k] = c
    BY <1>9
  <2>3. PICK a \in Nat, b \in Nat : a = F[k] /\ b = P(k + 1)
    BY <1>1, <2>2
  <2>4. F[k + 1] = a + b /\ a <= a + b /\ b <= a + b /\ a + b \in Nat
    <3>1. F[k + 1] = a + b
      BY <2>1, <2>3, Zenon
    <3>2. a <= a + b /\ b <= a + b /\ a + b \in Nat
      OBVIOUS
    <3> QED BY <3>1, <3>2
  <2>5. \A i \in 1..(k + 1) : P(i) <= F[k + 1]
    <3> TAKE i \in 1..(k + 1)
    <3>1. PICK p \in Nat : p = P(i)
      BY <1>1
    <3>2. CASE i = k + 1
      BY <2>3, <2>4, <3>2
    <3>3. CASE i # k + 1
      <4>1. i \in 1..k
        BY <3>3
      <4>2. p <= a
        BY <2>2, <2>3, <3>1, <4>1
      <4>3. p <= a + b
        BY <4>2
      <4> QED BY <2>4, <3>1, <4>3
    <3> QED BY <3>2, <3>3
  <2>6. (\A i \in 1..(k + 1) : P(i) = 0) => F[k + 1] = c
    <3> SUFFICES ASSUME \A i \in 1..(k + 1) : P(i) = 0 PROVE F[k + 1] = c
      OBVIOUS
    <3>1. b = 0 /\ \A i \in 1..k : P(i) = 0
      BY <2>3
    <3>2. a = c
      BY <2>2, <2>3, <3>1
    <3> QED BY <2>4, <3>1, <3>2
  <2>7. c <= a + b
    <3>1. c <= a
      BY <2>2, <2>3
    <3> QED BY <1>2, <3>1
  <2>8. Good(k + 1)
    <3>1. F[k + 1] \in Nat /\ c <= F[k + 1]
      BY <2>4, <2>7, Zenon
    <3> QED BY <2>5, <2>6, <3>1, Zenon
  <2>9. k + 1 \in Nat
    OBVIOUS
  <2> HIDE DEF Good
  <2> QED BY <2>8, <2>9
<1>10. Len(probes) \in S
  <2> HIDE DEF S
  <2> QED BY <1>8, <1>9, Induction
<1>11. Good(Len(probes))
  BY <1>10
<1> QED BY <1>6, <1>11 DEF P, c

-----------------------------------------------------------------------------
(* The layouts that are probed *)

LEMMA Protocols ==
  /\ Protocol = {"chat-completions", "responses", "anthropic"}
  /\ Position("chat-completions") = 1
  /\ Position("responses") = 2
  /\ Position("anthropic") = 3
<1>1. /\ DOMAIN ProtocolOrder = 1..3
      /\ ProtocolOrder[1] = "chat-completions"
      /\ ProtocolOrder[2] = "responses"
      /\ ProtocolOrder[3] = "anthropic"
  BY DEF ProtocolOrder
<1>2. Protocol = {"chat-completions", "responses", "anthropic"}
  BY <1>1 DEF Protocol, Range
<1>3. \A p : \A k \in 1..3 : (ProtocolOrder[k] = p /\ \A m \in 1..3 : ProtocolOrder[m] = p => m = k)
                          => Position(p) = k
  BY <1>1 DEF Position
<1>4. \A m \in 1..3 : m = 1 \/ m = 2 \/ m = 3
  OBVIOUS
<1>5. Position("chat-completions") = 1
  BY <1>1, <1>3, <1>4
<1>6. Position("responses") = 2
  BY <1>1, <1>3, <1>4
<1>7. Position("anthropic") = 3
  BY <1>1, <1>3, <1>4
<1> QED BY <1>2, <1>5, <1>6, <1>7

\* What selectProtocols selects, as a set and in its order.
Speaking(p)  == Supported(slot[<<p, "no-tool">>])
SelectedSet ==
  IF mode # "auto" THEN {mode}
  ELSE {p \in Protocol :
          \/ Speaking(p) /\ (p = "responses" => ~Speaking("chat-completions"))
          \/ p # "responses" /\ \A q \in Protocol : ~Speaking(q)}

LEMMA SelectedIs ==
  ASSUME mode \in Protocol \cup {"auto"}
  PROVE  /\ Selected \in Seq(Protocol)
         /\ Range(Selected) = SelectedSet
         /\ \A k, m \in DOMAIN Selected :
              k < m => Position(Selected[k]) < Position(Selected[m])
<1> DEFINE C == "chat-completions"
           R == "responses"
           A == "anthropic"
<1>1. CASE mode # "auto"
  <2>1. Selected = <<mode>> /\ mode \in Protocol
    BY <1>1 DEF Selected
  <2> QED BY <1>1, <2>1 DEF Range, SelectedSet
<1>2. CASE mode = "auto"
  <2>1. Protocol = {C, R, A}
    BY Protocols
  <2>2. Selected = LET found == (IF Speaking(C) THEN <<C>> ELSE IF Speaking(R) THEN <<R>> ELSE <<>>)
                                  \o (IF Speaking(A) THEN <<A>> ELSE <<>>)
                   IN IF found = <<>> THEN <<C, A>> ELSE found
    BY <1>2, Zenon DEF Selected, Speaking
  <2>3. \A p : p \in SelectedSet <=>
          /\ p \in {C, R, A}
          /\ \/ Speaking(p) /\ (p = R => ~Speaking(C))
             \/ p # R /\ ~Speaking(C) /\ ~Speaking(R) /\ ~Speaking(A)
    BY <1>2, <2>1 DEF SelectedSet
  <2>4. \A p, q : /\ Range(<<p>>) = {p} /\ Range(<<p, q>>) = {p, q}
                  /\ <<p>> \o <<q>> = <<p, q>> /\ <<p>> \o <<>> = <<p>>
                  /\ <<>> \o <<q>> = <<q>> /\ <<p>> # <<>> /\ <<p, q>> # <<>>
    <3> TAKE p, q
    <3>1. Range(<<p>>) = {p}
      <4>1. DOMAIN <<p>> = {1} /\ <<p>>[1] = p
        OBVIOUS
      <4> QED BY <4>1, Zenon DEF Range
    <3>2. Range(<<p, q>>) = {p, q}
      <4>1. DOMAIN <<p, q>> = {1, 2} /\ <<p, q>>[1] = p /\ <<p, q>>[2] = q
        OBVIOUS
      <4> QED BY <4>1 DEF Range
    <3>3. /\ <<p>> \o <<q>> = <<p, q>> /\ <<p>> \o <<>> = <<p>>
          /\ <<>> \o <<q>> = <<q>>
      <4>1. <<p>> \in Seq({p, q}) /\ <<q>> \in Seq({p, q}) /\ <<p, q>> \in Seq({p, q})
        OBVIOUS
      <4>2. <<p>> \o <<q>> = <<p, q>>
        <5>1. Len(<<p>>) = 1 /\ Len(<<q>>) = 1 /\ <<p>>[1] = p /\ <<q>>[1] = q
          OBVIOUS
        <5>2. PICK s : s = <<p>> \o <<q>>
          OBVIOUS
        <5>3. s \in Seq({p, q}) /\ Len(s) = 2 /\ s[1] = p /\ s[2] = q
          BY <4>1, <5>1, <5>2, ConcatProperties
        <5>4. s = <<s[1], s[2]>>
          BY <5>3
        <5> QED BY <5>2, <5>3, <5>4
      <4>3. <<p>> \o <<>> = <<p>>
        BY <4>1
      <4>4. <<>> \o <<q>> = <<q>>
        BY <4>1
      <4> QED BY <4>2, <4>3, <4>4
    <3>4. <<p>> # <<>> /\ <<p, q>> # <<>>
      OBVIOUS
    <3> QED BY <3>1, <3>2, <3>3, <3>4
  <2>5. <<>> \o <<>> = <<>>
    OBVIOUS
  <2>6. \A p \in Protocol : <<p>> \in Seq(Protocol)
    OBVIOUS
  <2>7. \A p, q \in Protocol : <<p, q>> \in Seq(Protocol)
    OBVIOUS
  <2>8. \A p, q : \A k, m \in DOMAIN <<p, q>> : k < m => k = 1 /\ m = 2
    OBVIOUS
  <2>9. \A p : \A k, m \in DOMAIN <<p>> : ~(k < m)
    OBVIOUS
  <2>10. Position(C) < Position(A) /\ Position(R) < Position(A)
    BY Protocols
  <2>11. ASSUME NEW p \in Protocol, NEW s, s = <<p>>, SelectedSet = {p}
         PROVE  /\ s \in Seq(Protocol) /\ Range(s) = SelectedSet
                /\ \A k, m \in DOMAIN s : k < m => Position(s[k]) < Position(s[m])
    BY <2>4, <2>6, <2>9, <2>11
  <2>12. ASSUME NEW p \in Protocol, NEW q \in Protocol, NEW s, s = <<p, q>>,
                SelectedSet = {p, q}, Position(p) < Position(q)
         PROVE  /\ s \in Seq(Protocol) /\ Range(s) = SelectedSet
                /\ \A k, m \in DOMAIN s : k < m => Position(s[k]) < Position(s[m])
    <3>1. s[1] = p /\ s[2] = q
      BY <2>12
    <3> QED BY <2>4, <2>7, <2>8, <2>12, <3>1
  <2>13. CASE Speaking(C) /\ Speaking(A)
    <3>1. Selected = <<C, A>>
      BY <2>2, <2>4, <2>13
    <3>2. SelectedSet = {C, A}
      BY <2>3, <2>13
    <3> QED BY <2>1, <2>10, <2>12, <3>1, <3>2
  <2>14. CASE Speaking(C) /\ ~Speaking(A)
    <3>1. Selected = <<C>>
      BY <2>2, <2>4, <2>14
    <3>2. SelectedSet = {C}
      BY <2>3, <2>14
    <3> QED BY <2>1, <2>11, <3>1, <3>2
  <2>15. CASE ~Speaking(C) /\ Speaking(R) /\ Speaking(A)
    <3>1. Selected = <<R, A>>
      BY <2>2, <2>4, <2>15
    <3>2. SelectedSet = {R, A}
      BY <2>3, <2>15
    <3> QED BY <2>1, <2>10, <2>12, <3>1, <3>2
  <2>16. CASE ~Speaking(C) /\ Speaking(R) /\ ~Speaking(A)
    <3>1. Selected = <<R>>
      BY <2>2, <2>4, <2>16
    <3>2. SelectedSet = {R}
      BY <2>3, <2>16
    <3> QED BY <2>1, <2>11, <3>1, <3>2
  <2>17. CASE ~Speaking(C) /\ ~Speaking(R) /\ Speaking(A)
    <3>1. Selected = <<A>>
      BY <2>2, <2>4, <2>17
    <3>2. SelectedSet = {A}
      BY <2>3, <2>17
    <3> QED BY <2>1, <2>11, <3>1, <3>2
  <2>18. CASE ~Speaking(C) /\ ~Speaking(R) /\ ~Speaking(A)
    <3>1. Selected = <<C, A>>
      BY <2>2, <2>5, <2>18
    <3>2. SelectedSet = {C, A}
      BY <2>3, <2>18
    <3> QED BY <2>1, <2>10, <2>12, <3>1, <3>2
  <2> QED BY <2>13, <2>14, <2>15, <2>16, <2>17, <2>18
<1> QED BY <1>1, <1>2

-----------------------------------------------------------------------------
(* The invariant *)

First  == Jobs(Candidates, "no-tool")
Second == Jobs(Selected, "with-tools")

Types ==
  /\ mode \in Protocol \cup {"auto"}
  /\ pc \in {"structural", "discovering", "probing", "done"}
  /\ listed \in {0, 1} \/ (listed = Pending /\ pc = "structural")
  /\ DOMAIN work = Job /\ DOMAIN answer = Job /\ DOMAIN results = Job /\ DOMAIN slot = Job

\* What is known of a probe while it runs, and after.
ProbeOK(j) ==
  /\ work[j] \in {"off", "sent", "inspecting", "finished"}
  /\ work[j] \in {"inspecting", "finished"} => answer[j] \in Answers
  /\ work[j] = "inspecting" =>
       /\ results[j] = [g \in 1..Groups |-> results[j][g]]
       /\ \A g \in 1..Groups : results[j][g] \in {Pending, GroupMatches(answer[j].text, g)}
  /\ work[j] = "finished" => slot[j] = Result(answer[j], Shows[answer[j]])

\* The probes of a phase are launched when those of the one before have finished.
Launched ==
  /\ pc \in {"probing", "done"} => Finished(First)
  /\ pc = "done" => Finished(Second)
  /\ \A j \in Job : work[j] # "off" =>
       \/ pc # "structural" /\ j \in First
       \/ pc \in {"probing", "done"} /\ j \in Second

Reported == pc = "done" => report = Report(Probes(Selected))

ScanInv == Types /\ (\A j \in Job : ProbeOK(j)) /\ Launched /\ Reported

-----------------------------------------------------------------------------
(* The invariant holds *)

LEMMA FirstIs ==
  ASSUME mode \in Protocol \cup {"auto"}
  PROVE  /\ First \subseteq Job
         /\ mode = "auto" => First = {<<p, "no-tool">> : p \in Protocol}
         /\ mode # "auto" => First = {<<mode, "no-tool">>}
<1>1. CASE mode = "auto"
  <2>1. Range(Candidates) = Protocol
    BY <1>1 DEF Candidates, Protocol
  <2> QED BY <1>1, <2>1 DEF First, Jobs, Job
<1>2. CASE mode # "auto"
  <2>1. Candidates = <<mode>> /\ DOMAIN <<mode>> = {1} /\ <<mode>>[1] = mode
    BY <1>2 DEF Candidates
  <2>2. Range(Candidates) = {mode}
    BY <2>1, Zenon DEF Range
  <2> QED BY <1>2, <2>2 DEF First, Jobs, Job
<1> QED BY <1>1, <1>2

LEMMA SecondIs ==
  ASSUME mode \in Protocol \cup {"auto"}
  PROVE  /\ Second = {<<p, "with-tools">> : p \in SelectedSet}
         /\ SelectedSet \subseteq Protocol
         /\ Second \subseteq Job
         /\ First \cap Second = {}
<1>1. Second = {<<p, "with-tools">> : p \in SelectedSet}
  BY SelectedIs DEF Second, Jobs
<1>2. SelectedSet \subseteq Protocol
  <2>1. mode # "auto" => SelectedSet = {mode} /\ mode \in Protocol
    BY DEF SelectedSet
  <2>2. mode = "auto" => SelectedSet \subseteq Protocol
    BY DEF SelectedSet
  <2> QED BY <2>1, <2>2
<1>3. Second \subseteq Job
  BY <1>1, <1>2 DEF Job
<1>4. First \cap Second = {}
  BY <1>1 DEF First, Jobs
<1> QED BY <1>1, <1>2, <1>3, <1>4

\* The selection rests on the probes of the first phase.
LEMMA SelectedStays ==
  ASSUME mode \in Protocol \cup {"auto"}, mode' = mode,
         \A j \in First : slot'[j] = slot[j]
  PROVE  Selected' = Selected
<1>1. CASE mode # "auto"
  BY <1>1 DEF Selected
<1>2. CASE mode = "auto"
  <2>1. \A p \in Protocol : slot'[<<p, "no-tool">>] = slot[<<p, "no-tool">>]
    BY <1>2, FirstIs
  <2>2. /\ slot'[<<"chat-completions", "no-tool">>] = slot[<<"chat-completions", "no-tool">>]
        /\ slot'[<<"responses", "no-tool">>] = slot[<<"responses", "no-tool">>]
        /\ slot'[<<"anthropic", "no-tool">>] = slot[<<"anthropic", "no-tool">>]
    BY <2>1, Protocols
  <2> QED BY <1>2, <2>2, Zenon DEF Selected
<1> QED BY <1>1, <1>2

LEMMA InitKeeps == Init => ScanInv
<1> SUFFICES ASSUME Init PROVE ScanInv
  OBVIOUS
<1>1. Types
  BY DEF Init, Types
<1>2. \A j \in Job : work[j] = "off"
  BY DEF Init
<1>3. \A j \in Job : ProbeOK(j)
  BY <1>2 DEF ProbeOK
<1>4. pc = "structural"
  BY DEF Init
<1>5. Launched /\ Reported
  BY <1>2, <1>4 DEF Launched, Reported
<1> QED BY <1>1, <1>3, <1>5 DEF ScanInv

\* Address lookup, certificate check, and a stuttering step.
LEMMA StructuralKeeps ==
  ASSUME ScanInv, Resolve \/ CheckCertificate \/ UNCHANGED vars
  PROVE  ScanInv'
<1>1. UNCHANGED <<mode, pc, work, answer, results, slot, report>>
  BY DEF Resolve, CheckCertificate, vars
<1>2. Types'
  <2>1. Types
    BY DEF ScanInv
  <2>2. listed' \in {0, 1} \/ listed' = listed
    BY DEF Resolve, CheckCertificate, vars
  <2> QED BY <1>1, <2>1, <2>2 DEF Types
<1>3. \A j \in Job : ProbeOK(j)'
  BY <1>1 DEF ScanInv, ProbeOK
<1>4. First' = First /\ Second' = Second
  BY <1>1 DEF First, Second, Jobs, Candidates, Selected
<1>5. Launched'
  BY <1>1, <1>4 DEF ScanInv, Launched, Finished
<1>6. Reported'
  <2>1. CASE pc # "done"
    BY <1>1, <2>1 DEF Reported
  <2>2. CASE pc = "done"
    <3>1. UNCHANGED <<listed, young>>
      BY <2>2 DEF Resolve, CheckCertificate, vars
    <3>2. report = Report(Probes(Selected))
      BY <2>2 DEF ScanInv, Reported
    <3>3. Report(Probes(Selected))' = Report(Probes(Selected))
      BY <1>1, <3>1 DEF Report, Reachable, Behavioral, Probes, Selected
    <3> QED BY <1>1, <3>2, <3>3 DEF Reported
  <2> QED BY <2>1, <2>2
<1> QED BY <1>2, <1>3, <1>5, <1>6 DEF ScanInv

LEMMA DiscoverKeeps ==
  ASSUME ScanInv, Discover
  PROVE  ScanInv'
<1>1. /\ pc = "structural" /\ pc' = "discovering"
      /\ listed \in {0, 1}
      /\ UNCHANGED <<mode, listed, young, answer, results, slot, report>>
  BY DEF Discover, ScanInv, Types
<1>2. work' = [j \in Job |-> IF j \in First THEN "sent" ELSE work[j]]
  BY DEF Discover, Launch, First
<1>3. \A j \in Job : work[j] = "off"
  BY <1>1 DEF ScanInv, Launched
<1>4. \A j \in Job : work'[j] = IF j \in First THEN "sent" ELSE "off"
  BY <1>2, <1>3
<1>5. Types'
  BY <1>1, <1>2 DEF ScanInv, Types
<1>6. \A j \in Job : ProbeOK(j)'
  BY <1>4 DEF ProbeOK
<1>7. First' = First
  BY <1>1 DEF First, Jobs, Candidates
<1>8. Launched'
  BY <1>1, <1>4, <1>7 DEF Launched
<1>9. Reported'
  BY <1>1 DEF Reported
<1> QED BY <1>5, <1>6, <1>8, <1>9 DEF ScanInv

LEMMA ProbeKeeps ==
  ASSUME ScanInv, Probe
  PROVE  ScanInv'
<1>1. /\ pc = "discovering" /\ pc' = "probing" /\ Finished(First)
      /\ mode \in Protocol \cup {"auto"}
      /\ UNCHANGED <<mode, listed, young, answer, results, slot, report>>
  BY DEF Probe, ScanInv, Types, First
<1>2. work' = [j \in Job |-> IF j \in Second THEN "sent" ELSE work[j]]
  BY DEF Probe, Launch, Second
<1>3. First' = First /\ Second' = Second
  BY <1>1 DEF First, Second, Jobs, Candidates, Selected
<1>4. First \subseteq Job /\ First \cap Second = {}
  BY <1>1, FirstIs, SecondIs
<1>5. Types'
  BY <1>1, <1>2 DEF ScanInv, Types
<1>6. \A j \in Job : ProbeOK(j)'
  <2> TAKE j \in Job
  <2>1. CASE j \in Second
    BY <1>2, <2>1 DEF ProbeOK
  <2>2. CASE j \notin Second
    <3>1. work'[j] = work[j] /\ ProbeOK(j)
      BY <1>2, <2>2 DEF ScanInv
    <3> QED BY <1>1, <3>1 DEF ProbeOK
  <2> QED BY <2>1, <2>2
<1>7. Finished(First)'
  BY <1>1, <1>2, <1>3, <1>4 DEF Finished
<1>8. Launched'
  <2>1. \A j \in Job : work[j] # "off" => j \in First
    BY <1>1 DEF ScanInv, Launched
  <2>2. \A j \in Job : work'[j] # "off" => j \in First \cup Second
    BY <1>2, <2>1
  <2> QED BY <1>1, <1>3, <1>7, <2>2 DEF Launched
<1>9. Reported'
  BY <1>1 DEF Reported
<1> QED BY <1>5, <1>6, <1>8, <1>9 DEF ScanInv

LEMMA ConcludeKeeps ==
  ASSUME ScanInv, Conclude
  PROVE  ScanInv'
<1>1. /\ pc = "probing" /\ pc' = "done" /\ Finished(Second)
      /\ report' = Report(Probes(Selected))
      /\ UNCHANGED <<mode, listed, young, work, answer, results, slot>>
  BY DEF Conclude, Second
<1>2. Types'
  BY <1>1 DEF ScanInv, Types
<1>3. \A j \in Job : ProbeOK(j)'
  BY <1>1 DEF ScanInv, ProbeOK
<1>4. First' = First /\ Second' = Second
  BY <1>1 DEF First, Second, Jobs, Candidates, Selected
<1>5. Launched'
  BY <1>1, <1>4 DEF ScanInv, Launched, Finished
<1>6. Reported'
  <2>1. UNCHANGED <<mode, listed, young, slot>>
    BY <1>1
  <2>2. Report(Probes(Selected))' = Report(Probes(Selected))
    BY <2>1 DEF Report, Reachable, Behavioral, Probes, Selected
  <2> QED BY <1>1, <2>2 DEF Reported
<1> QED BY <1>2, <1>3, <1>5, <1>6 DEF ScanInv

\* A step of one probe touches that probe only.
LEMMA OneProbe ==
  ASSUME ScanInv, NEW j \in Job, work[j] \in {"sent", "inspecting"},
         UNCHANGED <<mode, pc, listed, young, report>>,
         DOMAIN work' = Job /\ DOMAIN answer' = Job /\ DOMAIN results' = Job
           /\ DOMAIN slot' = Job,
         \A i \in Job \ {j} : work'[i] = work[i] /\ answer'[i] = answer[i]
                              /\ results'[i] = results[i] /\ slot'[i] = slot[i],
         ProbeOK(j)'
  PROVE  ScanInv'
<1>1. Types /\ Launched /\ (\A i \in Job : ProbeOK(i)) /\ mode \in Protocol \cup {"auto"}
  BY DEF ScanInv, Types
<1>2. Types'
  BY <1>1 DEF Types
<1>3. \A i \in Job : ProbeOK(i)'
  <2> TAKE i \in Job
  <2>1. CASE i # j
    BY <1>1, <2>1 DEF ProbeOK
  <2> QED BY <2>1
<1>4. First' = First /\ First \subseteq Job
  BY <1>1, FirstIs DEF First, Jobs, Candidates
<1>5. pc \notin {"structural", "done"}
  BY <1>1 DEF Launched, Finished
<1>6. CASE pc = "discovering"
  <2>1. Launched'
    BY <1>1, <1>4, <1>6 DEF Launched
  <2>2. Reported'
    BY <1>6 DEF Reported
  <2> QED BY <1>2, <1>3, <2>1, <2>2 DEF ScanInv
<1>7. CASE pc = "probing"
  <2>1. Finished(First) /\ j \notin First
    BY <1>1, <1>7 DEF Launched, Finished
  <2>2. \A i \in First : slot'[i] = slot[i] /\ work'[i] = work[i]
    BY <1>4, <2>1
  <2>3. Second' = Second
    BY <1>1, <2>2, SelectedStays DEF Second, Jobs
  <2>4. Finished(First)'
    BY <1>4, <2>1, <2>2 DEF Finished
  <2>5. \A i \in Job : work'[i] # "off" => work[i] # "off"
    OBVIOUS
  <2>6. Launched'
    BY <1>1, <1>4, <1>7, <2>3, <2>4, <2>5 DEF Launched
  <2>7. Reported'
    BY <1>7 DEF Reported
  <2> QED BY <1>2, <1>3, <2>6, <2>7 DEF ScanInv
<1> QED BY <1>1, <1>5, <1>6, <1>7 DEF Types

LEMMA AnswerKeeps ==
  ASSUME ScanInv, NEW j \in Job, Answer(j)
  PROVE  ScanInv'
<1>1. PICK a \in Answers :
        /\ answer' = [answer EXCEPT ![j] = a]
        /\ IF a.status # 0 /\ a.large
           THEN /\ work' = [work EXCEPT ![j] = "inspecting"]
                /\ results' = [results EXCEPT ![j] = [g \in 1..Groups |-> Pending]]
                /\ UNCHANGED slot
           ELSE /\ work' = [work EXCEPT ![j] = "finished"]
                /\ slot' = [slot EXCEPT ![j] = Result(a, Shows[a])]
                /\ UNCHANGED results
  BY DEF Answer
<1>2. work[j] = "sent" /\ UNCHANGED <<mode, pc, listed, young, report>>
  BY DEF Answer
<1>3. DOMAIN work = Job /\ DOMAIN answer = Job /\ DOMAIN results = Job /\ DOMAIN slot = Job
  BY DEF ScanInv, Types
<1>4. CASE a.status # 0 /\ a.large
  <2>1. /\ answer' = [answer EXCEPT ![j] = a]
        /\ work' = [work EXCEPT ![j] = "inspecting"]
        /\ results' = [results EXCEPT ![j] = [g \in 1..Groups |-> Pending]]
        /\ slot' = slot
    BY <1>1, <1>4
  <2>2. work'[j] = "inspecting" /\ answer'[j] = a /\ results'[j] = [g \in 1..Groups |-> Pending]
    BY <1>3, <2>1
  <2>3. ProbeOK(j)'
    BY <2>2 DEF ProbeOK
  <2> QED BY <1>2, <1>3, <2>1, <2>3, OneProbe
<1>5. CASE ~(a.status # 0 /\ a.large)
  <2>1. /\ answer' = [answer EXCEPT ![j] = a]
        /\ work' = [work EXCEPT ![j] = "finished"]
        /\ slot' = [slot EXCEPT ![j] = Result(a, Shows[a])]
        /\ results' = results
    BY <1>1, <1>5
  <2>2. work'[j] = "finished" /\ answer'[j] = a /\ slot'[j] = Result(a, Shows[a])
    BY <1>3, <2>1
  <2>3. ProbeOK(j)'
    BY <2>2 DEF ProbeOK
  <2> QED BY <1>2, <1>3, <2>1, <2>3, OneProbe
<1> QED BY <1>4, <1>5

LEMMA InspectGroupKeeps ==
  ASSUME ScanInv, NEW j \in Job, NEW g \in 1..Groups, InspectGroup(j, g)
  PROVE  ScanInv'
<1>1. /\ work[j] = "inspecting"
      /\ results' = [results EXCEPT ![j][g] = GroupMatches(answer[j].text, g)]
      /\ UNCHANGED <<mode, pc, listed, young, work, answer, slot, report>>
  BY DEF InspectGroup
<1>2. DOMAIN work = Job /\ DOMAIN answer = Job /\ DOMAIN results = Job /\ DOMAIN slot = Job
  BY DEF ScanInv, Types
<1>3. /\ answer[j] \in Answers
      /\ results[j] = [h \in 1..Groups |-> results[j][h]]
      /\ \A h \in 1..Groups : results[j][h] \in {Pending, GroupMatches(answer[j].text, h)}
  BY <1>1 DEF ScanInv, ProbeOK
<1>4. results'[j] = [results[j] EXCEPT ![g] = GroupMatches(answer[j].text, g)]
  BY <1>1, <1>2
<1>5. PICK r : r = results[j]
  OBVIOUS
<1>6. results'[j] = [h \in 1..Groups |-> IF h = g THEN GroupMatches(answer[j].text, g) ELSE r[h]]
  BY <1>3, <1>4, <1>5
<1>7. ProbeOK(j)'
  <2>1. \A h \in 1..Groups :
          results'[j][h] \in {Pending, GroupMatches(answer[j].text, h)}
    BY <1>3, <1>5, <1>6
  <2>2. results'[j] = [h \in 1..Groups |-> results'[j][h]]
    BY <1>6
  <2> QED BY <1>1, <1>3, <2>1, <2>2 DEF ProbeOK
<1> QED BY <1>1, <1>2, <1>7, OneProbe

LEMMA StoreKeeps ==
  ASSUME ScanInv, NEW j \in Job, Store(j)
  PROVE  ScanInv'
<1>1. /\ work[j] = "inspecting" /\ Inspected(j)
      /\ work' = [work EXCEPT ![j] = "finished"]
      /\ slot' = [slot EXCEPT ![j] = Result(answer[j], Sorted(Merged(answer[j].text, results[j])))]
      /\ results' = [results EXCEPT ![j] = <<>>]
      /\ UNCHANGED <<mode, pc, listed, young, answer, report>>
  BY DEF Store
<1>2. DOMAIN work = Job /\ DOMAIN answer = Job /\ DOMAIN results = Job /\ DOMAIN slot = Job
  BY DEF ScanInv, Types
<1>3. /\ answer[j] \in Answers
      /\ results[j] = [h \in 1..Groups |-> results[j][h]]
      /\ \A h \in 1..Groups : results[j][h] \in {Pending, GroupMatches(answer[j].text, h)}
  BY <1>1 DEF ScanInv, ProbeOK
<1>4. \A h \in 1..Groups : results[j][h] = GroupMatches(answer[j].text, h)
  <2>1. DOMAIN results[j] = 1..Groups
    BY <1>3
  <2> QED BY <1>1, <1>3, <2>1 DEF Inspected
<1>5. results[j] = [h \in 1..Groups |-> GroupMatches(answer[j].text, h)]
  BY <1>3, <1>4
<1>6. Merged(answer[j].text, results[j]) = Sequential(answer[j].text)
  BY <1>5, MergedIsSequential, Zenon
<1>7. Shows[answer[j]] = Sorted(Sequential(answer[j].text))
  BY <1>3 DEF Shows
<1>8. work'[j] = "finished" /\ slot'[j] = Result(answer[j], Shows[answer[j]])
  BY <1>1, <1>2, <1>6, <1>7
<1>9. ProbeOK(j)'
  BY <1>1, <1>3, <1>8 DEF ProbeOK
<1> QED BY <1>1, <1>2, <1>9, OneProbe

LEMMA Inductive == Spec => []ScanInv
<1>1. Init => ScanInv
  BY InitKeeps
<1>2. ScanInv /\ [Next]_vars => ScanInv'
  <2> SUFFICES ASSUME ScanInv, [Next]_vars PROVE ScanInv'
    OBVIOUS
  <2>1. CASE Resolve \/ CheckCertificate \/ UNCHANGED vars
    BY <2>1, StructuralKeeps
  <2>2. CASE Discover
    BY <2>2, DiscoverKeeps
  <2>3. CASE Probe
    BY <2>3, ProbeKeeps
  <2>4. CASE Conclude
    BY <2>4, ConcludeKeeps
  <2>5. ASSUME NEW j \in Job, Answer(j) PROVE ScanInv'
    BY <2>5, AnswerKeeps
  <2>6. ASSUME NEW j \in Job, NEW g \in 1..Groups, InspectGroup(j, g) PROVE ScanInv'
    BY <2>6, InspectGroupKeeps
  <2>7. ASSUME NEW j \in Job, Store(j) PROVE ScanInv'
    BY <2>7, StoreKeeps
  <2> QED BY <2>1, <2>2, <2>3, <2>4, <2>5, <2>6, <2>7 DEF Next, ProbeStep
<1> QED BY <1>1, <1>2, PTL DEF Spec

-----------------------------------------------------------------------------
(* The properties *)

\* The findings of every probe are those of the rules tried in their order, for
\* every number of rules and goroutines and every schedule (inspectRulesParallel).
THEOREM FindingsOfRules == Spec => []FindingsAsSequential
<1>1. ScanInv => FindingsAsSequential
  <2> SUFFICES ASSUME ScanInv, NEW j \in Job, work[j] = "finished"
               PROVE  slot[j].found = Shows[answer[j]]
    BY DEF FindingsAsSequential
  <2>1. slot[j] = Result(answer[j], Shows[answer[j]])
    BY DEF ScanInv, ProbeOK
  <2> QED BY <2>1 DEF Result
<1> QED BY <1>1, Inductive, PTL

\* The probes that are listed are those of the selected layouts, and finished.
LEMMA ListedProbes ==
  ASSUME ScanInv, pc = "done", NEW n, n = Len(Selected), NEW P, P = Probes(Selected)
  PROVE  /\ n \in Nat /\ Len(P) = 2 * n /\ DOMAIN P = 1..(2 * n)
         /\ \A k \in 1..n : P[k] = <<Selected[k], "no-tool">>
         /\ \A k \in (n + 1)..(2 * n) :
              k - n \in 1..n /\ P[k] = <<Selected[k - n], "with-tools">>
         /\ \A k \in DOMAIN P : P[k] \in Job /\ work[P[k]] = "finished"
<1>1. mode \in Protocol \cup {"auto"} /\ Finished(First) /\ Finished(Second)
  BY DEF ScanInv, Types, Launched
<1>2. Selected \in Seq(Protocol) /\ Range(Selected) = SelectedSet
  BY <1>1, SelectedIs
<1>3. n \in Nat /\ DOMAIN Selected = 1..n
  BY <1>2
<1>4. P = [k \in 1..(2 * n) |-> IF k <= n THEN <<Selected[k], "no-tool">>
                                ELSE <<Selected[k - n], "with-tools">>]
  BY DEF Probes
<1>5. Len(P) = 2 * n /\ DOMAIN P = 1..(2 * n)
  <2>1. 2 * n \in Nat
    BY <1>3
  <2> QED BY <1>4, <2>1
<1>6. \A k \in 1..n : P[k] = <<Selected[k], "no-tool">>
  BY <1>3, <1>4
<1>7. \A k \in (n + 1)..(2 * n) :
        k - n \in 1..n /\ P[k] = <<Selected[k - n], "with-tools">>
  BY <1>3, <1>4
<1>8. \A k \in 1..n : Selected[k] \in SelectedSet
  BY <1>2, <1>3 DEF Range
<1>9. \A p \in SelectedSet : <<p, "no-tool">> \in First /\ <<p, "with-tools">> \in Second
  <2>1. SelectedSet \subseteq Protocol /\ \A p \in SelectedSet : <<p, "with-tools">> \in Second
    BY <1>1, SecondIs
  <2>2. CASE mode = "auto"
    BY <1>1, <2>1, <2>2, FirstIs
  <2>3. CASE mode # "auto"
    <3>1. SelectedSet = {mode}
      BY <2>3 DEF SelectedSet
    <3> QED BY <1>1, <2>1, <2>3, <3>1, FirstIs
  <2> QED BY <2>2, <2>3
<1>10. First \subseteq Job /\ Second \subseteq Job
  BY <1>1, FirstIs, SecondIs
<1>11. \A k \in DOMAIN P : P[k] \in Job /\ work[P[k]] = "finished"
  <2> TAKE k \in DOMAIN P
  <2>1. k \in 1..n \/ k \in (n + 1)..(2 * n)
    BY <1>3, <1>5
  <2>2. P[k] \in First \cup Second
    BY <1>6, <1>7, <1>8, <1>9, <2>1
  <2> QED BY <1>1, <1>10, <2>2 DEF Finished
<1> QED BY <1>3, <1>5, <1>6, <1>7, <1>11

\* What the report says of a finished probe.
LEMMA ResultIs ==
  ASSUME ScanInv, NEW j \in Job, work[j] = "finished"
  PROVE  /\ answer[j] \in Answers
         /\ slot[j].status = answer[j].status /\ slot[j].tool = answer[j].tool
         /\ slot[j].found = Shows[answer[j]]
         /\ slot[j].err = ~Scored(answer[j])
<1>1. answer[j] \in Answers /\ slot[j] = Result(answer[j], Shows[answer[j]])
  BY DEF ScanInv, ProbeOK
<1>2. PICK a \in Answers : a = answer[j]
  BY <1>1
<1>3. a.status \in {0} \cup 100..999 /\ a.body \in {"whole", "long", "broken"}
  BY AnswerAssumption
<1>4. (a.status = 0 \/ a.status >= 400 \/ a.body = "long") = ~Scored(a)
  BY <1>3 DEF Scored
<1> QED BY <1>1, <1>2, <1>4 DEF Result

LEMMA ReportIsAboutAnswers == ScanInv => ReportMatchesAnswers
<1> SUFFICES ASSUME ScanInv, pc = "done" PROVE ReportMatchesAnswers
  BY DEF ReportMatchesAnswers
<1> DEFINE n == Len(Selected)
           P == Probes(Selected)
           Speaks(p) == answer[<<p, "no-tool">>].status \notin {0, 404, 405, 501}
           chosen(p) == IF mode # "auto" THEN p = mode
                        ELSE \/ Speaks(p) /\ (p = "responses" => ~Speaks("chat-completions"))
                             \/ p # "responses" /\ \A q \in Protocol : ~Speaks(q)
<1>1. mode \in Protocol \cup {"auto"} /\ Finished(First)
  BY DEF ScanInv, Types, Launched
<1>2. /\ Selected \in Seq(Protocol) /\ Range(Selected) = SelectedSet
      /\ \A k, m \in DOMAIN Selected :
           k < m => Position(Selected[k]) < Position(Selected[m])
  BY <1>1, SelectedIs
<1>3. /\ n \in Nat /\ DOMAIN P = 1..(2 * n)
      /\ \A k \in 1..n : P[k] = <<Selected[k], "no-tool">>
      /\ \A k \in (n + 1)..(2 * n) :
           k - n \in 1..n /\ P[k] = <<Selected[k - n], "with-tools">>
      /\ \A k \in DOMAIN P : P[k] \in Job /\ work[P[k]] = "finished"
  BY ListedProbes
<1>4. DOMAIN Selected = 1..n
  BY <1>2
<1>5. report.probes = [k \in DOMAIN P |-> [job |-> P[k], result |-> slot[P[k]]]]
  BY DEF ScanInv, Reported, Report
<1>6. SelectedSet = {p \in Protocol : chosen(p)}
  <2>1. CASE mode # "auto"
    BY <1>1, <2>1 DEF SelectedSet
  <2>2. CASE mode = "auto"
    <3>1. ASSUME NEW p \in Protocol PROVE Speaking(p) <=> Speaks(p)
      <4>1. <<p, "no-tool">> \in First /\ <<p, "no-tool">> \in Job
        BY <1>1, <2>2, FirstIs
      <4>2. slot[<<p, "no-tool">>].status = answer[<<p, "no-tool">>].status
        BY <1>1, <4>1, ResultIs DEF Finished
      <4> QED BY <4>2 DEF Speaking, Supported
    <3>2. "chat-completions" \in Protocol
      BY Protocols
    <3> HIDE DEF Speaks
    <3> QED BY <2>2, <3>1, <3>2 DEF SelectedSet
  <2> QED BY <2>1, <2>2
<1> HIDE DEF n, P, chosen
<1>7. {e.job : e \in Range(report.probes)} = {P[k] : k \in DOMAIN P}
  BY <1>5 DEF Range
<1>8. {P[k] : k \in DOMAIN P} = SelectedSet \X {"no-tool", "with-tools"}
  <2>1. ASSUME NEW k \in DOMAIN P PROVE P[k] \in SelectedSet \X {"no-tool", "with-tools"}
    <3>1. k \in 1..n \/ k \in (n + 1)..(2 * n)
      BY <1>3
    <3>2. \A i \in 1..n : Selected[i] \in SelectedSet
      BY <1>2, <1>4 DEF Range
    <3>3. CASE k \in 1..n
      <4>1. P[k] = <<Selected[k], "no-tool">> /\ Selected[k] \in SelectedSet
        BY <1>3, <3>2, <3>3
      <4> QED BY <4>1
    <3>4. CASE k \in (n + 1)..(2 * n)
      <4>1. k - n \in 1..n /\ P[k] = <<Selected[k - n], "with-tools">>
        BY <1>3, <3>4
      <4>2. Selected[k - n] \in SelectedSet
        BY <3>2, <4>1
      <4> QED BY <4>1, <4>2
    <3> QED BY <3>1, <3>3, <3>4
  <2>2. ASSUME NEW p \in SelectedSet, NEW name \in {"no-tool", "with-tools"}
        PROVE  \E k \in DOMAIN P : P[k] = <<p, name>>
    <3>1. PICK i \in 1..n : Selected[i] = p
      BY <1>2, <1>4 DEF Range
    <3>2. CASE name = "no-tool"
      <4>1. i \in DOMAIN P /\ P[i] = <<p, name>>
        BY <1>3, <3>1, <3>2
      <4> QED BY <4>1
    <3>3. CASE name = "with-tools"
      <4>1. PICK k : k = n + i
        OBVIOUS
      <4>2. k \in (n + 1)..(2 * n) /\ k \in DOMAIN P /\ k - n = i
        BY <1>3, <4>1
      <4>3. P[k] = <<p, name>>
        BY <1>3, <3>1, <3>3, <4>2
      <4> QED BY <4>2, <4>3
    <3> QED BY <3>2, <3>3
  <2> QED BY <2>1, <2>2
<1>9. \A k, m \in DOMAIN report.probes :
        k < m => Precedes(report.probes[k].job, report.probes[m].job)
  <2> SUFFICES ASSUME NEW k \in DOMAIN P, NEW m \in DOMAIN P, k < m
               PROVE  Precedes(P[k], P[m])
    BY <1>5
  <2>1. CASE m \in 1..n
    <3>1. k \in 1..n
      BY <1>3, <2>1
    <3>2. Position(Selected[k]) < Position(Selected[m])
      BY <1>2, <1>4, <2>1, <3>1
    <3>3. P[k] = <<Selected[k], "no-tool">> /\ P[m] = <<Selected[m], "no-tool">>
      BY <1>3, <2>1, <3>1
    <3> QED BY <3>2, <3>3 DEF Precedes
  <2>2. CASE m \in (n + 1)..(2 * n) /\ k \in 1..n
    <3>1. P[k] = <<Selected[k], "no-tool">> /\ P[m] = <<Selected[m - n], "with-tools">>
      BY <1>3, <2>2
    <3> QED BY <3>1 DEF Precedes
  <2>3. CASE m \in (n + 1)..(2 * n) /\ k \in (n + 1)..(2 * n)
    <3>1. PICK a, b : a = k - n /\ b = m - n
      OBVIOUS
    <3>2. a \in 1..n /\ b \in 1..n /\ a < b
      BY <1>3, <2>3, <3>1
    <3>3. Position(Selected[a]) < Position(Selected[b])
      BY <1>2, <1>4, <3>2
    <3>4. P[k] = <<Selected[a], "with-tools">> /\ P[m] = <<Selected[b], "with-tools">>
      BY <1>3, <2>3, <3>1
    <3> QED BY <3>3, <3>4 DEF Precedes
  <2>4. /\ m \in 1..n \/ m \in (n + 1)..(2 * n)
        /\ k \in 1..n \/ k \in (n + 1)..(2 * n)
    BY <1>3
  <2> QED BY <2>1, <2>2, <2>3, <2>4
<1>10. \A e \in Range(report.probes) :
         /\ e.result.status = answer[e.job].status
         /\ e.result.err = ~Scored(answer[e.job])
         /\ e.result.tool = answer[e.job].tool
  <2> TAKE e \in Range(report.probes)
  <2>1. PICK k \in DOMAIN P : e = [job |-> P[k], result |-> slot[P[k]]]
    BY <1>5 DEF Range
  <2>2. e.job = P[k] /\ e.result = slot[P[k]]
    BY <2>1
  <2>3. P[k] \in Job /\ work[P[k]] = "finished"
    BY <1>3
  <2> QED BY <2>2, <2>3, ResultIs
<1>11. {e.job : e \in Range(report.probes)}
         = {p \in Protocol : chosen(p)} \X {"no-tool", "with-tools"}
  BY <1>6, <1>7, <1>8
<1> QED BY <1>9, <1>10, <1>11 DEF ReportMatchesAnswers, chosen

\* The report lists the probes of the right layouts, in their order, each with its
\* own answer, whatever the endpoint answers and in whatever order (Scan).
THEOREM ReportIsTrue == Spec => []ReportMatchesAnswers
BY ReportIsAboutAnswers, Inductive, PTL

\* What a probe adds to the score.
LEMMA PointsOfProbe ==
  ASSUME ScanInv, NEW j \in Job, work[j] = "finished"
  PROVE  LET points == Points(j, slot[j])
             unasked == j[2] = "no-tool" /\ answer[j].tool
             showing == Shows[answer[j]] # <<>>
         IN /\ points \in Nat
            /\ unasked => points >= 60
            /\ showing => points >= 15
            /\ ~unasked /\ ~showing => points = 0
<1>1. slot[j].tool = answer[j].tool /\ slot[j].found = Shows[answer[j]]
  BY ResultIs
<1>2. Shows[answer[j]] = <<>> => ~MaxSeverityHigh(Shows[answer[j]])
  BY DEF MaxSeverityHigh
<1> QED BY <1>1, <1>2 DEF Points

LEMMA VerdictIsJustified == ScanInv => VerdictJustified
<1> SUFFICES ASSUME ScanInv, pc = "done" PROVE VerdictJustified
  BY DEF VerdictJustified
<1> DEFINE P == Probes(Selected)
           n == Len(Selected)
           B == Behavioral(P)
           judged  == {j \in {e.job : e \in Range(report.probes)} : Scored(answer[j])}
           unasked == {j \in judged : j[2] = "no-tool" /\ answer[j].tool}
           showing == {j \in judged : Shows[answer[j]] # <<>>}
<1>1. /\ n \in Nat /\ Len(P) = 2 * n /\ DOMAIN P = 1..(2 * n)
      /\ \A k \in DOMAIN P : P[k] \in Job /\ work[P[k]] = "finished"
  BY ListedProbes
<1>2. listed \in {0, 1}
  BY DEF ScanInv, Types
<1>3. /\ report.probes = [k \in DOMAIN P |-> [job |-> P[k], result |-> slot[P[k]]]]
      /\ report.verdict = Verdict(Reachable(P), B)
  BY DEF ScanInv, Reported, Report
<1> HIDE DEF P, n, B
<1>4. {e.job : e \in Range(report.probes)} = {P[k] : k \in DOMAIN P}
  BY <1>3 DEF Range
<1>5. \A k \in DOMAIN P : k \in Reachable(P) <=> Scored(answer[P[k]])
  BY <1>1, ResultIs DEF Reachable
<1>6. judged = {P[k] : k \in Reachable(P)}
  BY <1>4, <1>5 DEF Reachable
<1>7. /\ B \in Nat /\ 100 * listed <= B
      /\ \A k \in 1..Len(P) : PointsAt(P, k) <= B
      /\ (\A k \in 1..Len(P) : PointsAt(P, k) = 0) => B = 100 * listed
  <2>1. Len(P) \in Nat
    BY <1>1
  <2> QED BY <1>2, <2>1, SumOfPoints DEF B
<1> HIDE DEF judged
<1>8. ASSUME NEW k \in Reachable(P)
      PROVE  /\ k \in 1..Len(P)
             /\ P[k] \in judged
             /\ PointsAt(P, k) \in Nat
             /\ P[k] \in unasked => PointsAt(P, k) >= 60
             /\ P[k] \in showing => PointsAt(P, k) >= 15
             /\ P[k] \notin unasked \cup showing => PointsAt(P, k) = 0
  <2>1. k \in 1..Len(P) /\ P[k] \in Job /\ work[P[k]] = "finished" /\ P[k] \in judged
    BY <1>1, <1>6 DEF Reachable
  <2>2. PointsAt(P, k) = Points(P[k], slot[P[k]])
    BY DEF PointsAt
  <2> QED BY <2>1, <2>2, PointsOfProbe
<1>9. unasked # {} => B >= 60
  <2> SUFFICES ASSUME NEW j \in unasked PROVE B >= 60
    OBVIOUS
  <2>1. PICK k \in Reachable(P) : j = P[k]
    BY <1>6
  <2>2. PointsAt(P, k) \in Nat /\ PointsAt(P, k) >= 60 /\ PointsAt(P, k) <= B
    BY <1>7, <1>8, <2>1
  <2> QED BY <1>7, <2>2
<1>10. showing # {} => B >= 15
  <2> SUFFICES ASSUME NEW j \in showing PROVE B >= 15
    OBVIOUS
  <2>1. PICK k \in Reachable(P) : j = P[k]
    BY <1>6
  <2>2. PointsAt(P, k) \in Nat /\ PointsAt(P, k) >= 15 /\ PointsAt(P, k) <= B
    BY <1>7, <1>8, <2>1
  <2> QED BY <1>7, <2>2
<1>11. unasked \cup showing = {} => B = 100 * listed
  <2> SUFFICES ASSUME unasked \cup showing = {} PROVE \A k \in 1..Len(P) : PointsAt(P, k) = 0
    BY <1>7
  <2> TAKE k \in 1..Len(P)
  <2>1. CASE k \in Reachable(P)
    BY <1>8, <2>1
  <2>2. CASE k \notin Reachable(P)
    BY <2>2 DEF PointsAt
  <2> QED BY <2>1, <2>2
<1>12. judged = {} <=> Reachable(P) = {}
  BY <1>6
<1> HIDE DEF unasked, showing
<1>13. /\ report.verdict = "could-not-probe" <=> judged = {}
       /\ judged # {} =>
            /\ report.verdict = "no-active-injection-detected"
                 <=> listed = 0 /\ unasked \cup showing = {}
            /\ unasked # {} => report.verdict \in {"high-risk", "malicious"}
            /\ listed > 0 => report.verdict = "malicious"
  <2>1. CASE judged = {}
    <3>1. report.verdict = "could-not-probe"
      BY <1>3, <1>12, <2>1 DEF Verdict
    <3> QED BY <2>1, <3>1
  <2>2. CASE judged # {}
    <3>1. report.verdict = IF B >= 100 THEN "malicious"
                           ELSE IF B >= 50 THEN "high-risk"
                           ELSE IF B >= 15 THEN "suspicious"
                           ELSE "no-active-injection-detected"
      BY <1>3, <1>12, <2>2 DEF Verdict
    <3>2. listed = 1 => B >= 100
      BY <1>7
    <3>3. listed = 0 /\ unasked \cup showing = {} => B = 0
      BY <1>11
    <3> QED BY <1>2, <1>7, <1>9, <1>10, <2>2, <3>1, <3>2, <3>3
  <2> QED BY <2>1, <2>2
<1> QED BY <1>13 DEF VerdictJustified, judged, unasked, showing

\* The verdict is one that the probes answered and the blocklist justify, for any
\* answers (scoreResult).
THEOREM VerdictIsTrue == Spec => []VerdictJustified
BY VerdictIsJustified, Inductive, PTL
=============================================================================
