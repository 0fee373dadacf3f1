--------------------------- MODULE DashboardProofs --------------------------
(***************************************************************************)
(* Proofs about the two parts of the dashboard that keep state for the     *)
(* user, its list of provider profiles and the proxy it runs.              *)
(*                                                                         *)
(* ProviderStore, for lists of any length, any import and any number of    *)
(* failed writes, interrupted writes and restarts: profiles keep distinct  *)
(* ids (IdsAreUnique), what an operation reported survives                 *)
(* (ReportedSurvives), and one that failed changed nothing                 *)
(* (ErrorsChangeNothing).  UniqueIds alone is not inductive.  A new        *)
(* profile gets the id `next`, which is free only because `next` is above  *)
(* every number in the list (Below); and after a restart the list is the   *)
(* one in the file, so that one must have distinct ids too.  The third     *)
(* result also needs that a serial is given to one profile only (Serials). *)
(* The ids an import gives out are defined by recursion over the imported  *)
(* list.  The lemmas Induction and Recursion, from the least element of a  *)
(* set of numbers, are stated for sets and not for operators, which is     *)
(* what lets a prover use them.                                            *)
(*                                                                         *)
(* ProxyManager, for any number of callers, providers, addresses, servers  *)
(* and requests: only the server the manager knows takes requests, every   *)
(* decision is credited to the provider of the server that answered it,    *)
(* and the feed tells starts and stops in turn.  All rest on the mutex: a  *)
(* start that is about to listen holds it, so it finds the manager as its  *)
(* own stop left it.                                                       *)
(***************************************************************************)
EXTENDS ProviderStore, ProxyManager, SequenceTheorems, WellFoundedInduction, TLAPS

-----------------------------------------------------------------------------
(* Induction and recursion over the natural numbers *)

LEMMA Least ==
  ASSUME NEW S \in SUBSET Nat, S # {}
  PROVE  \E n \in S : \A m \in S : n <= m
<1> DEFINE R == OpToRel(<, Nat)
<1>1. IsWellFoundedOn(R, Nat)
  BY NatLessThanWellFounded
<1>2. \A m, n \in Nat : m < n => <<m, n>> \in R
  BY DEF OpToRel
<1> HIDE DEF R
<1>3. PICK n \in S : \A m \in S : ~(<<m, n>> \in R)
  BY <1>1, WFMin
<1>4. \A m \in S : ~(m < n)
  BY <1>2, <1>3
<1> QED BY <1>4

LEMMA Induction ==
  ASSUME NEW S, 0 \in S, \A n \in Nat : n \in S => n + 1 \in S
  PROVE  Nat \subseteq S
<1> SUFFICES ASSUME Nat \ S # {} PROVE FALSE
  OBVIOUS
<1>1. PICK n \in Nat \ S : \A m \in Nat \ S : n <= m
  BY Least
<1>2. n # 0 /\ n - 1 \in Nat /\ n - 1 + 1 = n /\ ~(n <= n - 1)
  BY <1>1
<1>3. n - 1 \in S
  BY <1>1, <1>2
<1> QED BY <1>1, <1>2, <1>3

\* A function may be defined by what it is at zero and a step.
LEMMA Recursion ==
  ASSUME NEW n \in Nat, NEW c \in Nat, NEW step \in [(1..n) \X Nat -> Nat]
  PROVE  \E f \in [0..n -> Nat] :
           f[0] = c /\ \A i \in 1..n : f[i] = step[<<i, f[i - 1]>>]
<1> DEFINE Upto(k) == \E f \in [0..k -> Nat] :
                        f[0] = c /\ \A i \in 1..k : f[i] = step[<<i, f[i - 1]>>]
           S == {k \in Nat : k <= n => Upto(k)}
<1>1. 0 \in S
  <2>1. [i \in 0..0 |-> c] \in [0..0 -> Nat] /\ [i \in 0..0 |-> c][0] = c /\ 1..0 = {}
    OBVIOUS
  <2>2. Upto(0)
    BY <2>1
  <2> HIDE DEF Upto
  <2> QED BY <2>2
<1>2. ASSUME NEW k \in Nat, k \in S PROVE k + 1 \in S
  <2> SUFFICES ASSUME k + 1 <= n PROVE Upto(k + 1)
    OBVIOUS
  <2>1. PICK f \in [0..k -> Nat] :
          f[0] = c /\ \A i \in 1..k : f[i] = step[<<i, f[i - 1]>>]
    BY <1>2
  <2> DEFINE v == step[<<k + 1, f[k]>>]
             g == [i \in 0..(k + 1) |-> IF i = k + 1 THEN v ELSE f[i]]
  <2>2. f[k] \in Nat /\ k + 1 \in 1..n
    OBVIOUS
  <2>3. v \in Nat
    BY <2>2
  <2> HIDE DEF v
  <2>4. g \in [0..(k + 1) -> Nat] /\ g[0] = c
    BY <2>1, <2>3
  <2>5. \A i \in 1..(k + 1) : g[i] = step[<<i, g[i - 1]>>]
    <3> SUFFICES ASSUME NEW i \in 1..(k + 1) PROVE g[i] = step[<<i, g[i - 1]>>]
      OBVIOUS
    <3>1. g[i - 1] = f[i - 1]
      OBVIOUS
    <3>2. CASE i = k + 1
      <4>1. i - 1 = k /\ g[i] = v
        BY <3>2
      <4> QED BY <3>1, <3>2, <4>1 DEF v
    <3>3. CASE i # k + 1
      <4>1. i \in 1..k /\ g[i] = f[i]
        BY <3>3
      <4> QED BY <2>1, <3>1, <4>1
    <3> QED BY <3>2, <3>3
  <2> HIDE DEF g
  <2> QED BY <2>4, <2>5
<1>3. Nat \subseteq S
  <2> HIDE DEF S
  <2> QED BY <1>1, <1>2, Induction
<1>4. Upto(n)
  <2> HIDE DEF Upto
  <2> QED BY <1>3
<1> QED BY <1>4

-----------------------------------------------------------------------------
(* The invariant *)

Ids  == Nat \cup WordId
Prof == [id : Ids, body : Body, serial : Nat]

Types ==
  /\ list \in Seq(Prof) /\ disk.list \in Seq(Prof)
  /\ next \in Nat /\ created \in Nat

\* The next id is above every number in the list.
Below(l, n) == \A i \in DOMAIN l : l[i].id \in Nat => l[i].id < n

Distinct(l) == \A i, j \in DOMAIN l : l[i].id = l[j].id => i = j

\* Every profile was created once.
Serials(l) ==
  /\ \A i \in DOMAIN l : l[i].serial < created
  /\ \A i, j \in DOMAIN l : l[i].serial = l[j].serial => i = j

StoreInv ==
  /\ Types
  /\ Below(list, next)
  /\ ~disorder => Distinct(list) /\ Distinct(disk.list)
  /\ Serials(list) /\ Serials(disk.list)
  /\ ~trouble => list = agreed /\ disk.list = agreed

-----------------------------------------------------------------------------
(* Lists of profiles *)

LEMMA LargestOfTwo ==
  ASSUME NEW m \in Nat, NEW n \in Nat
  PROVE  LET k == Largest({m, n}) IN k \in Nat /\ m <= k /\ n <= k
<1>1. \E k \in {m, n} \cup {0} : \A x \in {m, n} : x <= k
  <2>1. CASE m <= n
    BY <2>1
  <2>2. CASE n <= m
    BY <2>2
  <2> QED BY <2>1, <2>2
<1>2. /\ Largest({m, n}) \in {m, n} \cup {0}
      /\ \A x \in {m, n} : x <= Largest({m, n})
  BY <1>1 DEF Largest
<1> QED BY <1>2

\* maxID is at least every number in the list (dashboard.go:307-316).
LEMMA MaxIDIsAbove ==
  ASSUME NEW l \in Seq(Prof)
  PROVE  MaxID(l) \in Nat /\ Below(l, MaxID(l) + 1)
<1> DEFINE n == Len(l)
           T == {Number(l[i].id) : i \in DOMAIN l}
           S == {k \in Nat : k <= n =>
                   \E m \in T \cup {0} : \A i \in 1..k : Number(l[i].id) <= m}
<1>1. n \in Nat /\ DOMAIN l = 1..n /\ \A i \in 1..n : Number(l[i].id) \in Nat
  BY DEF Number
<1>2. T \subseteq Nat
  BY <1>1
<1>3. 0 \in S
  OBVIOUS
<1>4. ASSUME NEW k \in Nat, k \in S PROVE k + 1 \in S
  <2> SUFFICES ASSUME k + 1 <= n
               PROVE  \E m \in T \cup {0} : \A i \in 1..(k + 1) : Number(l[i].id) <= m
    OBVIOUS
  <2>1. PICK m \in T \cup {0} : \A i \in 1..k : Number(l[i].id) <= m
    <3>1. k <= n
      BY <1>1
    <3> HIDE DEF n, T
    <3> QED BY <1>4, <3>1
  <2>2. PICK x \in T : x = Number(l[k + 1].id)
    BY <1>1
  <2> HIDE DEF T
  <2>3. PICK y \in T \cup {0} : m <= y /\ x <= y
    <3>1. CASE m <= x
      BY <1>2, <2>2, <3>1
    <3>2. CASE x <= m
      BY <1>2, <2>1, <3>2
    <3> QED BY <1>2, <3>1, <3>2
  <2>4. \A i \in 1..(k + 1) : i \in 1..k \/ i = k + 1
    OBVIOUS
  <2>5. \A i \in 1..(k + 1) : Number(l[i].id) <= y
    <3>1. \A i \in 1..k : Number(l[i].id) \in Nat
      BY <1>1
    <3> QED BY <1>1, <1>2, <2>1, <2>2, <2>3, <2>4, <3>1
  <2> QED BY <2>3, <2>5
<1>5. n \in S
  <2> HIDE DEF S
  <2>1. Nat \subseteq S
    BY <1>3, <1>4, Induction
  <2> QED BY <1>1, <2>1
<1>6. \E m \in T \cup {0} : \A x \in T : x <= m
  <2>1. PICK m \in T \cup {0} : \A i \in 1..n : Number(l[i].id) <= m
    BY <1>1, <1>5
  <2>2. \A x \in T : x <= m
    BY <1>1, <2>1
  <2> QED BY <2>2
<1> HIDE DEF T
<1>7. Largest(T) \in T \cup {0} /\ \A x \in T : x <= Largest(T)
  BY <1>6 DEF Largest
<1>8. MaxID(l) = Largest(T)
  BY DEF MaxID, T
<1>9. Largest(T) \in Nat
  <2>1. T \cup {0} \subseteq Nat
    BY <1>2
  <2> QED BY <1>7, <2>1
<1>10. ASSUME NEW i \in DOMAIN l, l[i].id \in Nat PROVE l[i].id < Largest(T) + 1
  <2>1. Number(l[i].id) = l[i].id /\ Number(l[i].id) \in T
    BY <1>10 DEF Number, T
  <2> QED BY <1>7, <1>9, <1>10, <2>1
<1> QED BY <1>8, <1>9, <1>10 DEF Below

\* The first profile with the id of a profile of the list is one of the list.
LEMMA FirstIsListed ==
  ASSUME list \in Seq(Prof), NEW k \in DOMAIN list
  PROVE  First(list[k].id) \in DOMAIN list
<1> DEFINE H == Holders(list[k].id)
<1>1. H \in SUBSET Nat /\ H # {} /\ H \subseteq DOMAIN list
  BY DEF Holders
<1>2. \E i \in H : \A j \in H : i <= j
  <2> HIDE DEF H
  <2> QED BY <1>1, Least
<1>3. First(list[k].id) \in H
  BY <1>2 DEF First
<1> QED BY <1>1, <1>3

\* One profile is put at the end.
LEMMA Added ==
  ASSUME NEW l \in Seq(Prof), NEW p \in Prof
  PROVE  /\ Append(l, p) \in Seq(Prof)
         /\ DOMAIN Append(l, p) = DOMAIN l \cup {Len(l) + 1}
         /\ \A i \in DOMAIN l : Append(l, p)[i] = l[i] /\ i # Len(l) + 1
         /\ Append(l, p)[Len(l) + 1] = p
  OBVIOUS

\* One profile is taken out, and those behind it move up.
Without(l, k) == SubSeq(l, 1, k - 1) \o SubSeq(l, k + 1, Len(l))

LEMMA Removed ==
  ASSUME NEW l \in Seq(Prof), NEW k \in DOMAIN l
  PROVE  /\ Without(l, k) \in Seq(Prof)
         /\ \A i \in DOMAIN Without(l, k) :
              /\ i \in DOMAIN l /\ i + 1 \in DOMAIN l
              /\ Without(l, k)[i] = IF i < k THEN l[i] ELSE l[i + 1]
<1> DEFINE r == Without(l, k)
           a == SubSeq(l, 1, k - 1)
           b == SubSeq(l, k + 1, Len(l))
<1>1. Len(l) \in Nat /\ k \in 1..Len(l)
  OBVIOUS
<1>2. /\ a \in Seq(Prof) /\ Len(a) = k - 1
      /\ \A i \in 1..(k - 1) : a[i] = l[i]
  <2>1. \A i \in 1..(k - 1) : l[i] \in Prof
    BY <1>1
  <2> QED BY <1>1, <2>1
<1>3. /\ b \in Seq(Prof) /\ Len(b) = Len(l) - k
      /\ \A i \in 1..(Len(l) - k) : b[i] = l[i + k]
  <2>1. \A i \in (k + 1)..Len(l) : l[i] \in Prof
    BY <1>1
  <2> QED BY <1>1, <2>1
<1> HIDE DEF r, a, b
<1>4. /\ r \in Seq(Prof) /\ Len(r) = Len(l) - 1
      /\ \A i \in 1..(k - 1) : r[i] = l[i]
      /\ \A i \in k..(Len(l) - 1) : r[i] = l[i + 1]
  <2>1. r = a \o b
    BY DEF r, a, b, Without
  <2>2. /\ r \in Seq(Prof) /\ Len(r) = Len(a) + Len(b)
        /\ \A i \in 1..Len(r) : r[i] = IF i <= Len(a) THEN a[i] ELSE b[i - Len(a)]
    BY <1>2, <1>3, <2>1, ConcatProperties
  <2>3. Len(r) = Len(l) - 1
    <3>1. Len(r) = (k - 1) + (Len(l) - k)
      BY <1>2, <1>3, <2>2
    <3> QED BY <1>1, <3>1
  <2>4. \A i \in 1..(k - 1) : r[i] = l[i]
    BY <1>1, <1>2, <2>2, <2>3
  <2>5. ASSUME NEW i \in k..(Len(l) - 1) PROVE r[i] = l[i + 1]
    <3>1. i - (k - 1) \in 1..(Len(l) - k) /\ i - (k - 1) + k = i + 1
      BY <1>1
    <3>2. ~(i <= k - 1) /\ i \in 1..(Len(l) - 1)
      BY <1>1
    <3>3. r[i] = b[i - (k - 1)]
      BY <1>2, <2>2, <2>3, <3>2
    <3>4. b[i - (k - 1)] = l[i - (k - 1) + k]
      BY <1>3, <3>1
    <3> QED BY <3>1, <3>3, <3>4
  <2> QED BY <2>2, <2>3, <2>4, <2>5
<1>5. ASSUME NEW i \in DOMAIN r
      PROVE  /\ i \in DOMAIN l /\ i + 1 \in DOMAIN l
             /\ r[i] = IF i < k THEN l[i] ELSE l[i + 1]
  <2>1. i \in 1..(Len(l) - 1)
    BY <1>1, <1>4
  <2>2. i \in DOMAIN l /\ i + 1 \in DOMAIN l
    BY <1>1, <2>1
  <2>3. i < k => i \in 1..(k - 1)
    BY <1>1, <2>1
  <2>4. ~(i < k) => i \in k..(Len(l) - 1)
    BY <1>1, <2>1
  <2> QED BY <1>4, <2>2, <2>3, <2>4
<1> QED BY <1>4, <1>5 DEF r

\* A shorter list keeps what holds of each profile, or of every two.
LEMMA RemovedKeeps ==
  ASSUME NEW l \in Seq(Prof), NEW k \in DOMAIN l, NEW n, NEW r, r = Without(l, k)
  PROVE  /\ Below(l, n) => Below(r, n)
         /\ Distinct(l) => Distinct(r)
         /\ Serials(l) => Serials(r)
<1> DEFINE h(i) == IF i < k THEN i ELSE i + 1
<1>1. /\ r \in Seq(Prof)
      /\ \A i \in DOMAIN r : /\ i \in DOMAIN l /\ i + 1 \in DOMAIN l
                             /\ r[i] = IF i < k THEN l[i] ELSE l[i + 1]
  BY Removed
<1>2. \A i \in DOMAIN r : h(i) \in DOMAIN l /\ r[i] = l[h(i)]
  BY <1>1
<1>3. \A i, j \in DOMAIN r : h(i) = h(j) => i = j
  <2>1. \A i \in DOMAIN r : i \in Nat
    BY <1>1
  <2>2. k \in Nat
    OBVIOUS
  <2> QED BY <2>1, <2>2
<1> HIDE DEF h
<1>4. Below(l, n) => Below(r, n)
  BY <1>2 DEF Below
<1>5. Distinct(l) => Distinct(r)
  <2> SUFFICES ASSUME Distinct(l), NEW i \in DOMAIN r, NEW j \in DOMAIN r,
                      r[i].id = r[j].id
               PROVE  i = j
    BY DEF Distinct
  <2>1. h(i) = h(j)
    BY <1>2 DEF Distinct
  <2> QED BY <1>3, <2>1
<1>6. Serials(l) => Serials(r)
  <2> SUFFICES ASSUME Serials(l) PROVE Serials(r)
    OBVIOUS
  <2>1. \A i \in DOMAIN r : r[i].serial < created
    BY <1>2 DEF Serials
  <2>2. ASSUME NEW i \in DOMAIN r, NEW j \in DOMAIN r, r[i].serial = r[j].serial
        PROVE  i = j
    <3>1. h(i) = h(j)
      BY <1>2, <2>2 DEF Serials
    <3> QED BY <1>3, <3>1
  <2> QED BY <2>1, <2>2 DEF Serials
<1> QED BY <1>4, <1>5, <1>6

-----------------------------------------------------------------------------
(* Imported lists *)

LEMMA ImportsAreLists ==
  ASSUME NEW l \in Imports
  PROVE  l \in Seq(Import) /\ Len(l) \in Nat /\ DOMAIN l = 1..Len(l)
<1>1. PICK n \in 0..MaxImport : l \in [1..n -> Import]
  BY DEF Imports
<1>2. n \in Nat
  BY <1>1, ImportAssumption
<1> QED BY <1>1, <1>2

\* What the recursion of MaxAfter computes.
LEMMA MaxAfterIs ==
  ASSUME NEW l \in Seq(Import)
  PROVE  /\ MaxAfter(l) \in [0..Len(l) -> Nat]
         /\ MaxAfter(l)[0] = 0
         /\ \A i \in 1..Len(l) :
              MaxAfter(l)[i] = IF l[i].id = NoId THEN MaxAfter(l)[i - 1] + 1
                               ELSE Largest({MaxAfter(l)[i - 1], Number(l[i].id)})
<1> DEFINE n == Len(l)
           Step(i, v) == IF l[i].id = NoId THEN v + 1 ELSE Largest({v, Number(l[i].id)})
           step == [p \in (1..n) \X Nat |-> Step(p[1], p[2])]
           Is(f) == f = [i \in 0..n |-> IF i = 0 THEN 0 ELSE Step(i, f[i - 1])]
<1>1. n \in Nat /\ \A i \in 1..n : Number(l[i].id) \in Nat
  BY DEF Number
<1>2. ASSUME NEW i \in 1..n, NEW v \in Nat PROVE Step(i, v) \in Nat
  <2>1. Number(l[i].id) \in Nat
    BY <1>1
  <2>2. Largest({v, Number(l[i].id)}) \in Nat
    BY <2>1, LargestOfTwo
  <2> QED BY <2>2
<1> HIDE DEF Step
<1>3. step \in [(1..n) \X Nat -> Nat]
  BY <1>2
<1>4. \A i \in 1..n, v \in Nat : step[<<i, v>>] = Step(i, v)
  OBVIOUS
<1> HIDE DEF step
<1>5. PICK f \in [0..n -> Nat] :
        f[0] = 0 /\ \A i \in 1..n : f[i] = step[<<i, f[i - 1]>>]
  <2>1. n \in Nat /\ 0 \in Nat /\ step \in [(1..n) \X Nat -> Nat]
    BY <1>1, <1>3
  <2> HIDE DEF n
  <2> QED BY <2>1, Recursion
<1>6. Is(f)
  <2>1. \A i \in 0..n : f[i] = IF i = 0 THEN 0 ELSE Step(i, f[i - 1])
    <3> SUFFICES ASSUME NEW i \in 0..n, i # 0 PROVE f[i] = Step(i, f[i - 1])
      BY <1>5
    <3>1. i \in 1..n /\ i - 1 \in 0..n
      BY <1>1
    <3>2. f[i - 1] \in Nat
      BY <3>1
    <3> QED BY <1>4, <1>5, <3>1, <3>2
  <2>2. f = [i \in 0..n |-> f[i]]
    OBVIOUS
  <2> QED BY <2>1, <2>2
<1>7. ASSUME NEW g, Is(g)
      PROVE  g \in [0..n -> Nat]
  <2> DEFINE S == {k \in Nat : k <= n => g[k] \in Nat}
  <2>1. g = [i \in 0..n |-> IF i = 0 THEN 0 ELSE Step(i, g[i - 1])]
    BY <1>7
  <2> HIDE DEF Is
  <2>2. g[0] = 0 /\ \A i \in 1..n : g[i] = Step(i, g[i - 1])
    <3>1. \A i \in 0..n : g[i] = IF i = 0 THEN 0 ELSE Step(i, g[i - 1])
      BY <2>1, Zenon
    <3>2. \A i \in 1..n : i \in 0..n /\ i # 0
      BY <1>1
    <3>3. 0 \in 0..n
      BY <1>1
    <3> QED BY <3>1, <3>2, <3>3, Zenon
  <2>3. 0 \in S
    BY <2>2
  <2>4. ASSUME NEW k \in Nat, k \in S PROVE k + 1 \in S
    <3> SUFFICES ASSUME k + 1 <= n PROVE g[k + 1] \in Nat
      OBVIOUS
    <3>1. k + 1 \in 1..n /\ k + 1 - 1 = k /\ g[k] \in Nat
      BY <1>1, <2>4
    <3>2. g[k + 1] = Step(k + 1, g[k + 1 - 1])
      BY <2>2, <3>1
    <3>3. Step(k + 1, g[k]) \in Nat
      BY <1>2, <3>1
    <3> QED BY <3>1, <3>2, <3>3
  <2>5. Nat \subseteq S
    <3> HIDE DEF S
    <3> QED BY <2>3, <2>4, Induction
  <2>6. \A k \in 0..n : g[k] \in Nat
    BY <1>1, <2>5
  <2>7. g = [i \in 0..n |-> g[i]]
    BY <2>1, Zenon
  <2> QED BY <2>6, <2>7, Zenon
<1> HIDE DEF Is
<1>8. Is(CHOOSE g : Is(g))
  BY <1>6
<1>9. MaxAfter(l) = CHOOSE g : Is(g)
  BY DEF MaxAfter, Is, Step
<1>10. Is(MaxAfter(l))
  BY <1>8, <1>9
<1>11. MaxAfter(l) \in [0..n -> Nat]
  BY <1>7, <1>10
<1>12. /\ MaxAfter(l)[0] = 0
       /\ \A i \in 1..n : MaxAfter(l)[i] = Step(i, MaxAfter(l)[i - 1])
  BY <1>1, <1>10 DEF Is
<1> QED BY <1>11, <1>12 DEF Step

\* The next number never falls, passes every number named, and rises where an
\* entry is given one.
LEMMA MaxAfterRises ==
  ASSUME NEW l \in Seq(Import), NEW m, m = MaxAfter(l)
  PROVE  /\ m \in [0..Len(l) -> Nat]
         /\ \A i, j \in 0..Len(l) : i <= j => m[i] <= m[j]
         /\ \A i \in 1..Len(l) : IF l[i].id = NoId THEN m[i] = m[i - 1] + 1
                                 ELSE Number(l[i].id) <= m[i]
<1> DEFINE n == Len(l)
<1>1. /\ n \in Nat /\ m \in [0..n -> Nat]
      /\ \A i \in 1..n : m[i] = IF l[i].id = NoId THEN m[i - 1] + 1
                                ELSE Largest({m[i - 1], Number(l[i].id)})
  BY MaxAfterIs
<1>2. ASSUME NEW i \in 1..n
      PROVE  /\ m[i - 1] <= m[i]
             /\ IF l[i].id = NoId THEN m[i] = m[i - 1] + 1
                ELSE Number(l[i].id) <= m[i]
  <2>1. i - 1 \in 0..n /\ m[i - 1] \in Nat /\ Number(l[i].id) \in Nat
    BY <1>1 DEF Number
  <2>2. m[i - 1] <= Largest({m[i - 1], Number(l[i].id)})
        /\ Number(l[i].id) <= Largest({m[i - 1], Number(l[i].id)})
    BY <2>1, LargestOfTwo
  <2>3. CASE l[i].id = NoId
    <3>1. m[i] = m[i - 1] + 1
      BY <1>1, <2>3
    <3>2. m[i - 1] <= m[i]
      BY <2>1, <3>1
    <3> QED BY <2>3, <3>1, <3>2
  <2>4. CASE l[i].id # NoId
    BY <1>1, <2>2, <2>4
  <2> QED BY <2>3, <2>4
<1>3. ASSUME NEW i \in 0..n, NEW j \in 0..n, i <= j PROVE m[i] <= m[j]
  <2> DEFINE S == {k \in Nat : i <= k /\ k <= n => m[i] <= m[k]}
  <2>1. 0 \in S
    BY <1>1
  <2>2. ASSUME NEW k \in Nat, k \in S PROVE k + 1 \in S
    <3> SUFFICES ASSUME i <= k + 1, k + 1 <= n PROVE m[i] <= m[k + 1]
      OBVIOUS
    <3>1. CASE i = k + 1
      BY <1>1, <3>1
    <3>2. CASE i # k + 1
      <4>1. i <= k /\ k <= n /\ k + 1 \in 1..n /\ k + 1 - 1 = k /\ k \in 0..n
            /\ k + 1 \in 0..n
        BY <1>1, <3>2
      <4>2. m[i] <= m[k] /\ m[k] <= m[k + 1]
        BY <1>2, <2>2, <4>1
      <4>3. m[i] \in Nat /\ m[k] \in Nat /\ m[k + 1] \in Nat
        BY <1>1, <4>1
      <4> QED BY <4>2, <4>3
    <3> QED BY <3>1, <3>2
  <2>3. Nat \subseteq S
    <3> HIDE DEF S
    <3> QED BY <2>1, <2>2, Induction
  <2> QED BY <1>3, <2>3
<1> QED BY <1>1, <1>2, <1>3

\* An imported list, with its numbers given out.
LEMMA CleanedIs ==
  ASSUME NEW l \in Imports, created \in Nat, NEW c, c = Cleaned(l)
  PROVE  /\ c \in Seq(Prof) /\ DOMAIN c = 1..Len(l) /\ Len(l) \in Nat
         /\ NextAfter(l) \in Nat /\ Below(c, NextAfter(l))
         /\ ~Disorderly(l) => Distinct(c)
         /\ \A i \in 1..Len(l) : c[i].serial = created + i - 1
<1> DEFINE n == Len(l)
           m == MaxAfter(l)
<1>1. l \in Seq(Import) /\ n \in Nat /\ DOMAIN l = 1..n
  BY ImportsAreLists
<1>2. /\ m \in [0..n -> Nat]
      /\ \A i, j \in 0..n : i <= j => m[i] <= m[j]
      /\ \A i \in 1..n : IF l[i].id = NoId THEN m[i] = m[i - 1] + 1
                         ELSE Number(l[i].id) <= m[i]
  BY <1>1, MaxAfterRises
<1> HIDE DEF m
<1>3. \A i \in 1..n : /\ l[i].id \in {NoId} \cup (1..MaxImportId) \cup WordId
                      /\ l[i].body \in Body
  <2>1. \A i \in 1..n : l[i] \in Import
    BY <1>1
  <2> QED BY <2>1 DEF Import
<1>4. /\ DOMAIN c = 1..n
      /\ \A i \in 1..n : /\ c[i].id = IF l[i].id = NoId THEN m[i] ELSE l[i].id
                         /\ c[i].body = l[i].body
                         /\ c[i].serial = created + i - 1
                         /\ c[i] = Profile(c[i].id, c[i].body, c[i].serial)
      /\ c = [i \in 1..n |-> c[i]]
  BY <1>1 DEF Cleaned, Profile, m
<1>5. \A i \in 1..n : c[i].id \in Ids
  <2> SUFFICES ASSUME NEW i \in 1..n PROVE c[i].id \in Nat \cup WordId
    BY DEF Ids
  <2>1. CASE l[i].id = NoId
    <3>1. m[i] \in Nat
      BY <1>1, <1>2
    <3> QED BY <1>4, <2>1, <3>1
  <2>2. CASE l[i].id # NoId
    <3>1. l[i].id \in (1..MaxImportId) \cup WordId
      BY <1>3, <2>2
    <3>2. c[i].id = l[i].id
      BY <1>4, <2>2
    <3> QED BY <3>1, <3>2, ImportAssumption
  <2> QED BY <2>1, <2>2
<1>6. c \in Seq(Prof)
  <2>1. \A i \in 1..n : c[i] \in Prof
    <3> SUFFICES ASSUME NEW i \in 1..n PROVE c[i] \in Prof
      OBVIOUS
    <3>1. c[i].id \in Ids /\ c[i].body \in Body /\ c[i].serial \in Nat
      BY <1>1, <1>3, <1>4, <1>5
    <3>2. Profile(c[i].id, c[i].body, c[i].serial) \in Prof
      BY <3>1 DEF Prof, Profile
    <3> QED BY <1>4, <3>2
  <2> QED BY <1>1, <1>4, <2>1
<1>7. \A i \in 1..n : m[i] <= m[n] /\ m[n] \in Nat /\ m[i] \in Nat
  BY <1>1, <1>2
<1>8. NextAfter(l) = m[n] + 1 /\ m[n] \in Nat
  BY <1>1, <1>2 DEF NextAfter, m
<1>9. Below(c, NextAfter(l))
  <2> SUFFICES ASSUME NEW i \in 1..n, c[i].id \in Nat PROVE c[i].id < m[n] + 1
    BY <1>4, <1>8 DEF Below
  <2>1. CASE l[i].id = NoId
    BY <1>4, <1>7, <2>1
  <2>2. CASE l[i].id # NoId
    <3>1. Number(l[i].id) = c[i].id /\ Number(l[i].id) <= m[i]
      BY <1>2, <1>4, <2>2 DEF Number
    <3> QED BY <1>7, <3>1
  <2> QED BY <2>1, <2>2
<1>10. ASSUME ~Disorderly(l), NEW i \in 1..n, NEW j \in 1..n, i < j
       PROVE  c[i].id # c[j].id
  <2>1. l[j].id # NoId => l[i].id # NoId /\ l[i].id # l[j].id
    BY <1>1, <1>10 DEF Disorderly
  <2>2. CASE l[j].id # NoId
    BY <1>4, <2>1, <2>2
  <2>3. CASE l[j].id = NoId
    <3>1. /\ c[j].id = m[j] /\ m[j] = m[j - 1] + 1
          /\ j - 1 \in 0..n /\ i \in 0..n /\ i <= j - 1
      BY <1>1, <1>2, <1>4, <1>10, <2>3
    <3>2. m[i] <= m[j - 1] /\ m[i] \in Nat /\ m[j - 1] \in Nat
      BY <1>2, <3>1
    <3>3. m[i] < c[j].id
      BY <3>1, <3>2
    <3>4. CASE l[i].id = NoId
      BY <1>4, <3>2, <3>3, <3>4
    <3>5. CASE l[i].id # NoId
      <4>1. c[i].id \in Nat => c[i].id <= m[i]
        BY <1>2, <1>4, <3>5 DEF Number
      <4> QED BY <3>1, <3>2, <3>3, <4>1
    <3> QED BY <3>4, <3>5
  <2> QED BY <2>2, <2>3
<1>11. ~Disorderly(l) => Distinct(c)
  <2> SUFFICES ASSUME ~Disorderly(l), NEW i \in 1..n, NEW j \in 1..n, i # j
               PROVE  c[i].id # c[j].id
    BY <1>4 DEF Distinct
  <2>1. i < j \/ j < i
    BY <1>1
  <2> QED BY <1>10, <2>1
<1> QED BY <1>1, <1>4, <1>6, <1>8, <1>9, <1>11

-----------------------------------------------------------------------------
(* The steps *)

\* The list in the file is the old one, the new one or none.
LEMMA SaveFacts ==
  ASSUME NEW l, NEW o \in Outcome, Save(l, o)
  PROVE  /\ disk'.list \in {disk.list, l, <<>>}
         /\ o = "ok" => disk'.list = l
         /\ ~trouble' => ~trouble /\ o = "ok"
<1>1. disk' \in {disk, File(l), File(<<>>), Torn} /\ (o = "ok" => disk' = File(l))
  BY DEF Save, Outcome
<1>2. ~trouble' => ~trouble /\ o = "ok"
  BY DEF Save
<1> QED BY <1>1, <1>2 DEF File, Torn

LEMMA EmptyKeeps ==
  /\ <<>> \in Seq(Prof) /\ Distinct(<<>>)
  /\ Serials(<<>>) /\ Serials(<<>>)'
BY DEF Distinct, Serials

\* What must hold of the new list for a save of it to keep the invariant, whatever
\* becomes of the file.
LEMMA SavedKeeps ==
  ASSUME StoreInv, NEW l, NEW o \in Outcome, Save(l, o), Report(o, l) \/ o = "error",
         list' = l, l \in Seq(Prof), next' \in Nat, created' \in Nat,
         created <= created',
         Below(l, next'), disorder => disorder', ~disorder' => Distinct(l),
         Serials(l)'
  PROVE  StoreInv'
<1>1. /\ disk'.list \in {disk.list, l, <<>>}
      /\ ~trouble' => ~trouble /\ disk'.list = l /\ o = "ok"
  BY SaveFacts
<1>2. disk'.list \in Seq(Prof) /\ (~disorder' => Distinct(disk'.list))
  BY <1>1, EmptyKeeps DEF StoreInv, Types
<1>3. Serials(disk.list)'
  <2>1. ASSUME NEW k, Serials(k), k \in Seq(Prof) PROVE Serials(k)'
    <3>1. \A i \in DOMAIN k : k[i] \in Prof
      BY <2>1
    <3>2. \A i \in DOMAIN k : k[i].serial \in Nat
      BY <3>1 DEF Prof
    <3> QED BY <2>1, <3>2 DEF Serials, StoreInv, Types
  <2>2. PICK k : k = disk'.list
    OBVIOUS
  <2>3. Serials(k)'
    BY <1>1, <2>1, <2>2, EmptyKeeps DEF StoreInv, Types
  <2> QED BY <2>2, <2>3 DEF Serials
<1>4. ~trouble' => list' = agreed' /\ disk'.list = agreed'
  BY <1>1 DEF Report
<1>5. Types' /\ Below(list, next)' /\ (~disorder' => Distinct(list')) /\ Serials(list)'
  BY <1>2 DEF Types, Below, Serials, Distinct
<1> QED BY <1>2, <1>3, <1>4, <1>5 DEF StoreInv, Distinct

LEMMA AddKeeps ==
  ASSUME StoreInv, NEW b \in Body, NEW o \in Outcome, Add(b, o)
  PROVE  StoreInv' /\ (result' = "error" => SameEntries)
<1> DEFINE p == Profile(next, b, created)
<1>1. PICK l : l = Append(list, p)
  OBVIOUS
<1>2. /\ list' = l /\ next' = next + 1 /\ created' = created + 1 /\ Save(l, o)
      /\ Report(o, l) /\ disorder' = disorder
  BY <1>1 DEF Add
<1>3. /\ p \in Prof /\ p.id = next /\ p.serial = created
      /\ list \in Seq(Prof) /\ next \in Nat /\ created \in Nat
  BY DEF StoreInv, Types, Prof, Ids, Profile
<1> HIDE DEF p
<1>4. PICK n : n = Len(list) + 1
  OBVIOUS
<1>5. /\ l \in Seq(Prof) /\ DOMAIN l = DOMAIN list \cup {n}
      /\ \A i \in DOMAIN list : l[i] = list[i] /\ i # n
      /\ l[n] = p
  BY <1>1, <1>3, <1>4, Added
<1>6. \A i \in DOMAIN list : list[i] \in Prof
  BY <1>3
<1>7. \A i \in DOMAIN list : /\ list[i].id \in Nat => list[i].id < next
                             /\ list[i].serial \in Nat /\ list[i].serial < created
  BY <1>6 DEF StoreInv, Below, Serials, Prof
<1>8. Below(l, next + 1)
  <2> SUFFICES ASSUME NEW i \in DOMAIN l, l[i].id \in Nat PROVE l[i].id < next + 1
    BY DEF Below
  <2> QED BY <1>3, <1>5, <1>7
<1>9. ~disorder => Distinct(l)
  <2> SUFFICES ASSUME Distinct(list), NEW i \in DOMAIN l, NEW j \in DOMAIN l,
                      l[i].id = l[j].id
               PROVE  i = j
    BY DEF Distinct, StoreInv
  <2>1. \A k \in DOMAIN list : list[k].id # next
    BY <1>3, <1>7
  <2> QED BY <1>3, <1>5, <2>1 DEF Distinct
<1>10. Serials(l)'
  <2>1. \A i \in DOMAIN l : l[i].serial < created + 1
    BY <1>3, <1>5, <1>7
  <2>2. \A k \in DOMAIN list : list[k].serial # created
    BY <1>3, <1>7
  <2>3. \A i, j \in DOMAIN l : l[i].serial = l[j].serial => i = j
    BY <1>3, <1>5, <2>2 DEF StoreInv, Serials
  <2> QED BY <1>2, <2>1, <2>3 DEF Serials
<1>11. StoreInv'
  BY <1>2, <1>3, <1>5, <1>8, <1>9, <1>10, SavedKeeps
<1>12. SameEntries
  <2>1. \A k \in DOMAIN list : list[k].serial # created
    BY <1>3, <1>7
  <2> QED BY <1>2, <1>3, <1>5, <2>1 DEF SameEntries, StoreInv, Serials
<1> QED BY <1>11, <1>12

LEMMA RemoveKeeps ==
  ASSUME StoreInv, NEW k \in DOMAIN list, NEW o \in Outcome, Remove(list[k].id, o)
  PROVE  StoreInv' /\ result' # "error"
<1>1. PICK f : f = First(list[k].id)
  OBVIOUS
<1>2. PICK l : l = Without(list, f)
  OBVIOUS
<1>3. /\ list' = l /\ Save(l, o) /\ (Report(o, l) \/ o = "error") /\ result' # "error"
      /\ next' = next /\ created' = created /\ disorder' = disorder
  BY <1>1, <1>2 DEF Remove, Report, Without, Outcome
<1>4. list \in Seq(Prof) /\ next \in Nat /\ created \in Nat
  BY DEF StoreInv, Types
<1>5. f \in DOMAIN list
  BY <1>1, <1>4, FirstIsListed
<1>6. l \in Seq(Prof)
  BY <1>2, <1>4, <1>5, Removed
<1>7. /\ Below(list, next) => Below(l, next)
      /\ Distinct(list) => Distinct(l)
      /\ Serials(list) => Serials(l)
  BY <1>2, <1>4, <1>5, RemovedKeeps
<1>8. Serials(l)'
  BY <1>3, <1>7 DEF StoreInv, Serials
<1>9. Below(l, next') /\ (~disorder' => Distinct(l))
  BY <1>3, <1>7 DEF StoreInv
<1>10. created <= created'
  BY <1>3, <1>4
<1> QED BY <1>3, <1>4, <1>6, <1>8, <1>9, <1>10, SavedKeeps

LEMMA UpdateKeeps ==
  ASSUME StoreInv, NEW k \in DOMAIN list, NEW b \in Body \cup {BadBody}, NEW o \in Outcome,
         Update(list[k].id, b, o)
  PROVE  StoreInv' /\ (result' = "error" => SameEntries)
<1>1. PICK f : f = First(list[k].id)
  OBVIOUS
<1>2. PICK l : l = [list EXCEPT ![f].body = b]
  OBVIOUS
<1>3. list \in Seq(Prof) /\ next \in Nat /\ created \in Nat
  BY DEF StoreInv, Types
<1>4. f \in DOMAIN list
  BY <1>1, <1>3, FirstIsListed
<1>5. UNCHANGED <<next, created, disorder>>
  BY DEF Update
<1>6. list' = list => SameEntries
  BY DEF SameEntries, StoreInv, Serials
<1>7. CASE b \notin Body
  <2>1. UNCHANGED <<list, disk, trouble, agreed>>
    BY <1>7 DEF Update, NoSave, Report
  <2> QED BY <1>5, <1>6, <2>1 DEF StoreInv, Types, Below, Distinct, Serials
<1>8. CASE b \in Body
  <2>1. /\ Save(l, o) /\ Report(o, l) /\ list' = IF o = "error" THEN list ELSE l
        /\ result' = o
    BY <1>1, <1>2, <1>8 DEF Update, Report
  <2>2. /\ l \in Seq(Prof) /\ DOMAIN l = DOMAIN list
        /\ \A i \in DOMAIN list : l[i].id = list[i].id /\ l[i].serial = list[i].serial
    <3>1. \A i \in DOMAIN list : list[i] \in Prof
      BY <1>3
    <3>2. DOMAIN l = DOMAIN list
          /\ \A i \in DOMAIN list :
               l[i] = IF i = f THEN [list[f] EXCEPT !.body = b] ELSE list[i]
      BY <1>2, <1>4
    <3>3. [list[f] EXCEPT !.body = b] \in Prof
          /\ [list[f] EXCEPT !.body = b].id = list[f].id
          /\ [list[f] EXCEPT !.body = b].serial = list[f].serial
      BY <1>4, <1>8, <3>1 DEF Prof
    <3>4. \A i \in DOMAIN list : l[i] \in Prof
      BY <3>1, <3>2, <3>3
    <3>5. l = [i \in 1..Len(list) |-> l[i]] /\ Len(list) \in Nat
      <4>1. DOMAIN list = 1..Len(list) /\ Len(list) \in Nat
        BY <1>3
      <4>2. l = [i \in DOMAIN list |-> l[i]]
        BY <1>2, Zenon
      <4> QED BY <4>1, <4>2, Zenon
    <3>6. l \in Seq(Prof)
      <4>1. PICK m : m = Len(list)
        OBVIOUS
      <4>2. m \in Nat /\ \A i \in 1..m : l[i] \in Prof
        BY <1>3, <3>4, <4>1
      <4>3. l \in [1..m -> Prof]
        BY <3>5, <4>1, <4>2, Zenon
      <4>4. \E n \in Nat : l \in [1..n -> Prof]
        BY <4>2, <4>3, Zenon
      <4>5. Seq(Prof) = UNION {[1..n -> Prof] : n \in Nat}
        BY SeqDef, Zenon
      <4> QED BY <4>4, <4>5, Zenon
    <3> QED BY <3>2, <3>3, <3>6
  <2>3. /\ Below(l, next) /\ (~disorder => Distinct(l)) /\ Serials(l)
    BY <2>2 DEF StoreInv, Below, Distinct, Serials
  <2>4. Serials(l)' /\ created <= created'
    BY <1>3, <1>5, <2>3 DEF Serials
  <2>5. CASE o # "error"
    BY <1>3, <1>5, <2>1, <2>2, <2>3, <2>4, <2>5, SavedKeeps
  <2>6. CASE o = "error"
    <3>1. list' = list /\ disk'.list \in {disk.list, l, <<>>} /\ trouble'
      BY <2>1, <2>6, SaveFacts
    <3>2. disk'.list \in Seq(Prof) /\ (~disorder' => Distinct(disk'.list))
      BY <1>5, <2>2, <2>3, <3>1, EmptyKeeps DEF StoreInv, Types
    <3>3. Serials(disk.list)'
      BY <1>5, <2>3, <3>1, EmptyKeeps DEF StoreInv, Serials
    <3> QED BY <1>5, <1>6, <3>1, <3>2, <3>3 DEF StoreInv, Types, Below, Distinct, Serials
  <2> QED BY <2>1, <2>5, <2>6
<1> QED BY <1>7, <1>8

LEMMA ReplaceAllKeeps ==
  ASSUME StoreInv, NEW l \in Imports, NEW o \in Outcome, ReplaceAll(l, o)
  PROVE  StoreInv' /\ (result' = "error" => SameEntries)
<1>1. PICK c : c = Cleaned(l)
  OBVIOUS
<1>2. /\ list' = c /\ next' = NextAfter(l) /\ Save(c, o) /\ Report(o, c)
      /\ created' = created + Len(l)
      /\ disorder' = (disorder \/ Disorderly(l))
  BY <1>1 DEF ReplaceAll
<1>3. list \in Seq(Prof) /\ created \in Nat
  BY DEF StoreInv, Types
<1>4. /\ c \in Seq(Prof) /\ DOMAIN c = 1..Len(l) /\ Len(l) \in Nat
      /\ NextAfter(l) \in Nat /\ Below(c, NextAfter(l))
      /\ ~Disorderly(l) => Distinct(c)
      /\ \A i \in 1..Len(l) : c[i].serial = created + i - 1
  BY <1>1, <1>3, CleanedIs
<1>5. Serials(c)'
  <2>1. \A i \in 1..Len(l) : c[i].serial < created + Len(l)
    BY <1>3, <1>4
  <2>2. \A i, j \in 1..Len(l) : c[i].serial = c[j].serial => i = j
    BY <1>3, <1>4
  <2> QED BY <1>2, <1>4, <2>1, <2>2 DEF Serials
<1>6. created' \in Nat /\ created <= created'
  BY <1>2, <1>3, <1>4
<1>7. disorder => disorder'
  BY <1>2
<1>8. ~disorder' => Distinct(c)
  BY <1>2, <1>4
<1>9. StoreInv'
  BY <1>2, <1>4, <1>5, <1>6, <1>7, <1>8, SavedKeeps
<1>10. SameEntries
  <2> SUFFICES ASSUME NEW i \in DOMAIN list, NEW j \in DOMAIN c,
                      list[i].serial = c[j].serial
               PROVE  FALSE
    BY <1>2 DEF SameEntries
  <2>1. list[i].serial < created /\ list[i].serial \in Nat
    <3>1. list[i] \in Prof
      BY <1>3
    <3> QED BY <3>1 DEF StoreInv, Serials, Prof
  <2>2. c[j].serial = created + j - 1 /\ j \in Nat /\ 1 <= j
    BY <1>4
  <2> QED BY <1>3, <2>1, <2>2
<1> QED BY <1>9, <1>10

\* A crash between operations, and the start that reads the file.
LEMMA ProcessKeeps ==
  ASSUME StoreInv, Crash \/ Load
  PROVE  StoreInv' /\ result' # "error"
<1>1. CASE Crash
  BY <1>1 DEF Crash, StoreInv, Types, Below, Distinct, Serials
<1>2. CASE Load
  <2>1. /\ list' = disk.list /\ next' = MaxID(disk.list) + 1 /\ result' = "none"
        /\ UNCHANGED <<disk, created, agreed, trouble, disorder>>
    BY <1>2 DEF Load, NextOnLoad
  <2>2. MaxID(disk.list) \in Nat /\ Below(disk.list, MaxID(disk.list) + 1)
    BY MaxIDIsAbove DEF StoreInv, Types
  <2>3. Below(list, next)'
    BY <2>1, <2>2 DEF Below
  <2>4. Types'
    BY <2>1, <2>2 DEF StoreInv, Types
  <2> QED BY <2>1, <2>3, <2>4 DEF StoreInv, Distinct, Serials
<1> QED BY <1>1, <1>2

-----------------------------------------------------------------------------
(* The theorems *)

LEMMA NextKeeps ==
  ASSUME StoreInv, StoreNext
  PROVE  StoreInv' /\ (result' = "error" => SameEntries)
<1>1. CASE Crash \/ Load
  BY <1>1, ProcessKeeps
<1>2. ASSUME NEW o \in Outcome, NEW b \in Body, Add(b, o)
      PROVE  StoreInv' /\ (result' = "error" => SameEntries)
  BY <1>2, AddKeeps
<1>3. ASSUME NEW o \in Outcome, NEW i \in DOMAIN list, Remove(list[i].id, o)
      PROVE  StoreInv' /\ (result' = "error" => SameEntries)
  BY <1>3, RemoveKeeps
<1>4. ASSUME NEW o \in Outcome, NEW i \in DOMAIN list, NEW b \in Body \cup {BadBody},
             Update(list[i].id, b, o)
      PROVE  StoreInv' /\ (result' = "error" => SameEntries)
  BY <1>4, UpdateKeeps
<1>5. ASSUME NEW o \in Outcome, NEW l \in Imports, ReplaceAll(l, o)
      PROVE  StoreInv' /\ (result' = "error" => SameEntries)
  BY <1>5, ReplaceAllKeeps
<1> QED BY <1>1, <1>2, <1>3, <1>4, <1>5 DEF StoreNext

LEMMA Stutter ==
  ASSUME StoreInv, UNCHANGED storeVars
  PROVE  StoreInv'
BY DEF storeVars, history, StoreInv, Types, Below, Distinct, Serials

LEMMA StoreInitHolds ==
  ASSUME StoreInit
  PROVE  StoreInv
<1>1. /\ list = <<>> /\ disk.list = <<>> /\ next = 1 /\ created = 0 /\ agreed = <<>>
  BY DEF StoreInit, File
<1>2. Below(<<>>, 1)
  BY DEF Below
<1> QED BY <1>1, <1>2, EmptyKeeps DEF StoreInv, Types

LEMMA StoreInductive == StoreSpec => []StoreInv
<1>1. StoreInit => StoreInv
  BY StoreInitHolds
<1>2. StoreInv /\ [StoreNext]_storeVars => StoreInv'
  BY NextKeeps, Stutter
<1> QED BY <1>1, <1>2, PTL DEF StoreSpec

\* Without an import that repeats an id, or names one after an entry it left
\* without, no two profiles have the same id: across any number of changes, failed
\* or interrupted writes and restarts (dashboard.go:206-305).
THEOREM IdsAreUnique == StoreSpec => []UniqueIds
<1>1. StoreInv => UniqueIds
  BY DEF StoreInv, UniqueIds, Distinct
<1> QED BY <1>1, StoreInductive, PTL

\* As long as every write succeeded, the list is what the last operation that
\* reported success left, whatever was restarted in between (dashboard.go:179-305).
THEOREM ReportedSurvives == StoreSpec => []ChangesSurvive
<1>1. StoreInv => ChangesSurvive
  BY DEF StoreInv, ChangesSurvive
<1> QED BY <1>1, StoreInductive, PTL

\* An operation that reports an error changes no profile that stays in memory
\* (dashboard.go:247-273).
THEOREM ErrorsChangeNothing == StoreSpec => FailedUpdateUndone
<1>1. StoreInv /\ [StoreNext]_storeVars => [result' = "error" => SameEntries]_storeVars
  BY NextKeeps
<1> QED BY <1>1, StoreInductive, PTL DEF StoreSpec, FailedUpdateUndone


-----------------------------------------------------------------------------
(* The proxy manager *)

USE NoOneAssumption, BoundAssumption

ServerRec == [provider : Provider, addr : Addr, listener : {"open", "closed"},
              serve : {"pending", "serving", "returned"}, shut : BOOLEAN]
RequestRec == [server : Server, verdict : Verdict \cup {"pending"}]

\* A call past the mutex holds it, and once it has stopped the old server the
\* manager knows none.
CallOK(c) ==
  /\ op[c].kind = "start" => op[c].provider \in Provider /\ op[c].addr \in Addr
  /\ op[c].step \in {"stopping", "draining", "listening"} => mu = c
  /\ op[c].step \in {"draining", "listening"} => current = NoOne
  /\ op[c].step = "draining" => op[c].victim \in DOMAIN servers

\* A server that is not the manager's was shut down, and one that was shut down
\* takes no requests, whether its goroutine served before or after.
ServerOK(s) ==
  /\ ~servers[s].shut => s = current
  /\ servers[s].shut => ~Accepting(s)

RequestOK(r) == requests[r].server \in DOMAIN servers

Bounded == Len(servers) <= MaxServers /\ Len(requests) <= MaxRequests

DecisionOK(d) ==
  /\ d.request \in DOMAIN requests
  /\ d.provider = servers[requests[d.request].server].provider

IInv ==
  /\ TypeOK /\ Bounded
  /\ \A c \in Caller : CallOK(c)
  /\ \A s \in DOMAIN servers : ServerOK(s)
  /\ \A r \in DOMAIN requests : RequestOK(r)
  /\ \A d \in decisions : DecisionOK(d)

\* Appending to a sequence keeps what was there and adds one element.
LEMMA AppendFacts ==
  ASSUME NEW S, NEW q \in Seq(S), NEW e \in S
  PROVE  /\ Append(q, e) \in Seq(S)
         /\ Len(Append(q, e)) = Len(q) + 1
         /\ DOMAIN Append(q, e) = DOMAIN q \cup {Len(q) + 1}
         /\ \A i \in DOMAIN q : Append(q, e)[i] = q[i]
         /\ Append(q, e)[Len(q) + 1] = e
         /\ DOMAIN q = 1..Len(q) /\ Len(q) \in Nat
OBVIOUS

\* Changing one element of a sequence keeps its length.
LEMMA ExceptFacts ==
  ASSUME NEW S, NEW q \in Seq(S), NEW i \in DOMAIN q, NEW e \in S
  PROVE  /\ [q EXCEPT ![i] = e] \in Seq(S)
         /\ Len([q EXCEPT ![i] = e]) = Len(q)
         /\ DOMAIN [q EXCEPT ![i] = e] = DOMAIN q
OBVIOUS

\* The servers of a state that satisfies the invariant are well formed.
LEMMA ServersTyped ==
  ASSUME IInv
  PROVE  /\ servers \in Seq(ServerRec)
         /\ \A s \in DOMAIN servers : servers[s] \in ServerRec
<1>1. servers \in Seq(ServerRec)
  BY DEF IInv, TypeOK, ServerRec
<1> QED BY <1>1

LEMMA InitHolds == Init => IInv
BY DEF Init, IInv, TypeOK, Bounded, CallOK, Idle, OpType

-----------------------------------------------------------------------------
(* The API calls *)

\* A change of one call's state leaves the calls well typed.
LEMMA OpChanges ==
  ASSUME IInv, NEW c \in Caller, NEW e \in OpType,
         op' = [op EXCEPT ![c] = e]
  PROVE  /\ op' \in [Caller -> OpType] /\ op'[c] = e
         /\ \A d \in Caller \ {c} : op'[d] = op[d]
<1>1. op \in [Caller -> OpType]
  BY DEF IInv, TypeOK
<1> QED BY <1>1

\* A call that moves on to its next step changes nothing else of its state.
LEMMA EnterFacts ==
  ASSUME IInv, NEW c \in Caller,
         NEW s \in {"idle", "waiting", "stopping", "draining", "listening"},
         Enter(c, s)
  PROVE  /\ op' \in [Caller -> OpType]
         /\ \A d \in Caller \ {c} : op'[d] = op[d]
         /\ op'[c].step = s /\ op'[c].kind = op[c].kind
         /\ op'[c].provider = op[c].provider /\ op'[c].addr = op[c].addr
         /\ op'[c].victim = op[c].victim
<1> DEFINE e == [op[c] EXCEPT !.step = s]
<1>1. op[c] \in OpType
  BY DEF IInv, TypeOK
<1>2. /\ e \in OpType /\ e.step = s /\ e.kind = op[c].kind
      /\ e.provider = op[c].provider /\ e.addr = op[c].addr
      /\ e.victim = op[c].victim
  BY <1>1 DEF OpType
<1>3. op' = [op EXCEPT ![c] = e]
  BY DEF Enter
<1> HIDE DEF e
<1> QED BY <1>2, <1>3, OpChanges

LEMMA StatusCallIs ==
  /\ StatusCall \in OpType /\ StatusCall.kind = "status" /\ StatusCall.step = "waiting"
BY DEF StatusCall, Idle, OpType

\* A state whose servers and requests have not changed satisfies what the
\* invariant says of them, and its types are those of what did change.
LEMMA TypesKept ==
  ASSUME IInv, op' \in [Caller -> OpType], mu' \in Caller \cup {NoOne},
         events' \in Seq([kind : {"started", "stopped", "error"},
                          provider : Provider]),
         UNCHANGED <<current, servers, requests, decisions>>
  PROVE  /\ TypeOK' /\ Bounded'
         /\ (\A d \in Caller : CallOK(d)') => IInv'
<1>1. TypeOK' /\ Bounded'
  BY DEF IInv, TypeOK, Bounded
<1> QED BY <1>1 DEF IInv, ServerOK, RequestOK, DecisionOK, Accepting, Open

\* A call enters: it holds nothing yet.
LEMMA CallKeeps ==
  ASSUME IInv, NEW c \in Caller,
         NEW k \in {"start", "stop", "status"},
         NEW p \in Provider \cup {NoOne}, NEW a \in Addr \cup {NoOne},
         k = "start" => p \in Provider /\ a \in Addr,
         Call(c, k, p, a)
  PROVE  IInv'
<1> DEFINE e == [kind |-> k, step |-> "waiting", provider |-> p, addr |-> a,
                 victim |-> NoOne]
<1>1. e \in OpType
  BY DEF OpType
<1>2. /\ op' \in [Caller -> OpType] /\ op'[c] = e
      /\ \A d \in Caller \ {c} : op'[d] = op[d]
  BY <1>1, OpChanges DEF Call
<1>3. UNCHANGED <<mu, current, servers, requests, events, decisions>>
  BY DEF Call
<1>4. /\ mu' \in Caller \cup {NoOne}
      /\ events' \in Seq([kind : {"started", "stopped", "error"},
                          provider : Provider])
  BY <1>3 DEF IInv, TypeOK
<1>5. \A d \in Caller : CallOK(d)'
  BY <1>2, <1>3 DEF IInv, CallOK
<1> QED BY <1>2, <1>3, <1>4, <1>5, TypesKept

\* Taking the mutex: nobody else was past it.
LEMMA LockKeeps ==
  ASSUME IInv, NEW c \in Caller, Lock(c)
  PROVE  IInv'
<1>1. /\ mu = NoOne /\ mu' = c /\ Enter(c, "stopping")
      /\ UNCHANGED <<current, servers, requests, events, decisions>>
  BY DEF Lock
<1>2. /\ op' \in [Caller -> OpType]
      /\ \A d \in Caller \ {c} : op'[d] = op[d]
      /\ op'[c].step = "stopping" /\ op'[c].kind = op[c].kind
      /\ op'[c].provider = op[c].provider /\ op'[c].addr = op[c].addr
  BY <1>1, EnterFacts
<1>3. events' \in Seq([kind : {"started", "stopped", "error"},
                       provider : Provider])
  BY <1>1 DEF IInv, TypeOK
<1>4. CallOK(c)'
  BY <1>1, <1>2 DEF IInv, CallOK
<1>5. ASSUME NEW d \in Caller \ {c} PROVE CallOK(d)'
  BY <1>1, <1>2 DEF IInv, CallOK
<1> QED BY <1>1, <1>2, <1>3, <1>4, <1>5, TypesKept

\* Who gives the mutex back, or never had to take it, leaves nobody past it.
LEMMA ReturnKeeps ==
  ASSUME IInv, NEW c \in Caller, Return(c), mu \in {NoOne, c},
         events' \in Seq([kind : {"started", "stopped", "error"},
                          provider : Provider]),
         UNCHANGED <<current, servers, requests, decisions>>
  PROVE  IInv'
<1>1. Idle \in OpType
  BY DEF Idle, OpType
<1>2. /\ op' \in [Caller -> OpType] /\ op'[c] = Idle
      /\ \A d \in Caller \ {c} : op'[d] = op[d]
  BY <1>1, OpChanges DEF Return
<1>3. \A d \in Caller \ {c} :
        op[d].step \notin {"stopping", "draining", "listening"}
  BY DEF IInv, CallOK
<1>4. mu' \in Caller \cup {NoOne}
  BY DEF Return
<1>5. \A d \in Caller : CallOK(d)'
  BY <1>2, <1>3 DEF IInv, CallOK, Idle
<1> QED BY <1>2, <1>4, <1>5, TypesKept

\* So does one that succeeded and still has to read the status.
LEMMA SucceedKeeps ==
  ASSUME IInv, NEW c \in Caller, Succeed(c), mu = c,
         events' \in Seq([kind : {"started", "stopped", "error"},
                          provider : Provider]),
         UNCHANGED <<current, servers, requests, decisions>>
  PROVE  IInv'
<1>1. /\ op' \in [Caller -> OpType] /\ op'[c] = StatusCall
      /\ \A d \in Caller \ {c} : op'[d] = op[d]
  BY StatusCallIs, OpChanges DEF Succeed
<1>2. \A d \in Caller \ {c} :
        op[d].step \notin {"stopping", "draining", "listening"}
  BY DEF IInv, CallOK
<1>3. mu' \in Caller \cup {NoOne}
  BY DEF Succeed
<1>4. \A d \in Caller : CallOK(d)'
  BY <1>1, <1>2, StatusCallIs DEF IInv, CallOK
<1> QED BY <1>1, <1>3, <1>4, TypesKept

\* A start that has stopped the old server goes on to listen.
LEMMA ListenNextKeeps ==
  ASSUME IInv, NEW c \in Caller, Enter(c, "listening"), mu = c, current = NoOne,
         events' \in Seq([kind : {"started", "stopped", "error"},
                          provider : Provider]),
         UNCHANGED <<mu, current, servers, requests, decisions>>
  PROVE  IInv'
<1>1. /\ op' \in [Caller -> OpType]
      /\ \A d \in Caller \ {c} : op'[d] = op[d]
      /\ op'[c].step = "listening" /\ op'[c].kind = op[c].kind
      /\ op'[c].provider = op[c].provider /\ op'[c].addr = op[c].addr
  BY EnterFacts
<1>2. \A d \in Caller : CallOK(d)'
  BY <1>1 DEF IInv, CallOK
<1> QED BY <1>1, <1>2, TypesKept

\* An entry of the feed about the server a call is stopping.
LEMMA StoppedLogged ==
  ASSUME IInv, NEW c \in Caller, op[c].step = "draining",
         events' = Append(events, Event("stopped", servers[op[c].victim].provider))
  PROVE  events' \in Seq([kind : {"started", "stopped", "error"},
                          provider : Provider])
<1>1. servers[op[c].victim].provider \in Provider
  <2>1. op[c].victim \in DOMAIN servers
    BY DEF IInv, CallOK
  <2>2. servers[op[c].victim] \in ServerRec
    BY <2>1, ServersTyped
  <2> QED BY <2>2 DEF ServerRec
<1>2. Event("stopped", servers[op[c].victim].provider)
        \in [kind : {"started", "stopped", "error"}, provider : Provider]
  BY <1>1 DEF Event
<1> QED BY <1>2, AppendFacts DEF IInv, TypeOK

\* Steps of a call that leave the servers as they are.
LEMMA WaitKeeps ==
  ASSUME IInv, NEW c \in Caller,
         \/ ReadStatus(c) \/ NothingToStop(c) \/ Drained(c) \/ GiveUp(c)
         \/ ListenFails(c)
  PROVE  IInv'
<1>1. CASE ReadStatus(c)
  <2>1. events' \in Seq([kind : {"started", "stopped", "error"},
                         provider : Provider])
    BY <1>1 DEF IInv, TypeOK, ReadStatus
  <2> QED BY <1>1, <2>1, ReturnKeeps DEF ReadStatus
<1>2. CASE NothingToStop(c)
  <2>1. events' \in Seq([kind : {"started", "stopped", "error"},
                         provider : Provider])
    BY <1>2 DEF IInv, TypeOK, NothingToStop
  <2>2. mu = c
    BY <1>2 DEF IInv, CallOK, NothingToStop, At
  <2> QED BY <1>2, <2>1, <2>2, SucceedKeeps, ListenNextKeeps DEF NothingToStop
<1>3. CASE Drained(c)
  <2>1. mu = c /\ current = NoOne
    BY <1>3 DEF IInv, CallOK, Drained
  <2> QED BY <1>3, <2>1, StoppedLogged, SucceedKeeps, ListenNextKeeps DEF Drained
<1>4. CASE GiveUp(c)
  <2>1. mu = c /\ op[c].step = "draining"
    BY <1>4 DEF IInv, CallOK, GiveUp, At
  <2> QED BY <1>4, <2>1, StoppedLogged, ReturnKeeps DEF GiveUp
<1>5. CASE ListenFails(c)
  <2>1. events' \in Seq([kind : {"started", "stopped", "error"},
                         provider : Provider])
    BY <1>5 DEF IInv, TypeOK, ListenFails
  <2>2. mu = c
    BY <1>5 DEF IInv, CallOK, ListenFails, At
  <2> QED BY <1>5, <2>1, <2>2, ReturnKeeps DEF ListenFails
<1> QED BY <1>1, <1>2, <1>3, <1>4, <1>5

\* Shutting the server down: every server is then shut down, and none takes
\* requests, since Serve closes what it finds shut down.
LEMMA BeginStopKeeps ==
  ASSUME IInv, NEW c \in Caller, BeginStop(c)
  PROVE  IInv'
<1> DEFINE sh == [servers[current] EXCEPT
                    !.shut = TRUE,
                    !.listener = IF servers[current].serve = "serving"
                                 THEN "closed" ELSE @]
<1>1. current \in DOMAIN servers /\ mu = c /\ mu' = mu
  BY DEF IInv, TypeOK, CallOK, BeginStop, At
<1>2. servers \in Seq(ServerRec) /\ servers[current] \in ServerRec
  BY <1>1, ServersTyped
<1>3. /\ sh \in ServerRec /\ sh.shut
      /\ sh.provider = servers[current].provider
      /\ ~(sh.serve = "serving" /\ sh.listener = "open")
  BY <1>2 DEF ServerRec
<1>4. servers' = [servers EXCEPT ![current] = sh]
  BY Zenon DEF BeginStop, ShutDown
<1>5. /\ servers' \in Seq(ServerRec)
      /\ Len(servers') = Len(servers) /\ DOMAIN servers' = DOMAIN servers
  BY <1>1, <1>2, <1>3, <1>4, ExceptFacts
<1>6. \A s \in DOMAIN servers :
        servers'[s] = IF s = current THEN sh ELSE servers[s]
  BY <1>2, <1>4
<1>7. /\ op' \in [Caller -> OpType]
      /\ \A d \in Caller \ {c} : op'[d] = op[d]
      /\ op'[c].kind = op[c].kind /\ op'[c].provider = op[c].provider
      /\ op'[c].addr = op[c].addr
      /\ op'[c].step = "draining" /\ op'[c].victim = current
  <2>1. DOMAIN servers = 1..Len(servers) /\ Len(servers) \in Nat
    BY <1>2
  <2>2. current \in Server
    BY <1>1, <2>1 DEF IInv, Bounded, Server
  <2> DEFINE e == [op[c] EXCEPT !.step = "draining", !.victim = current]
  <2>3. op[c] \in OpType
    BY DEF IInv, TypeOK
  <2>4. /\ e \in OpType /\ e.step = "draining" /\ e.victim = current
        /\ e.kind = op[c].kind /\ e.provider = op[c].provider
        /\ e.addr = op[c].addr
    BY <2>2, <2>3 DEF OpType
  <2>5. op' = [op EXCEPT ![c] = e]
    BY <2>3 DEF BeginStop, OpType
  <2> HIDE DEF e
  <2> QED BY <2>4, <2>5, OpChanges
<1>8. UNCHANGED <<mu, requests, events, decisions>> /\ current' = NoOne
  BY DEF BeginStop
<1>9. TypeOK' /\ Bounded'
  BY <1>5, <1>7, <1>8 DEF IInv, TypeOK, Bounded, ServerRec
<1>10. \A d \in Caller : CallOK(d)'
  BY <1>1, <1>5, <1>7, <1>8 DEF IInv, CallOK
<1>11. \A s \in DOMAIN servers' : ServerOK(s)'
  <2> SUFFICES ASSUME NEW s \in DOMAIN servers PROVE ServerOK(s)'
    BY <1>5
  <2>1. CASE s = current
    BY <1>3, <1>6, <2>1 DEF ServerOK, Accepting, Open
  <2>2. CASE s # current
    <3>1. servers'[s] = servers[s] /\ ServerOK(s)
      BY <1>6, <2>2 DEF IInv
    <3> QED BY <2>2, <3>1 DEF ServerOK, Accepting, Open
  <2> QED BY <2>1, <2>2
<1>12. \A s \in DOMAIN servers : servers'[s].provider = servers[s].provider
  BY <1>3, <1>6
<1> QED
  BY <1>5, <1>8, <1>9, <1>10, <1>11, <1>12 DEF IInv, RequestOK, DecisionOK

\* Listening: the manager knew no server, so every one there is was shut down.
LEMMA ListenKeeps ==
  ASSUME IInv, NEW c \in Caller, Listen(c)
  PROVE  IInv'
<1> DEFINE new == [provider |-> op[c].provider, addr |-> op[c].addr,
                   listener |-> "open", serve |-> "pending", shut |-> FALSE]
           n   == Len(servers) + 1
<1>1. /\ mu = c /\ current = NoOne
      /\ op[c].provider \in Provider /\ op[c].addr \in Addr
  BY DEF IInv, CallOK, Listen, At
<1>2. new \in ServerRec /\ servers \in Seq(ServerRec)
  BY <1>1, ServersTyped DEF ServerRec
<1>3. servers' = Append(servers, new) /\ current' = n
  BY DEF Listen
<1>4. /\ servers' \in Seq(ServerRec)
      /\ Len(servers') = n /\ DOMAIN servers' = DOMAIN servers \cup {n}
      /\ \A s \in DOMAIN servers : servers'[s] = servers[s]
      /\ servers'[n] = new
      /\ DOMAIN servers = 1..Len(servers) /\ Len(servers) \in Nat
  BY <1>2, <1>3, AppendFacts
<1>5. /\ op' \in [Caller -> OpType] /\ mu' = NoOne
      /\ op'[c] = StatusCall
      /\ \A d \in Caller \ {c} : op'[d] = op[d]
                 /\ op[d].step \notin {"stopping", "draining", "listening"}
  <2>1. op' = [op EXCEPT ![c] = StatusCall] /\ mu' = NoOne
    BY DEF Listen, Succeed
  <2> QED BY <1>1, <2>1, StatusCallIs, OpChanges DEF IInv, CallOK
<1>6. events' \in Seq([kind : {"started", "stopped", "error"},
                       provider : Provider])
  BY <1>1, AppendFacts DEF IInv, TypeOK, Listen, Event
<1>7. UNCHANGED <<requests, decisions>> /\ n <= MaxServers
  BY <1>4 DEF Listen
<1>8. TypeOK' /\ Bounded'
  BY <1>3, <1>4, <1>5, <1>6, <1>7 DEF IInv, TypeOK, Bounded, ServerRec
<1>9. \A d \in Caller : CallOK(d)'
  BY <1>4, <1>5, StatusCallIs DEF IInv, CallOK
<1>10. \A s \in DOMAIN servers' : ServerOK(s)'
  <2> SUFFICES ASSUME NEW s \in DOMAIN servers' PROVE ServerOK(s)'
    OBVIOUS
  <2>1. CASE s = n
    BY <1>3, <1>4, <2>1 DEF ServerOK, Accepting
  <2>2. CASE s \in DOMAIN servers
    <3>1. servers'[s] = servers[s] /\ ServerOK(s) /\ s # NoOne
      BY <1>4, <2>2 DEF IInv
    <3> QED BY <1>1, <3>1 DEF ServerOK, Accepting, Open
  <2> QED BY <1>4, <2>1, <2>2
<1> QED
  BY <1>4, <1>7, <1>8, <1>9, <1>10 DEF IInv, RequestOK, DecisionOK

-----------------------------------------------------------------------------
(* The serving goroutines and the requests *)

\* A server changes whether it serves and listens, and nothing else does.
LEMMA ServerKeeps ==
  ASSUME IInv, NEW s \in DOMAIN servers, NEW r \in ServerRec,
         servers' = [servers EXCEPT ![s] = r],
         r.provider = servers[s].provider, r.shut = servers[s].shut,
         r.shut => ~(r.serve = "serving" /\ r.listener = "open"),
         events' \in Seq([kind : {"started", "stopped", "error"},
                          provider : Provider]),
         UNCHANGED <<mu, op, current, requests, decisions>>
  PROVE  IInv'
<1>1. servers \in Seq(ServerRec)
  BY ServersTyped
<1>2. /\ servers' \in Seq(ServerRec)
      /\ Len(servers') = Len(servers) /\ DOMAIN servers' = DOMAIN servers
  BY <1>1, ExceptFacts
<1>3. \A t \in DOMAIN servers : servers'[t] = IF t = s THEN r ELSE servers[t]
  BY <1>1
<1>4. TypeOK' /\ Bounded'
  BY <1>2 DEF IInv, TypeOK, Bounded, ServerRec
<1>5. \A d \in Caller : CallOK(d)'
  BY <1>2 DEF IInv, CallOK
<1>6. \A t \in DOMAIN servers' : ServerOK(t)'
  BY <1>2, <1>3 DEF IInv, ServerOK, Accepting, Open
<1>7. \A t \in DOMAIN servers : servers'[t].provider = servers[t].provider
  BY <1>3
<1> QED
  BY <1>2, <1>4, <1>5, <1>6, <1>7 DEF IInv, RequestOK, DecisionOK

LEMMA ServeKeeps ==
  ASSUME IInv, NEW s \in DOMAIN servers, Serve(s)
  PROVE  IInv'
<1> DEFINE r == IF servers[s].shut
                THEN [servers[s] EXCEPT !.serve = "returned", !.listener = "closed"]
                ELSE [servers[s] EXCEPT !.serve = "serving"]
<1>1. servers \in Seq(ServerRec) /\ servers[s] \in ServerRec
  BY ServersTyped
<1>2. /\ r \in ServerRec /\ r.provider = servers[s].provider
      /\ r.shut = servers[s].shut
      /\ r.shut => ~(r.serve = "serving" /\ r.listener = "open")
  BY <1>1 DEF ServerRec
<1>3. servers' = [servers EXCEPT ![s] = r]
  BY <1>1 DEF Serve, ServerRec
<1>4. UNCHANGED <<mu, op, current, requests, events, decisions>>
  BY DEF Serve
<1>5. events' \in Seq([kind : {"started", "stopped", "error"},
                       provider : Provider])
  BY <1>4 DEF IInv, TypeOK
<1> QED BY <1>2, <1>3, <1>4, <1>5, ServerKeeps

LEMMA AcceptFailsKeeps ==
  ASSUME IInv, NEW s \in DOMAIN servers, AcceptFails(s)
  PROVE  IInv'
<1> DEFINE r == [servers[s] EXCEPT !.serve = "returned", !.listener = "closed"]
<1>1. servers \in Seq(ServerRec) /\ servers[s] \in ServerRec
  BY ServersTyped
<1>2. /\ r \in ServerRec /\ r.provider = servers[s].provider
      /\ r.shut = servers[s].shut
      /\ r.shut => ~(r.serve = "serving" /\ r.listener = "open")
  BY <1>1 DEF ServerRec
<1>3. servers' = [servers EXCEPT ![s] = r]
  BY <1>1 DEF AcceptFails, ServerRec
<1>4. UNCHANGED <<mu, op, current, requests, decisions>>
  BY DEF AcceptFails
<1>5. events' \in Seq([kind : {"started", "stopped", "error"},
                       provider : Provider])
  <2>1. servers[s].provider \in Provider
    BY <1>1 DEF ServerRec
  <2> QED BY <2>1, AppendFacts DEF IInv, TypeOK, AcceptFails, Event
<1> QED BY <1>2, <1>3, <1>4, <1>5, ServerKeeps

LEMMA ArriveKeeps ==
  ASSUME IInv, NEW s \in DOMAIN servers, Arrive(s)
  PROVE  IInv'
<1> DEFINE new == [server |-> s, verdict |-> "pending"]
           n   == Len(requests) + 1
<1>1. s \in Server /\ servers[s].provider \in Provider
  <2>1. DOMAIN servers = 1..Len(servers) /\ Len(servers) \in Nat
    BY ServersTyped
  <2>2. servers[s].provider \in Provider
    BY ServersTyped DEF ServerRec
  <2> QED BY <2>1, <2>2 DEF IInv, Bounded, Server
<1>2. requests \in Seq(RequestRec) /\ new \in RequestRec
  BY <1>1 DEF IInv, TypeOK, RequestRec
<1>3. requests' = Append(requests, new)
  BY DEF Arrive
<1>4. /\ requests' \in Seq(RequestRec)
      /\ Len(requests') = n /\ DOMAIN requests' = DOMAIN requests \cup {n}
      /\ \A r \in DOMAIN requests : requests'[r] = requests[r]
      /\ requests'[n] = new
      /\ DOMAIN requests = 1..Len(requests) /\ Len(requests) \in Nat
  BY <1>2, <1>3, AppendFacts
<1>5. UNCHANGED <<mu, op, current, servers, events>> /\ n <= MaxRequests
  BY <1>4 DEF Arrive
<1>6. decisions' = decisions \cup
        {[request |-> n, kind |-> "request", provider |-> servers[s].provider]}
  BY DEF Arrive
<1>7. decisions' \subseteq [request : Request, provider : Provider,
                            kind : {"request", "alert", "blocked"}]
  BY <1>1, <1>4, <1>5, <1>6 DEF IInv, TypeOK, Request
<1>8. TypeOK' /\ Bounded'
  BY <1>4, <1>5, <1>7 DEF IInv, TypeOK, Bounded, RequestRec
<1>9. \A d \in decisions' : DecisionOK(d)'
  <2> SUFFICES ASSUME NEW d \in decisions' PROVE DecisionOK(d)'
    OBVIOUS
  <2>1. CASE d \in decisions
    <3>1. /\ d.request \in DOMAIN requests
          /\ d.provider = servers[requests[d.request].server].provider
      BY <2>1 DEF IInv, DecisionOK
    <3> QED BY <1>4, <1>5, <3>1 DEF DecisionOK
  <2>2. CASE d = [request |-> n, kind |-> "request",
                  provider |-> servers[s].provider]
    <3>1. d.request = n /\ d.provider = servers[s].provider
      BY <2>2
    <3> QED BY <1>4, <1>5, <3>1 DEF DecisionOK
  <2> QED BY <1>6, <2>1, <2>2
<1>10. \A r \in DOMAIN requests' : RequestOK(r)'
  BY <1>4, <1>5 DEF IInv, RequestOK
<1> QED
  BY <1>5, <1>8, <1>9, <1>10 DEF IInv, CallOK, ServerOK, Accepting, Open

\* A decision arrives, whichever server is the manager's by then.
LEMMA DecideKeeps ==
  ASSUME IInv, NEW r \in DOMAIN requests, NEW v \in Verdict, Decide(r, v)
  PROVE  IInv'
<1> DEFINE q == [requests[r] EXCEPT !.verdict = v]
           d == [request |-> r, kind |-> v,
                 provider |-> servers[requests[r].server].provider]
<1>1. requests \in Seq(RequestRec)
  BY DEF IInv, TypeOK, RequestRec
<1>2. requests[r] \in RequestRec /\ r \in Request
  BY <1>1 DEF IInv, Bounded, Request
<1>3. q \in RequestRec /\ q.server = requests[r].server
  BY <1>2 DEF RequestRec
<1>4. requests' = [requests EXCEPT ![r] = q]
  BY Zenon DEF Decide
<1>5. /\ requests' \in Seq(RequestRec)
      /\ Len(requests') = Len(requests) /\ DOMAIN requests' = DOMAIN requests
  BY <1>1, <1>3, <1>4, ExceptFacts
<1>6. \A i \in DOMAIN requests : requests'[i].server = requests[i].server
  BY <1>1, <1>3, <1>4
<1>7. UNCHANGED <<mu, op, current, servers, events>>
  BY DEF Decide
<1>8. decisions' \subseteq decisions \cup {d} /\ (d \in decisions' => v # "clean"
                                                 \/ d \in decisions)
  BY DEF Decide, Credit
<1>9. servers[requests[r].server].provider \in Provider
  <2>1. requests[r].server \in DOMAIN servers
    BY DEF IInv, RequestOK
  <2> QED BY <2>1, ServersTyped DEF ServerRec
<1>10. decisions' \subseteq [request : Request, provider : Provider,
                             kind : {"request", "alert", "blocked"}]
  <2>1. v # "clean" => d \in [request : Request, provider : Provider,
                              kind : {"request", "alert", "blocked"}]
    BY <1>2, <1>9 DEF Verdict
  <2> QED BY <1>8, <2>1 DEF IInv, TypeOK
<1>11. TypeOK' /\ Bounded'
  BY <1>5, <1>7, <1>10 DEF IInv, TypeOK, Bounded, RequestRec
<1>12. \A e \in decisions' : DecisionOK(e)'
  <2> SUFFICES ASSUME NEW e \in decisions \cup {d} PROVE DecisionOK(e)'
    BY <1>8
  <2>1. e.request \in DOMAIN requests
    BY DEF IInv, DecisionOK
  <2>2. e.provider = servers[requests[e.request].server].provider
    BY DEF IInv, DecisionOK
  <2> QED BY <1>5, <1>6, <1>7, <2>1, <2>2 DEF DecisionOK
<1>13. \A i \in DOMAIN requests' : RequestOK(i)'
  BY <1>5, <1>6, <1>7 DEF IInv, RequestOK
<1> QED
  BY <1>7, <1>11, <1>12, <1>13 DEF IInv, CallOK, ServerOK, Accepting, Open

-----------------------------------------------------------------------------
(* The feed of starts and stops *)

\* The server the feed must show as running: the manager's, or the one the call
\* that holds the mutex is still stopping.
ShownRunning(s) ==
  s = current \/ \E c \in Caller : op[c].step = "draining" /\ op[c].victim = s

\* The first part of StartsAndStopsAlternate, for one entry.
InTurn(i) ==
  IF events[i].kind = "started"
  THEN \A j \in Switch : LastBefore(j, i) => events[j].kind = "stopped"
  ELSE \E j \in Switch : LastBefore(j, i)
                           /\ events[j] = Event("started", events[i].provider)

\* The last switch in the feed is the start of the server shown as running.
FeedInv ==
  /\ \A i \in Switch : InTurn(i)
  /\ \A s \in DOMAIN servers : ShownRunning(s) =>
       \E i \in Switch : LastSwitch(i)
                           /\ events[i] = Event("started", servers[s].provider)
  /\ \A i \in Switch : LastSwitch(i) /\ events[i].kind = "started" =>
       \E s \in DOMAIN servers : ShownRunning(s)

EventRec == [kind : {"started", "stopped", "error"}, provider : Provider]

\* A step that leaves the starts and stops of the feed, the providers of the
\* servers and who is shown as running alone.
LEMMA FeedUntouched ==
  ASSUME FeedInv, Switch' = Switch,
         \A i \in Switch : events'[i] = events[i],
         DOMAIN servers' = DOMAIN servers,
         \A s \in DOMAIN servers : servers'[s].provider = servers[s].provider,
         \A s \in DOMAIN servers : ShownRunning(s)' <=> ShownRunning(s)
  PROVE  FeedInv'
<1>1. \A i, j : LastBefore(j, i)' <=> LastBefore(j, i)
  BY DEF LastBefore
<1>2. \A i : LastSwitch(i)' <=> LastSwitch(i)
  BY DEF LastSwitch
<1>3. \A i \in Switch : InTurn(i)'
  <2> SUFFICES ASSUME NEW i \in Switch PROVE InTurn(i)'
    OBVIOUS
  <2>1. InTurn(i) /\ events'[i] = events[i]
    BY DEF FeedInv
  <2>2. CASE events[i].kind = "started"
    BY <1>1, <2>1, <2>2 DEF InTurn
  <2>3. CASE events[i].kind # "started"
    <3>1. PICK j \in Switch : LastBefore(j, i)
                  /\ events[j] = Event("started", events[i].provider)
      BY <2>1, <2>3 DEF InTurn
    <3>2. LastBefore(j, i)' /\ events'[j] = Event("started", events'[i].provider)
      BY <1>1, <2>1, <3>1
    <3> QED BY <2>1, <2>3, <3>2 DEF InTurn, Event
  <2> QED BY <2>2, <2>3
<1>4. ASSUME NEW s \in DOMAIN servers, ShownRunning(s)
      PROVE  \E i \in Switch : LastSwitch(i)'
                 /\ events'[i] = Event("started", servers'[s].provider)
  BY <1>2, <1>4 DEF FeedInv
<1>5. ASSUME NEW i \in Switch, LastSwitch(i), events[i].kind = "started"
      PROVE  \E s \in DOMAIN servers : ShownRunning(s)'
  BY <1>5 DEF FeedInv
<1> QED BY <1>2, <1>3, <1>4, <1>5 DEF FeedInv, Event

\* A start or stop is added at the end of the feed; it is in turn when it answers
\* the last switch there was.
LEMMA SwitchAdded ==
  ASSUME TypeOK, FeedInv, NEW k \in {"started", "stopped"}, NEW p \in Provider,
         events' = Append(events, Event(k, p)),
         IF k = "started"
         THEN \A i \in Switch : LastSwitch(i) => events[i].kind = "stopped"
         ELSE \E i \in Switch : LastSwitch(i) /\ events[i] = Event("started", p)
  PROVE  /\ \A i \in Switch' : InTurn(i)'
         /\ \A i : LastSwitch(i)' <=> i = Len(events) + 1
         /\ Len(events) + 1 \in Switch'
         /\ events'[Len(events) + 1] = Event(k, p)
<1>0. PICK n : n = Len(events) + 1
  OBVIOUS
<1>1. events \in Seq(EventRec) /\ Event(k, p) \in EventRec
  BY DEF TypeOK, EventRec, Event
<1>2. /\ DOMAIN events' = DOMAIN events \cup {n}
      /\ \A i \in DOMAIN events : events'[i] = events[i] /\ i < n /\ i \in Nat
      /\ events'[n] = Event(k, p) /\ n \in Nat
  BY <1>0, <1>1, AppendFacts
<1>3. Event(k, p).kind = k /\ Event(k, p).provider = p /\ k # "error"
  BY DEF Event
<1>4. Switch' = Switch \cup {n} /\ Switch \subseteq DOMAIN events
  BY <1>2, <1>3 DEF Switch
<1>5. \A i \in Switch : events'[i] = events[i] /\ i < n /\ i \in Nat
  BY <1>2, <1>4
<1>6. \A i : LastSwitch(i)' <=> i = n
  BY <1>2, <1>4, <1>5 DEF LastSwitch
<1>7. \A i, j \in Switch : LastBefore(j, i)' <=> LastBefore(j, i)
  BY <1>2, <1>4, <1>5 DEF LastBefore
<1>8. \A j : LastBefore(j, n)' <=> LastSwitch(j)
  BY <1>2, <1>4, <1>5 DEF LastBefore, LastSwitch
<1>9. ASSUME NEW i \in Switch PROVE InTurn(i)'
  <2>1. InTurn(i) /\ events'[i] = events[i]
    BY <1>5 DEF FeedInv
  <2>2. \A j : LastBefore(j, i)' => j \in Switch
    BY <1>2, <1>4, <1>5 DEF LastBefore
  <2>3. CASE events[i].kind = "started"
    BY <1>5, <1>7, <2>1, <2>2, <2>3 DEF InTurn
  <2>4. CASE events[i].kind # "started"
    <3>1. PICK j \in Switch : LastBefore(j, i)
                  /\ events[j] = Event("started", events[i].provider)
      BY <2>1, <2>4 DEF InTurn
    <3>2. j \in Switch' /\ LastBefore(j, i)'
            /\ events'[j] = Event("started", events'[i].provider)
      BY <1>4, <1>5, <1>7, <2>1, <3>1
    <3> QED BY <2>1, <2>4, <3>2 DEF InTurn, Event
  <2> QED BY <2>3, <2>4
<1>10. InTurn(n)'
  <2>1. CASE k = "started"
    <3>1. \A j \in Switch' : LastBefore(j, n)' => events'[j].kind = "stopped"
      BY <1>5, <1>8, <2>1 DEF LastSwitch
    <3> QED BY <1>2, <1>3, <2>1, <3>1 DEF InTurn
  <2>2. CASE k = "stopped"
    <3>1. PICK j \in Switch : LastSwitch(j) /\ events[j] = Event("started", p)
      BY <2>2
    <3>2. j \in Switch' /\ LastBefore(j, n)' /\ events'[j] = Event("started", p)
      BY <1>4, <1>5, <1>8, <3>1
    <3>3. events'[n].kind # "started" /\ events'[n].provider = p
      BY <1>2, <1>3, <2>2
    <3> QED BY <3>2, <3>3 DEF InTurn, Event
  <2> QED BY <2>1, <2>2
<1> QED BY <1>2, <1>4, <1>6, <1>9, <1>10, <1>0

\* The calls only change what op says of the caller.
LEMMA CallsOwn ==
  ASSUME IInv, NEW c \in Caller,
         \/ \E k, p, a : Call(c, k, p, a)
         \/ Return(c) \/ Succeed(c) \/ \E s : Enter(c, s)
  PROVE  \A d \in Caller \ {c} : op'[d] = op[d]
<1>1. op \in [Caller -> OpType]
  BY DEF IInv, TypeOK
<1> QED BY <1>1 DEF Call, Return, Succeed, Enter

\* Calls that log nothing.
LEMMA QuietCalls ==
  ASSUME IInv, FeedInv, NEW c \in Caller,
         \/ \E p \in Provider, a \in Addr : Call(c, "start", p, a)
         \/ Call(c, "stop", NoOne, NoOne) \/ Call(c, "status", NoOne, NoOne)
         \/ Lock(c) \/ ReadStatus(c) \/ NothingToStop(c) \/ ListenFails(c)
  PROVE  FeedInv'
<1>1. op \in [Caller -> OpType]
  BY DEF IInv, TypeOK
<1>2. op[c].step # "draining"
  BY DEF Call, Lock, ReadStatus, NothingToStop, ListenFails, At, Idle
<1>3. \A d \in Caller \ {c} : op'[d] = op[d]
  BY CallsOwn DEF Lock, ReadStatus, NothingToStop, ListenFails
<1>4. op'[c].step # "draining"
  <2>1. CASE \E k, p, a : Call(c, k, p, a)
    BY <1>1, <2>1 DEF Call
  <2>2. CASE Lock(c)
    BY <1>1, <2>2 DEF Lock, Enter, OpType
  <2>3. CASE Return(c)
    BY <1>1, <2>3 DEF Return, Idle
  <2>4. CASE Enter(c, "listening")
    BY <1>1, <2>4 DEF Enter, OpType
  <2>5. CASE Succeed(c)
    BY <1>1, <2>5, StatusCallIs DEF Succeed
  <2> QED BY <2>1, <2>2, <2>3, <2>4, <2>5 DEF ReadStatus, NothingToStop, ListenFails
<1>5. UNCHANGED <<current, servers, events>>
  BY DEF Call, Lock, ReadStatus, NothingToStop, ListenFails
<1>6. \A s \in DOMAIN servers : ShownRunning(s)' <=> ShownRunning(s)
  BY <1>2, <1>3, <1>4, <1>5 DEF ShownRunning
<1>7. Switch' = Switch
  BY <1>5 DEF Switch
<1> QED BY <1>5, <1>6, <1>7, FeedUntouched

\* A call that begins to stop a server: it stays the one shown as running.
LEMMA BeginStopKeepsFeed ==
  ASSUME IInv, FeedInv, NEW c \in Caller, BeginStop(c)
  PROVE  FeedInv'
<1>1. /\ op \in [Caller -> OpType] /\ op[c].step # "draining" /\ mu = c
      /\ servers \in Seq(ServerRec) /\ current \in DOMAIN servers
      /\ current # NoOne /\ current' = NoOne /\ UNCHANGED events
  BY ServersTyped DEF IInv, TypeOK, CallOK, BeginStop, At
<1>2. /\ op'[c].step = "draining" /\ op'[c].victim = current
      /\ \A d \in Caller \ {c} : op'[d] = op[d]
  BY <1>1 DEF BeginStop, OpType
<1>3. \A d \in Caller : op[d].step # "draining"
  BY <1>1 DEF IInv, CallOK
<1>4. /\ DOMAIN servers' = DOMAIN servers
      /\ \A s \in DOMAIN servers : servers'[s].provider = servers[s].provider
  BY <1>1 DEF BeginStop, ShutDown, ServerRec
<1>5. NoOne \notin DOMAIN servers
  BY <1>1
<1>6. \A s \in DOMAIN servers : ShownRunning(s)' <=> ShownRunning(s)
  BY <1>1, <1>2, <1>3, <1>5 DEF ShownRunning
<1>7. Switch' = Switch
  BY <1>1 DEF Switch
<1> QED BY <1>1, <1>4, <1>6, <1>7, FeedUntouched

\* The server a call was stopping is logged as stopped, drained or not.
LEMMA StoppedKeepsFeed ==
  ASSUME IInv, FeedInv, NEW c \in Caller, Drained(c) \/ GiveUp(c)
  PROVE  FeedInv'
<1>1. /\ op \in [Caller -> OpType] /\ op[c].step = "draining" /\ mu = c
      /\ current = NoOne /\ op[c].victim \in DOMAIN servers
  BY DEF IInv, TypeOK, CallOK, Drained, GiveUp, At
<1>2. PICK v : v = op[c].victim
  OBVIOUS
<1>3. /\ UNCHANGED <<current, servers>>
      /\ events' = Append(events, Event("stopped", servers[v].provider))
  BY <1>2 DEF Drained, GiveUp
<1>4. /\ servers[v].provider \in Provider
      /\ NoOne \notin DOMAIN servers
  BY <1>1, <1>2, ServersTyped DEF ServerRec
<1>5. \E i \in Switch : LastSwitch(i)
                          /\ events[i] = Event("started", servers[v].provider)
  BY <1>1, <1>2 DEF FeedInv, ShownRunning
<1>6. /\ \A i \in Switch' : InTurn(i)'
      /\ \A i : LastSwitch(i)' <=> i = Len(events) + 1
      /\ events'[Len(events) + 1] = Event("stopped", servers[v].provider)
  BY <1>3, <1>4, <1>5, SwitchAdded DEF IInv
<1>7. \A d \in Caller : op'[d].step # "draining"
  <2>1. \A d \in Caller \ {c} : op'[d] = op[d]
    BY CallsOwn DEF Drained, GiveUp
  <2>2. \A d \in Caller \ {c} : op[d].step # "draining"
    BY <1>1 DEF IInv, CallOK
  <2>3. op'[c].step # "draining"
    <3>1. CASE Return(c)
      BY <1>1, <3>1 DEF Return, Idle
    <3>2. CASE Enter(c, "listening")
      BY <1>1, <3>2 DEF Enter, OpType
    <3>3. CASE Succeed(c)
      BY <1>1, <3>3, StatusCallIs DEF Succeed
    <3> QED BY <3>1, <3>2, <3>3 DEF Drained, GiveUp
  <2> QED BY <2>1, <2>2, <2>3
<1>8. \A s \in DOMAIN servers' : ~ShownRunning(s)'
  BY <1>1, <1>3, <1>4, <1>7 DEF ShownRunning
<1>9. \A i : LastSwitch(i)' => events'[i].kind # "started"
  BY <1>6 DEF Event
<1> QED BY <1>6, <1>8, <1>9 DEF FeedInv

\* A start logs itself when no server is left that the feed shows as running.
LEMMA ListenKeepsFeed ==
  ASSUME IInv, FeedInv, NEW c \in Caller, Listen(c)
  PROVE  FeedInv'
<1>1. /\ op \in [Caller -> OpType] /\ op[c].step = "listening" /\ mu = c
      /\ current = NoOne /\ op[c].provider \in Provider
  BY DEF IInv, TypeOK, CallOK, Listen, At
<1>2. PICK p : p = op[c].provider
  OBVIOUS
<1>3. /\ events' = Append(events, Event("started", p))
      /\ current' = Len(servers) + 1
      /\ DOMAIN servers' = DOMAIN servers \cup {current'}
      /\ servers'[current'].provider = p
  BY <1>2, ServersTyped DEF Listen
<1>4. \A d \in Caller : op[d].step # "draining"
  BY <1>1 DEF IInv, CallOK
<1>5. \A s \in DOMAIN servers : ~ShownRunning(s)
  BY <1>1, <1>4, ServersTyped DEF ShownRunning
<1>6. \A i \in Switch : LastSwitch(i) => events[i].kind = "stopped"
  <2>1. \A i \in Switch : events[i].kind \in {"started", "stopped"}
    <3>1. events \in Seq(EventRec)
      BY DEF IInv, TypeOK, EventRec
    <3>2. \A i \in DOMAIN events : events[i] \in EventRec
      BY <3>1
    <3>3. \A e \in EventRec : e.kind \in {"started", "stopped", "error"}
      BY DEF EventRec
    <3> QED BY <3>2, <3>3 DEF Switch
  <2> QED BY <1>5, <2>1 DEF FeedInv
<1>7. /\ \A i \in Switch' : InTurn(i)'
      /\ \A i : LastSwitch(i)' <=> i = Len(events) + 1
      /\ Len(events) + 1 \in Switch'
      /\ events'[Len(events) + 1] = Event("started", p)
  BY <1>1, <1>2, <1>3, <1>6, SwitchAdded DEF IInv
<1>8. \A d \in Caller : op'[d].step # "draining"
  BY <1>1, <1>4, StatusCallIs DEF Listen, Succeed
<1>9. \A s \in DOMAIN servers' : ShownRunning(s)' <=> s = current'
  BY <1>8 DEF ShownRunning
<1> QED BY <1>3, <1>7, <1>9 DEF FeedInv

\* A server changes whether it serves and listens; an error may be logged.
LEMMA ServerStepKeepsFeed ==
  ASSUME IInv, FeedInv, NEW s \in DOMAIN servers, Serve(s) \/ AcceptFails(s)
  PROVE  FeedInv'
<1>1. /\ DOMAIN servers' = DOMAIN servers
      /\ \A t \in DOMAIN servers : servers'[t].provider = servers[t].provider
  BY ServersTyped DEF Serve, AcceptFails, ServerRec
<1>2. UNCHANGED <<op, current>>
  BY DEF Serve, AcceptFails
<1>3. \A t \in DOMAIN servers : ShownRunning(t)' <=> ShownRunning(t)
  BY <1>2 DEF ShownRunning
<1>4. Switch' = Switch /\ \A i \in Switch : events'[i] = events[i]
  <2>1. CASE Serve(s)
    BY <2>1 DEF Serve, Switch
  <2>2. CASE AcceptFails(s)
    <3>1. events \in Seq(EventRec) /\ Event("error", servers[s].provider) \in EventRec
      BY ServersTyped DEF IInv, TypeOK, EventRec, Event, ServerRec
    <3>2. PICK n : n = Len(events) + 1
      OBVIOUS
    <3>3. /\ DOMAIN events' = DOMAIN events \cup {n}
          /\ \A i \in DOMAIN events : events'[i] = events[i]
          /\ events'[n] = Event("error", servers[s].provider)
      BY <2>2, <3>1, <3>2, AppendFacts DEF AcceptFails
    <3>4. n \notin DOMAIN events /\ events'[n].kind = "error"
      BY <3>1, <3>2, <3>3 DEF Event
    <3> QED BY <3>3, <3>4 DEF Switch
  <2> QED BY <2>1, <2>2
<1> QED BY <1>1, <1>3, <1>4, FeedUntouched

-----------------------------------------------------------------------------
(* The theorems *)

\* The inductive invariant holds of every behaviour.
THEOREM Inductive == Spec => []IInv
<1>1. Init => IInv
  BY InitHolds
<1>2. IInv /\ [Next]_vars => IInv'
  <2> SUFFICES ASSUME IInv, [Next]_vars PROVE IInv'
    OBVIOUS
  <2>1. ASSUME NEW c \in Caller, NEW p \in Provider, NEW a \in Addr,
               Call(c, "start", p, a)
        PROVE  IInv'
    BY <2>1, CallKeeps
  <2>2. ASSUME NEW c \in Caller,
               Call(c, "stop", NoOne, NoOne) \/ Call(c, "status", NoOne, NoOne)
        PROVE  IInv'
    BY <2>2, CallKeeps
  <2>3. ASSUME NEW c \in Caller, Api(c) PROVE IInv'
    BY <2>3, LockKeeps, WaitKeeps, BeginStopKeeps, ListenKeeps DEF Api
  <2>4. ASSUME NEW s \in DOMAIN servers, Serve(s) \/ AcceptFails(s) \/ Arrive(s)
        PROVE  IInv'
    BY <2>4, ServeKeeps, AcceptFailsKeeps, ArriveKeeps
  <2>5. ASSUME NEW r \in DOMAIN requests, NEW v \in Verdict, Decide(r, v)
        PROVE  IInv'
    BY <2>5, DecideKeeps
  <2>6. CASE UNCHANGED vars
    BY <2>6 DEF vars, IInv, TypeOK, Bounded, CallOK, ServerOK, RequestOK,
                DecisionOK, Accepting, Open
  <2> QED BY <2>1, <2>2, <2>3, <2>4, <2>5, <2>6 DEF Next
<1> QED BY <1>1, <1>2, PTL DEF Spec

\* Every variable keeps its type.
THEOREM TypeCorrect == Spec => []TypeOK
<1>1. IInv => TypeOK
  BY DEF IInv
<1> QED BY <1>1, Inductive, PTL

\* Only the server the manager knows takes new requests, however starts, stops
\* and the serving goroutines interleave (dashboard.go:441-503).
THEOREM OneServerAccepts == Spec => []OnlyCurrentAccepts
<1>1. IInv => OnlyCurrentAccepts
  BY DEF IInv, ServerOK, OnlyCurrentAccepts, TypeOK
<1> QED BY <1>1, Inductive, PTL

\* A decision names the provider of the server that answered the request, also
\* when the manager has switched since (dashboard.go:452-455).
THEOREM DecisionsCredited == Spec => []CreditedToItsProvider
<1>1. IInv => CreditedToItsProvider
  BY DEF IInv, DecisionOK, CreditedToItsProvider
<1> QED BY <1>1, Inductive, PTL

\* The feed shows starts and stops in turn, a stop for the provider started before
\* it, and while no call holds the mutex the last of them says whether the manager
\* has a proxy (dashboard.go:437-479).
THEOREM StartsAndStopsInTurn == Spec => []StartsAndStopsAlternate
<1>1. Init => FeedInv
  BY DEF Init, FeedInv, ShownRunning, Switch, Idle
<1>2. IInv /\ FeedInv /\ [Next]_vars => FeedInv'
  <2> SUFFICES ASSUME IInv, FeedInv, [Next]_vars PROVE FeedInv'
    OBVIOUS
  <2>1. ASSUME NEW c \in Caller,
               \/ \E p \in Provider, a \in Addr : Call(c, "start", p, a)
               \/ Call(c, "stop", NoOne, NoOne) \/ Call(c, "status", NoOne, NoOne)
               \/ Api(c)
        PROVE  FeedInv'
    BY <2>1, QuietCalls, BeginStopKeepsFeed, StoppedKeepsFeed, ListenKeepsFeed
    DEF Api
  <2>2. ASSUME NEW s \in DOMAIN servers, Serve(s) \/ AcceptFails(s)
        PROVE  FeedInv'
    BY <2>2, ServerStepKeepsFeed
  <2>3. ASSUME UNCHANGED <<op, current, servers, events>> PROVE FeedInv'
    BY <2>3, FeedUntouched DEF Switch, ShownRunning
  <2>4. ASSUME NEW s \in DOMAIN servers, Arrive(s) PROVE FeedInv'
    BY <2>3, <2>4 DEF Arrive
  <2>5. ASSUME NEW r \in DOMAIN requests, NEW v \in Verdict, Decide(r, v)
        PROVE  FeedInv'
    BY <2>3, <2>5 DEF Decide
  <2>6. CASE UNCHANGED vars
    BY <2>3, <2>6 DEF vars
  <2> QED BY <2>1, <2>2, <2>4, <2>5, <2>6 DEF Next
<1>3. IInv /\ FeedInv => StartsAndStopsAlternate
  <2> SUFFICES ASSUME IInv, FeedInv PROVE StartsAndStopsAlternate
    OBVIOUS
  <2>1. \A i \in Switch : InTurn(i)
    BY DEF FeedInv
  <2>2. ASSUME mu = NoOne
        PROVE  current # NoOne <=>
                 \E i \in Switch : LastSwitch(i) /\ events[i].kind = "started"
    <3>1. \A c \in Caller : op[c].step # "draining"
      BY <2>2 DEF IInv, CallOK
    <3>2. current \in DOMAIN servers \cup {NoOne} /\ NoOne \notin DOMAIN servers
      BY ServersTyped DEF IInv, TypeOK
    <3>3. \A s \in DOMAIN servers : ShownRunning(s) <=> s = current
      BY <3>1 DEF ShownRunning
    <3>4. ASSUME current # NoOne
          PROVE  \E i \in Switch : LastSwitch(i) /\ events[i].kind = "started"
      <4>1. PICK i \in Switch : LastSwitch(i)
                     /\ events[i] = Event("started", servers[current].provider)
        BY <3>2, <3>3, <3>4 DEF FeedInv
      <4>2. events[i].kind = "started"
        BY <4>1 DEF Event
      <4> QED BY <4>1, <4>2
    <3>5. ASSUME NEW i \in Switch, LastSwitch(i), events[i].kind = "started"
          PROVE  current # NoOne
      BY <3>2, <3>3, <3>5 DEF FeedInv
    <3> QED BY <3>4, <3>5
  <2> QED BY <2>1, <2>2 DEF StartsAndStopsAlternate, InTurn
<1> QED BY <1>1, <1>2, <1>3, Inductive, PTL DEF Spec
=============================================================================
