----------------------------- MODULE TextLemmas -----------------------------
(***************************************************************************)
(* Lemmas about scans of a text from left to right, which the parsers are  *)
(* built from: a scan stops somewhere, and where it stops is least.  And   *)
(* about recursion over a text: a least counterexample stands in for       *)
(* induction, which shows that the functions that recursion on a position  *)
(* and the folds of the community modules choose exist.                    *)
(***************************************************************************)
EXTENDS Integers, Sequences, SequencesExt, SequenceTheorems, WellFoundedInduction, TLAPS

\* A nonempty set of numbers has a least element.
LEMMA LeastOf ==
  ASSUME NEW S \in SUBSET Nat, S # {}
  PROVE  \E m \in S : \A k \in S : m <= k
<1>1. PICK m \in S : \A k \in S : ~(<<k, m>> \in OpToRel(<, Nat))
  BY WFMin, NatLessThanWellFounded
<1>2. \A k \in S : ~(k < m)
  BY <1>1 DEF OpToRel
<1>3. QED
  BY <1>2

\* A scan to the right stops at the first position of S, or at the end.
LEMMA ScanStops ==
  ASSUME NEW S, NEW i \in Nat, NEW n \in Nat, i <= n
  PROVE  \E k \in i .. n : /\ k < n => k \in S
                           /\ \A j \in i .. k - 1 : j \notin S
<1> DEFINE stops == {k \in i .. n : k = n \/ k \in S}
<1>1. PICK k \in stops : \A j \in stops : k <= j
  <2>1. stops \in SUBSET Nat /\ n \in stops
    OBVIOUS
  <2>2. QED
    BY <2>1, LeastOf
<1>2. QED
  BY <1>1

(***************************************************************************)
(* Recursion over the positions of a text                                  *)
(***************************************************************************)
\* What holds of 0 and of the successor of every number it holds of, holds of
\* all numbers up to n: S is the set of those it does not hold of.
LEMMA UpTo ==
  ASSUME NEW n \in Nat, NEW S, 0 \in S,
         \A m \in 0 .. n - 1 : m \in S => m + 1 \in S
  PROVE  0 .. n \subseteq S
<1> DEFINE out == {m \in 0 .. n : m \notin S}
<1>1. SUFFICES ASSUME out # {} PROVE FALSE
  OBVIOUS
<1>2. PICK m \in out : \A k \in out : m <= k
  <2>1. out \in SUBSET Nat
    OBVIOUS
  <2> HIDE DEF out
  <2>2. QED
    BY <1>1, <2>1, LeastOf
<1>3. m \in Nat \ {0} /\ m - 1 \in 0 .. n - 1 /\ m - 1 \notin out
  BY <1>2
<1>4. QED
  BY <1>2, <1>3

\* f begins with b, and step[k] leads from its value at k - 1 to that at k.
Unfolds(f, V, b, n, step) ==
  /\ f \in [0 .. n -> V] /\ f[0] = b
  /\ \A k \in 1 .. n : f[k] = step[k][f[k - 1]]

\* There is such a function, so that a recursive function on the numbers up
\* to n, which TLA+ defines as a choice, is what its equation says.
LEMMA RecursionExists ==
  ASSUME NEW V, NEW b \in V, NEW n \in Nat, NEW step \in [1 .. n -> [V -> V]]
  PROVE  \E f : Unfolds(f, V, b, n, step)
<1> DEFINE Begins(f, m) == f[0] = b /\ \A k \in 1 .. m : f[k] = step[k][f[k - 1]]
           good == {m \in 0 .. n : \E f \in [0 .. m -> V] : Begins(f, m)}
<1>1. 0 \in good
  <2> DEFINE f == [k \in 0 .. 0 |-> b]
  <2>1. f \in [0 .. 0 -> V] /\ Begins(f, 0)
    OBVIOUS
  <2>2. \E g \in [0 .. 0 -> V] : Begins(g, 0)
    BY <2>1
  <2>3. QED
    BY <2>2
<1>2. ASSUME NEW m \in 0 .. n - 1, m \in good PROVE m + 1 \in good
  <2>1. PICK f \in [0 .. m -> V] : Begins(f, m)
    BY <1>2
  <2> DEFINE last == step[m + 1][f[m]]
             g == [k \in 0 .. m + 1 |-> IF k = m + 1 THEN last ELSE f[k]]
  <2>2. last \in V
    <3>1. f[m] \in V /\ m + 1 \in 1 .. n
      OBVIOUS
    <3>2. step[m + 1] \in [V -> V]
      BY <3>1
    <3>3. QED
      BY <3>1, <3>2
  <2> HIDE DEF last
  <2>3. g \in [0 .. m + 1 -> V]
    BY <2>2
  <2>4. /\ g[0] = f[0] /\ g[m + 1] = last
        /\ \A k \in 0 .. m : g[k] = f[k]
    OBVIOUS
  <2> HIDE DEF g
  <2>5. Begins(g, m + 1)
    <3>1. ASSUME NEW k \in 1 .. m + 1 PROVE g[k] = step[k][g[k - 1]]
      <4>1. CASE k = m + 1
        <5>1. g[k - 1] = f[m]
          BY <4>1, <2>4
        <5>2. QED
          BY <4>1, <5>1, <2>4 DEF last
      <4>2. CASE k \in 1 .. m
        <5>1. g[k] = f[k] /\ g[k - 1] = f[k - 1]
          BY <4>2, <2>4
        <5>2. QED
          BY <4>2, <5>1, <2>1
      <4>3. QED
        BY <4>1, <4>2
    <3>2. QED
      BY <2>1, <2>4, <3>1
  <2>6. QED
    BY <2>3, <2>5
<1>3. n \in good
  <2> HIDE DEF good
  <2>1. \A m \in 0 .. n - 1 : m \in good => m + 1 \in good
    BY <1>2
  <2>2. 0 .. n \subseteq good
    BY <1>1, <2>1, UpTo, Zenon
  <2>3. QED
    BY <2>2
<1>4. QED
  BY <1>3 DEF Unfolds

(***************************************************************************)
(* Folds: FoldLeft chooses a function on the sets of positions, which      *)
(* takes the last position of a set away at every step                     *)
(***************************************************************************)
\* The last of the numbers from 1 to k.
LEMMA LastOf ==
  ASSUME NEW k \in Nat \ {0}
  PROVE  Max(1 .. k) = k /\ (1 .. k) \ {k} = 1 .. k - 1
<1>1. \A x \in 1 .. k : (\A y \in 1 .. k : x >= y) <=> x = k
  OBVIOUS
<1>2. Max(1 .. k) = k
  BY <1>1 DEF Max
<1>3. QED
  BY <1>2

\* Either the last position of a text is in a set, or it is a set of earlier
\* positions.
LEMMA LastIn ==
  ASSUME NEW m \in Nat, NEW S \in SUBSET (1 .. m + 1)
  PROVE  /\ m + 1 \in S => Max(S) = m + 1 /\ S \ {Max(S)} \in SUBSET (1 .. m)
         /\ m + 1 \notin S => S \in SUBSET (1 .. m)
<1>1. ASSUME m + 1 \in S PROVE Max(S) = m + 1
  <2>1. \A x \in S : (\A y \in S : x >= y) <=> x = m + 1
    BY <1>1
  <2>2. QED
    BY <1>1, <2>1 DEF Max
<1>2. S \ {m + 1} \in SUBSET (1 .. m)
  OBVIOUS
<1>3. m + 1 \notin S => S \in SUBSET (1 .. m)
  OBVIOUS
<1>4. QED
  BY <1>1, <1>2, <1>3

\* The last of some positions is one of them.
LEMMA LastWithin ==
  ASSUME NEW m \in Nat, NEW S \in SUBSET (1 .. m), S # {}
  PROVE  Max(S) \in S
<1> DEFINE good == {k \in 0 .. m : \A T \in SUBSET (1 .. k) : T = {} \/ Max(T) \in T}
<1>1. 0 \in good
  <2>1. \A T \in SUBSET (1 .. 0) : T = {}
    OBVIOUS
  <2>2. QED
    BY <2>1
<1>2. ASSUME NEW k \in 0 .. m - 1, k \in good PROVE k + 1 \in good
  <2>1. ASSUME NEW T \in SUBSET (1 .. k + 1) PROVE T = {} \/ Max(T) \in T
    <3>1. CASE k + 1 \in T
      BY <3>1, LastIn
    <3>2. CASE k + 1 \notin T
      <4>1. T \in SUBSET (1 .. k)
        BY <3>2, LastIn
      <4>2. QED
        BY <1>2, <4>1
    <3>3. QED
      BY <3>1, <3>2
  <2>2. QED
    BY <2>1
<1>3. m \in good
  <2> HIDE DEF good
  <2>1. \A k \in 0 .. m - 1 : k \in good => k + 1 \in good
    BY <1>2
  <2>2. 0 .. m \subseteq good
    BY <1>1, <2>1, UpTo
  <2>3. QED
    BY <2>2
<1>4. QED
  BY <1>3

\* it is the function that a fold over s from b on chooses, where step[a]
\* takes the element a in.
Folds(it, b, s, step) ==
  it = [S \in SUBSET (DOMAIN s) |->
          IF S = {} THEN b ELSE step[s[Max(S)]][it[S \ {Max(S)}]]]

\* There is such a function.
LEMMA FoldExists ==
  ASSUME NEW V, NEW A, NEW b \in V, NEW s \in Seq(A), NEW step \in [A -> [V -> V]]
  PROVE  \E it : Folds(it, b, s, step) /\ it \in [SUBSET (DOMAIN s) -> V]
<1> DEFINE n == Len(s)
           Is(it, m) == \A S \in SUBSET (1 .. m) :
             it[S] = IF S = {} THEN b ELSE step[s[Max(S)]][it[S \ {Max(S)}]]
           good == {m \in 0 .. n : \E it \in [SUBSET (1 .. m) -> V] : Is(it, m)}
<1>0. n \in Nat /\ DOMAIN s = 1 .. n /\ \A k \in 1 .. n : s[k] \in A
  OBVIOUS
<1> HIDE DEF n
<1>1. 0 \in good
  <2> DEFINE it == [S \in SUBSET (1 .. 0) |-> b]
  <2>1. it \in [SUBSET (1 .. 0) -> V] /\ Is(it, 0)
    OBVIOUS
  <2> HIDE DEF it
  <2>2. \E g \in [SUBSET (1 .. 0) -> V] : Is(g, 0)
    BY <2>1
  <2>4. 0 \in 0 .. n
    BY <1>0
  <2> HIDE DEF Is
  <2>3. QED
    BY <2>4, <2>2
<1>2. ASSUME NEW m \in 0 .. n - 1, m \in good PROVE m + 1 \in good
  <2>1. PICK it \in [SUBSET (1 .. m) -> V] : Is(it, m)
    BY <1>2
  <2> DEFINE old(S) == it[S \ {m + 1}]
             g == [S \in SUBSET (1 .. m + 1) |->
                     IF m + 1 \in S THEN step[s[m + 1]][old(S)] ELSE it[S]]
  <2>2. \A S \in SUBSET (1 .. m + 1) : S \ {m + 1} \in SUBSET (1 .. m) /\ old(S) \in V
    <3>1. \A S \in SUBSET (1 .. m + 1) : S \ {m + 1} \in SUBSET (1 .. m)
      OBVIOUS
    <3>2. QED
      BY <3>1
  <2>3. step[s[m + 1]] \in [V -> V]
    BY <1>0
  <2>4. g \in [SUBSET (1 .. m + 1) -> V]
    <3>1. \A S \in SUBSET (1 .. m + 1) : m + 1 \notin S => it[S] \in V
      BY LastIn
    <3>2. QED
      BY <2>2, <2>3, <3>1
  <2>5. Is(g, m + 1)
    <3>1. ASSUME NEW S \in SUBSET (1 .. m + 1)
          PROVE  g[S] = IF S = {} THEN b ELSE step[s[Max(S)]][g[S \ {Max(S)}]]
      <4>1. CASE m + 1 \in S
        <5>1. Max(S) = m + 1 /\ S \ {Max(S)} \in SUBSET (1 .. m) /\ S \ {m + 1} \in SUBSET (1 .. m + 1)
          BY <4>1, LastIn
        <5>2. g[S \ {m + 1}] = it[S \ {m + 1}]
          BY <5>1
        <5>3. QED
          BY <4>1, <5>1, <5>2
      <4>2. CASE m + 1 \notin S
        <5>1. S \in SUBSET (1 .. m) /\ g[S] = it[S]
          BY <4>2, LastIn
        <5>2. /\ S \ {Max(S)} \in SUBSET (1 .. m + 1) /\ m + 1 \notin S \ {Max(S)}
          BY <4>2
        <5>3. g[S \ {Max(S)}] = it[S \ {Max(S)}]
          BY <5>2
        <5>4. it[S] = IF S = {} THEN b ELSE step[s[Max(S)]][it[S \ {Max(S)}]]
          BY <2>1, <5>1
        <5> HIDE DEF g
        <5>5. QED
          BY <5>1, <5>3, <5>4
      <4>3. QED
        BY <4>1, <4>2
    <3>2. QED
      BY <3>1
  <2>6. m + 1 \in 0 .. n
    BY <1>0
  <2> HIDE DEF g, Is
  <2>7. QED
    BY <2>4, <2>5, <2>6
<1>3. n \in good
  <2> HIDE DEF good
  <2>1. \A m \in 0 .. n - 1 : m \in good => m + 1 \in good
    BY <1>2
  <2>2. 0 .. n \subseteq good
    BY <1>0, <1>1, <2>1, UpTo
  <2>3. QED
    BY <1>0, <2>2
<1>4. PICK it \in [SUBSET (1 .. n) -> V] : Is(it, n)
  BY <1>3
<1>5. QED
  BY <1>0, <1>4 DEF Folds

=============================================================================
