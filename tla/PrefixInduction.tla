--------------------------- MODULE PrefixInduction ---------------------------
(***************************************************************************)
(* Induction over the prefixes of a sequence, for the functions defined    *)
(* over them: the loops of the code that go through an array.  A property  *)
(* is the set of the lengths it holds for, and a loop's body a function,   *)
(* so that no statement has an operator for a parameter.                   *)
(***************************************************************************)
EXTENDS Integers, Sequences, WellFoundedInduction, TLAPS

\* A set of numbers has a least one.
LEMMA LeastNumber ==
  ASSUME NEW T, T \subseteq Nat, T # {}
  PROVE  \E x \in T : \A y \in T : x <= y
<1> DEFINE Before == OpToRel(<, Nat)
<1>1. IsWellFoundedOn(Before, Nat)
  BY NatLessThanWellFounded
<1>2. \A x, y \in Nat : x < y => << x, y >> \in Before
  BY DEF OpToRel
<1> HIDE DEF Before
<1>3. PICK x \in T : \A y \in T : << y, x >> \notin Before
  BY <1>1, WFMin
<1>4. ASSUME NEW y \in T PROVE x <= y
  <2>1. x \in Nat /\ y \in Nat /\ ~(y < x)
    BY <1>2, <1>3
  <2> QED
    BY <2>1
<1> QED
  BY <1>4

\* What holds for 0, and for each of the lengths when it does for the one before, holds
\* for all of them.
LEMMA PrefixInduction ==
  ASSUME NEW N \in Nat, NEW T, 0 \in T,
         \A n \in 1 .. N : n - 1 \in T => n \in T
  PROVE  0 .. N \subseteq T
<1> DEFINE Failing == {n \in 0 .. N : n \notin T}
<1>1. Failing \subseteq Nat
  OBVIOUS
<1>2. SUFFICES ASSUME Failing # {} PROVE FALSE
  OBVIOUS
<1>3. PICK least \in Failing : \A n \in Failing : least <= n
  <2> HIDE DEF Failing
  <2> QED
    BY <1>1, <1>2, LeastNumber
<1>4. least \in 1 .. N /\ least - 1 \in 0 .. N /\ ~(least <= least - 1)
  OBVIOUS
<1>5. least - 1 \in T
  BY <1>3, <1>4
<1> QED
  BY <1>4, <1>5

\* A loop that starts with a value of S and keeps to S.
LEMMA PrefixType ==
  ASSUME NEW N \in Nat, NEW S, NEW f, f = [n \in 0 .. N |-> f[n]], f[0] \in S,
         \A n \in 1 .. N : f[n - 1] \in S => f[n] \in S
  PROVE  f \in [0 .. N -> S]
<1> DEFINE T == {n \in 0 .. N : f[n] \in S}
<1>1. 0 \in T /\ \A n \in 1 .. N : n - 1 \in T => n \in T
  OBVIOUS
<1>2. 0 .. N \subseteq T
  <2> HIDE DEF T
  <2> QED
    BY <1>1, PrefixInduction
<1>3. \A n \in 0 .. N : f[n] \in S
  BY <1>2
<1> QED
  BY <1>3

\* f is the run of a loop over N elements, from `base`, that carries a value of S.
IsLoop(f, N, S, base, step) ==
  /\ f \in [0 .. N -> S]
  /\ f[0] = base
  /\ \A n \in 1 .. N : f[n] = step[n][f[n - 1]]

\* A loop has a run.
LEMMA PrefixRecursion ==
  ASSUME NEW N \in Nat, NEW S, NEW base \in S, NEW step \in [1 .. N -> [S -> S]]
  PROVE  \E f : IsLoop(f, N, S, base, step)
<1> DEFINE T == {m \in 0 .. N : \E f : IsLoop(f, m, S, base, step)}
<1>1. 0 \in T
  <2>1. IsLoop([n \in 0 .. 0 |-> base], 0, S, base, step)
    BY DEF IsLoop
  <2> QED
    BY <2>1
<1>2. ASSUME NEW m \in 1 .. N, m - 1 \in T PROVE m \in T
  <2>1. PICK f : IsLoop(f, m - 1, S, base, step)
    BY <1>2
  <2> DEFINE g == [n \in 0 .. m |-> IF n = m THEN step[m][f[m - 1]] ELSE f[n]]
  <2>2. m - 1 \in 0 .. (m - 1) /\ m \in 1 .. N /\ f[m - 1] \in S
    BY <2>1 DEF IsLoop
  <2>3. step[m][f[m - 1]] \in S
    BY <2>2
  <2>4. g \in [0 .. m -> S]
    BY <2>1, <2>3 DEF IsLoop
  <2>5. g[0] = base
    BY <2>1 DEF IsLoop
  <2>6. ASSUME NEW n \in 1 .. m PROVE g[n] = step[n][g[n - 1]]
    <3>1. n - 1 \in 0 .. m /\ n - 1 # m /\ n \in 0 .. m
      OBVIOUS
    <3>2. g[n - 1] = f[n - 1]
      BY <3>1
    <3>3. CASE n = m
      BY <3>1, <3>2, <3>3
    <3>4. CASE n # m
      <4>1. n \in 1 .. (m - 1)
        BY <3>4
      <4> QED
        BY <2>1, <3>1, <3>2, <3>4, <4>1 DEF IsLoop
    <3> QED
      BY <3>3, <3>4
  <2>7. IsLoop(g, m, S, base, step)
    <3> HIDE DEF g
    <3> QED
      BY <2>4, <2>5, <2>6 DEF IsLoop
  <2> QED
    BY <2>7
<1>3. 0 .. N \subseteq T
  <2> HIDE DEF T
  <2> QED
    BY <1>1, <1>2, PrefixInduction
<1>4. N \in T
  BY <1>3
<1> QED
  BY <1>4
=============================================================================
