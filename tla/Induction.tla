----------------------------- MODULE Induction ------------------------------
(***************************************************************************)
(* Induction over the natural numbers for a set instead of a predicate,    *)
(* and what it gives: functions defined by recursion exist.  The other     *)
(* proof modules use these facts for the loops of the code, which the      *)
(* models write as recursive functions over the turns of the loop.         *)
(***************************************************************************)
EXTENDS Integers, FiniteSetTheorems, TLAPS

(* A set that contains 0 and with each number the next contains them all.  *)
(* If m were not in it, the numbers up to m outside it would be mapped     *)
(* one to one, by subtracting 1, to those of them below m: one fewer.      *)
LEMMA SetInduction ==
  ASSUME NEW P, 0 \in P, \A n \in Nat : n \in P => n + 1 \in P
  PROVE  \A n \in Nat : n \in P
  <1> SUFFICES ASSUME NEW m \in Nat, m \notin P PROVE FALSE
    OBVIOUS
  <1> DEFINE Q == {k \in 0..m : k \notin P}
  <1> DEFINE R == {k \in 0..m : k \notin P /\ k # m}
  <1>1. IsFiniteSet(Q) /\ IsFiniteSet(R)
    <2>1. IsFiniteSet(0..m) BY FS_Interval
    <2>2. Q \subseteq 0..m /\ R \subseteq 0..m OBVIOUS
    <2> QED BY <2>1, <2>2, FS_Subset
  <1>2. m \in Q /\ R = Q \ {m}
    OBVIOUS
  <1>3. Cardinality(R) < Cardinality(Q)
    <2>1. Cardinality(R) = Cardinality(Q) - 1 BY <1>1, <1>2, FS_RemoveElement
    <2>2. Cardinality(Q) \in Nat BY <1>1, FS_CardinalityType
    <2> QED BY <2>1, <2>2
  <1> DEFINE f == [k \in Q |-> k - 1]
  <1>4. f \in [Q -> R]
    <2> SUFFICES ASSUME NEW k \in Q PROVE k - 1 \in R
      OBVIOUS
    <2> QED OBVIOUS
  <1>5. \E x, y \in Q : x # y /\ f[x] = f[y]
    <2> HIDE DEF Q, R, f
    <2> QED BY <1>1, <1>3, <1>4, FS_PigeonHole
  <1> QED BY <1>5

(* The same up to a bound. *)
LEMMA BoundedInduction ==
  ASSUME NEW N \in Nat, NEW P, 0 \in P, \A n \in 1..N : n - 1 \in P => n \in P
  PROVE  \A n \in 0..N : n \in P
  <1> DEFINE Q == {n \in Nat : n <= N => n \in P}
  <1>1. 0 \in Q
    OBVIOUS
  <1>2. ASSUME NEW n \in Nat, n \in Q PROVE n + 1 \in Q
    <2> SUFFICES ASSUME n + 1 <= N PROVE n + 1 \in P
      OBVIOUS
    <2>1. n \in P /\ n + 1 \in 1..N /\ (n + 1) - 1 = n
      BY <1>2
    <2> QED BY <2>1
  <1>3. \A n \in Nat : n \in Q
    <2> HIDE DEF Q
    <2> QED BY <1>1, <1>2, SetInduction
  <1> QED BY <1>3

(* D[i] is the step of a loop over S at its turn i. *)
Steps(D, N, S) == D \in [1..N -> [S -> S]]

(* f[i] is what the loop has computed after i turns, from c on. *)
Follows(f, c, D, N, S) ==
  /\ f \in [0..N -> S]
  /\ f[0] = c
  /\ \A i \in 1..N : f[i] = D[i][f[i - 1]]

(* Every loop computes something. *)
LEMMA Recursion ==
  ASSUME NEW N \in Nat, NEW S, NEW c \in S, NEW D, Steps(D, N, S)
  PROVE  \E f : Follows(f, c, D, N, S)
  <1> USE DEF Steps
  <1> DEFINE Good(n, f) == f[0] = c /\ \A i \in 1..N : i <= n => f[i] = D[i][f[i - 1]]
  <1> DEFINE P == {n \in Nat : \E f \in [0..N -> S] : Good(n, f)}
  <1>1. 0 \in P
    <2> DEFINE f == [i \in 0..N |-> c]
    <2>1. f \in [0..N -> S] /\ Good(0, f)
      OBVIOUS
    <2> QED BY <2>1
  <1>2. ASSUME NEW n \in Nat, n \in P PROVE n + 1 \in P
    <2>1. PICK f \in [0..N -> S] : Good(n, f)
      BY <1>2
    <2>2. CASE n + 1 \in 1..N
      <3> DEFINE g == [f EXCEPT ![n + 1] = D[n + 1][f[n]]]
      <3>1. g \in [0..N -> S]
        BY <2>2
      <3>2. Good(n + 1, g)
        BY <2>1, <2>2
      <3> HIDE DEF g, Good
      <3> QED BY <3>1, <3>2
    <2>3. CASE n + 1 \notin 1..N
      <3>1. Good(n + 1, f)
        BY <2>1, <2>3
      <3> QED BY <3>1
    <2> QED BY <2>2, <2>3
  <1>3. N \in P
    <2> HIDE DEF P
    <2> QED BY <1>1, <1>2, SetInduction
  <1>4. PICK f \in [0..N -> S] : Good(N, f)
    BY <1>3
  <1>5. Follows(f, c, D, N, S)
    BY <1>4 DEF Follows
  <1> QED BY <1>5

=============================================================================
