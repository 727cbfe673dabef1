------------------------- MODULE SiblingListProofs --------------------------
(***************************************************************************)
(* Theorems about the list of siblings, for every set of replicas, every   *)
(* set of objects with different clocks and timestamps, and every order in *)
(* which objects arrive and lists are merged.                              *)
(***************************************************************************)
EXTENDS SiblingList, Induction

(***************************************************************************)
(* The causal order of the objects.                                        *)
(***************************************************************************)
Below(a, b) == Leq(a.vc, b.vc)

LEMMA ObjectParts ==
  /\ \A a \in Object : a.vc \in VClocks /\ a.ts \in Nat
  /\ \A a, b \in Object : a.ts = b.ts => a = b
  BY ObjectAssumption

LEMMA CompareAnswers ==
  ASSUME NEW v \in VClocks, NEW w \in VClocks
  PROVE  /\ Compare(v, w) = "Equal" <=> Leq(v, w) /\ Leq(w, v)
         /\ Compare(v, w) = "Before" <=> Leq(v, w) /\ ~Leq(w, v)
         /\ Compare(v, w) = "After" <=> ~Leq(v, w) /\ Leq(w, v)
         /\ Compare(v, w) = "Concurrent" <=> ~Leq(v, w) /\ ~Leq(w, v)
  <1>1. \A n \in Name : v[n] \in Nat /\ w[n] \in Nat
    BY DEF VClocks
  <1> DEFINE before == \E n \in Name : v[n] < w[n]
             after  == \E n \in Name : v[n] > w[n]
  <1>2. (before <=> ~Leq(w, v)) /\ (after <=> ~Leq(v, w))
    BY <1>1 DEF Leq
  <1>3. Compare(v, w) = CASE before /\ after   -> "Concurrent"
                          [] before /\ ~after  -> "Before"
                          [] ~before /\ after  -> "After"
                          [] ~before /\ ~after -> "Equal"
    BY DEF Compare
  <1> HIDE DEF before, after
  <1> QED BY <1>2, <1>3

(* Below is a partial order, and Cmp says how two objects lie in it. *)
LEMMA BelowOrder ==
  /\ \A a \in Object : Below(a, a)
  /\ \A a, b \in Object : Below(a, b) /\ Below(b, a) => a = b
  /\ \A a, b, c \in Object : Below(a, b) /\ Below(b, c) => Below(a, c)
  <1>1. \A a \in Object : Below(a, a)
    BY ObjectParts DEF Below, Leq, VClocks
  <1>2. ASSUME NEW a \in Object, NEW b \in Object, Below(a, b), Below(b, a) PROVE a = b
    BY <1>2, ObjectParts, ObjectAssumption, CompareAnswers DEF Below
  <1>3. ASSUME NEW a \in Object, NEW b \in Object, NEW c \in Object, Below(a, b), Below(b, c)
        PROVE  Below(a, c)
    <2> SUFFICES ASSUME NEW n \in Name PROVE a.vc[n] <= c.vc[n]
      BY DEF Below, Leq
    <2>1. a.vc[n] \in Nat /\ b.vc[n] \in Nat /\ c.vc[n] \in Nat
      BY ObjectParts DEF VClocks
    <2>2. a.vc[n] <= b.vc[n] /\ b.vc[n] <= c.vc[n]
      BY <1>3 DEF Below, Leq
    <2> QED BY <2>1, <2>2
  <1> QED BY <1>1, <1>2, <1>3

LEMMA CmpMeans ==
  ASSUME NEW a \in Object, NEW b \in Object
  PROVE  /\ Cmp(a, b) = "Equal" <=> a = b
         /\ Cmp(a, b) = "Before" <=> Below(a, b) /\ a # b
         /\ Cmp(a, b) = "After" <=> Below(b, a) /\ a # b
         /\ Cmp(a, b) = "Concurrent" <=> ~Below(a, b) /\ ~Below(b, a)
  <1>1. a.vc \in VClocks /\ b.vc \in VClocks
    BY ObjectParts
  <1>2. /\ Cmp(a, b) = "Equal" <=> Below(a, b) /\ Below(b, a)
        /\ Cmp(a, b) = "Before" <=> Below(a, b) /\ ~Below(b, a)
        /\ Cmp(a, b) = "After" <=> ~Below(a, b) /\ Below(b, a)
        /\ Cmp(a, b) = "Concurrent" <=> ~Below(a, b) /\ ~Below(b, a)
    BY <1>1, CompareAnswers DEF Cmp, Below
  <1> QED BY <1>2, BelowOrder

-----------------------------------------------------------------------------
(***************************************************************************)
(* Lists sorted by timestamp.                                              *)
(***************************************************************************)
Sorted(q) == \A i, j \in 1..Len(q) : i < j => q[i].ts < q[j].ts

LEMMA InSet ==
  ASSUME NEW S, NEW q \in Seq(S)
  PROVE  /\ ToSet(q) \subseteq S
         /\ \A x : x \in ToSet(q) <=> \E i \in 1..Len(q) : q[i] = x
  BY DEF ToSet

LEMMA EmptyList == <<>> \in Seq(Object) /\ Sorted(<<>>) /\ ToSet(<<>>) = {}
  BY DEF Sorted, ToSet

LEMMA AppendList ==
  ASSUME NEW q \in Seq(Object), NEW x \in Object, Sorted(q), \A y \in ToSet(q) : y.ts < x.ts
  PROVE  /\ Append(q, x) \in Seq(Object)
         /\ Sorted(Append(q, x))
         /\ ToSet(Append(q, x)) = ToSet(q) \cup {x}
  <1> DEFINE p == Append(q, x)
  <1>1. /\ p \in Seq(Object) /\ Len(p) = Len(q) + 1 /\ Len(q) \in Nat
        /\ p[Len(q) + 1] = x /\ \A i \in 1..Len(q) : p[i] = q[i]
    OBVIOUS
  <1> HIDE DEF p
  <1>2. Sorted(p)
    <2> SUFFICES ASSUME NEW i \in 1..Len(p), NEW j \in 1..Len(p), i < j PROVE p[i].ts < p[j].ts
      BY DEF Sorted
    <2>1. i \in 1..Len(q) /\ p[i] = q[i] /\ q[i] \in ToSet(q)
      BY <1>1, InSet
    <2>2. CASE j \in 1..Len(q)
      BY <2>1, <2>2, <1>1 DEF Sorted
    <2>3. CASE j = Len(q) + 1
      BY <2>1, <2>3, <1>1
    <2> QED BY <1>1, <2>2, <2>3
  <1>3. ASSUME NEW y PROVE y \in ToSet(p) <=> y \in ToSet(q) \cup {x}
    <2>1. y \in ToSet(p) <=> \E i \in 1..Len(p) : p[i] = y
      BY <1>1, InSet
    <2>2. y \in ToSet(q) <=> \E i \in 1..Len(q) : q[i] = y
      BY InSet
    <2>3. 1..Len(p) = 1..Len(q) \cup {Len(q) + 1}
      BY <1>1
    <2> QED BY <2>1, <2>2, <2>3, <1>1
  <1> QED BY <1>1, <1>2, <1>3 DEF p

(* Lists that agree so far: the next of q comes no earlier in p. *)
LEMMA NextComesLater ==
  ASSUME NEW q \in Seq(Object), NEW p \in Seq(Object), Sorted(q), ToSet(q) \subseteq ToSet(p),
         NEW n \in Nat, \A i \in 1..n : i <= Len(p) => i <= Len(q) /\ q[i] = p[i],
         n + 1 <= Len(q)
  PROVE  \E k \in 1..Len(p) : n + 1 <= k /\ p[k] = q[n + 1]
  <1>1. n + 1 \in 1..Len(q) /\ q[n + 1] \in ToSet(q)
    BY InSet
  <1>2. PICK k \in 1..Len(p) : p[k] = q[n + 1]
    BY <1>1, InSet
  <1>3. ASSUME k <= n PROVE FALSE
    <2>1. k \in 1..n /\ k \in 1..Len(q) /\ q[k] = p[k] /\ k < n + 1
      BY <1>3
    <2>2. q[k].ts < q[n + 1].ts
      BY <2>1, <1>1 DEF Sorted
    <2>3. q[n + 1].ts \in Nat
      BY <1>1, ObjectParts, InSet
    <2> QED BY <2>1, <2>2, <2>3, <1>2
  <1> QED BY <1>2, <1>3

(* A set of objects has one sorted list. *)
LEMMA OneSortedList ==
  ASSUME NEW q \in Seq(Object), NEW p \in Seq(Object), Sorted(q), Sorted(p), ToSet(q) = ToSet(p)
  PROVE  q = p
  <1> DEFINE Agree(i) == (i <= Len(q) <=> i <= Len(p)) /\ (i <= Len(q) => q[i] = p[i])
  <1> DEFINE P == {n \in Nat : \A i \in 1..n : Agree(i)}
  <1>1. 0 \in P
    OBVIOUS
  <1>2. ASSUME NEW n \in Nat, n \in P PROVE n + 1 \in P
    <2>1. \A i \in 1..n : Agree(i)
      BY <1>2
    <2>2. n + 1 <= Len(q) => \E k \in 1..Len(p) : n + 1 <= k /\ p[k] = q[n + 1]
      BY <2>1, NextComesLater
    <2>3. n + 1 <= Len(p) => \E k \in 1..Len(q) : n + 1 <= k /\ q[k] = p[n + 1]
      BY <2>1, NextComesLater
    <2>4. Len(q) \in Nat /\ Len(p) \in Nat
      OBVIOUS
    <2>5. n + 1 <= Len(q) <=> n + 1 <= Len(p)
      BY <2>2, <2>3, <2>4
    <2>6. ASSUME n + 1 <= Len(q) PROVE q[n + 1] = p[n + 1]
      <3>1. PICK k \in 1..Len(p) : n + 1 <= k /\ p[k] = q[n + 1]
        BY <2>2, <2>6
      <3>2. PICK m \in 1..Len(q) : n + 1 <= m /\ q[m] = p[n + 1]
        BY <2>3, <2>5, <2>6
      <3>3. n + 1 \in 1..Len(q) /\ n + 1 \in 1..Len(p)
        BY <2>4, <2>5, <2>6
      <3>4. q[n + 1] \in Object /\ p[n + 1] \in Object
        BY <3>3
      <3>5. q[n + 1].ts \in Nat /\ p[n + 1].ts \in Nat
        BY <3>4, ObjectParts
      <3>6. k = n + 1 \/ p[n + 1].ts < q[n + 1].ts
        BY <3>1, <3>3, <2>4 DEF Sorted
      <3>7. m = n + 1 \/ q[n + 1].ts < p[n + 1].ts
        BY <3>2, <3>3, <2>4 DEF Sorted
      <3>8. k = n + 1 \/ m = n + 1
        BY <3>5, <3>6, <3>7
      <3> QED BY <3>8, <3>1, <3>2
    <2>7. ASSUME NEW i \in 1..(n + 1) PROVE Agree(i)
      <3>1. i \in 1..n \/ i = n + 1
        OBVIOUS
      <3> QED BY <3>1, <2>1, <2>5, <2>6
    <2> QED BY <2>7
  <1>3. \A n \in Nat : n \in P
    <2> HIDE DEF P
    <2> QED BY <1>1, <1>2, SetInduction
  <1>4. ASSUME NEW n \in Nat \ {0} PROVE Agree(n)
    BY <1>3
  <1>5. Len(q) = Len(p)
    <2>1. Len(q) \in Nat /\ Len(p) \in Nat
      OBVIOUS
    <2>2. Agree(Len(q) + 1) /\ Agree(Len(p) + 1)
      BY <2>1, <1>4
    <2> QED BY <2>1, <2>2
  <1>6. \A i \in 1..Len(q) : q[i] = p[i]
    BY <1>4
  <1> QED BY <1>5, <1>6

-----------------------------------------------------------------------------
(***************************************************************************)
(* AddObject under its precondition.                                       *)
(***************************************************************************)
Progress == [kept : Seq(Object), added : BOOLEAN]
Nothing == [kept |-> <<>>, added |-> FALSE]

AddBy(f, q, c) ==
  f = [i \in 0..Len(q) |-> IF i = 0 THEN Nothing ELSE AddTurn(f[i - 1], c, q[i])]

LEMMA AddTurnType ==
  ASSUME NEW d \in Progress, NEW c \in Object, NEW s \in Object
  PROVE  AddTurn(d, c, s) \in Progress
  <1> DEFINE cmp == Cmp(c, s)
             first == ~d.added /\ (cmp = "Before" \/ (cmp = "Concurrent" /\ SortByTimestamp(c, s)))
  <1>1. AddTurn(d, c, s) =
          IF cmp = "After" THEN d
          ELSE [kept |-> Append(IF first THEN Append(d.kept, c) ELSE d.kept, s),
                added |-> d.added \/ first \/ cmp = "Equal"]
    BY DEF AddTurn
  <1>2. first \in BOOLEAN /\ (cmp = "After") \in BOOLEAN /\ (cmp = "Equal") \in BOOLEAN
    OBVIOUS
  <1>3. d.kept \in Seq(Object) /\ d.added \in BOOLEAN
    BY DEF Progress
  <1> HIDE DEF first, cmp
  <1>4. Append(IF first THEN Append(d.kept, c) ELSE d.kept, s) \in Seq(Object)
    BY <1>2, <1>3
  <1>5. (d.added \/ first \/ cmp = "Equal") \in BOOLEAN
    OBVIOUS
  <1> QED BY <1>1, <1>4, <1>5 DEF Progress

LEMMA AddDef ==
  ASSUME NEW q \in Seq(Object), NEW c \in Object
  PROVE  \E f : /\ AddBy(f, q, c)
                /\ AddObject(q, c) = IF f[Len(q)].added THEN f[Len(q)].kept
                                     ELSE Append(f[Len(q)].kept, c)
  <1> DEFINE N == Len(q)
             D == [i \in 1..N |-> [d \in Progress |-> AddTurn(d, c, q[i])]]
  <1>1. N \in Nat /\ \A i \in 1..N : q[i] \in Object
    OBVIOUS
  <1>2. Steps(D, N, Progress)
    BY <1>1, AddTurnType DEF Steps
  <1>3. Nothing \in Progress
    BY EmptyList DEF Nothing, Progress
  <1>4. PICK f : Follows(f, Nothing, D, N, Progress)
    <2> HIDE DEF N, D
    <2> QED BY <1>1, <1>2, <1>3, Recursion
  <1>5. AddBy(f, q, c)
    <2>1. f = [i \in 0..N |-> f[i]]
      BY <1>4 DEF Follows
    <2>2. ASSUME NEW i \in 0..N
          PROVE  f[i] = IF i = 0 THEN Nothing ELSE AddTurn(f[i - 1], c, q[i])
      <3>1. CASE i = 0
        BY <3>1, <1>4 DEF Follows
      <3>2. CASE i # 0
        <4>1. i \in 1..N /\ i - 1 \in 0..N
          BY <3>2, <1>1
        <4>2. f[i] = D[i][f[i - 1]] /\ f[i - 1] \in Progress
          BY <4>1, <1>4 DEF Follows
        <4> QED BY <3>2, <4>1, <4>2
      <3> QED BY <3>1, <3>2
    <2> QED BY <2>1, <2>2 DEF AddBy
  <1>6. \E g : AddBy(g, q, c)
    BY <1>5
  <1>7. AddBy(CHOOSE g : AddBy(g, q, c), q, c)
    BY <1>6
  <1>8. AddObject(q, c) =
          LET g == CHOOSE h : AddBy(h, q, c)
          IN  IF g[Len(q)].added THEN g[Len(q)].kept ELSE Append(g[Len(q)].kept, c)
    BY DEF AddObject, AddBy, Nothing
  <1> QED BY <1>7, <1>8

(* What AddObject has kept of the first i siblings. *)
Stays(q, c, i) == {x \in Object : \E j \in 1..i : x = q[j] /\ Cmp(c, x) # "After"}
AddedSoFar(q, c, i, d) ==
  /\ d \in Progress
  /\ Sorted(d.kept)
  /\ ToSet(d.kept) = Stays(q, c, i) \cup (IF d.added THEN {c} ELSE {})
  /\ \A x \in ToSet(d.kept) : \E j \in 1..i : x.ts <= q[j].ts
  /\ ~d.added => \A x \in ToSet(d.kept) : x.ts < c.ts

LEMMA AddedNext ==
  ASSUME NEW q \in Seq(Object), NEW c \in Object, Sorted(q), CanBeAddedTo(c, q),
         NEW i \in 1..Len(q), NEW d, AddedSoFar(q, c, i - 1, d)
  PROVE  AddedSoFar(q, c, i, AddTurn(d, c, q[i]))
  <1> DEFINE s == q[i]
             e == AddTurn(d, c, s)
  <1>1. s \in Object /\ s.ts \in Nat /\ c.ts \in Nat
    BY ObjectParts
  <1>2. d \in Progress /\ d.kept \in Seq(Object) /\ d.added \in BOOLEAN
    BY DEF AddedSoFar, Progress
  <1>3. e \in Progress
    BY <1>1, <1>2, AddTurnType
  <1>4. Cmp(c, s) \notin {"Before", "Equal"}
    BY DEF CanBeAddedTo
  <1>5. i \in Nat /\ i - 1 \in Nat /\ 1..i = 1..(i - 1) \cup {i}
    OBVIOUS
  <1>6. \A j \in 1..(i - 1) : j \in 1..i /\ q[j].ts \in Nat /\ q[j].ts < s.ts
    BY ObjectParts DEF Sorted
  <1>7. ASSUME Cmp(c, s) = "After" PROVE AddedSoFar(q, c, i, e)
    <2>1. e = d
      BY <1>7 DEF AddTurn
    <2>2. Stays(q, c, i) = Stays(q, c, i - 1)
      BY <1>5, <1>7 DEF Stays
    <2>3. \A x \in ToSet(d.kept) : \E j \in 1..i : x.ts <= q[j].ts
      BY <1>6 DEF AddedSoFar
    <2> HIDE DEF e, s
    <2> QED BY <1>2, <2>1, <2>2, <2>3 DEF AddedSoFar
  <1>8. ASSUME Cmp(c, s) # "After" PROVE AddedSoFar(q, c, i, e)
    <2> DEFINE young == ~d.added /\ c.ts < s.ts
    <2>1. Cmp(c, s) = "Concurrent" /\ c # s /\ c.ts # s.ts
      <3>1. c # s
        BY <1>1, <1>4, CmpMeans
      <3>2. Cmp(c, s) = "Concurrent"
        BY <1>1, <1>4, <1>8, BelowOrder, CmpMeans
      <3> QED BY <3>1, <3>2, <1>1, ObjectParts
    <2>2. e = [kept |-> Append(IF young THEN Append(d.kept, c) ELSE d.kept, s),
               added |-> d.added \/ young]
      BY <2>1, <1>8 DEF AddTurn, SortByTimestamp
    <2>3. Stays(q, c, i) = Stays(q, c, i - 1) \cup {s}
      BY <1>1, <1>5, <1>8 DEF Stays
    <2>4. \A x \in ToSet(d.kept) : x \in Object /\ x.ts \in Nat /\ x.ts < s.ts
      <3> SUFFICES ASSUME NEW x \in ToSet(d.kept) PROVE x \in Object /\ x.ts \in Nat /\ x.ts < s.ts
        OBVIOUS
      <3>1. x \in Object /\ x.ts \in Nat
        BY <1>2, InSet, ObjectParts
      <3>2. PICK j \in 1..(i - 1) : x.ts <= q[j].ts
        BY DEF AddedSoFar
      <3> QED BY <3>1, <3>2, <1>1, <1>6
    <2>5. /\ Sorted(d.kept)
          /\ ToSet(d.kept) = Stays(q, c, i - 1) \cup (IF d.added THEN {c} ELSE {})
          /\ ~d.added => \A x \in ToSet(d.kept) : x.ts < c.ts
      BY DEF AddedSoFar
    <2> HIDE DEF e, s
    <2>6. CASE young
      <3> DEFINE k == Append(d.kept, c)
      <3>1. k \in Seq(Object) /\ Sorted(k) /\ ToSet(k) = ToSet(d.kept) \cup {c}
        BY <2>5, <2>6, <1>2, AppendList
      <3>2. \A x \in ToSet(k) : x.ts < s.ts
        BY <3>1, <2>4, <2>6
      <3>3. /\ Sorted(Append(k, s))
            /\ ToSet(Append(k, s)) = ToSet(k) \cup {s}
        <4> HIDE DEF k
        <4> QED BY <3>1, <3>2, <1>1, AppendList
      <3>4. e.kept = Append(k, s) /\ e.added = TRUE
        BY <2>2, <2>6
      <3>5. ToSet(e.kept) = Stays(q, c, i) \cup {c}
        BY <3>1, <3>3, <3>4, <2>3, <2>5, <2>6
      <3>6. \A x \in ToSet(e.kept) : x.ts <= s.ts
        BY <3>1, <3>2, <3>3, <3>4, <2>4, <1>1, ObjectParts, InSet
      <3> QED BY <1>3, <3>3, <3>4, <3>5, <3>6, <1>5 DEF AddedSoFar, s
    <2>7. CASE ~young
      <3>1. /\ Sorted(Append(d.kept, s))
            /\ ToSet(Append(d.kept, s)) = ToSet(d.kept) \cup {s}
        BY <2>4, <2>5, <1>1, <1>2, AppendList
      <3>2. e.kept = Append(d.kept, s) /\ e.added = d.added
        BY <2>2, <2>7, <1>2
      <3>3. ToSet(e.kept) = Stays(q, c, i) \cup (IF e.added THEN {c} ELSE {})
        BY <3>1, <3>2, <2>3, <2>5
      <3>4. \A x \in ToSet(e.kept) : x.ts <= s.ts
        BY <3>1, <3>2, <2>4, <1>1
      <3>5. ~e.added => \A x \in ToSet(e.kept) : x.ts < c.ts
        BY <3>1, <3>2, <2>1, <2>5, <2>7, <1>1
      <3> QED BY <1>3, <3>1, <3>2, <3>3, <3>4, <3>5, <1>5 DEF AddedSoFar, s
    <2> QED BY <2>6, <2>7
  <1> QED BY <1>7, <1>8

(* AddObject (object.go) replaces exactly the siblings its candidate       *)
(* supersedes, and the list stays sorted.                                  *)
LEMMA AddObjectIs ==
  ASSUME NEW q \in Seq(Object), NEW c \in Object, Sorted(q), CanBeAddedTo(c, q)
  PROVE  /\ AddObject(q, c) \in Seq(Object)
         /\ Sorted(AddObject(q, c))
         /\ ToSet(AddObject(q, c)) = {s \in ToSet(q) : Cmp(c, s) # "After"} \cup {c}
  <1> DEFINE N == Len(q)
  <1>1. PICK f : /\ AddBy(f, q, c)
                 /\ AddObject(q, c) = IF f[N].added THEN f[N].kept ELSE Append(f[N].kept, c)
    BY AddDef
  <1>2. N \in Nat
    OBVIOUS
  <1>3. f[0] = Nothing /\ \A i \in 1..N : f[i] = AddTurn(f[i - 1], c, q[i])
    BY <1>1, <1>2 DEF AddBy
  <1> DEFINE P == {i \in 0..N : AddedSoFar(q, c, i, f[i])}
  <1>4. 0 \in P
    <2>1. Nothing \in Progress /\ Nothing.kept = <<>> /\ Nothing.added = FALSE
      BY EmptyList DEF Nothing, Progress
    <2>2. Stays(q, c, 0) = {}
      BY DEF Stays
    <2>3. AddedSoFar(q, c, 0, Nothing)
      BY <2>1, <2>2, EmptyList DEF AddedSoFar
    <2> QED BY <2>3, <1>2, <1>3
  <1>5. ASSUME NEW i \in 1..N, i - 1 \in P PROVE i \in P
    <2>1. AddedSoFar(q, c, i, AddTurn(f[i - 1], c, q[i]))
      BY <1>5, AddedNext
    <2> QED BY <2>1, <1>2, <1>3
  <1>6. N \in P
    <2>1. \A i \in 0..N : i \in P
      <3> HIDE DEF P, N
      <3> QED BY <1>2, <1>4, <1>5, BoundedInduction
    <2> QED BY <2>1, <1>2
  <1> DEFINE d == f[N]
  <1>7. AddedSoFar(q, c, N, d)
    BY <1>6
  <1>8. Stays(q, c, N) = {s \in ToSet(q) : Cmp(c, s) # "After"}
    BY InSet DEF Stays
  <1> HIDE DEF d, N
  <1>9. d.kept \in Seq(Object) /\ d.added \in BOOLEAN
    BY <1>7 DEF AddedSoFar, Progress
  <1>10. CASE d.added
    BY <1>1, <1>7, <1>8, <1>9, <1>10 DEF AddedSoFar, d
  <1>11. CASE ~d.added
    <2>1. AddObject(q, c) = Append(d.kept, c)
      BY <1>1, <1>11 DEF d
    <2>2. Sorted(d.kept) /\ \A x \in ToSet(d.kept) : x.ts < c.ts
      BY <1>7, <1>11 DEF AddedSoFar
    <2>3. ToSet(d.kept) = Stays(q, c, N)
      BY <1>7, <1>11 DEF AddedSoFar
    <2> QED BY <2>1, <2>2, <2>3, <1>8, <1>9, AppendList
  <1> QED BY <1>10, <1>11

-----------------------------------------------------------------------------
(***************************************************************************)
(* Merging.  Keeps(q, D): the list q is sorted, holds objects of D only,   *)
(* none of them below another, and nothing in D is missing above it.       *)
(***************************************************************************)
Chainless(S) == \A a, b \in S : Below(a, b) => a = b

Keeps(q, D) ==
  /\ q \in Seq(Object) /\ Sorted(q)
  /\ D \subseteq Object
  /\ ToSet(q) \subseteq D
  /\ Chainless(ToSet(q))
  /\ \A d \in D : \E x \in ToSet(q) : Below(d, x)

LEMMA CanBeAddedMeans ==
  ASSUME NEW q \in Seq(Object), NEW c \in Object
  PROVE  CanBeAddedTo(c, q) <=> \A x \in ToSet(q) : ~Below(c, x)
  <1>1. DOMAIN q = 1..Len(q) /\ \A i \in 1..Len(q) : q[i] \in Object
    OBVIOUS
  <1>2. \A i \in 1..Len(q) : Cmp(c, q[i]) \notin {"Before", "Equal"} <=> ~Below(c, q[i])
    BY <1>1, CmpMeans, BelowOrder
  <1> QED BY <1>1, <1>2, InSet DEF CanBeAddedTo

LEMMA TurnKeeps ==
  ASSUME NEW q, NEW D, Keeps(q, D), NEW c \in Object
  PROVE  Keeps(MergeTurn(q, c), D \cup {c})
  <1>1. /\ q \in Seq(Object) /\ Sorted(q) /\ D \subseteq Object
        /\ ToSet(q) \subseteq D /\ Chainless(ToSet(q))
        /\ \A d \in D : \E x \in ToSet(q) : Below(d, x)
    BY DEF Keeps
  <1>2. CASE CanBeAddedTo(c, q)
    <2> DEFINE p == AddObject(q, c)
    <2>1. MergeTurn(q, c) = p
      BY <1>2 DEF MergeTurn
    <2>2. /\ p \in Seq(Object) /\ Sorted(p)
          /\ ToSet(p) = {s \in ToSet(q) : Cmp(c, s) # "After"} \cup {c}
      BY <1>1, <1>2, AddObjectIs
    <2> HIDE DEF p
    <2>3. \A x \in ToSet(q) : ~Below(c, x)
      BY <1>1, <1>2, CanBeAddedMeans
    <2>4. \A x \in ToSet(q) : x \in ToSet(p) <=> ~Below(x, c)
      <3> SUFFICES ASSUME NEW x \in ToSet(q) PROVE x \in ToSet(p) <=> ~Below(x, c)
        OBVIOUS
      <3>1. x \in Object /\ x # c
        BY <1>1, <2>3, BelowOrder
      <3>2. Cmp(c, x) = "After" <=> Below(x, c)
        BY <3>1, CmpMeans
      <3> QED BY <2>2, <3>1, <3>2
    <2>5. c \in ToSet(p) /\ \A x \in ToSet(p) : x \in ToSet(q) \/ x = c
      BY <2>2
    <2>6. Chainless(ToSet(p))
      <3> SUFFICES ASSUME NEW a \in ToSet(p), NEW b \in ToSet(p), Below(a, b) PROVE a = b
        BY DEF Chainless
      <3>1. CASE a = c /\ b # c
        BY <3>1, <2>3, <2>5
      <3>2. CASE a # c /\ b = c
        BY <3>2, <2>4, <2>5
      <3>3. CASE a # c /\ b # c
        BY <3>3, <2>5, <1>1 DEF Chainless
      <3> QED BY <3>1, <3>2, <3>3
    <2>7. ASSUME NEW d \in D \cup {c} PROVE \E x \in ToSet(p) : Below(d, x)
      <3>1. CASE d = c
        BY <3>1, <2>5, BelowOrder
      <3>2. CASE d \in D
        <4>1. PICK x \in ToSet(q) : Below(d, x)
          BY <3>2, <1>1
        <4>2. CASE Below(x, c)
          <5>1. Below(d, c)
            BY <4>1, <4>2, <3>2, <1>1, BelowOrder
          <5> QED BY <5>1, <2>5
        <4>3. CASE ~Below(x, c)
          BY <4>1, <4>3, <2>4
        <4> QED BY <4>2, <4>3
      <3> QED BY <3>1, <3>2
    <2> QED BY <2>1, <2>2, <2>5, <2>6, <2>7, <1>1 DEF Keeps
  <1>3. CASE ~CanBeAddedTo(c, q)
    <2>1. MergeTurn(q, c) = q
      BY <1>3 DEF MergeTurn
    <2>2. \E x \in ToSet(q) : Below(c, x)
      BY <1>1, <1>3, CanBeAddedMeans
    <2> QED BY <2>1, <2>2, <1>1 DEF Keeps
  <1> QED BY <1>2, <1>3

MergeBy(f, q, p) ==
  f = [i \in 0..Len(p) |-> IF i = 0 THEN q ELSE MergeTurn(f[i - 1], p[i])]

LEMMA MergeTurnType ==
  ASSUME NEW q \in Seq(Object), NEW c \in Object, Sorted(q)
  PROVE  MergeTurn(q, c) \in Seq(Object) /\ Sorted(MergeTurn(q, c))
  BY AddObjectIs DEF MergeTurn

SortedLists == {q \in Seq(Object) : Sorted(q)}

LEMMA MergeDef ==
  ASSUME NEW q \in SortedLists, NEW p \in Seq(Object)
  PROVE  \E f : MergeBy(f, q, p) /\ MergeList(q, p) = f[Len(p)]
  <1> DEFINE N == Len(p)
             D == [i \in 1..N |-> [d \in SortedLists |-> MergeTurn(d, p[i])]]
  <1>1. N \in Nat /\ \A i \in 1..N : p[i] \in Object
    OBVIOUS
  <1>2. Steps(D, N, SortedLists)
    BY <1>1, MergeTurnType DEF Steps, SortedLists
  <1>3. PICK f : Follows(f, q, D, N, SortedLists)
    <2> HIDE DEF N, D
    <2> QED BY <1>1, <1>2, Recursion
  <1>4. MergeBy(f, q, p)
    <2>1. f = [i \in 0..N |-> f[i]]
      BY <1>3 DEF Follows
    <2>2. ASSUME NEW i \in 0..N
          PROVE  f[i] = IF i = 0 THEN q ELSE MergeTurn(f[i - 1], p[i])
      <3>1. CASE i = 0
        BY <3>1, <1>3 DEF Follows
      <3>2. CASE i # 0
        <4>1. i \in 1..N /\ i - 1 \in 0..N
          BY <3>2, <1>1
        <4>2. f[i] = D[i][f[i - 1]] /\ f[i - 1] \in SortedLists
          BY <4>1, <1>3 DEF Follows
        <4> QED BY <3>2, <4>1, <4>2
      <3> QED BY <3>1, <3>2
    <2> QED BY <2>1, <2>2 DEF MergeBy
  <1>5. MergeBy(CHOOSE g : MergeBy(g, q, p), q, p)
    BY <1>4
  <1>6. MergeList(q, p) = (CHOOSE g : MergeBy(g, q, p))[Len(p)]
    BY DEF MergeList, MergeBy
  <1> QED BY <1>5, <1>6

FirstOf(p, i) == {x \in Object : \E j \in 1..i : p[j] = x}
MergedSoFar(q, D, p, i) == Keeps(q, D \cup FirstOf(p, i))

(* The loop of mergeObjectsCore (server.go) keeps what it should of both. *)
LEMMA MergeKeeps ==
  ASSUME NEW q, NEW D, Keeps(q, D), NEW p \in Seq(Object)
  PROVE  Keeps(MergeList(q, p), D \cup ToSet(p))
  <1> DEFINE N == Len(p)
  <1>1. q \in SortedLists
    BY DEF Keeps, SortedLists
  <1>2. PICK f : MergeBy(f, q, p) /\ MergeList(q, p) = f[N]
    BY <1>1, MergeDef
  <1>3. N \in Nat /\ \A i \in 1..N : p[i] \in Object
    OBVIOUS
  <1>4. f[0] = q /\ \A i \in 1..N : f[i] = MergeTurn(f[i - 1], p[i])
    BY <1>2, <1>3 DEF MergeBy
  <1> DEFINE P == {i \in 0..N : MergedSoFar(f[i], D, p, i)}
  <1>5. 0 \in P
    <2>1. D \cup FirstOf(p, 0) = D
      BY DEF FirstOf
    <2>2. MergedSoFar(f[0], D, p, 0)
      BY <2>1, <1>4 DEF MergedSoFar
    <2> QED BY <2>2, <1>3
  <1>6. ASSUME NEW i \in 1..N, i - 1 \in P PROVE i \in P
    <2>1. Keeps(f[i - 1], D \cup FirstOf(p, i - 1))
      BY <1>6 DEF MergedSoFar
    <2>2. Keeps(MergeTurn(f[i - 1], p[i]), (D \cup FirstOf(p, i - 1)) \cup {p[i]})
      BY <1>3, <2>1, TurnKeeps
    <2>3. (D \cup FirstOf(p, i - 1)) \cup {p[i]} = D \cup FirstOf(p, i)
      BY <1>3 DEF FirstOf
    <2>4. MergedSoFar(f[i], D, p, i)
      BY <2>2, <2>3, <1>4 DEF MergedSoFar
    <2> QED BY <2>4, <1>3
  <1>7. N \in P
    <2>1. \A i \in 0..N : i \in P
      <3> HIDE DEF P, N
      <3> QED BY <1>3, <1>5, <1>6, BoundedInduction
    <2>2. N \in 0..N
      BY <1>3
    <2> HIDE DEF P
    <2> QED BY <2>1, <2>2
  <1>8. FirstOf(p, N) = ToSet(p)
    BY InSet DEF FirstOf
  <1> QED BY <1>2, <1>7, <1>8 DEF MergedSoFar

(* What is below a kept object need not be asked for. *)
LEMMA KeepsMore ==
  ASSUME NEW q, NEW D, Keeps(q, D), NEW E, D \subseteq E, E \subseteq Object,
         \A e \in E : \E d \in D : Below(e, d)
  PROVE  Keeps(q, E)
  <1>1. ASSUME NEW e \in E PROVE \E x \in ToSet(q) : Below(e, x)
    <2>1. PICK d \in D : Below(e, d)
      OBVIOUS
    <2>2. PICK x \in ToSet(q) : Below(d, x)
      BY DEF Keeps
    <2>3. e \in Object /\ d \in Object /\ x \in Object
      BY DEF Keeps
    <2> QED BY <2>1, <2>2, <2>3, BelowOrder
  <1> QED BY <1>1 DEF Keeps

Maximal(D) == {o \in D : \A p \in D : Cmp(o, p) # "Before"}

LEMMA KeepsMaximalOnes ==
  ASSUME NEW q, NEW D, Keeps(q, D)
  PROVE  ToSet(q) = Maximal(D)
  <1>1. D \subseteq Object /\ ToSet(q) \subseteq D
    BY DEF Keeps
  <1>2. ASSUME NEW o \in ToSet(q), NEW p \in D, Cmp(o, p) = "Before" PROVE FALSE
    <2>1. Below(o, p) /\ o # p
      BY <1>1, <1>2, CmpMeans
    <2>2. PICK x \in ToSet(q) : Below(p, x)
      BY DEF Keeps
    <2>3. Below(o, x)
      BY <2>1, <2>2, <1>1, BelowOrder
    <2>4. o = x
      BY <2>3 DEF Keeps, Chainless
    <2> QED BY <2>1, <2>2, <2>4, <1>1, BelowOrder
  <1>3. ASSUME NEW o \in D, \A p \in D : Cmp(o, p) # "Before" PROVE o \in ToSet(q)
    <2>1. PICK x \in ToSet(q) : Below(o, x)
      BY DEF Keeps
    <2>2. o = x
      BY <2>1, <1>1, <1>3, CmpMeans
    <2> QED BY <2>2
  <1> QED BY <1>1, <1>2, <1>3 DEF Maximal

-----------------------------------------------------------------------------
(***************************************************************************)
(* The inductive invariant and the replicas' steps.                        *)
(***************************************************************************)
ListInv ==
  /\ list = [r \in Replica |-> list[r]]
  /\ delivered = [r \in Replica |-> delivered[r]]
  /\ \A r \in Replica : Keeps(list[r], delivered[r])

LEMMA EmptyKeeps == Keeps(<<>>, {})
  BY EmptyList DEF Keeps, Chainless

LEMMA ListInvInit == Init => ListInv
  BY EmptyKeeps DEF Init, ListInv

LEMMA ReceiveStep ==
  ASSUME ListInv, NEW r \in Replica, NEW obj \in Object, Receive(r, obj)
  PROVE  ListInv'
  <1>1. Keeps(list[r], delivered[r])
    BY DEF ListInv
  <1>2. <<obj>> \in Seq(Object) /\ ToSet(<<obj>>) = {obj}
    BY DEF ToSet
  <1>3. Keeps(MergeList(list[r], <<obj>>), delivered[r] \cup {obj})
    BY <1>1, <1>2, MergeKeeps
  <1>4. /\ list' = [list EXCEPT ![r] = MergeList(list[r], <<obj>>)]
        /\ delivered' = [delivered EXCEPT ![r] = delivered[r] \cup {obj}]
    BY DEF Receive
  <1> QED BY <1>3, <1>4 DEF ListInv

LEMMA MergeFromStep ==
  ASSUME ListInv, NEW r \in Replica, NEW q \in Replica, MergeFrom(r, q)
  PROVE  ListInv'
  <1> DEFINE D == delivered[r] \cup ToSet(list[q])
             E == delivered[r] \cup delivered[q]
  <1>1. Keeps(list[r], delivered[r]) /\ Keeps(list[q], delivered[q])
    BY DEF ListInv
  <1>2. Keeps(MergeList(list[r], list[q]), D)
    <2>1. list[q] \in Seq(Object)
      BY <1>1 DEF Keeps
    <2> QED BY <2>1, <1>1, MergeKeeps
  <1>3. D \subseteq E /\ E \subseteq Object
    BY <1>1 DEF Keeps
  <1>4. \A e \in E : \E d \in D : Below(e, d)
    BY <1>1, BelowOrder DEF Keeps
  <1>5. Keeps(MergeList(list[r], list[q]), E)
    <2> HIDE DEF D, E
    <2> QED BY <1>2, <1>3, <1>4, KeepsMore
  <1>6. /\ list' = [list EXCEPT ![r] = MergeList(list[r], list[q])]
        /\ delivered' = [delivered EXCEPT ![r] = E]
    BY DEF MergeFrom
  <1> HIDE DEF D, E
  <1> QED BY <1>5, <1>6 DEF ListInv

LEMMA ListInvNext == ListInv /\ [Next]_vars => ListInv'
  <1> SUFFICES ASSUME ListInv, [Next]_vars PROVE ListInv'
    OBVIOUS
  <1>1. CASE UNCHANGED vars
    BY <1>1 DEF ListInv, vars
  <1>2. ASSUME NEW r \in Replica, NEW obj \in Object, Receive(r, obj) PROVE ListInv'
    BY <1>2, ReceiveStep
  <1>3. ASSUME NEW r \in Replica, NEW q \in Replica, MergeFrom(r, q) PROVE ListInv'
    BY <1>3, MergeFromStep
  <1> QED BY <1>1, <1>2, <1>3 DEF Next

LEMMA ListInvAlways == Spec => []ListInv
  BY ListInvInit, ListInvNext, PTL DEF Spec

(* In every order of puts and merges a replica holds exactly the maximal   *)
(* objects among those offered to it (object.go CanBeAddedTo and           *)
(* AddObject, server.go mergeObjectsCore).                                 *)
THEOREM MaximalAlwaysKept == Spec => []KeepsMaximal
  <1>1. ListInv => KeepsMaximal
    BY KeepsMaximalOnes DEF ListInv, KeepsMaximal, Maximal
  <1> QED BY <1>1, ListInvAlways, PTL

(* The lists stay sorted, and replicas that were offered the same objects, *)
(* in whatever orders and by whatever merges, hold the same list, so that  *)
(* writeKVPair (merkle.go) hashes the same bytes.                          *)
THEOREM SameObjectsAlwaysSameList == Spec => []SameObjectsSameList
  <1>1. ASSUME ListInv, NEW r \in Replica PROVE IsOrdered(list[r])
    <2> DEFINE s == list[r]
    <2>1. s \in Seq(Object) /\ Sorted(s) /\ Chainless(ToSet(s))
      BY <1>1 DEF ListInv, Keeps
    <2> HIDE DEF s
    <2>2. ASSUME NEW i \in 2..Len(s)
          PROVE  Cmp(s[i - 1], s[i]) # "After" /\ SortByTimestamp(s[i - 1], s[i])
      <3>1. i \in 1..Len(s) /\ i - 1 \in 1..Len(s) /\ i - 1 < i
        BY <2>1
      <3>2. s[i] \in Object /\ s[i - 1] \in Object /\ s[i] \in ToSet(s) /\ s[i - 1] \in ToSet(s)
        BY <3>1, <2>1, InSet
      <3>3. s[i - 1].ts < s[i].ts
        BY <3>1, <2>1 DEF Sorted
      <3>4. Cmp(s[i - 1], s[i]) # "After"
        BY <3>2, <2>1, CmpMeans DEF Chainless
      <3> QED BY <3>3, <3>4 DEF SortByTimestamp
    <2> QED BY <2>2 DEF IsOrdered, s
  <1>2. ASSUME ListInv, NEW r \in Replica, NEW q \in Replica, delivered[r] = delivered[q]
        PROVE  list[r] = list[q]
    <2>1. Keeps(list[r], delivered[r]) /\ Keeps(list[q], delivered[r])
      BY <1>2 DEF ListInv
    <2>2. ToSet(list[r]) = ToSet(list[q])
      BY <2>1, KeepsMaximalOnes
    <2> QED BY <2>1, <2>2, OneSortedList DEF Keeps
  <1>3. ListInv => SameObjectsSameList
    BY <1>1, <1>2 DEF SameObjectsSameList
  <1> QED BY <1>3, ListInvAlways, PTL

-----------------------------------------------------------------------------
(***************************************************************************)
(* The siblings in any order.                                              *)
(***************************************************************************)
Shuffles(A, N) ==
  {s \in [1..N -> A] :
     /\ \A i, j \in 1..N : s[i] = s[j] => i = j
     /\ \A a \in A : \E i \in 1..N : s[i] = a}

LEMMA ShuffleParts ==
  ASSUME NEW A, NEW N \in Nat, NEW s \in Shuffles(A, N)
  PROVE  /\ s \in Seq(A) /\ Len(s) = N
         /\ ToSet(s) = A
         /\ \A i \in 1..N : s[i] \in A
         /\ \A i, j \in 1..N : s[i] = s[j] => i = j
         /\ \A a \in A : \E i \in 1..N : s[i] = a
  <1>1. /\ s \in [1..N -> A]
        /\ \A i, j \in 1..N : s[i] = s[j] => i = j
        /\ \A a \in A : \E i \in 1..N : s[i] = a
    BY DEF Shuffles
  <1>2. s \in Seq(A) /\ Len(s) = N
    BY <1>1
  <1>3. \A x : x \in ToSet(s) <=> \E i \in 1..N : s[i] = x
    BY <1>2, InSet
  <1>4. ToSet(s) = A
    <2>1. \A i \in 1..N : s[i] \in A
      BY <1>1
    <2>2. ASSUME NEW x PROVE x \in ToSet(s) <=> x \in A
      BY <1>1, <1>3, <2>1
    <2> QED BY <2>2
  <1> QED BY <1>1, <1>2, <1>4

(* An order without repetitions of as many objects as there are names all. *)
LEMMA ArrivedShuffled ==
  ASSUME NEW q \in Seq(Object), NEW s \in SetToSeqs(ToSet(q))
  PROVE  Cardinality(ToSet(q)) \in Nat /\ s \in Shuffles(ToSet(q), Cardinality(ToSet(q)))
  <1> DEFINE A == ToSet(q)
             n == Cardinality(A)
             g == [i \in 1..Len(q) |-> q[i]]
  <1>1. IsFiniteSet(1..Len(q))
    BY FS_Interval
  <1>2. g \in Surjection(1..Len(q), A)
    BY InSet DEF Surjection
  <1>3. IsFiniteSet(A)
    <2> HIDE DEF g, A
    <2> QED BY <1>1, <1>2, FS_Surjection
  <1>4. n \in Nat
    BY <1>3, FS_CardinalityType
  <1>5. s \in [1..n -> A] /\ \A i, j \in 1..n : i # j => s[i] # s[j]
    BY DEF SetToSeqs
  <1> HIDE DEF A, n
  <1>6. s \in Injection(1..n, A)
    BY <1>5 DEF Injection, IsInjective
  <1>7. Cardinality(1..n) = n
    BY <1>4, FS_Interval
  <1>8. s \in Surjection(1..n, A)
    BY <1>3, <1>6, <1>7, FS_Injection DEF n
  <1>9. \A a \in A : \E i \in 1..n : s[i] = a
    BY <1>8 DEF Surjection
  <1>10. s \in Shuffles(A, n)
    BY <1>5, <1>9 DEF Shuffles
  <1> QED BY <1>4, <1>10 DEF A, n

(* MergeObjects of Siblings says what the loop of mergeObjectsCore does    *)
(* (server.go), in whatever order the incoming objects come.               *)
THEOREM SetMergeAlwaysAgrees == Spec => []SetMergeAgrees
  <1>1. ASSUME ListInv, NEW r \in Replica, NEW q \in Replica,
               NEW incoming \in SetToSeqs(ToSet(list[q]))
        PROVE  ToSet(MergeList(list[r], incoming))
                 = VSet!MergeObjects(ToSet(list[r]), ToSet(list[q]))
    <2> DEFINE R == ToSet(list[r])
               Q == ToSet(list[q])
               M == ToSet(MergeList(list[r], incoming))
    <2>1. Keeps(list[r], delivered[r]) /\ Keeps(list[q], delivered[q])
      BY <1>1 DEF ListInv
    <2>2. R \subseteq Object /\ Q \subseteq Object /\ Chainless(R) /\ Chainless(Q)
      BY <2>1 DEF Keeps
    <2>3. incoming \in Seq(Object) /\ ToSet(incoming) = Q
      <3>1. list[q] \in Seq(Object)
        BY <2>1 DEF Keeps
      <3>2. Cardinality(Q) \in Nat /\ incoming \in Shuffles(Q, Cardinality(Q))
        BY <3>1, ArrivedShuffled
      <3> HIDE DEF Q
      <3>3. incoming \in Seq(Q) /\ ToSet(incoming) = Q
        BY <3>2, ShuffleParts
      <3> QED BY <3>3, <2>2
    <2>4. Keeps(list[r], R)
      BY <2>1, <2>2, BelowOrder DEF Keeps
    <2>5. M = Maximal(R \cup Q)
      <3>1. Keeps(MergeList(list[r], incoming), R \cup ToSet(incoming))
        <4> HIDE DEF R
        <4> QED BY <2>3, <2>4, MergeKeeps
      <3>2. M = Maximal(R \cup ToSet(incoming))
        <4> HIDE DEF R
        <4> QED BY <3>1, KeepsMaximalOnes
      <3> QED BY <3>2, <2>3
    <2> HIDE DEF R, Q, M
    <2>6. VSet!MergeObjects(R, Q) =
            {s \in R : \A o \in Q : Cmp(o, s) # "After"}
              \cup {o \in Q : \A s \in R : Cmp(o, s) \notin {"Before", "Equal"}}
      BY DEF VSet!MergeObjects, VSet!CanBeAddedTo, VSet!Compare, Cmp, Compare
    <2>7. ASSUME NEW x \in R
          PROVE  x \in Maximal(R \cup Q) <=> x \in VSet!MergeObjects(R, Q)
      <3>1. \A o \in R : Cmp(x, o) # "Before"
        BY <2>2, <2>7, CmpMeans DEF Chainless
      <3>2. \A o \in Q : Cmp(x, o) = "Before" <=> Cmp(o, x) = "After"
        BY <2>2, <2>7, CmpMeans
      <3>3. x \in Maximal(R \cup Q) <=> \A o \in Q : Cmp(o, x) # "After"
        BY <3>1, <3>2, <2>7 DEF Maximal
      <3>4. Cmp(x, x) = "Equal"
        BY <2>2, <2>7, CmpMeans
      <3> QED BY <3>3, <3>4, <2>6, <2>7
    <2>8. ASSUME NEW x \in Q, x \notin R
          PROVE  x \in Maximal(R \cup Q) <=> x \in VSet!MergeObjects(R, Q)
      <3>1. \A o \in Q : Cmp(x, o) # "Before"
        BY <2>2, <2>8, CmpMeans DEF Chainless
      <3>2. \A o \in R : Cmp(x, o) # "Equal"
        BY <2>2, <2>8, CmpMeans
      <3>3. x \in Maximal(R \cup Q) <=> \A o \in R : Cmp(x, o) # "Before"
        BY <3>1, <2>8 DEF Maximal
      <3> QED BY <3>2, <3>3, <2>6, <2>8
    <2>9. Maximal(R \cup Q) \subseteq R \cup Q /\ VSet!MergeObjects(R, Q) \subseteq R \cup Q
      BY <2>6 DEF Maximal
    <2>10. M = VSet!MergeObjects(R, Q)
      BY <2>5, <2>7, <2>8, <2>9
    <2> QED BY <2>10 DEF M, R, Q
  <1>2. ListInv => SetMergeAgrees
    BY <1>1 DEF SetMergeAgrees
  <1> QED BY <1>2, ListInvAlways, PTL

-----------------------------------------------------------------------------
(***************************************************************************)
(* The exchange sort of SortObjects, over objects none below another.      *)
(***************************************************************************)
Unrelated(A) == A \subseteq Object /\ Chainless(A)

LEMMA UnrelatedCmp ==
  ASSUME NEW A, Unrelated(A), NEW a \in A, NEW b \in A
  PROVE  /\ a # b => Cmp(a, b) = "Concurrent"
         /\ a = b => Cmp(a, b) = "Equal"
         /\ a.ts \in Nat /\ b.ts \in Nat
         /\ a.ts = b.ts => a = b
  BY CmpMeans, ObjectParts DEF Unrelated, Chainless

LEMMA ExchangeIs ==
  ASSUME NEW A, Unrelated(A), NEW N \in Nat, NEW s \in Shuffles(A, N),
         NEW i \in 1..N, NEW j \in 1..N, i # j
  PROVE  /\ Exchange(s, i, j) = IF s[j].ts < s[i].ts THEN [s EXCEPT ![i] = s[j], ![j] = s[i]] ELSE s
         /\ Exchange(s, i, j) \in Shuffles(A, N)
  <1>1. s[i] \in A /\ s[j] \in A /\ s[j] # s[i]
    BY ShuffleParts
  <1>2. Cmp(s[j], s[i]) = "Concurrent"
    BY <1>1, UnrelatedCmp
  <1>3. Exchange(s, i, j) = IF s[j].ts < s[i].ts THEN [s EXCEPT ![i] = s[j], ![j] = s[i]] ELSE s
    BY <1>2 DEF Exchange, SortByTimestamp
  <1> DEFINE e == [s EXCEPT ![i] = s[j], ![j] = s[i]]
  <1>4. e \in Shuffles(A, N)
    <2>1. s \in [1..N -> A]
      BY DEF Shuffles
    <2>2. /\ e \in [1..N -> A] /\ e[i] = s[j] /\ e[j] = s[i]
          /\ \A k \in 1..N : k # i /\ k # j => e[k] = s[k]
      BY <2>1, <1>1
    <2> HIDE DEF e
    <2>3. ASSUME NEW k \in 1..N, NEW m \in 1..N, e[k] = e[m] PROVE k = m
      <3>1. \A x, y \in 1..N : s[x] = s[y] => x = y
        BY ShuffleParts
      <3>2. CASE k = i
        BY <3>1, <3>2, <2>2, <2>3
      <3>3. CASE k = j
        BY <3>1, <3>3, <2>2, <2>3
      <3>4. CASE k # i /\ k # j
        BY <3>1, <3>4, <2>2, <2>3
      <3> QED BY <3>2, <3>3, <3>4
    <2>4. ASSUME NEW a \in A PROVE \E k \in 1..N : e[k] = a
      <3>1. PICK k \in 1..N : s[k] = a
        BY ShuffleParts
      <3>2. CASE k = i
        BY <3>1, <3>2, <2>2
      <3>3. CASE k = j
        BY <3>1, <3>3, <2>2
      <3>4. CASE k # i /\ k # j
        BY <3>1, <3>4, <2>2
      <3> QED BY <3>2, <3>3, <3>4
    <2> QED BY <2>2, <2>3, <2>4 DEF Shuffles
  <1> QED BY <1>3, <1>4

(* The first i places are right; what is at i is first among i .. m. *)
Placed(s, N, i) == \A k \in 1..i, j \in 1..N : k < j => s[k].ts < s[j].ts
FirstAmong(s, i, m) == \A j \in (i + 1)..m : s[i].ts < s[j].ts

LEMMA ExchangeStep ==
  ASSUME NEW A, Unrelated(A), NEW N \in Nat, NEW s \in Shuffles(A, N),
         NEW i \in 1..N, NEW d \in 1..(N - i),
         Placed(s, N, i - 1), FirstAmong(s, i, i + d - 1)
  PROVE  /\ Placed(Exchange(s, i, i + d), N, i - 1)
         /\ FirstAmong(Exchange(s, i, i + d), i, i + d)
  <1>0. PICK j : j = i + d
    OBVIOUS
  <1> DEFINE e == Exchange(s, i, j)
  <1>1. j \in 1..N /\ i < j /\ i # j /\ j \in Nat /\ i \in Nat
    BY <1>0
  <1>2. s \in [1..N -> A] /\ \A k \in 1..N : s[k] \in A /\ s[k].ts \in Nat
    BY ShuffleParts, ObjectParts DEF Shuffles, Unrelated
  <1>3. e = IF s[j].ts < s[i].ts THEN [s EXCEPT ![i] = s[j], ![j] = s[i]] ELSE s
    BY <1>1, ExchangeIs
  <1>4. s[i].ts # s[j].ts
    <2>1. s[i] # s[j]
      BY <1>1, ShuffleParts
    <2> QED BY <2>1, <1>1, <1>2, UnrelatedCmp
  <1>5. \A k \in (i + 1)..(j - 1) : k \in 1..N /\ k # i /\ k # j /\ s[i].ts < s[k].ts
    BY <1>0, <1>1 DEF FirstAmong
  <1>6. \A k \in 1..(i - 1), m \in 1..N : k < m => s[k].ts < s[m].ts
    BY DEF Placed
  <1>7. \A k \in 1..(i - 1) : k \in 1..N /\ k < i /\ k < j /\ k # i /\ k # j
    BY <1>1
  <1> HIDE DEF e
  <1>8. CASE s[j].ts < s[i].ts
    <2>1. /\ e[i] = s[j] /\ e[j] = s[i]
          /\ \A k \in 1..N : k # i /\ k # j => e[k] = s[k]
      BY <1>1, <1>2, <1>3, <1>8
    <2>2. ASSUME NEW k \in 1..(i - 1), NEW m \in 1..N, k < m PROVE e[k].ts < e[m].ts
      <3>1. e[k] = s[k] /\ s[k].ts < s[i].ts /\ s[k].ts < s[j].ts /\ s[k].ts < s[m].ts
        BY <2>1, <2>2, <1>1, <1>6, <1>7
      <3> QED BY <3>1, <2>1
    <2>3. ASSUME NEW k \in (i + 1)..j PROVE e[i].ts < e[k].ts
      <3>1. CASE k = j
        BY <3>1, <2>1, <1>8
      <3>2. CASE k # j
        <4>1. k \in (i + 1)..(j - 1)
          BY <3>2, <1>1
        <4> QED BY <4>1, <2>1, <1>1, <1>2, <1>5, <1>8
      <3> QED BY <3>1, <3>2
    <2>4. Placed(e, N, i - 1) /\ FirstAmong(e, i, j)
      BY <2>2, <2>3 DEF Placed, FirstAmong
    <2> QED BY <2>4, <1>0 DEF e
  <1>9. CASE ~(s[j].ts < s[i].ts)
    <2>1. e = s /\ s[i].ts < s[j].ts
      BY <1>1, <1>2, <1>3, <1>4, <1>9
    <2>2. ASSUME NEW k \in (i + 1)..j PROVE s[i].ts < s[k].ts
      <3>1. k = j \/ k \in (i + 1)..(j - 1)
        BY <1>1
      <3> QED BY <3>1, <2>1, <1>5
    <2>3. Placed(e, N, i - 1) /\ FirstAmong(e, i, j)
      BY <2>1, <2>2, <1>6 DEF Placed, FirstAmong
    <2> QED BY <2>3, <1>0 DEF e
  <1> QED BY <1>8, <1>9

(* The inner loop, behind place i. *)
InnerBy(f, s, i) ==
  f = [d \in 0..(Len(s) - i) |-> IF d = 0 THEN s ELSE Exchange(f[d - 1], i, i + d)]

InnerRuns(f, s, A, N, i) ==
  /\ f \in [0..(N - i) -> Shuffles(A, N)]
  /\ f[0] = s /\ \A d \in 1..(N - i) : f[d] = Exchange(f[d - 1], i, i + d)
  /\ ExchangeBehind(s, i) = f[N - i]

LEMMA InnerDef ==
  ASSUME NEW A, Unrelated(A), NEW N \in Nat, NEW s \in Shuffles(A, N), NEW i \in 1..N
  PROVE  \E f : InnerRuns(f, s, A, N, i)
  <1> DEFINE S == Shuffles(A, N)
             M == N - i
             D == [d \in 1..M |-> [x \in S |-> Exchange(x, i, i + d)]]
  <1>1. M \in Nat /\ Len(s) = N /\ \A d \in 1..M : i + d \in 1..N /\ i # i + d
    BY ShuffleParts
  <1>2. ASSUME NEW d \in 1..M, NEW x \in S PROVE Exchange(x, i, i + d) \in S
    <2>1. PICK j : j = i + d
      OBVIOUS
    <2>2. Exchange(x, i, j) \in S
      BY <2>1, <1>1, ExchangeIs
    <2> QED BY <2>1, <2>2
  <1>3. Steps(D, M, S)
    <2> HIDE DEF S, M
    <2> QED BY <1>2 DEF Steps
  <1>4. PICK f : Follows(f, s, D, M, S)
    <2> HIDE DEF S, M, D
    <2>1. s \in S
      BY DEF S
    <2> QED BY <1>1, <1>3, <2>1, Recursion
  <1>5. f \in [0..M -> S] /\ f[0] = s
    BY <1>4 DEF Follows
  <1>6. ASSUME NEW d \in 1..M PROVE f[d] = Exchange(f[d - 1], i, i + d)
    <2>1. f[d] = D[d][f[d - 1]]
      BY <1>4 DEF Follows
    <2>2. d - 1 \in 0..M
      BY <1>1
    <2>3. f[d - 1] \in S
      BY <2>2, <1>5
    <2> HIDE DEF S, M
    <2> QED BY <2>1, <2>3
  <1>7. InnerBy(f, s, i)
    <2>1. ASSUME NEW d \in 0..M
          PROVE  f[d] = IF d = 0 THEN s ELSE Exchange(f[d - 1], i, i + d)
      <3>1. d = 0 \/ d \in 1..M
        BY <1>1
      <3> QED BY <3>1, <1>5, <1>6
    <2>2. f = [d \in 0..M |-> f[d]]
      BY <1>5
    <2>3. f = [d \in 0..M |-> IF d = 0 THEN s ELSE Exchange(f[d - 1], i, i + d)]
      BY <2>1, <2>2
    <2> QED BY <2>3, <1>1 DEF InnerBy
  <1> DEFINE g == CHOOSE h : InnerBy(h, s, i)
  <1>8. InnerBy(g, s, i)
    BY <1>7
  <1>9. ExchangeBehind(s, i) = g[N - i]
    BY <1>1 DEF ExchangeBehind, InnerBy
  <1> HIDE DEF g
  <1>10. \A d \in 0..M : g[d] = IF d = 0 THEN s ELSE Exchange(g[d - 1], i, i + d)
    BY <1>1, <1>8 DEF InnerBy
  <1> DEFINE P == {d \in 0..M : g[d] = f[d]}
  <1>11. 0 \in P
    BY <1>1, <1>5, <1>10
  <1>12. ASSUME NEW d \in 1..M, d - 1 \in P PROVE d \in P
    BY <1>1, <1>6, <1>10, <1>12
  <1>13. \A d \in 0..M : d \in P
    <2> HIDE DEF P, M
    <2> QED BY <1>1, <1>11, <1>12, BoundedInduction
  <1>14. g[M] = f[M]
    BY <1>1, <1>13
  <1> QED BY <1>5, <1>6, <1>9, <1>14 DEF InnerRuns

(* One round of the outer loop puts the right object at place i. *)
LEMMA RoundPlaces ==
  ASSUME NEW A, Unrelated(A), NEW N \in Nat, NEW s \in Shuffles(A, N), NEW i \in 1..N
  PROVE  /\ ExchangeBehind(s, i) \in Shuffles(A, N)
         /\ Placed(s, N, i - 1) => Placed(ExchangeBehind(s, i), N, i)
  <1> DEFINE M == N - i
  <1>0. PICK f : InnerRuns(f, s, A, N, i)
    BY InnerDef
  <1>1. /\ f \in [0..M -> Shuffles(A, N)]
        /\ f[0] = s /\ \A d \in 1..M : f[d] = Exchange(f[d - 1], i, i + d)
        /\ ExchangeBehind(s, i) = f[M]
    BY <1>0 DEF InnerRuns
  <1>2. M \in Nat /\ M \in 0..M
    OBVIOUS
  <1>3. ExchangeBehind(s, i) \in Shuffles(A, N)
    BY <1>1, <1>2
  <1>4. ASSUME Placed(s, N, i - 1) PROVE Placed(ExchangeBehind(s, i), N, i)
    <2> DEFINE P == {d \in 0..M : Placed(f[d], N, i - 1) /\ FirstAmong(f[d], i, i + d)}
    <2>1. 0 \in P
      <3>1. FirstAmong(s, i, i + 0)
        BY DEF FirstAmong
      <3> QED BY <3>1, <1>1, <1>2, <1>4
    <2>2. ASSUME NEW d \in 1..M, d - 1 \in P PROVE d \in P
      <3>1. Placed(f[d - 1], N, i - 1) /\ FirstAmong(f[d - 1], i, i + (d - 1))
        BY <2>2
      <3>2. f[d - 1] \in Shuffles(A, N)
        BY <1>1, <1>2
      <3>3. i + (d - 1) = i + d - 1
        BY <1>2
      <3>4. Placed(Exchange(f[d - 1], i, i + d), N, i - 1)
              /\ FirstAmong(Exchange(f[d - 1], i, i + d), i, i + d)
        BY <3>1, <3>2, <3>3, ExchangeStep
      <3> QED BY <3>4, <1>1, <1>2
    <2>3. \A d \in 0..M : d \in P
      <3> HIDE DEF P, M
      <3> QED BY <1>2, <2>1, <2>2, BoundedInduction
    <2>4. Placed(f[M], N, i - 1) /\ FirstAmong(f[M], i, i + M)
      BY <2>3, <1>2
    <2>5. i + M = N
      OBVIOUS
    <2>6. Placed(f[M], N, i)
      <3>1. \A j \in (i + 1)..N : f[M][i].ts < f[M][j].ts
        BY <2>4, <2>5 DEF FirstAmong
      <3>2. ASSUME NEW k \in 1..i, NEW j \in 1..N, k < j PROVE f[M][k].ts < f[M][j].ts
        <4>1. CASE k = i
          <5>1. j \in (i + 1)..N
            BY <4>1, <3>2
          <5> QED BY <5>1, <4>1, <3>1
        <4>2. CASE k # i
          <5>1. k \in 1..(i - 1)
            BY <4>2
          <5> QED BY <5>1, <3>2, <2>4 DEF Placed
        <4> QED BY <4>1, <4>2
      <3> QED BY <3>2 DEF Placed
    <2> QED BY <2>6, <1>1
  <1> QED BY <1>3, <1>4

OuterBy(f, s) ==
  f = [i \in 0..Len(s) |-> IF i = 0 THEN s ELSE ExchangeBehind(f[i - 1], i)]

LEMMA OuterDef ==
  ASSUME NEW A, Unrelated(A), NEW N \in Nat, NEW s \in Shuffles(A, N)
  PROVE  \E f \in [0..N -> Shuffles(A, N)] :
           /\ f[0] = s /\ \A i \in 1..N : f[i] = ExchangeBehind(f[i - 1], i)
           /\ SortObjects(s) = f[N]
  <1> DEFINE S == Shuffles(A, N)
             D == [i \in 1..N |-> [x \in S |-> ExchangeBehind(x, i)]]
  <1>1. Len(s) = N
    BY ShuffleParts
  <1>2. ASSUME NEW i \in 1..N, NEW x \in S PROVE ExchangeBehind(x, i) \in S
    BY <1>2, RoundPlaces
  <1>3. Steps(D, N, S)
    <2> HIDE DEF S
    <2> QED BY <1>2 DEF Steps
  <1>4. PICK f : Follows(f, s, D, N, S)
    <2> HIDE DEF S, D
    <2>1. s \in S
      BY DEF S
    <2> QED BY <1>3, <2>1, Recursion
  <1>5. f \in [0..N -> S] /\ f[0] = s
    BY <1>4 DEF Follows
  <1>6. ASSUME NEW i \in 1..N PROVE f[i] = ExchangeBehind(f[i - 1], i)
    <2>1. f[i] = D[i][f[i - 1]]
      BY <1>4 DEF Follows
    <2>2. i - 1 \in 0..N
      OBVIOUS
    <2>3. f[i - 1] \in S
      BY <2>2, <1>5
    <2> HIDE DEF S
    <2> QED BY <2>1, <2>3
  <1>7. OuterBy(f, s)
    <2>1. ASSUME NEW i \in 0..N PROVE f[i] = IF i = 0 THEN s ELSE ExchangeBehind(f[i - 1], i)
      <3>1. i = 0 \/ i \in 1..N
        OBVIOUS
      <3> QED BY <3>1, <1>5, <1>6
    <2>2. f = [i \in 0..N |-> f[i]]
      BY <1>5
    <2>3. f = [i \in 0..N |-> IF i = 0 THEN s ELSE ExchangeBehind(f[i - 1], i)]
      BY <2>1, <2>2
    <2> QED BY <2>3, <1>1 DEF OuterBy
  <1> DEFINE g == CHOOSE h : OuterBy(h, s)
  <1>8. OuterBy(g, s)
    BY <1>7
  <1>9. SortObjects(s) = g[N]
    BY <1>1 DEF SortObjects, OuterBy
  <1> HIDE DEF g
  <1>10. \A i \in 0..N : g[i] = IF i = 0 THEN s ELSE ExchangeBehind(g[i - 1], i)
    BY <1>1, <1>8 DEF OuterBy
  <1> DEFINE P == {i \in 0..N : g[i] = f[i]}
  <1>11. 0 \in P
    BY <1>5, <1>10
  <1>12. ASSUME NEW i \in 1..N, i - 1 \in P PROVE i \in P
    BY <1>6, <1>10, <1>12
  <1>13. \A i \in 0..N : i \in P
    <2> HIDE DEF P
    <2> QED BY <1>11, <1>12, BoundedInduction
  <1>14. g[N] = f[N]
    BY <1>13
  <1> QED BY <1>5, <1>6, <1>9, <1>14

(* SortObjects sorts siblings that came in any order. *)
LEMMA SortObjectsSorts ==
  ASSUME NEW A, Unrelated(A), NEW N \in Nat, NEW s \in Shuffles(A, N)
  PROVE  /\ SortObjects(s) \in Seq(Object) /\ Sorted(SortObjects(s))
         /\ ToSet(SortObjects(s)) = A
  <1>1. PICK f \in [0..N -> Shuffles(A, N)] :
           /\ f[0] = s /\ \A i \in 1..N : f[i] = ExchangeBehind(f[i - 1], i)
           /\ SortObjects(s) = f[N]
    BY OuterDef
  <1> DEFINE P == {i \in 0..N : Placed(f[i], N, i)}
  <1>2. 0 \in P
    BY DEF Placed
  <1>3. ASSUME NEW i \in 1..N, i - 1 \in P PROVE i \in P
    <2>1. f[i - 1] \in Shuffles(A, N) /\ Placed(f[i - 1], N, i - 1)
      BY <1>1, <1>3
    <2>2. Placed(ExchangeBehind(f[i - 1], i), N, i)
      BY <2>1, RoundPlaces
    <2> QED BY <2>2, <1>1
  <1>4. \A i \in 0..N : i \in P
    <2> HIDE DEF P
    <2> QED BY <1>2, <1>3, BoundedInduction
  <1>5. N \in 0..N
    OBVIOUS
  <1>6. Placed(f[N], N, N) /\ f[N] \in Shuffles(A, N)
    BY <1>1, <1>4, <1>5
  <1>7. f[N] \in Seq(A) /\ Len(f[N]) = N /\ ToSet(f[N]) = A
    BY <1>6, ShuffleParts
  <1>8. Sorted(f[N])
    BY <1>6, <1>7 DEF Placed, Sorted
  <1>9. f[N] \in Seq(Object)
    BY <1>7 DEF Unrelated
  <1> QED BY <1>1, <1>7, <1>8, <1>9

-----------------------------------------------------------------------------
(***************************************************************************)
(* The clerk's choice.                                                     *)
(***************************************************************************)
Younger(x, latest) == IF IsYounger(x, latest) THEN x ELSE latest

LatestBy(f, s) ==
  f = [d \in 0..(Len(s) - 1) |-> IF d = 0 THEN s[1] ELSE Younger(s[d + 1], f[d - 1])]

LEMMA YoungerIs ==
  ASSUME NEW A, Unrelated(A), NEW x \in A, NEW latest \in A
  PROVE  /\ Younger(x, latest) \in A
         /\ x.ts <= Younger(x, latest).ts /\ latest.ts <= Younger(x, latest).ts
  <1>1. IsYounger(x, latest) <=> x.ts > latest.ts
    BY UnrelatedCmp DEF IsYounger
  <1>2. x.ts \in Nat /\ latest.ts \in Nat
    BY UnrelatedCmp
  <1> QED BY <1>1, <1>2 DEF Younger

LEMMA LatestDef ==
  ASSUME NEW A, Unrelated(A), NEW s \in Seq(A), s # <<>>
  PROVE  \E f : LatestBy(f, s) /\ PickLatestObject(s) = f[Len(s) - 1]
  <1> DEFINE M == Len(s) - 1
             D == [d \in 1..M |-> [x \in A |-> Younger(s[d + 1], x)]]
  <1>1. M \in Nat /\ s[1] \in A /\ \A d \in 1..M : s[d + 1] \in A
    OBVIOUS
  <1>2. Steps(D, M, A)
    BY <1>1, YoungerIs DEF Steps
  <1>3. PICK f : Follows(f, s[1], D, M, A)
    <2> HIDE DEF M, D
    <2> QED BY <1>1, <1>2, Recursion
  <1>4. LatestBy(f, s)
    <2>1. f = [d \in 0..M |-> f[d]]
      BY <1>3 DEF Follows
    <2>2. ASSUME NEW d \in 0..M
          PROVE  f[d] = IF d = 0 THEN s[1] ELSE Younger(s[d + 1], f[d - 1])
      <3>1. CASE d = 0
        BY <3>1, <1>3 DEF Follows
      <3>2. CASE d # 0
        <4>1. d \in 1..M /\ d - 1 \in 0..M
          BY <3>2, <1>1
        <4>2. f[d] = D[d][f[d - 1]] /\ f[d - 1] \in A
          BY <4>1, <1>3 DEF Follows
        <4> QED BY <3>2, <4>1, <4>2
      <3> QED BY <3>1, <3>2
    <2> QED BY <2>1, <2>2 DEF LatestBy
  <1>5. LatestBy(CHOOSE g : LatestBy(g, s), s)
    BY <1>4
  <1>6. PickLatestObject(s) = (CHOOSE g : LatestBy(g, s))[Len(s) - 1]
    BY DEF PickLatestObject, LatestBy, Younger
  <1> QED BY <1>5, <1>6

(* pickLatestObject returns a sibling, and none is younger. *)
LEMMA PickLatestPicks ==
  ASSUME NEW A, Unrelated(A), NEW s \in Seq(A), s # <<>>
  PROVE  /\ PickLatestObject(s) \in A
         /\ \A i \in 1..Len(s) : s[i].ts <= PickLatestObject(s).ts
  <1> DEFINE M == Len(s) - 1
  <1>1. PICK f : LatestBy(f, s) /\ PickLatestObject(s) = f[M]
    BY LatestDef
  <1>2. M \in Nat /\ M + 1 = Len(s) /\ \A i \in 1..(M + 1) : s[i] \in A
    OBVIOUS
  <1>3. f[0] = s[1] /\ \A d \in 1..M : f[d] = Younger(s[d + 1], f[d - 1])
    BY <1>1, <1>2 DEF LatestBy
  <1>4. \A a \in A : a.ts \in Nat
    BY UnrelatedCmp
  <1> DEFINE P == {d \in 0..M : f[d] \in A /\ \A i \in 1..(d + 1) : s[i].ts <= f[d].ts}
  <1>5. 0 \in P
    <2>1. s[1] \in A /\ s[1].ts <= s[1].ts
      BY <1>2, <1>4
    <2>2. \A i \in 1..(0 + 1) : i = 1
      OBVIOUS
    <2> QED BY <2>1, <2>2, <1>2, <1>3
  <1>6. ASSUME NEW d \in 1..M, d - 1 \in P PROVE d \in P
    <2>1. f[d - 1] \in A /\ \A i \in 1..d : s[i].ts <= f[d - 1].ts
      BY <1>6
    <2>2. s[d + 1] \in A /\ \A i \in 1..d : s[i] \in A
      BY <1>2
    <2>3. f[d] \in A /\ s[d + 1].ts <= f[d].ts /\ f[d - 1].ts <= f[d].ts
      BY <2>1, <2>2, <1>3, YoungerIs
    <2>4. ASSUME NEW i \in 1..(d + 1) PROVE s[i].ts <= f[d].ts
      <3>1. CASE i = d + 1
        BY <3>1, <2>3
      <3>2. CASE i \in 1..d
        BY <3>2, <2>1, <2>2, <2>3, <1>4
      <3> QED BY <3>1, <3>2
    <2>5. d \in 0..M
      BY <1>2
    <2> QED BY <2>3, <2>4, <2>5
  <1>7. \A d \in 0..M : d \in P
    <2> HIDE DEF P, M
    <2> QED BY <1>2, <1>5, <1>6, BoundedInduction
  <1>8. M \in 0..M
    BY <1>2
  <1> QED BY <1>1, <1>2, <1>7, <1>8

(* SortObjects (object.go) and pickLatestObject (client.go) give the same  *)
(* answer in whatever order the siblings of a replica reach the reader:    *)
(* the replica's own list, and its youngest object.                        *)
THEOREM ReadersAlwaysIgnoreOrder == Spec => []ReadersIgnoreOrder
  <1>1. ASSUME ListInv, NEW r \in Replica, list[r] # <<>>,
               NEW arrived \in SetToSeqs(ToSet(list[r]))
        PROVE  /\ SortObjects(arrived) = list[r]
               /\ PickLatestObject(arrived) = list[r][Len(list[r])]
    <2> DEFINE q == list[r]
               A == ToSet(q)
               n == Cardinality(A)
    <2>1. q \in Seq(Object) /\ Sorted(q) /\ Unrelated(A)
      BY <1>1 DEF ListInv, Keeps, Unrelated
    <2>2. n \in Nat /\ arrived \in Shuffles(A, n)
      BY <2>1, ArrivedShuffled
    <2>3. q # <<>> /\ Len(q) \in Nat /\ 1..Len(q) # {} /\ Len(q) \in 1..Len(q)
      BY <1>1, <2>1
    <2>4. q[Len(q)] \in A /\ q[Len(q)].ts \in Nat
      BY <2>1, <2>3, InSet, ObjectParts
    <2> HIDE DEF q, n, A
    <2>5. SortObjects(arrived) = q
      <3>1. /\ SortObjects(arrived) \in Seq(Object) /\ Sorted(SortObjects(arrived))
            /\ ToSet(SortObjects(arrived)) = A
        BY <2>1, <2>2, SortObjectsSorts
      <3> QED BY <3>1, <2>1, OneSortedList DEF A
    <2>6. PickLatestObject(arrived) = q[Len(q)]
      <3>1. arrived \in Seq(A) /\ Len(arrived) = n /\ \A a \in A : \E i \in 1..n : arrived[i] = a
        BY <2>2, ShuffleParts
      <3>2. arrived # <<>>
        BY <3>1, <2>2, <2>4
      <3> DEFINE l == PickLatestObject(arrived)
      <3>3. l \in A /\ \A i \in 1..n : arrived[i].ts <= l.ts
        BY <3>1, <3>2, <2>1, PickLatestPicks
      <3> HIDE DEF l
      <3>4. q[Len(q)].ts <= l.ts
        BY <3>1, <3>3, <2>4
      <3>5. PICK k \in 1..Len(q) : q[k] = l
        BY <3>3, <2>1, InSet DEF A
      <3>6. k = Len(q) \/ l.ts < q[Len(q)].ts
        BY <3>5, <2>1, <2>3 DEF Sorted
      <3>7. l.ts \in Nat
        BY <3>3, <2>1, UnrelatedCmp
      <3>8. k = Len(q)
        BY <3>4, <3>6, <3>7, <2>4
      <3> QED BY <3>5, <3>8 DEF l
    <2> QED BY <2>5, <2>6 DEF q
  <1>2. ListInv => ReadersIgnoreOrder
    BY <1>1 DEF ReadersIgnoreOrder
  <1> QED BY <1>2, ListInvAlways, PTL

=============================================================================
