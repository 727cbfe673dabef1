--------------------------- MODULE SiblingsProofs ---------------------------
(***************************************************************************)
(* Facts about vector clocks (VClock) and sibling sets (Siblings), for     *)
(* every set of names and every finite or infinite set of siblings.        *)
(***************************************************************************)
EXTENDS Siblings, TLAPS

(* A set of objects whose clocks are vector clocks. *)
Versions(S) == \A o \in S : o.vc \in VClocks

(* Leq, the order Compare decides, is reflexive and transitive. *)
LEMMA LeqReflexive == \A v \in VClocks : Leq(v, v)
  BY DEF Leq, VClocks

LEMMA LeqTransitive ==
  ASSUME NEW u \in VClocks, NEW v \in VClocks, NEW w \in VClocks,
         Leq(u, v), Leq(v, w)
  PROVE  Leq(u, w)
  <1> SUFFICES ASSUME NEW n \in Name PROVE u[n] <= w[n]
    BY DEF Leq
  <1>1. u[n] <= v[n] /\ v[n] <= w[n]
    BY DEF Leq
  <1>2. u[n] \in Nat /\ v[n] \in Nat /\ w[n] \in Nat
    BY DEF VClocks
  <1> QED BY <1>1, <1>2

(* VClock.Compare (vclock.go) decides the entrywise order: its four        *)
(* answers are the four possibilities for Leq in the two directions.       *)
THEOREM CompareDecidesOrder ==
  ASSUME NEW v \in VClocks, NEW w \in VClocks
  PROVE  /\ Compare(v, w) = "Equal" <=> Leq(v, w) /\ Leq(w, v)
         /\ Compare(v, w) = "Before" <=> Leq(v, w) /\ ~Leq(w, v)
         /\ Compare(v, w) = "After" <=> ~Leq(v, w) /\ Leq(w, v)
         /\ Compare(v, w) = "Concurrent" <=> ~Leq(v, w) /\ ~Leq(w, v)
  <1> DEFINE before == \E n \in Name : v[n] < w[n]
             after  == \E n \in Name : v[n] > w[n]
  <1>1. \A n \in Name : v[n] \in Nat /\ w[n] \in Nat
    BY DEF VClocks
  <1>2. before <=> ~Leq(w, v)
    BY <1>1 DEF Leq
  <1>3. after <=> ~Leq(v, w)
    BY <1>1 DEF Leq
  <1>4. Compare(v, w) = CASE before /\ after   -> "Concurrent"
                          [] before /\ ~after  -> "Before"
                          [] ~before /\ after  -> "After"
                          [] ~before /\ ~after -> "Equal"
    BY DEF Compare
  <1> HIDE DEF before, after
  <1> QED BY <1>2, <1>3, <1>4

(* Bumping an entry (Context.Update in CoordPut) moves a clock strictly up. *)
LEMMA IncrementAbove ==
  ASSUME NEW v \in VClocks, NEW n \in Name
  PROVE  /\ Increment(v, n) \in VClocks
         /\ Leq(v, Increment(v, n))
         /\ ~Leq(Increment(v, n), v)
  BY DEF VClocks, Increment, Leq

(* VClock.Merge is the least upper bound of two clocks. *)
THEOREM MergeIsLeastUpperBound ==
  ASSUME NEW v \in VClocks, NEW w \in VClocks
  PROVE  /\ Merge(v, w) \in VClocks
         /\ Leq(v, Merge(v, w)) /\ Leq(w, Merge(v, w))
         /\ \A u \in VClocks : Leq(v, u) /\ Leq(w, u) => Leq(Merge(v, w), u)
  BY DEF VClocks, Merge, Leq

-----------------------------------------------------------------------------
(* CanBeAddedTo (object.go) says that no sibling is at or above vc. *)
LEMMA CanBeAddedToMeaning ==
  ASSUME NEW S, Versions(S), NEW v \in VClocks
  PROVE  CanBeAddedTo(v, S) <=> ~Covers(S, v)
  <1>1. \A s \in S : Compare(v, s.vc) \in {"Before", "Equal"} <=> Leq(v, s.vc)
    BY CompareDecidesOrder DEF Versions
  <1> QED BY <1>1 DEF CanBeAddedTo, Covers

(* In an antichain no object is at or below another one, and conversely. *)
LEMMA AntichainMeaning ==
  ASSUME NEW S, Versions(S)
  PROVE  Antichain(S) <=> \A a, b \in S : a # b => ~Leq(a.vc, b.vc)
  <1>1. ASSUME NEW a \in S, NEW b \in S
        PROVE  Compare(a.vc, b.vc) = "Concurrent" <=> ~Leq(a.vc, b.vc) /\ ~Leq(b.vc, a.vc)
    BY CompareDecidesOrder DEF Versions
  <1> QED BY <1>1 DEF Antichain

(* AddObject (object.go) keeps an antichain an antichain even when what    *)
(* was checked is a context at or below the object's, as in ReplicaPut.    *)
LEMMA AddKeepsAntichain ==
  ASSUME NEW S, Versions(S), Antichain(S),
         NEW o, o.vc \in VClocks,
         NEW base \in VClocks, Leq(base, o.vc), CanBeAddedTo(base, S)
  PROVE  Antichain(AddObject(S, o)) /\ Versions(AddObject(S, o))
  <1>1. Versions(AddObject(S, o))
    BY DEF Versions, AddObject
  <1>2. ASSUME NEW s \in S, s \in AddObject(S, o), s # o
        PROVE  ~Leq(o.vc, s.vc) /\ ~Leq(s.vc, o.vc)
    <2>1. s.vc \in VClocks
      BY DEF Versions
    <2>2. ~Leq(o.vc, s.vc)
      BY <2>1, LeqTransitive, CanBeAddedToMeaning DEF Covers
    <2>3. Compare(o.vc, s.vc) # "After"
      BY <1>2 DEF AddObject
    <2> QED BY <2>1, <2>2, <2>3, CompareDecidesOrder
  <1>3. \A a, b \in S : a # b => ~Leq(a.vc, b.vc)
    BY AntichainMeaning
  <1>4. \A a, b \in AddObject(S, o) : a # b => ~Leq(a.vc, b.vc)
    BY <1>2, <1>3 DEF AddObject
  <1> QED BY <1>1, <1>4, AntichainMeaning

(* The merge loop (mergeObjectsCore, CoordGet) yields an antichain. *)
LEMMA MergeKeepsAntichain ==
  ASSUME NEW S, Versions(S), Antichain(S),
         NEW T, Versions(T), Antichain(T)
  PROVE  Antichain(MergeObjects(S, T)) /\ Versions(MergeObjects(S, T))
  <1>1. Versions(MergeObjects(S, T))
    BY DEF Versions, MergeObjects
  <1>2. ASSUME NEW s \in S, s \in MergeObjects(S, T) , \A t \in T : Compare(t.vc, s.vc) # "After",
               NEW t \in T, CanBeAddedTo(t.vc, S)
        PROVE  ~Leq(s.vc, t.vc) /\ ~Leq(t.vc, s.vc)
    <2>1. s.vc \in VClocks /\ t.vc \in VClocks
      BY DEF Versions
    <2>2. ~Leq(t.vc, s.vc)
      BY <1>2, <2>1, CanBeAddedToMeaning DEF Covers
    <2> QED BY <1>2, <2>1, <2>2, CompareDecidesOrder
  <1>3. /\ \A a, b \in S : a # b => ~Leq(a.vc, b.vc)
        /\ \A a, b \in T : a # b => ~Leq(a.vc, b.vc)
    BY AntichainMeaning
  <1>4. \A a, b \in MergeObjects(S, T) : a # b => ~Leq(a.vc, b.vc)
    <2> DEFINE kept == {s \in S : \A t \in T : Compare(t.vc, s.vc) # "After"}
               new  == {t \in T : CanBeAddedTo(t.vc, S)}
    <2>1. MergeObjects(S, T) = kept \cup new
      BY DEF MergeObjects
    <2>2. \A s \in kept, t \in new : ~Leq(s.vc, t.vc) /\ ~Leq(t.vc, s.vc)
      BY <1>2, <2>1
    <2>3. kept \subseteq S /\ new \subseteq T
      OBVIOUS
    <2> HIDE DEF kept, new
    <2> QED BY <2>1, <2>2, <2>3, <1>3
  <1> QED BY <1>1, <1>4, AntichainMeaning

(* AddObject forgets nothing: what it removes is below the new object. *)
LEMMA AddCovers ==
  ASSUME NEW S, Versions(S), NEW o, o.vc \in VClocks, NEW s \in S
  PROVE  Covers(AddObject(S, o), s.vc)
  <1>1. s.vc \in VClocks
    BY DEF Versions
  <1>2. CASE Compare(o.vc, s.vc) # "After"
    <2>1. s \in AddObject(S, o)
      BY <1>2 DEF AddObject
    <2> QED BY <1>1, <2>1, LeqReflexive DEF Covers
  <1>3. CASE Compare(o.vc, s.vc) = "After"
    <2>1. Leq(s.vc, o.vc)
      BY <1>1, <1>3, CompareDecidesOrder
    <2>2. o \in AddObject(S, o)
      BY DEF AddObject
    <2> QED BY <2>1, <2>2 DEF Covers
  <1> QED BY <1>2, <1>3

(* Coverage is inherited by whatever lies below what is covered. *)
LEMMA CoversBelow ==
  ASSUME NEW S, Versions(S), NEW v \in VClocks, NEW w \in VClocks, Leq(v, w), Covers(S, w)
  PROVE  Covers(S, v)
  BY LeqTransitive DEF Covers, Versions

(* Covering every version of a set is covering all the set covers. *)
LEMMA CoversAll ==
  ASSUME NEW S, Versions(S), NEW T, Versions(T), NEW v \in VClocks,
         Covers(S, v), \A o \in S : Covers(T, o.vc)
  PROVE  Covers(T, v)
  <1>1. PICK o \in S : Leq(v, o.vc)
    BY DEF Covers
  <1> QED BY <1>1, CoversBelow DEF Versions

(* The merge loop forgets nothing of either side, provided the siblings it *)
(* starts from are an antichain: what it removes is below a newcomer.      *)
LEMMA MergeCovers ==
  ASSUME NEW S, Versions(S), Antichain(S), NEW T, Versions(T), NEW o \in S \cup T
  PROVE  Covers(MergeObjects(S, T), o.vc)
  <1> DEFINE M == MergeObjects(S, T)
  <1>1. Versions(M)
    BY DEF Versions, MergeObjects
  <1>2. ASSUME NEW s \in S PROVE Covers(M, s.vc)
    <2>1. s.vc \in VClocks
      BY DEF Versions
    <2>2. CASE s \in M
      BY <2>1, <2>2, LeqReflexive DEF Covers
    <2>3. CASE s \notin M
      <3>1. PICK t \in T : Compare(t.vc, s.vc) = "After"
        BY <2>3 DEF MergeObjects
      <3>2. t.vc \in VClocks
        BY DEF Versions
      <3>3. Leq(s.vc, t.vc) /\ ~Leq(t.vc, s.vc)
        BY <2>1, <3>1, <3>2, CompareDecidesOrder
      <3>4. ~Covers(S, t.vc)
        <4> SUFFICES ASSUME NEW u \in S, Leq(t.vc, u.vc) PROVE FALSE
          BY DEF Covers
        <4>1. u.vc \in VClocks /\ Leq(s.vc, u.vc)
          BY <2>1, <3>2, <3>3, LeqTransitive DEF Versions
        <4> QED BY <3>3, <4>1, AntichainMeaning
      <3>5. t \in M
        BY <3>2, <3>4, CanBeAddedToMeaning DEF MergeObjects
      <3> QED BY <3>3, <3>5 DEF Covers
    <2> QED BY <2>2, <2>3
  <1>3. ASSUME o \in T PROVE Covers(M, o.vc)
    <2>1. o.vc \in VClocks
      BY <1>3 DEF Versions
    <2>2. CASE Covers(S, o.vc)
      BY <1>1, <1>2, <2>1, <2>2, CoversAll
    <2>3. CASE ~Covers(S, o.vc)
      <3>1. o \in M
        BY <1>3, <2>1, <2>3, CanBeAddedToMeaning DEF MergeObjects
      <3> QED BY <2>1, <3>1, LeqReflexive DEF Covers
    <2> QED BY <2>2, <2>3
  <1> QED BY <1>2, <1>3

=============================================================================
