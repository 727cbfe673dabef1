------------------------------- MODULE VClock -------------------------------
(***************************************************************************)
(* Vector clocks (kvsrv/vclock/vclock.go).                                 *)
(*                                                                         *)
(* The code keeps a clock as a map from names to uint64 versions and reads *)
(* a missing entry as 0 (Go's zero value), so a clock is modelled as a     *)
(* total function on Name, the names that can occur as an entry: the       *)
(* servers, which bump their own entry in CoordPut, and the labels clients *)
(* bump before they write.  Versions are unbounded here: a uint64 entry    *)
(* counts writes and cannot wrap in any run of the program.                *)
(***************************************************************************)
EXTENDS Naturals

CONSTANT Name

VClocks == [Name -> Nat]

NewVClock == [n \in Name |-> 0]

Increment(v, node) == [v EXCEPT ![node] = @ + 1]

IsInitial(v) == \A n \in Name : v[n] = 0

(* Compare returns Concurrent as soon as both directions have been seen and *)
(* classifies by the direction seen otherwise.                              *)
Compare(v, other) ==
  LET hasBefore == \E n \in Name : v[n] < other[n]
      hasAfter  == \E n \in Name : v[n] > other[n]
  IN  CASE hasBefore /\ hasAfter   -> "Concurrent"
        [] hasBefore /\ ~hasAfter  -> "Before"
        [] ~hasBefore /\ hasAfter  -> "After"
        [] ~hasBefore /\ ~hasAfter -> "Equal"

Merge(v, other) == [n \in Name |-> IF v[n] > other[n] THEN v[n] ELSE other[n]]

-----------------------------------------------------------------------------
(* The causal order Compare is meant to decide: v descends to w entrywise.  *)
Leq(v, w) == \A n \in Name : v[n] <= w[n]

=============================================================================
