------------------------------ MODULE Siblings ------------------------------
(***************************************************************************)
(* The versions of one key (kvsrv/rpc/object.go, kvsrv/rpc/context.go).    *)
(*                                                                         *)
(* An object is a value with its context.  Of the context the model keeps  *)
(* the vector clock vc; the value, its ETag and the timestamp taken at the *)
(* coordinator are represented together by id, the put that wrote it: two  *)
(* puts never share a timestamp, so objects are IsEqual (same clock,       *)
(* timestamp and ETag) exactly when they are the same record.              *)
(*                                                                         *)
(* Here a replica's siblings are the SET of its objects; SiblingList has   *)
(* the ordered list the code keeps and relates the two.                    *)
(***************************************************************************)
EXTENDS VClock

(* MUTANT of CanBeAddedTo: only a clock that is there already refuses vc. *)
CanBeAddedToIfNew(vc, siblings) ==
  \A s \in siblings : Compare(vc, s.vc) # "Equal"

(* obj.CanBeAddedTo: no sibling has a clock equal to or after vc. *)
CanBeAddedTo(vc, siblings) ==
  \A s \in siblings : Compare(vc, s.vc) \notin {"Before", "Equal"}

(* MUTANT of AddObject: the last write wins. *)
AddObjectOnly(siblings, candidate) == {candidate}

(* AddObject under its precondition: the siblings candidate supersedes go. *)
AddObject(siblings, candidate) ==
  {s \in siblings : Compare(candidate.vc, s.vc) # "After"} \cup {candidate}

(* MUTANT of MergeObjects: superseded siblings are kept. *)
MergeObjectsUnion(siblings, incoming) ==
  siblings \cup {o \in incoming : CanBeAddedTo(o.vc, siblings)}

(* The loop "if obj.CanBeAddedTo(merged) { merged = AddObject(merged, obj) }"  *)
(* over the incoming list, which mergeObjectsCore, CoordGet and                *)
(* finishCoordGetReadRepair share.  The incoming objects are some replica's    *)
(* siblings, hence pairwise concurrent, and then the order is immaterial.      *)
MergeObjects(siblings, incoming) ==
  {s \in siblings : \A o \in incoming : Compare(o.vc, s.vc) # "After"}
    \cup {o \in incoming : CanBeAddedTo(o.vc, siblings)}

-----------------------------------------------------------------------------
(* No object of S is superseded or duplicated by another one. *)
Antichain(S) == \A a, b \in S : a # b => Compare(a.vc, b.vc) = "Concurrent"

(* Everything known to S about a clock v: some version at or above it. *)
Covers(S, v) == \E o \in S : Leq(v, o.vc)

=============================================================================
