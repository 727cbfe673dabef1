---------------------------- MODULE MCMerkleSync ----------------------------
(* Two servers that replicate a sector of four buckets, which n1 owns, and *)
(* two keys in buckets of their own.                                       *)
EXTENDS MerkleSync

CONSTANTS n1, n2, k1, k2, s1, c1, c2

Names == {c1, c2}
Locations == [k \in Key |-> IF k = k1 THEN <<s1, 1>> ELSE <<s1, 2>>]
Owners == [s \in Sector |-> n1]
OtherServer == [s \in Sector |-> {n2}]

V0 == NewVClock
V1 == Increment(V0, c1)
Bumped == Increment(V1, c1)
V2 == Increment(Bumped, c2)
PutInput(n, k, base, obj) == [type |-> "put", at |-> n, key |-> k, base |-> base, obj |-> obj]

A == [id |-> "a", vc |-> V1]
B == [id |-> "b", vc |-> V2]

Inputs ==
  { PutInput(n1, k1, V0, A), PutInput(n1, k1, Bumped, B), PutInput(n2, k2, V0, A),
    [type |-> "read", at |-> n1, key |-> k2],
    [type |-> "read", at |-> n2, key |-> k1],
    [type |-> "delete", at |-> n2, key |-> k2],
    [type |-> "stop", at |-> n2] }
=============================================================================
