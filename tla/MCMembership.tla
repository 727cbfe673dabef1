---------------------------- MODULE MCMembership ----------------------------
(* Small instances of Membership. *)
EXTENDS Membership, TLC

CONSTANTS a, b, c

Servers3 == {a, b, c}
OnlyA == {a}
Beats100 == (a :> 1) @@ (b :> 0) @@ (c :> 0)

=============================================================================
