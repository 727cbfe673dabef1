------------------------------ MODULE MCDynamo ------------------------------
(* Instances of Dynamo: three replicas of the key, one or two servers      *)
(* outside the preference list, and one clock label per writer.            *)
EXTENDS Dynamo

CONSTANTS p1, p2, w1, w2

Servers2 == 1..2
Servers3 == 1..3
Servers4 == 1..4
PrefList == <<1, 2, 3>>
TwoReplicas == <<1, 2>>
Names2 == Servers2 \cup {w1, w2}
Names3 == Servers3 \cup {w1, w2}
Names4 == Servers4 \cup {w1, w2}

TwoWriters == [p \in Put |-> IF p = p1 THEN w1 ELSE w2]

(* Which servers the clients call: the key's first replica, as a Clerk     *)
(* does, or one of several, as the PBS demo does.                          *)
AllCall1 == [op \in Put \cup Get |-> {1}]
TheyCall1Or2 == [op \in Put \cup Get |-> IF op = p1 THEN {1} ELSE IF op \in Put THEN {1, 2} ELSE {2}]
TheyCall1And2 == [op \in Put \cup Get |-> IF op = p1 THEN {1} ELSE {2}]
TheyCall1To4 == [op \in Put \cup Get |-> IF op = p1 THEN {1} ELSE {1, 2, 4}]

Nobody == {}
OneSees3 == {<<1, 3>>}
OneSees2And3 == {<<1, 2>>, <<1, 3>>}
=============================================================================
