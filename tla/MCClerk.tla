------------------------------- MODULE MCClerk ------------------------------
(* One coordinator and a client that reads, writes what it read and writes *)
(* again, while another client writes.                                     *)
EXTENDS Clerk

CONSTANTS p1, p2, g1, w1, w2, s1, e1

Calls == (Put \cup Get) \X (1..MaxRetry)
OneEnd == [c \in Call |-> e1]
OneServer == [e \in End |-> s1]
Names == {s1, w1, w2}
ReadThenWrite == <<g1, p1>>
Writers == [p \in Put \cup Other |-> IF p = p2 THEN w2 ELSE w1]
Hangs == {<<g1, 2>>}
=============================================================================
