-------------------------------- MODULE RPC ---------------------------------
(***************************************************************************)
(* What ClientEnd.Call promises its callers, and all that Dynamo assumes   *)
(* of the network: the handler of a call runs at most once; true is        *)
(* returned only after it ran; false says nothing, and the handler may     *)
(* still run after it; a call whose handler has run returns.               *)
(***************************************************************************)
EXTENDS Naturals

CONSTANT Call

VARIABLES
  ret,   \* ret[c]: "none" before the call, "pending" during it, its result after
  runs   \* runs[c]: how often the handler of c has run

rpcVars == <<ret, runs>>

Init ==
  /\ ret = [c \in Call |-> "none"]
  /\ runs = [c \in Call |-> 0]

Issue(c) ==
  /\ ret[c] = "none"
  /\ ret' = [ret EXCEPT ![c] = "pending"]
  /\ UNCHANGED runs

Execute(c) ==
  /\ ret[c] \in {"pending", "false"}
  /\ runs[c] = 0
  /\ runs' = [runs EXCEPT ![c] = 1]
  /\ UNCHANGED ret

ReturnTrue(c) ==
  /\ ret[c] = "pending" /\ runs[c] = 1
  /\ ret' = [ret EXCEPT ![c] = "true"]
  /\ UNCHANGED runs

ReturnFalse(c) ==
  /\ ret[c] = "pending"
  /\ ret' = [ret EXCEPT ![c] = "false"]
  /\ UNCHANGED runs

Next == \E c \in Call : Issue(c) \/ Execute(c) \/ ReturnTrue(c) \/ ReturnFalse(c)

Answer(c) == runs[c] = 1 /\ (ReturnTrue(c) \/ ReturnFalse(c))

Spec == Init /\ [][Next]_rpcVars /\ \A c \in Call : WF_rpcVars(Answer(c))

=============================================================================
