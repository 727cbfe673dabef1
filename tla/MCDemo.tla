------------------------------- MODULE MCDemo -------------------------------
(***************************************************************************)
(* One run of the PBS demo: its workload (DemoWorkload), the failures it   *)
(* injects (DemoFailure), the read repair jobs of a coordinator            *)
(* (RepairQueue) and the evaluation of what was observed (Regularity).     *)
(*                                                                         *)
(* The four share no state, so in every order of their steps each goes     *)
(* through the same states; instead of the product TLC explores the runs   *)
(* in which one part moves and the others are still as they began.         *)
(***************************************************************************)
EXTENDS DemoWorkload, DemoFailure, RepairQueue, Regularity, TLC

CONSTANTS s1, s2, s3, k1, k2, j1, j2, j3, x1, x2, y1, x, y

Servers == {s1, s2, s3}
Prefs == <<s1, s2, s3>>
AllOptions ==
  [start : 0..1, down : 0..2, up : 0..1, recover : 0..2, overlap : 0..1, run : {1, 10}]

(* Two reads of one key and one of another. *)
Jobs == {j1, j2, j3}
KeyOfJob == (j1 :> k1) @@ (j2 :> k1) @@ (j3 :> k2)

(* One client writes x1 and then x2, another y1. *)
Clock(n, m) == (x :> n) @@ (y :> m)
Clocks == (x1 :> Clock(1, 0)) @@ (x2 :> Clock(2, 0)) @@ (y1 :> Clock(0, 1))
Clients == (x1 :> x) @@ (x2 :> x) @@ (y1 :> y)

vars == <<workVars, loopVars, queueVars, collector>>

Init == WorkInit /\ LoopInit /\ QueueInit /\ CollectorInit

IdleOptions == [start |-> 1, down |-> 0, up |-> 0, recover |-> 0, overlap |-> 0, run |-> 10]
IdleScript == Script(IdleOptions)
LoopIdle == opts = IdleOptions /\ script = IdleScript  \* before the loop's first step

LoopMoves(A) ==
  CollectorInit /\ QueueInit /\ WorkInit /\ A /\ UNCHANGED <<workVars, queueVars, collector>>
WorkMoves(A) ==
  LoopIdle /\ CollectorInit /\ QueueInit /\ A /\ UNCHANGED <<loopVars, queueVars, collector>>
QueueMoves(A) ==
  LoopIdle /\ CollectorInit /\ WorkInit /\ A /\ UNCHANGED <<workVars, loopVars, collector>>
CollectorMoves(A) ==
  LoopIdle /\ QueueInit /\ WorkInit /\ A /\ UNCHANGED <<workVars, loopVars, queueVars>>

Next ==
  \/ LoopMoves(LoopNext) \/ WorkMoves(WorkNext)
  \/ QueueMoves(QueueNext) \/ CollectorMoves(CollectorNext)

(* Timers fire, callbacks get the lock, calls return, and workers and the   *)
(* scenario go on; nothing is assumed of reads, of the stop or of the       *)
(* other parts.                                                             *)
FairSpec ==
  /\ Init /\ [][Next]_vars
  /\ \A j \in Job : WF_vars(QueueMoves(TimerStep(j)))
  /\ \A w \in Worker : WF_vars(QueueMoves(WorkerStep(w)))
  /\ \A w \in Workers : WF_vars(WorkMoves(WorkloadStep(w)))
  /\ WF_vars(WorkMoves(ScenarioStep))

=============================================================================
