---------------------------- MODULE DynamoProofs ----------------------------
(***************************************************************************)
(* Theorems about Dynamo, for every cluster, preference list, quorum size, *)
(* set of operations, membership history and pattern of lost calls: what   *)
(* the siblings of a replica are and how they change, what the quorums     *)
(* promise a client, and what read repair and anti-entropy achieve.        *)
(***************************************************************************)
EXTENDS Dynamo, SiblingsProofs, FiniteSetTheorems

LEMMA ReplicaIsNode == Replica \subseteq Node
  BY DynamoAssumption DEF Replica

(* The contexts clients pass are vector clocks. *)
LEMMA BaseContextsType ==
  ASSUME TypeOK, NEW p \in Put
  PROVE  BaseContexts(p) \subseteq VClocks
  <1>1. NewVClock \in VClocks
    BY DEF NewVClock, VClocks
  <1>2. \A q \in Put : put[q].obj.vc \in VClocks
    BY DEF TypeOK, PutRecord, Object
  <1>3. \A g \in Get : \A o \in get[g].objs : o.vc \in VClocks
    BY DEF TypeOK, GetRecord, Object
  <1>4. Contexts \subseteq VClocks
    BY <1>1, <1>2, <1>3 DEF Contexts
  <1>5. Writer[p] \in Name
    BY DynamoAssumption
  <1> QED BY <1>4, <1>5, IncrementAbove DEF BaseContexts

(* Put plans send every planned replica's copy to a server. *)
LEMMA PlansType ==
  ASSUME NEW c \in Node
  PROVE  Plans(c) \in Plan /\ DOMAIN Plans(c) \subseteq Replica
  <1> DEFINE direct == {t \in Replica : status[c][t] # "Dead"}
             handed == {t \in Replica \ direct : HintedHandoffEnabled /\ HandoffNode(c, t) # {}}
             target(t) == IF t \in direct THEN t ELSE CHOOSE n \in HandoffNode(c, t) : TRUE
  <1>1. Plans(c) = [t \in direct \cup handed |-> target(t)]
    BY DEF Plans
  <1>2. direct \cup handed \in SUBSET Replica
    OBVIOUS
  <1>3. \A t : HandoffNode(c, t) \subseteq Node
    BY DEF HandoffNode
  <1>4. ASSUME NEW t \in direct \cup handed PROVE target(t) \in Node
    <2>1. CASE t \in direct
      BY <2>1, ReplicaIsNode
    <2>2. CASE t \notin direct
      <3>1. HandoffNode(c, t) # {}
        BY <1>4, <2>2
      <3>2. (CHOOSE n \in HandoffNode(c, t) : TRUE) \in HandoffNode(c, t)
        BY <3>1
      <3> QED BY <2>2, <3>2, <1>3
    <2> QED BY <2>1, <2>2
  <1> HIDE DEF direct, handed, target
  <1>5. [t \in direct \cup handed |-> target(t)] \in [direct \cup handed -> Node]
    BY <1>4
  <1> QED BY <1>1, <1>2, <1>5 DEF Plan

(* The effect of ReplicaPut on the stored siblings is well typed. *)
LEMMA ReplicaPutType ==
  ASSUME TypeOK, NEW p \in Put, NEW t \in Node
  PROVE  /\ ReplicaPutStore(kv[t], put[p]) \in SUBSET Object
         /\ ReplicaPutErr(kv[t], put[p]) \in {"OK", "ErrVersion", "ErrNoKey"}
  BY DEF TypeOK, PutRecord, ReplicaPutStore, ReplicaPutErr, AddObject

LEMMA MergeType ==
  ASSUME NEW S \in SUBSET Object, NEW T \in SUBSET Object
  PROVE  MergeObjects(S, T) \in SUBSET Object
  BY DEF MergeObjects

(* Returning from CoordPut changes the outcome only. *)
LEMMA PutOutcomeType ==
  ASSUME put \in [Put -> PutRecord], NEW p \in Put, NEW err \in PutErr
  PROVE  [put EXCEPT ![p].st = err] \in [Put -> PutRecord]
  BY DEF PutRecord

(* A call changes state: the table of calls stays well typed. *)
LEMMA CallUpdateType ==
  ASSUME call \in [Put -> [Replica -> CallState]],
         NEW p \in Put, NEW t \in Replica, NEW e \in CallState
  PROVE  /\ [call EXCEPT ![p][t] = e] \in [Put -> [Replica -> CallState]]
         /\ [call EXCEPT ![p][t] = IF @ = "sent" THEN e ELSE @]
              \in [Put -> [Replica -> CallState]]
  OBVIOUS

(* A result of a read changes state: the table of results stays well typed. *)
LEMMA ResultUpdateType ==
  ASSUME res \in [Get -> [Replica -> Result]],
         NEW g \in Get, NEW s \in Replica,
         NEW x \in {"none", "sent", "got", "read", "false"}
  PROVE  [res EXCEPT ![g][s].st = x] \in [Get -> [Replica -> Result]]
  <1>0. res[g][s] \in Result
    OBVIOUS
  <1>1. [res[g][s] EXCEPT !.st = x] \in Result
    BY <1>0 DEF Result
  <1> QED BY <1>1

-----------------------------------------------------------------------------
(* The nodes of an exchange are replicas once it has started, and repairs  *)
(* and merges it causes belong to an exchange that has applied its diff.   *)
RoundsStarted ==
  /\ \A r \in Round : round[r].st # "idle" => round[r].node \in Replica /\ round[r].peer \in Replica
  /\ \A m \in repairs : m.op \in Round => round[m.op].st = "done"
  /\ \A f \in frame : f.op \in Round => round[f.op].st = "done"

TypeInv == TypeOK /\ RoundsStarted

LEMMA TypeInit == Init => TypeInv
  <1> SUFFICES ASSUME Init PROVE TypeInv
    OBVIOUS
  <1>1. NewVClock \in VClocks
    BY DEF NewVClock, VClocks
  <1>2. [t \in {} |-> t] \in Plan
    <2>1. [t \in {} |-> t] \in [{} -> Node]
      OBVIOUS
    <2> QED BY <2>1 DEF Plan
  <1>3. \A p \in Put : [id |-> p, vc |-> NewVClock] \in Object
    BY <1>1 DEF Object
  <1>4. TypeOK
    BY <1>1, <1>2, <1>3
       DEF Init, TypeOK, Status, NoCalls, NoResults, PutRecord, CallState, GetRecord,
           Result, Exchange
  <1>5. RoundsStarted
    BY DEF Init, RoundsStarted
  <1> QED BY <1>4, <1>5 DEF TypeInv

LEMMA TypeCoordPut ==
  ASSUME TypeInv, NEW p \in Put, NEW c \in Node, NEW base \in BaseContexts(p),
         CoordPut(p, c, base)
  PROVE  TypeInv'
  <1>1. base \in VClocks /\ Increment(base, c) \in VClocks
    BY BaseContextsType, IncrementAbove, DynamoAssumption DEF TypeInv
  <1>2. Plans(c) \in Plan /\ DOMAIN Plans(c) \subseteq Replica
    BY PlansType
  <1>3. [id |-> p, vc |-> Increment(base, c)] \in Object
    BY <1>1 DEF Object
  <1>4. [st |-> "wait", base |-> base, plan |-> Plans(c),
         obj |-> [id |-> p, vc |-> Increment(base, c)]] \in PutRecord
    BY <1>1, <1>2, <1>3 DEF PutRecord
  <1>5. put' \in [Put -> PutRecord]
    <2>1. put \in [Put -> PutRecord]
      BY DEF TypeInv, TypeOK
    <2>2. {"ErrNotCoordinator", "ErrWriteQuorumNotMet"} \subseteq PutErr
      BY DEF PutErr
    <2> QED BY <1>4, <2>1, <2>2, PutOutcomeType DEF CoordPut
  <1>6. call' \in [Put -> [Replica -> CallState]]
    BY DEF CoordPut, TypeInv, TypeOK, CallState
  <1>7. inflight' \subseteq Put \X Replica
    BY <1>2 DEF CoordPut, TypeInv, TypeOK
  <1>8. UNCHANGED <<kv, hints, status, get, res, job, repairs, frame, round>>
    BY DEF CoordPut, getVars, repairVars
  <1> QED BY <1>5, <1>6, <1>7, <1>8 DEF TypeInv, TypeOK, RoundsStarted

(* What a call of a put may do leaves the state well typed. *)
LEMMA TypePutSteps ==
  ASSUME TypeInv, NEW p \in Put, NEW t \in Replica,
         ReplicaPut(p, t) \/ HintedPut(p, t) \/ PutCallFails(p, t) \/ LateRequestLost(p, t)
  PROVE  TypeInv'
  <1> USE DEF TypeInv, TypeOK, RoundsStarted, getVars, repairVars
  <1>1. t \in Node
    BY ReplicaIsNode
  <1>2. ASSUME NEW err \in {"OK", "ErrVersion", "ErrNoKey"}, Replied(p, t, err)
        PROVE  call' \in [Put -> [Replica -> CallState]] /\ inflight' \subseteq Put \X Replica
    <2>1. PICK e \in {err} \cup (IF put[p].plan[t] \in Flaky THEN {"false"} ELSE {}) :
            call' = [call EXCEPT ![p][t] = IF @ = "sent" THEN e ELSE @]
      BY <1>2 DEF Replied
    <2>2. e \in CallState
      BY <2>1 DEF CallState
    <2> QED BY <1>2, <2>1, <2>2, CallUpdateType DEF Replied
  <1>3. CASE ReplicaPut(p, t)
    <2>1. kv' \in [Node -> SUBSET Object]
      BY <1>1, <1>3, ReplicaPutType DEF ReplicaPut
    <2>2. call' \in [Put -> [Replica -> CallState]] /\ inflight' \subseteq Put \X Replica
      BY <1>1, <1>2, <1>3, ReplicaPutType DEF ReplicaPut
    <2> QED BY <1>3, <2>1, <2>2 DEF ReplicaPut
  <1>4. CASE HintedPut(p, t)
    <2>1. call' \in [Put -> [Replica -> CallState]] /\ inflight' \subseteq Put \X Replica
      BY <1>2, <1>4 DEF HintedPut
    <2>2. hints' \in [Node -> SUBSET (Put \X Replica)]
      BY <1>4 DEF HintedPut
    <2> QED BY <1>4, <2>1, <2>2 DEF HintedPut
  <1>5. CASE PutCallFails(p, t)
    <2>1. call' \in [Put -> [Replica -> CallState]]
      BY <1>5, CallUpdateType DEF PutCallFails, CallState
    <2> QED BY <1>5, <2>1 DEF PutCallFails
  <1>6. CASE LateRequestLost(p, t)
    BY <1>6 DEF LateRequestLost
  <1> QED BY <1>3, <1>4, <1>5, <1>6

LEMMA TypeCoordPutReturn ==
  ASSUME TypeInv, NEW p \in Put, CoordPutReturn(p)
  PROVE  TypeInv'
  <1> USE DEF TypeInv, TypeOK, RoundsStarted, getVars, repairVars
  <1>1. PICK err \in PutErr : put' = [put EXCEPT ![p].st = err]
    BY DEF CoordPutReturn, PutErr
  <1>2. NoCalls \in [Replica -> CallState]
    BY DEF NoCalls, CallState
  <1>3. call' \in [Put -> [Replica -> CallState]]
    BY <1>2 DEF CoordPutReturn
  <1>4. put' \in [Put -> PutRecord]
    BY <1>1, PutOutcomeType
  <1> QED BY <1>3, <1>4 DEF CoordPutReturn

LEMMA TypeReplayHint ==
  ASSUME TypeInv, NEW h \in Node, NEW p \in Put, NEW t \in Replica, ReplayHint(h, p, t)
  PROVE  TypeInv'
  <1> USE DEF TypeInv, TypeOK, RoundsStarted, putVars, getVars, repairVars
  <1>1. t \in Node
    BY ReplicaIsNode
  <1>2. kv' \in [Node -> SUBSET Object]
    BY <1>1, ReplicaPutType DEF ReplayHint
  <1> QED BY <1>2 DEF ReplayHint, RemoveHint

LEMMA TypeGetSteps ==
  ASSUME TypeInv, NEW g \in Get,
         \/ GetStep(g)
         \/ StartRepairJob(g) \/ (\E s \in Replica : CollectResult(g, s)) \/ RepairReplicas(g)
  PROVE  TypeInv'
  <1> USE DEF TypeInv, TypeOK, RoundsStarted, putVars, repairVars
  <1>1. Replica \subseteq Node /\ Node \subseteq Nat /\ Coord[g] \subseteq Node
    BY ReplicaIsNode, DynamoAssumption
  <1>2. NoResults \in [Replica -> Result]
    BY DEF NoResults, Result
  <1>3. get[g] \in GetRecord /\ \A s \in Replica : res[g][s] \in Result
    OBVIOUS
  <1>4. \A s \in Replica : MergeObjects(get[g].canon, res[g][s].objs) \in SUBSET Object
    BY <1>3, MergeType DEF GetRecord, Result
  <1>5. ASSUME NEW c \in Coord[g], CoordGet(g, c) PROVE TypeInv'
    <2> DEFINE live == {r \in Replica : status[c][r] # "Dead"}
               started == [st |-> "wait", coord |-> c, objs |-> {}, canon |-> {},
                           acked |-> {p \in Put : put[p].st = "OK"}]
               sent == [r \in Replica |-> [st |-> IF r \in live THEN "sent" ELSE "none",
                                           objs |-> {}]]
    <2>1. \/ get' = [get EXCEPT ![g] = started] /\ res' = [res EXCEPT ![g] = sent]
          \/ /\ \E err \in GetErr : get' = [get EXCEPT ![g].st = err]
             /\ res' = res
      BY <1>5 DEF CoordGet, GetErr
    <2>2. started \in GetRecord
      BY <1>1 DEF GetRecord
    <2>3. sent \in [Replica -> Result]
      BY DEF Result
    <2>4. \A err \in GetErr : [get[g] EXCEPT !.st = err] \in GetRecord
      BY <1>3 DEF GetRecord
    <2> HIDE DEF started, sent
    <2>5. get' \in [Get -> GetRecord]
      BY <2>1, <2>2, <2>4
    <2>6. res' \in [Get -> [Replica -> Result]]
      BY <2>1, <2>3
    <2> QED BY <1>5, <2>5, <2>6 DEF CoordGet
  <1>6. ASSUME NEW s \in Replica, ReplicaGet(g, s) PROVE TypeInv'
    <2>1. [st |-> "got", objs |-> kv[s]] \in Result
      BY <1>1 DEF Result
    <2> QED BY <1>6, <2>1 DEF ReplicaGet
  <1>7. ASSUME NEW s \in Replica, GetCallFails(g, s) PROVE TypeInv'
    BY <1>7, ResultUpdateType DEF GetCallFails
  <1>8. ASSUME NEW s \in Replica, CoordGetReceive(g, s) PROVE TypeInv'
    <2> DEFINE siblings == MergeObjects(get[g].canon, res[g][s].objs)
    <2>1. \/ /\ get' = [get EXCEPT ![g].canon = siblings]
             /\ res' = [res EXCEPT ![g][s].st = "read"]
             /\ job' = job
          \/ /\ \/ get' = [get EXCEPT ![g] = [@ EXCEPT !.st = "ErrNoKey", !.canon = {}]]
                \/ get' = [get EXCEPT ![g] = [@ EXCEPT !.st = "OK", !.objs = siblings,
                                                       !.canon = siblings]]
             /\ ScheduleReadRepair(g, s)
      BY <1>8, Zenon DEF CoordGetReceive
    <2>2. /\ [get[g] EXCEPT !.canon = siblings] \in GetRecord
          /\ [get[g] EXCEPT !.st = "ErrNoKey", !.canon = {}] \in GetRecord
          /\ [get[g] EXCEPT !.st = "OK", !.objs = siblings, !.canon = siblings] \in GetRecord
      BY <1>3, <1>4 DEF GetRecord, GetErr
    <2> HIDE DEF siblings
    <2>3. get' \in [Get -> GetRecord]
      BY <2>1, <2>2
    <2>4. [res[g] EXCEPT ![s].st = "read"] \in [Replica -> Result]
      BY <1>3 DEF Result
    <2>5. res' \in [Get -> [Replica -> Result]]
      <3>1. CASE res' = [res EXCEPT ![g][s].st = "read"]
        BY <3>1, ResultUpdateType
      <3>2. CASE ScheduleReadRepair(g, s) /\ ReadRepairEnabled
        <4>1. PICK superseded \in SUBSET Get :
                res' = [h \in Get |-> IF h = g THEN [res[g] EXCEPT ![s].st = "read"]
                                     ELSE IF h \in superseded THEN NoResults ELSE res[h]]
          BY <3>2 DEF ScheduleReadRepair
        <4>2. \A h \in Get : res[h] \in [Replica -> Result]
          OBVIOUS
        <4> DEFINE r(h) == IF h = g THEN [res[g] EXCEPT ![s].st = "read"]
                           ELSE IF h \in superseded THEN NoResults ELSE res[h]
        <4>3. \A h \in Get : r(h) \in [Replica -> Result]
          BY <1>2, <2>4, <4>2
        <4> HIDE DEF r
        <4>4. [h \in Get |-> r(h)] \in [Get -> [Replica -> Result]]
          BY <4>3
        <4> QED BY <4>1, <4>4 DEF r
      <3>3. CASE ScheduleReadRepair(g, s) /\ ~ReadRepairEnabled
        BY <1>2, <3>3 DEF ScheduleReadRepair
      <3> QED BY <2>1, <3>1, <3>2, <3>3
    <2>6. job' \in [Get -> {"none", "coalesced", "dropped", "running", "done"}]
      BY <2>1 DEF ScheduleReadRepair
    <2> QED BY <1>8, <2>3, <2>5, <2>6 DEF CoordGetReceive
  <1>9. CASE CoordGetExhausted(g)
    <2>1. get' \in [Get -> GetRecord]
      BY <1>3, <1>9 DEF CoordGetExhausted, GetRecord, GetErr
    <2> QED BY <1>2, <1>9, <2>1 DEF CoordGetExhausted
  <1>10. CASE StartRepairJob(g)
    BY <1>10 DEF StartRepairJob
  <1>11. ASSUME NEW s \in Replica, CollectResult(g, s) PROVE TypeInv'
    <2>1. get' \in [Get -> GetRecord]
      BY <1>3, <1>4, <1>11 DEF CollectResult, GetRecord
    <2> QED BY <1>11, <2>1, ResultUpdateType DEF CollectResult
  <1>12. CASE RepairReplicas(g)
    <2>1. get[g].canon \in SUBSET Object
      BY <1>3 DEF GetRecord
    <2>2. repairs' \subseteq RepairArgs
      BY <1>12, <2>1 DEF RepairReplicas, RepairArgs, StaleReplicas
    <2>3. \A m \in repairs' : m.op \in Round => m \in repairs
      BY <1>12, DynamoAssumption DEF RepairReplicas
    <2> QED BY <1>12, <2>2, <2>3 DEF RepairReplicas
  <1> QED BY <1>5, <1>6, <1>7, <1>8, <1>9, <1>10, <1>11, <1>12 DEF GetStep

(* The frame a merge leaves behind is well typed. *)
LEMMA MergeFramesType ==
  ASSUME TypeOK, NEW op \in Get \cup Round, NEW n \in Replica, NEW incoming \in SUBSET Object
  PROVE  MergeFrames(op, n, incoming) \subseteq MergeFrame
  <1>1. MergeObjects(kv[n], incoming) \in SUBSET Object
    BY ReplicaIsNode, MergeType DEF TypeOK
  <1> QED BY <1>1 DEF MergeFrames, MergeFrame

LEMMA TypeRepairSteps ==
  ASSUME TypeInv,
         \/ \E m \in repairs : RepairPut(m) \/ RepairPutFails(m)
         \/ \E r \in Round : \/ \E n, m \in Replica : RepairGetDiff(r, n, m)
                             \/ ApplyDiff(r)
         \/ \E f \in frame : InstallObjects(f)
  PROVE  TypeInv'
  <1> USE DEF TypeInv, TypeOK, RoundsStarted, putVars, getVars
  <1>1. ASSUME NEW m \in repairs, RepairPut(m) PROVE TypeInv'
    <2>1. m.op \in Get \cup Round /\ m.to \in Replica /\ m.objs \in SUBSET Object
      BY DEF RepairArgs
    <2>2. MergeFrames(m.op, m.to, m.objs) \subseteq MergeFrame
      BY <2>1, MergeFramesType
    <2>3. \A f \in MergeFrames(m.op, m.to, m.objs) : f.op = m.op
      BY DEF MergeFrames
    <2> QED BY <1>1, <2>2, <2>3 DEF RepairPut
  <1>2. ASSUME NEW m \in repairs, RepairPutFails(m) PROVE TypeInv'
    BY <1>2 DEF RepairPutFails
  <1>3. ASSUME NEW r \in Round, NEW n \in Replica, NEW m \in Replica, RepairGetDiff(r, n, m)
        PROVE  TypeInv'
    <2>1. n \in Nat /\ m \in Nat /\ m \in Node
      BY ReplicaIsNode, DynamoAssumption
    <2>2. [st |-> "pulled", node |-> n, peer |-> m, objs |-> kv[m]] \in Exchange
      BY <2>1 DEF Exchange
    <2>3. round' = [round EXCEPT ![r] = [st |-> "pulled", node |-> n, peer |-> m, objs |-> kv[m]]]
      BY <1>3 DEF RepairGetDiff
    <2>4. round' \in [Round -> Exchange]
      BY <2>2, <2>3
    <2>5. RoundsStarted'
      BY <1>3, <2>3 DEF RepairGetDiff
    <2> QED BY <1>3, <2>4, <2>5 DEF RepairGetDiff
  <1>4. ASSUME NEW r \in Round, ApplyDiff(r) PROVE TypeInv'
    <2>1. round[r] \in Exchange /\ round[r].objs \in SUBSET Object
      BY DEF Exchange
    <2>2. round[r].node \in Replica /\ round[r].peer \in Replica
      BY <1>4 DEF ApplyDiff
    <2>3. round' \in [Round -> Exchange]
      BY <1>4, <2>1 DEF ApplyDiff, Exchange
    <2>4. frame' \subseteq MergeFrame
      BY <1>4, <2>1, <2>2, MergeFramesType DEF ApplyDiff
    <2>5. PushBack(r, kv[round[r].node]) \in RepairArgs
      BY <2>2, ReplicaIsNode DEF PushBack, RepairArgs
    <2>6. repairs' \subseteq RepairArgs
      BY <1>4, <2>5 DEF ApplyDiff
    <2>7. /\ \A f \in frame' : f \in frame \/ f.op = r
          /\ \A m \in repairs' : m \in repairs \/ m.op = r
      BY <1>4 DEF ApplyDiff, MergeFrames, PushBack
    <2>8. \A q \in Round : /\ round'[q].node = round[q].node /\ round'[q].peer = round[q].peer
                           /\ round'[q].st = IF q = r THEN "done" ELSE round[q].st
      BY <1>4 DEF ApplyDiff, Exchange
    <2>9. RoundsStarted'
      BY <2>2, <2>7, <2>8
    <2> QED BY <1>4, <2>3, <2>4, <2>6, <2>9 DEF ApplyDiff
  <1>5. ASSUME NEW f \in frame, InstallObjects(f) PROVE TypeInv'
    <2>1. f.op \in Get \cup Round /\ f.at \in Node /\ f.merged \in SUBSET Object
      BY ReplicaIsNode DEF MergeFrame
    <2>2. kv' \in [Node -> SUBSET Object]
      BY <1>5, <2>1 DEF InstallObjects
    <2>3. ASSUME f.op \in Round PROVE PushBack(f.op, f.merged) \in RepairArgs
      BY <2>1, <2>3 DEF PushBack, RepairArgs
    <2>4. repairs' \subseteq RepairArgs
      BY <1>5, <2>3 DEF InstallObjects
    <2>5. \A m \in repairs' : m \in repairs \/ (m.op = f.op /\ f.op \in Round)
      BY <1>5 DEF InstallObjects, PushBack
    <2> QED BY <1>5, <2>2, <2>4, <2>5 DEF InstallObjects
  <1> QED BY <1>1, <1>2, <1>3, <1>4, <1>5

LEMMA TypeNext == TypeInv /\ [Next]_vars => TypeInv'
  <1> SUFFICES ASSUME TypeInv, [Next]_vars PROVE TypeInv'
    OBVIOUS
  <1>1. ASSUME NEW n \in Node, NEW m \in Node, NEW s \in Status, MemberChange(n, m, s)
        PROVE  TypeInv'
    BY <1>1 DEF MemberChange, TypeInv, TypeOK, RoundsStarted, putVars, getVars, repairVars
  <1>2. ASSUME NEW p \in Put, PutStep(p) PROVE TypeInv'
    <2>1. Coord[p] \subseteq Node
      BY DynamoAssumption
    <2>2. CASE \E t \in Replica : \/ ReplicaPut(p, t) \/ HintedPut(p, t)
                                  \/ PutCallFails(p, t) \/ LateRequestLost(p, t)
      BY <2>2, TypePutSteps
    <2>3. CASE CoordPutReturn(p)
      BY <2>3, TypeCoordPutReturn
    <2> QED BY <1>2, <2>1, <2>2, <2>3, TypeCoordPut DEF PutStep
  <1>3. ASSUME NEW h \in Node, NEW x \in hints[h], ReplayHint(h, x[1], x[2]) PROVE TypeInv'
    <2>1. x[1] \in Put /\ x[2] \in Replica
      BY DEF TypeInv, TypeOK
    <2> QED BY <1>3, <2>1, TypeReplayHint
  <1>4. ASSUME NEW g \in Get, GetStep(g) PROVE TypeInv'
    BY <1>4, TypeGetSteps
  <1>5. CASE RepairStep
    BY <1>5, TypeGetSteps, TypeRepairSteps DEF RepairStep
  <1>6. CASE UNCHANGED vars
    BY <1>6 DEF vars, TypeInv, TypeOK, RoundsStarted
  <1> QED BY <1>1, <1>2, <1>3, <1>4, <1>5, <1>6 DEF Next

(* Whatever the cluster does, its state is well typed: in particular every *)
(* call of a coordinator ends in one of the results CoordPut classifies,   *)
(* every context that reaches a replica is a vector clock over known       *)
(* labels, and an exchange pushes back only to a replica of the key.       *)
THEOREM TypeCorrect == Spec => []TypeOK
  <1>1. TypeInv => TypeOK
    BY DEF TypeInv
  <1> QED BY TypeInit, TypeNext, <1>1, PTL DEF Spec

-----------------------------------------------------------------------------
(* SiblingsAntichain is not inductive: a merge installs what an earlier    *)
(* step computed from what a still earlier read returned, and ReplicaPut   *)
(* compares the base while it stores the object.  So every list under way  *)
(* is an antichain too, and an object is at or above its base.             *)
ListsAntichain ==
  /\ \A g \in Get : Antichain(get[g].canon)
  /\ \A g \in Get : \A s \in Replica : Antichain(res[g][s].objs)
  /\ \A m \in repairs : Antichain(m.objs)
  /\ \A f \in frame : Antichain(f.merged)
  /\ \A r \in Round : Antichain(round[r].objs)

ObjectsAboveBase == \A p \in Put : Leq(put[p].base, put[p].obj.vc)

AntichainInv == SiblingsAntichain /\ ListsAntichain /\ ObjectsAboveBase

LEMMA EmptyAntichain == Antichain({})
  BY DEF Antichain

(* Merging two well typed antichains gives one. *)
LEMMA MergeAntichain ==
  ASSUME NEW S \in SUBSET Object, NEW T \in SUBSET Object, Antichain(S), Antichain(T)
  PROVE  Antichain(MergeObjects(S, T))
  BY MergeKeepsAntichain DEF Versions, Object

(* ReplicaPut (server.go) keeps the siblings of a replica an antichain. *)
LEMMA ReplicaPutAntichain ==
  ASSUME TypeInv, AntichainInv, NEW p \in Put, NEW t \in Node
  PROVE  Antichain(ReplicaPutStore(kv[t], put[p]))
  <1>1. Versions(kv[t]) /\ Antichain(kv[t])
    BY DEF TypeInv, TypeOK, Object, Versions, AntichainInv, SiblingsAntichain
  <1>2. put[p].base \in VClocks /\ put[p].obj.vc \in VClocks
    BY DEF TypeInv, TypeOK, PutRecord, Object
  <1>3. Leq(put[p].base, put[p].obj.vc)
    BY DEF AntichainInv, ObjectsAboveBase
  <1>4. CASE ReplicaPutErr(kv[t], put[p]) = "OK"
    <2>1. CanBeAddedTo(put[p].base, kv[t])
      BY <1>4 DEF ReplicaPutErr
    <2>2. Antichain(AddObject(kv[t], put[p].obj))
      BY <1>1, <1>2, <1>3, <2>1, AddKeepsAntichain
    <2> QED BY <1>4, <2>2 DEF ReplicaPutStore
  <1>5. CASE ReplicaPutErr(kv[t], put[p]) # "OK"
    BY <1>1, <1>5 DEF ReplicaPutStore
  <1> QED BY <1>4, <1>5

LEMMA AntichainInit == Init => AntichainInv
  <1> SUFFICES ASSUME Init PROVE AntichainInv
    OBVIOUS
  <1>1. SiblingsAntichain
    BY EmptyAntichain DEF Init, SiblingsAntichain
  <1>2. ListsAntichain
    BY EmptyAntichain DEF Init, ListsAntichain, NoResults
  <1>3. ObjectsAboveBase
    <2>1. NewVClock \in VClocks
      BY DEF NewVClock, VClocks
    <2> QED BY <2>1, LeqReflexive DEF Init, ObjectsAboveBase
  <1> QED BY <1>1, <1>2, <1>3 DEF AntichainInv

LEMMA AntichainPutStep ==
  ASSUME TypeInv, AntichainInv, NEW p \in Put, PutStep(p)
  PROVE  AntichainInv'
  <1> USE DEF AntichainInv, getVars, repairVars
  <1>1. ASSUME NEW c \in Coord[p], NEW base \in BaseContexts(p), CoordPut(p, c, base)
        PROVE  AntichainInv'
    <2>1. base \in VClocks /\ c \in Name
      BY BaseContextsType, DynamoAssumption DEF TypeInv
    <2>2. Leq(base, Increment(base, c))
      BY <2>1, IncrementAbove
    <2>3. \A q \in Put :
            \/ put'[q].base = put[q].base /\ put'[q].obj = put[q].obj
            \/ put'[q].base = base /\ put'[q].obj.vc = Increment(base, c)
      BY <1>1 DEF CoordPut, TypeInv, TypeOK, PutRecord
    <2>4. ObjectsAboveBase'
      BY <2>2, <2>3 DEF ObjectsAboveBase
    <2> QED BY <1>1, <2>4 DEF CoordPut, SiblingsAntichain, ListsAntichain
  <1>2. ASSUME NEW t \in Replica, ReplicaPut(p, t) PROVE AntichainInv'
    <2>1. t \in Node
      BY ReplicaIsNode
    <2>2. \A n \in Node : Antichain(kv'[n])
      BY <1>2, <2>1, ReplicaPutAntichain DEF ReplicaPut, SiblingsAntichain, TypeInv, TypeOK
    <2> QED BY <1>2, <2>2 DEF ReplicaPut, SiblingsAntichain, ListsAntichain, ObjectsAboveBase
  <1>3. ASSUME NEW t \in Replica,
               HintedPut(p, t) \/ PutCallFails(p, t) \/ LateRequestLost(p, t)
        PROVE  AntichainInv'
    BY <1>3 DEF HintedPut, PutCallFails, LateRequestLost,
                SiblingsAntichain, ListsAntichain, ObjectsAboveBase
  <1>4. CASE CoordPutReturn(p)
    <2>1. PICK err : put' = [put EXCEPT ![p].st = err]
      BY <1>4 DEF CoordPutReturn
    <2>2. \A q \in Put : put'[q].base = put[q].base /\ put'[q].obj = put[q].obj
      BY <2>1 DEF TypeInv, TypeOK, PutRecord
    <2> QED BY <1>4, <2>2 DEF CoordPutReturn, SiblingsAntichain, ListsAntichain, ObjectsAboveBase
  <1> QED BY <1>1, <1>2, <1>3, <1>4 DEF PutStep

LEMMA AntichainReplayHint ==
  ASSUME TypeInv, AntichainInv, NEW h \in Node, NEW p \in Put, NEW t \in Replica,
         ReplayHint(h, p, t)
  PROVE  AntichainInv'
  <1>1. t \in Node
    BY ReplicaIsNode
  <1>2. \A n \in Node : Antichain(kv'[n])
    BY <1>1, ReplicaPutAntichain
       DEF ReplayHint, AntichainInv, SiblingsAntichain, TypeInv, TypeOK
  <1> QED BY <1>2 DEF ReplayHint, RemoveHint, putVars, getVars, repairVars, AntichainInv,
                      SiblingsAntichain, ListsAntichain, ObjectsAboveBase

LEMMA AntichainGetSteps ==
  ASSUME TypeInv, AntichainInv, NEW g \in Get,
         \/ GetStep(g)
         \/ StartRepairJob(g) \/ (\E s \in Replica : CollectResult(g, s)) \/ RepairReplicas(g)
  PROVE  AntichainInv'
  <1> USE DEF AntichainInv, putVars, repairVars
  <1>1. /\ get \in [Get -> GetRecord] /\ res \in [Get -> [Replica -> Result]]
        /\ Coord[g] \subseteq Node /\ Replica \subseteq Node
    BY ReplicaIsNode, DynamoAssumption DEF TypeInv, TypeOK
  <1>2. \A s \in Replica : Antichain(MergeObjects(get[g].canon, res[g][s].objs))
    <2>1. get[g].canon \in SUBSET Object /\ \A s \in Replica : res[g][s].objs \in SUBSET Object
      BY <1>1 DEF GetRecord, Result
    <2> QED BY <2>1, MergeAntichain DEF ListsAntichain
  <1>3. ASSUME NEW c \in Coord[g], CoordGet(g, c) PROVE AntichainInv'
    <2>1. \A h \in Get : \/ get'[h].objs = get[h].objs /\ get'[h].canon = get[h].canon
                         \/ get'[h].objs = {} /\ get'[h].canon = {}
      BY <1>1, <1>3 DEF CoordGet, GetRecord
    <2>2. \A h \in Get : \A s \in Replica : res'[h][s].objs \in {res[h][s].objs, {}}
      BY <1>1, <1>3 DEF CoordGet
    <2> QED BY <1>3, <2>1, <2>2, EmptyAntichain
            DEF CoordGet, SiblingsAntichain, ListsAntichain, ObjectsAboveBase
  <1>4. ASSUME NEW s \in Replica, ReplicaGet(g, s) PROVE AntichainInv'
    <2>1. Antichain(kv[s])
      BY <1>1 DEF SiblingsAntichain
    <2>2. \A h \in Get : \A t \in Replica : res'[h][t].objs \in {res[h][t].objs, kv[s]}
      BY <1>1, <1>4 DEF ReplicaGet
    <2> QED BY <1>4, <2>1, <2>2
            DEF ReplicaGet, SiblingsAntichain, ListsAntichain, ObjectsAboveBase
  <1>5. ASSUME NEW s \in Replica, GetCallFails(g, s) PROVE AntichainInv'
    <2>1. \A h \in Get : \A t \in Replica : res'[h][t].objs = res[h][t].objs
      BY <1>1, <1>5 DEF GetCallFails, Result
    <2> QED BY <1>5, <2>1
            DEF GetCallFails, SiblingsAntichain, ListsAntichain, ObjectsAboveBase
  <1>6. ASSUME NEW s \in Replica, CoordGetReceive(g, s) PROVE AntichainInv'
    <2> DEFINE siblings == MergeObjects(get[g].canon, res[g][s].objs)
    <2>1. \/ /\ get' = [get EXCEPT ![g].canon = siblings]
             /\ res' = [res EXCEPT ![g][s].st = "read"]
          \/ /\ \/ get' = [get EXCEPT ![g] = [@ EXCEPT !.st = "ErrNoKey", !.canon = {}]]
                \/ get' = [get EXCEPT ![g] = [@ EXCEPT !.st = "OK", !.objs = siblings,
                                                       !.canon = siblings]]
             /\ ScheduleReadRepair(g, s)
      BY <1>6, Zenon DEF CoordGetReceive
    <2>2. Antichain(siblings)
      BY <1>2
    <2> HIDE DEF siblings
    <2>3. \A h \in Get : /\ get'[h].objs \in {get[h].objs, siblings}
                         /\ get'[h].canon \in {get[h].canon, siblings, {}}
      <3>1. PICK x \in {[get[g] EXCEPT !.canon = siblings],
                       [get[g] EXCEPT !.st = "ErrNoKey", !.canon = {}],
                       [get[g] EXCEPT !.st = "OK", !.objs = siblings, !.canon = siblings]} :
              get' = [get EXCEPT ![g] = x]
        BY <1>1, <2>1
      <3>2. x.objs \in {get[g].objs, siblings} /\ x.canon \in {siblings, {}}
        BY <1>1, <3>1 DEF GetRecord
      <3> QED BY <1>1, <3>1, <3>2
    <2>4. \A h \in Get : \A t \in Replica : res'[h][t].objs \in {res[h][t].objs, {}}
      <3>1. CASE res' = [res EXCEPT ![g][s].st = "read"]
        BY <1>1, <3>1 DEF Result
      <3>2. CASE ScheduleReadRepair(g, s) /\ ReadRepairEnabled
        <4>1. \A h \in Get : res'[h] \in {[res[g] EXCEPT ![s].st = "read"], NoResults, res[h]}
                             /\ (h # g => res'[h] \in {NoResults, res[h]})
          BY <3>2 DEF ScheduleReadRepair
        <4>2. \A t \in Replica : /\ [res[g] EXCEPT ![s].st = "read"][t].objs = res[g][t].objs
                                 /\ NoResults[t].objs = {}
          BY <1>1 DEF Result, NoResults
        <4> QED BY <4>1, <4>2
      <3>3. CASE ScheduleReadRepair(g, s) /\ ~ReadRepairEnabled
        BY <1>1, <3>3 DEF ScheduleReadRepair, NoResults
      <3> QED BY <2>1, <3>1, <3>2, <3>3
    <2>5. UNCHANGED <<kv, put, repairs, frame, round>>
      BY <1>6 DEF CoordGetReceive
    <2> QED BY <2>2, <2>3, <2>4, <2>5, EmptyAntichain
            DEF SiblingsAntichain, ListsAntichain, ObjectsAboveBase
  <1>7. CASE CoordGetExhausted(g)
    <2>1. \A h \in Get : get'[h].objs = get[h].objs /\ get'[h].canon \in {get[h].canon, {}}
      BY <1>1, <1>7 DEF CoordGetExhausted, GetRecord
    <2>2. \A h \in Get : \A t \in Replica : res'[h][t].objs \in {res[h][t].objs, {}}
      BY <1>1, <1>7 DEF CoordGetExhausted, NoResults
    <2> QED BY <1>7, <2>1, <2>2, EmptyAntichain
            DEF CoordGetExhausted, SiblingsAntichain, ListsAntichain, ObjectsAboveBase
  <1>8. CASE StartRepairJob(g)
    BY <1>8 DEF StartRepairJob, SiblingsAntichain, ListsAntichain, ObjectsAboveBase
  <1>9. ASSUME NEW s \in Replica, CollectResult(g, s) PROVE AntichainInv'
    <2> DEFINE siblings == MergeObjects(get[g].canon, res[g][s].objs)
    <2>1. \A h \in Get : get'[h].objs = get[h].objs /\ get'[h].canon \in {get[h].canon, siblings}
      BY <1>1, <1>9 DEF CollectResult, GetRecord
    <2>2. \A h \in Get : \A t \in Replica : res'[h][t].objs = res[h][t].objs
      BY <1>1, <1>9 DEF CollectResult, Result
    <2> QED BY <1>2, <1>9, <2>1, <2>2
            DEF CollectResult, SiblingsAntichain, ListsAntichain, ObjectsAboveBase
  <1>10. CASE RepairReplicas(g)
    <2>1. \A m \in repairs' : m \in repairs \/ m.objs = get[g].canon
      BY <1>10 DEF RepairReplicas
    <2> QED BY <1>10, <2>1 DEF RepairReplicas, SiblingsAntichain, ListsAntichain, ObjectsAboveBase
  <1> QED BY <1>3, <1>4, <1>5, <1>6, <1>7, <1>8, <1>9, <1>10 DEF GetStep

LEMMA MergeFramesAntichain ==
  ASSUME TypeInv, AntichainInv, NEW op, NEW n \in Replica,
         NEW incoming \in SUBSET Object, Antichain(incoming)
  PROVE  \A f \in MergeFrames(op, n, incoming) : Antichain(f.merged)
  <1>1. Antichain(kv[n]) /\ kv[n] \in SUBSET Object
    BY ReplicaIsNode DEF AntichainInv, SiblingsAntichain, TypeInv, TypeOK
  <1> QED BY <1>1, MergeAntichain DEF MergeFrames

LEMMA AntichainRepairSteps ==
  ASSUME TypeInv, AntichainInv,
         \/ \E m \in repairs : RepairPut(m) \/ RepairPutFails(m)
         \/ \E r \in Round : \/ \E n, m \in Replica : RepairGetDiff(r, n, m)
                             \/ ApplyDiff(r)
         \/ \E f \in frame : InstallObjects(f)
  PROVE  AntichainInv'
  <1> USE DEF AntichainInv, putVars, getVars
  <1>1. ASSUME NEW m \in repairs, RepairPut(m) PROVE AntichainInv'
    <2>1. m.to \in Replica /\ m.objs \in SUBSET Object /\ Antichain(m.objs)
      BY DEF TypeInv, TypeOK, RepairArgs, ListsAntichain
    <2>2. \A f \in frame' : Antichain(f.merged)
      BY <1>1, <2>1, MergeFramesAntichain DEF RepairPut, ListsAntichain
    <2> QED BY <1>1, <2>2 DEF RepairPut, SiblingsAntichain, ListsAntichain, ObjectsAboveBase
  <1>2. ASSUME NEW m \in repairs, RepairPutFails(m) PROVE AntichainInv'
    BY <1>2 DEF RepairPutFails, SiblingsAntichain, ListsAntichain, ObjectsAboveBase
  <1>3. ASSUME NEW r \in Round, NEW n \in Replica, NEW m \in Replica, RepairGetDiff(r, n, m)
        PROVE  AntichainInv'
    <2>1. Antichain(kv[m])
      BY ReplicaIsNode DEF SiblingsAntichain
    <2>2. \A q \in Round : round'[q].objs \in {round[q].objs, kv[m]}
      BY <1>3 DEF RepairGetDiff, TypeInv, TypeOK
    <2> QED BY <1>3, <2>1, <2>2
            DEF RepairGetDiff, SiblingsAntichain, ListsAntichain, ObjectsAboveBase
  <1>4. ASSUME NEW r \in Round, ApplyDiff(r) PROVE AntichainInv'
    <2>1. round[r].node \in Replica /\ round[r].objs \in SUBSET Object
      BY <1>4 DEF ApplyDiff, TypeInv, TypeOK, RoundsStarted, Exchange
    <2>2. Antichain(round[r].objs) /\ Antichain(kv[round[r].node])
      BY <2>1, ReplicaIsNode DEF ListsAntichain, SiblingsAntichain
    <2>3. \A f \in frame' : Antichain(f.merged)
      BY <1>4, <2>1, <2>2, MergeFramesAntichain DEF ApplyDiff, ListsAntichain
    <2>4. \A m \in repairs' : m \in repairs \/ m.objs = kv[round[r].node]
      BY <1>4 DEF ApplyDiff, PushBack
    <2>5. \A q \in Round : round'[q].objs = round[q].objs
      BY <1>4 DEF ApplyDiff, TypeInv, TypeOK, Exchange
    <2> QED BY <1>4, <2>2, <2>3, <2>4, <2>5
            DEF ApplyDiff, SiblingsAntichain, ListsAntichain, ObjectsAboveBase
  <1>5. ASSUME NEW f \in frame, InstallObjects(f) PROVE AntichainInv'
    <2>1. Antichain(f.merged)
      BY DEF ListsAntichain
    <2>2. \A n \in Node : kv'[n] \in {kv[n], f.merged}
      BY <1>5 DEF InstallObjects, TypeInv, TypeOK
    <2>3. \A m \in repairs' : m \in repairs \/ m.objs = f.merged
      BY <1>5 DEF InstallObjects, PushBack
    <2> QED BY <1>5, <2>1, <2>2, <2>3
            DEF InstallObjects, SiblingsAntichain, ListsAntichain, ObjectsAboveBase
  <1> QED BY <1>1, <1>2, <1>3, <1>4, <1>5

LEMMA AntichainNext == TypeInv /\ AntichainInv /\ [Next]_vars => AntichainInv'
  <1> SUFFICES ASSUME TypeInv, AntichainInv, [Next]_vars PROVE AntichainInv'
    OBVIOUS
  <1> USE DEF putVars, getVars, repairVars
  <1>1. ASSUME NEW n \in Node, NEW m \in Node, NEW s \in Status, MemberChange(n, m, s)
        PROVE  AntichainInv'
    BY <1>1 DEF MemberChange, AntichainInv, SiblingsAntichain, ListsAntichain, ObjectsAboveBase
  <1>2. ASSUME NEW h \in Node, NEW x \in hints[h], ReplayHint(h, x[1], x[2])
        PROVE  AntichainInv'
    <2>1. x[1] \in Put /\ x[2] \in Replica
      BY DEF TypeInv, TypeOK
    <2> QED BY <1>2, <2>1, AntichainReplayHint
  <1>3. ASSUME NEW g \in Get, GetStep(g) PROVE AntichainInv'
    BY <1>3, AntichainGetSteps
  <1>4. CASE RepairStep
    BY <1>4, AntichainGetSteps, AntichainRepairSteps DEF RepairStep
  <1>5. CASE UNCHANGED vars
    BY <1>5 DEF vars, AntichainInv, SiblingsAntichain, ListsAntichain, ObjectsAboveBase
  <1> QED BY <1>1, <1>2, <1>3, <1>4, <1>5, AntichainPutStep DEF Next

(* At every replica and in every answer to a client the versions are       *)
(* pairwise concurrent, however puts, replays, reads, repairs and exchange *)
(* steps interleave and whatever the membership views say, although        *)
(* ReplicaPut checks another clock than the one it stores and installs may *)
(* overwrite newer states (server.go ReplicaPut, mergeObjectsCore).        *)
THEOREM SiblingsAlwaysAntichain == Spec => []SiblingsAntichain
  <1>1. AntichainInv => SiblingsAntichain
    BY DEF AntichainInv
  <1> QED BY TypeInit, TypeNext, AntichainInit, AntichainNext, <1>1, PTL DEF Spec

-----------------------------------------------------------------------------
(* What ReplicaPut does to a replica covers what it held before. *)
LEMMA ReplicaPutCovers ==
  ASSUME TypeInv, NEW p \in Put, NEW t \in Node, NEW o \in kv[t]
  PROVE  Covers(ReplicaPutStore(kv[t], put[p]), o.vc)
  <1>1. Versions(kv[t]) /\ o.vc \in VClocks /\ put[p].obj.vc \in VClocks
    BY DEF TypeInv, TypeOK, Object, Versions, PutRecord
  <1>2. Covers(AddObject(kv[t], put[p].obj), o.vc)
    BY <1>1, AddCovers
  <1>3. Covers(kv[t], o.vc)
    BY <1>1, LeqReflexive DEF Covers
  <1> QED BY <1>2, <1>3 DEF ReplicaPutStore

(* A step after which every replica covers what it held before. *)
Keeps == \A n \in Node : \A o \in kv[n] : Covers(kv'[n], o.vc)

Installs == \E f \in frame : InstallObjects(f)

LEMMA StepsKeep == TypeInv /\ [Next]_vars => Keeps \/ Installs
  <1> SUFFICES ASSUME TypeInv, [Next]_vars, ~Installs PROVE Keeps
    OBVIOUS
  <1> USE DEF Keeps
  <1>1. CASE UNCHANGED kv
    <2>1. \A n \in Node : \A o \in kv[n] : o.vc \in VClocks
      BY DEF TypeInv, TypeOK, Object
    <2> QED BY <1>1, <2>1, LeqReflexive DEF Covers
  <1>2. ASSUME NEW p \in Put, NEW t \in Replica,
               kv' = [kv EXCEPT ![t] = ReplicaPutStore(@, put[p])]
        PROVE  Keeps
    <2>1. t \in Node
      BY ReplicaIsNode
    <2>2. \A n \in Node : \A o \in kv[n] : o.vc \in VClocks
      BY DEF TypeInv, TypeOK, Object
    <2>3. \A n \in Node : kv'[n] = IF n = t THEN ReplicaPutStore(kv[t], put[p]) ELSE kv[n]
      BY <1>2, <2>1 DEF TypeInv, TypeOK
    <2> QED BY <2>1, <2>2, <2>3, ReplicaPutCovers, LeqReflexive DEF Covers
  <1>3. ASSUME NEW p \in Put, PutStep(p) PROVE Keeps
    BY <1>1, <1>2, <1>3 DEF PutStep, CoordPut, ReplicaPut, HintedPut, PutCallFails,
                            LateRequestLost, CoordPutReturn
  <1>4. ASSUME NEW h \in Node, NEW x \in hints[h], ReplayHint(h, x[1], x[2]) PROVE Keeps
    <2>1. x[1] \in Put /\ x[2] \in Replica
      BY DEF TypeInv, TypeOK
    <2> QED BY <1>2, <1>4, <2>1 DEF ReplayHint
  <1>5. ASSUME NEW g \in Get, GetStep(g) PROVE UNCHANGED kv
    BY <1>5 DEF GetStep, CoordGet, ReplicaGet, GetCallFails, CoordGetReceive, CoordGetExhausted
  <1>6. ASSUME RepairStep PROVE UNCHANGED kv
    BY <1>6 DEF RepairStep, StartRepairJob, CollectResult, RepairReplicas, RepairPut,
                RepairPutFails, RepairGetDiff, ApplyDiff, Installs
  <1> QED BY <1>1, <1>3, <1>4, <1>5, <1>6 DEF Next, vars, MemberChange

(* The only step that can make a replica forget a version is the second    *)
(* critical section of a merge (server.go installObjects, after the unlock *)
(* in mergeObjectsCore): puts, hinted puts, replays and reads never do.    *)
THEOREM OnlyInstallsRollBack == Spec => [][Keeps \/ Installs]_vars
  BY TypeInit, TypeNext, StepsKeep, PTL DEF Spec

(* Without read repair and anti-entropy there is never a merge under way. *)
NoMerges == repairs = {} /\ frame = {} /\ \A g \in Get : job[g] = "none"

(* A cluster that runs neither read repair nor anti-entropy (as the one    *)
(* the PBS demo configures) never rolls a replica back: an acknowledged    *)
(* version stays until one at or above it takes its place.                 *)
THEOREM NoRollbackWithoutMerges ==
  ASSUME Round = {}, ~ReadRepairEnabled
  PROVE  Spec => NoRollback
  <1>1. Init => NoMerges
    BY DEF Init, NoMerges
  <1>2. NoMerges /\ [Next]_vars => NoMerges'
    <2> SUFFICES ASSUME NoMerges, [Next]_vars PROVE NoMerges'
      OBVIOUS
    <2> USE DEF NoMerges, getVars, repairVars, putVars
    <2>1. ASSUME NEW p \in Put, PutStep(p) PROVE NoMerges'
      BY <2>1 DEF PutStep, CoordPut, ReplicaPut, HintedPut, PutCallFails, LateRequestLost,
                  CoordPutReturn
    <2>2. ASSUME NEW g \in Get, GetStep(g) PROVE NoMerges'
      BY <2>2 DEF GetStep, CoordGet, ReplicaGet, GetCallFails, CoordGetReceive,
                  CoordGetExhausted, ScheduleReadRepair
    <2>3. ~RepairStep
      BY DEF RepairStep, StartRepairJob, CollectResult, RepairReplicas
    <2> QED BY <2>1, <2>2, <2>3 DEF Next, vars, MemberChange, ReplayHint
  <1>3. NoMerges => ~Installs
    BY DEF NoMerges, Installs
  <1>4. TypeInv /\ NoMerges /\ [Next]_vars => [Keeps]_kv
    BY <1>3, StepsKeep
  <1> QED BY TypeInit, TypeNext, <1>1, <1>2, <1>4, PTL DEF Spec, NoRollback, Keeps

-----------------------------------------------------------------------------
(* What the quorums promise a client: an acknowledged put stays held, a    *)
(* read that starts later sees it, and a version conflict is real.         *)

LEMMA ReplicaFinite == IsFiniteSet(Replica)
  BY ReplicaIsNode, FS_Subset, DynamoAssumption

(* A plan sends no two copies to one server, and a copy that does not go   *)
(* to its own replica goes outside the preference list.                    *)
PlanSound(plan) ==
  /\ \A t \in DOMAIN plan : plan[t] = t \/ plan[t] \notin Replica
  /\ \A t, u \in DOMAIN plan : plan[t] = plan[u] => t = u

(* The handoff nodes of two dead replicas differ: the later one of the     *)
(* preference list has more dead replicas before it (server.go             *)
(* chooseHandoffNode marks the nodes it has used).                         *)
LEMMA HandoffNodesDiffer ==
  ASSUME NEW c \in Node, NEW i \in DOMAIN Pref, NEW j \in DOMAIN Pref, i < j,
         status[c][Pref[i]] = "Dead",
         NEW n \in HandoffNode(c, Pref[i]), n \in HandoffNode(c, Pref[j])
  PROVE  FALSE
  <1> DEFINE before(t) == {k \in DOMAIN Pref : /\ status[c][Pref[k]] = "Dead"
                                               /\ \E l \in DOMAIN Pref : k < l /\ Pref[l] = t}
  <1>1. Cardinality(before(Pref[i])) = Cardinality(before(Pref[j]))
    BY DEF HandoffNode
  <1>2. /\ DOMAIN Pref = 1..Len(Pref) /\ Len(Pref) \in Nat
        /\ \A k, l \in DOMAIN Pref : Pref[k] = Pref[l] => k = l
    BY DynamoAssumption
  <1>3. before(Pref[i]) \subseteq before(Pref[j])
    BY <1>2
  <1>4. i \in before(Pref[j]) /\ i \notin before(Pref[i])
    BY <1>2
  <1>5. IsFiniteSet(DOMAIN Pref)
    <2>1. Len(Pref) \in Int
      BY <1>2
    <2>2. IsFiniteSet(1..Len(Pref))
      BY <2>1, FS_Interval
    <2> QED BY <1>2, <2>2
  <1>6. before(Pref[j]) \in SUBSET DOMAIN Pref
    OBVIOUS
  <1> HIDE DEF before
  <1>7. IsFiniteSet(before(Pref[j]))
    BY <1>5, <1>6, FS_Subset
  <1> QED BY <1>1, <1>3, <1>4, <1>7, FS_Subset

LEMMA PlansSound ==
  ASSUME NEW c \in Node
  PROVE  PlanSound(Plans(c))
  <1> DEFINE direct == {t \in Replica : status[c][t] # "Dead"}
             handed == {t \in Replica \ direct : HintedHandoffEnabled /\ HandoffNode(c, t) # {}}
             handoff(t) == CHOOSE n \in HandoffNode(c, t) : TRUE
             target(t) == IF t \in direct THEN t ELSE handoff(t)
  <1>1. Plans(c) = [t \in direct \cup handed |-> target(t)]
    BY DEF Plans
  <1>2. \A t \in handed : handoff(t) \in HandoffNode(c, t)
    OBVIOUS
  <1>3. \A t \in handed : handoff(t) \notin Replica
    <2>1. \A t : HandoffNode(c, t) \cap Replica = {}
      BY DEF HandoffNode
    <2> QED BY <1>2, <2>1
  <1>4. ASSUME NEW t \in handed, NEW u \in handed, handoff(t) = handoff(u)
        PROVE  t = u
    <2>1. PICK i \in DOMAIN Pref : t = Pref[i]
      BY DEF Replica
    <2>2. PICK j \in DOMAIN Pref : u = Pref[j]
      BY DEF Replica
    <2>3. i \in Int /\ j \in Int
      BY DynamoAssumption
    <2>4. status[c][t] = "Dead" /\ status[c][u] = "Dead"
      OBVIOUS
    <2>5. handoff(t) \in HandoffNode(c, t) /\ handoff(t) \in HandoffNode(c, u)
      BY <1>2, <1>4
    <2> HIDE DEF handoff, handed
    <2>6. ~(i < j) /\ ~(j < i)
      BY <2>1, <2>2, <2>4, <2>5, HandoffNodesDiffer
    <2> QED BY <2>1, <2>2, <2>3, <2>6
  <1>5. direct \subseteq Replica /\ \A t \in direct \cup handed : t \in direct \/ t \in handed
    OBVIOUS
  <1> HIDE DEF direct, handed, handoff
  <1> QED BY <1>1, <1>3, <1>4, <1>5 DEF PlanSound

-----------------------------------------------------------------------------
(* How a step of the cluster changes the put q and its calls. *)

LEMMA PutHistory ==
  ASSUME TypeInv, [Next]_vars, NEW q \in Put
  PROVE  /\ put[q].st # "idle" =>
              /\ put'[q].st # "idle"
              /\ put'[q].base = put[q].base /\ put'[q].obj = put[q].obj
              /\ put'[q].plan = put[q].plan
         /\ put[q].st = "idle" =>
              \/ put'[q].plan = put[q].plan
              \/ \E c \in Node : put'[q].plan = Plans(c)
         /\ \A e \in {"OK", "ErrVersion"} :
              (put'[q].st = e /\ put[q].st # e) =>
                 put[q].st = "wait" /\ Results(q, e) >= WriteQuorum
  <1> USE DEF getVars, repairVars, putVars
  <1>1. CASE UNCHANGED put
    BY <1>1
  <1>2. ASSUME NEW p \in Put, NEW c \in Coord[p], NEW base, CoordPut(p, c, base)
        PROVE  /\ put[p].st = "idle"
               /\ \/ /\ put'[p].plan = put[p].plan
                     /\ put'[p].st \in {"ErrNotCoordinator", "ErrWriteQuorumNotMet"}
                  \/ put'[p].plan = Plans(c) /\ put'[p].st = "wait"
               /\ c \in Node
               /\ p # q => put'[q] = put[q]
    BY <1>2, DynamoAssumption DEF CoordPut, TypeInv, TypeOK, PutRecord
  <1>3. ASSUME NEW p \in Put, CoordPutReturn(p)
        PROVE  /\ put[p].st = "wait"
               /\ put'[p].base = put[p].base /\ put'[p].obj = put[p].obj
               /\ put'[p].plan = put[p].plan
               /\ put'[p].st # "idle"
               /\ \A e \in {"OK", "ErrVersion"} :
                    put'[p].st = e => Results(p, e) >= WriteQuorum
               /\ p # q => put'[q] = put[q]
    <2>1. PICK err \in PutErr :
            /\ put' = [put EXCEPT ![p].st = err]
            /\ err = "OK" => Results(p, "OK") >= WriteQuorum
            /\ err = "ErrVersion" => Results(p, "ErrVersion") >= WriteQuorum
      BY <1>3 DEF CoordPutReturn, PutErr
    <2> QED BY <1>3, <2>1 DEF CoordPutReturn, TypeInv, TypeOK, PutRecord, PutErr
  <1>4. ASSUME NEW p \in Put, PutStep(p)
        PROVE  UNCHANGED put \/ CoordPutReturn(p)
                 \/ \E c \in Coord[p] : \E base \in BaseContexts(p) : CoordPut(p, c, base)
    BY <1>4 DEF PutStep, ReplicaPut, HintedPut, PutCallFails, LateRequestLost
  <1>5. ASSUME NEW g \in Get, GetStep(g) PROVE UNCHANGED put
    BY <1>5 DEF GetStep, CoordGet, ReplicaGet, GetCallFails, CoordGetReceive, CoordGetExhausted
  <1>6. ASSUME RepairStep PROVE UNCHANGED put
    BY <1>6 DEF RepairStep, StartRepairJob, CollectResult, RepairReplicas, RepairPut,
                RepairPutFails, RepairGetDiff, ApplyDiff, InstallObjects
  <1>7. CASE \E p \in Put : PutStep(p)
    <2>1. PICK p \in Put : PutStep(p)
      BY <1>7
    <2>2. CASE CoordPutReturn(p)
      BY <1>3, <2>2
    <2>3. CASE \E c \in Coord[p] : \E base \in BaseContexts(p) : CoordPut(p, c, base)
      BY <1>2, <2>3
    <2> QED BY <1>1, <1>4, <2>1, <2>2, <2>3
  <1> QED BY <1>1, <1>5, <1>6, <1>7 DEF Next, vars, MemberChange, ReplayHint

(* An acknowledgement is final. *)
LEMMA OKStays ==
  ASSUME TypeInv, [Next]_vars, NEW q \in Put, put[q].st = "OK"
  PROVE  put'[q].st = "OK"
  <1> USE DEF getVars, repairVars, putVars
  <1>1. ASSUME NEW p \in Put, PutStep(p) PROVE put'[q].st = "OK"
    BY <1>1 DEF PutStep, CoordPut, ReplicaPut, HintedPut, PutCallFails, LateRequestLost,
                CoordPutReturn, TypeInv, TypeOK, PutRecord
  <1>2. ASSUME NEW g \in Get, GetStep(g) PROVE UNCHANGED put
    BY <1>2 DEF GetStep, CoordGet, ReplicaGet, GetCallFails, CoordGetReceive, CoordGetExhausted
  <1>3. ASSUME RepairStep PROVE UNCHANGED put
    BY <1>3 DEF RepairStep, StartRepairJob, CollectResult, RepairReplicas, RepairPut,
                RepairPutFails, RepairGetDiff, ApplyDiff, InstallObjects
  <1> QED BY <1>1, <1>2, <1>3 DEF Next, vars, MemberChange, ReplayHint

LEMMA CallHistory ==
  ASSUME TypeInv, [Next]_vars, NEW q \in Put, NEW t \in Replica
  PROVE  \/ call'[q][t] \in {call[q][t], "none"}
         \/ put[q].st = "idle" /\ put'[q].st = "wait" /\ call'[q][t] = "sent"
         \/ call[q][t] = "sent" /\ call'[q][t] = "false"
         \/ /\ ReplicaPut(q, t) /\ call[q][t] = "sent"
            /\ call'[q][t] = ReplicaPutErr(kv[t], put[q])
         \/ HintedPut(q, t) /\ call[q][t] = "sent" /\ call'[q][t] = "OK"
  <1> USE DEF getVars, repairVars, putVars
  <1>1. CASE UNCHANGED call
    BY <1>1
  <1>2. ASSUME NEW p \in Put, NEW c, NEW base, CoordPut(p, c, base)
        PROVE  \/ UNCHANGED call
               \/ /\ p # q => call'[q] = call[q]
                  /\ call'[p][t] \in {"none", "sent"}
                  /\ put[p].st = "idle" /\ put'[p].st = "wait"
    BY <1>2 DEF CoordPut, TypeInv, TypeOK
  <1>3. ASSUME NEW p \in Put, CoordPutReturn(p)
        PROVE  (p # q => call'[q] = call[q]) /\ call'[p][t] = "none"
    BY <1>3 DEF CoordPutReturn, TypeInv, TypeOK, NoCalls
  <1>4. ASSUME NEW p \in Put, NEW s \in Replica, NEW err, Replied(p, s, err)
        PROVE  \/ call'[q][t] = call[q][t]
               \/ /\ p = q /\ s = t /\ call[q][t] = "sent"
                  /\ call'[q][t] \in {err, "false"}
    BY <1>4 DEF Replied, TypeInv, TypeOK
  <1>5. ASSUME NEW p \in Put, NEW s \in Replica, PutCallFails(p, s)
        PROVE  call'[q][t] = call[q][t] \/ (call[q][t] = "sent" /\ call'[q][t] = "false")
    BY <1>5 DEF PutCallFails, TypeInv, TypeOK
  <1>6. ASSUME NEW p \in Put, PutStep(p)
        PROVE \/ UNCHANGED call
              \/ CoordPutReturn(p)
              \/ \E c \in Coord[p] : \E base \in BaseContexts(p) : CoordPut(p, c, base)
              \/ \E s \in Replica : ReplicaPut(p, s) \/ HintedPut(p, s) \/ PutCallFails(p, s)
    BY <1>6 DEF PutStep, LateRequestLost
  <1>7. ASSUME NEW g \in Get, GetStep(g) PROVE UNCHANGED call
    BY <1>7 DEF GetStep, CoordGet, ReplicaGet, GetCallFails, CoordGetReceive, CoordGetExhausted
  <1>8. ASSUME RepairStep PROVE UNCHANGED call
    BY <1>8 DEF RepairStep, StartRepairJob, CollectResult, RepairReplicas, RepairPut,
                RepairPutFails, RepairGetDiff, ApplyDiff, InstallObjects
  <1>9. CASE \E p \in Put : PutStep(p)
    <2>1. PICK p \in Put : PutStep(p)
      BY <1>9
    <2>2. CASE CoordPutReturn(p)
      BY <1>3, <2>2
    <2>3. CASE \E c \in Coord[p] : \E base \in BaseContexts(p) : CoordPut(p, c, base)
      BY <1>1, <1>2, <2>3
    <2>4. ASSUME NEW s \in Replica, ReplicaPut(p, s)
          PROVE  \/ call'[q][t] = call[q][t]
                 \/ call[q][t] = "sent" /\ call'[q][t] = "false"
                 \/ /\ ReplicaPut(q, t) /\ call[q][t] = "sent"
                    /\ call'[q][t] = ReplicaPutErr(kv[t], put[q])
      <3>1. Replied(p, s, ReplicaPutErr(kv[s], put[p]))
        BY <2>4 DEF ReplicaPut
      <3> QED BY <1>4, <2>4, <3>1
    <2>5. ASSUME NEW s \in Replica, HintedPut(p, s)
          PROVE  \/ call'[q][t] = call[q][t]
                 \/ call[q][t] = "sent" /\ call'[q][t] = "false"
                 \/ HintedPut(q, t) /\ call[q][t] = "sent" /\ call'[q][t] = "OK"
      <3>1. Replied(p, s, "OK")
        BY <2>5 DEF HintedPut
      <3> QED BY <1>4, <2>5, <3>1
    <2> QED BY <1>1, <1>5, <1>6, <2>1, <2>2, <2>3, <2>4, <2>5
  <1> QED BY <1>1, <1>7, <1>8, <1>9 DEF Next, vars, MemberChange, ReplayHint

-----------------------------------------------------------------------------
(* Calls are under way only for a put whose coordinator waits; a request   *)
(* may outlive it, but was sent to a replica of its plan.                  *)
CallsWhileWaiting ==
  \A p \in Put : \A t \in Replica : call[p][t] # "none" => put[p].st = "wait"

RequestsPlanned ==
  \A p \in Put : \A t \in Replica :
    <<p, t>> \in inflight => put[p].st # "idle" /\ t \in DOMAIN put[p].plan

PutShape ==
  /\ CallsWhileWaiting
  /\ RequestsPlanned
  /\ \A p \in Put : PlanSound(put[p].plan)

LEMMA InflightHistory ==
  ASSUME TypeInv, [Next]_vars, NEW q \in Put, NEW t \in Replica,
         <<q, t>> \in inflight', <<q, t>> \notin inflight
  PROVE  put'[q].st = "wait" /\ t \in DOMAIN put'[q].plan
  <1> USE DEF getVars, repairVars, putVars
  <1>1. ASSUME NEW p \in Put, NEW c, NEW base, CoordPut(p, c, base)
        PROVE  put'[q].st = "wait" /\ t \in DOMAIN put'[q].plan
    <2>1. /\ put' = [put EXCEPT ![p] = [st |-> "wait", base |-> base, plan |-> Plans(c),
                                        obj |-> [id |-> p, vc |-> Increment(base, c)]]]
          /\ inflight' = inflight \cup {<<p, u>> : u \in DOMAIN Plans(c)}
      BY <1>1 DEF CoordPut
    <2>2. p = q /\ t \in DOMAIN Plans(c)
      BY <2>1
    <2> QED BY <2>1, <2>2 DEF TypeInv, TypeOK
  <1>2. ASSUME NEW p \in Put, PutStep(p)
        PROVE  \/ inflight' \subseteq inflight
               \/ \E c \in Coord[p] : \E base \in BaseContexts(p) : CoordPut(p, c, base)
    BY <1>2 DEF PutStep, ReplicaPut, HintedPut, PutCallFails, LateRequestLost, Replied,
                CoordPutReturn
  <1>3. ASSUME NEW g \in Get, GetStep(g) PROVE UNCHANGED inflight
    BY <1>3 DEF GetStep, CoordGet, ReplicaGet, GetCallFails, CoordGetReceive, CoordGetExhausted
  <1>4. ASSUME RepairStep PROVE UNCHANGED inflight
    BY <1>4 DEF RepairStep, StartRepairJob, CollectResult, RepairReplicas, RepairPut,
                RepairPutFails, RepairGetDiff, ApplyDiff, InstallObjects
  <1> QED BY <1>1, <1>2, <1>3, <1>4 DEF Next, vars, MemberChange, ReplayHint

(* A coordinator that returns forgets its calls. *)
LEMMA WaitEnds ==
  ASSUME TypeInv, [Next]_vars, NEW q \in Put, put[q].st = "wait", put'[q].st # "wait"
  PROVE  \A t \in Replica : call'[q][t] = "none"
  <1> USE DEF getVars, repairVars, putVars
  <1>1. ASSUME NEW p \in Put, NEW c, NEW base, CoordPut(p, c, base)
        PROVE  put'[q].st = "wait"
    BY <1>1 DEF CoordPut, TypeInv, TypeOK, PutRecord
  <1>2. ASSUME NEW p \in Put, CoordPutReturn(p)
        PROVE  (p # q => put'[q] = put[q]) /\ \A t \in Replica : call'[p][t] = "none"
    BY <1>2 DEF CoordPutReturn, TypeInv, TypeOK, NoCalls
  <1>3. ASSUME NEW p \in Put, PutStep(p)
        PROVE  UNCHANGED put \/ CoordPutReturn(p)
                 \/ \E c \in Coord[p] : \E base \in BaseContexts(p) : CoordPut(p, c, base)
    BY <1>3 DEF PutStep, ReplicaPut, HintedPut, PutCallFails, LateRequestLost
  <1>4. ASSUME NEW g \in Get, GetStep(g) PROVE UNCHANGED put
    BY <1>4 DEF GetStep, CoordGet, ReplicaGet, GetCallFails, CoordGetReceive, CoordGetExhausted
  <1>5. ASSUME RepairStep PROVE UNCHANGED put
    BY <1>5 DEF RepairStep, StartRepairJob, CollectResult, RepairReplicas, RepairPut,
                RepairPutFails, RepairGetDiff, ApplyDiff, InstallObjects
  <1> QED BY <1>1, <1>2, <1>3, <1>4, <1>5 DEF Next, vars, MemberChange, ReplayHint

LEMMA ShapeInit == Init => PutShape
  BY DEF Init, PutShape, CallsWhileWaiting, RequestsPlanned, PlanSound, NoCalls

LEMMA ShapeNext == TypeInv /\ PutShape /\ [Next]_vars => PutShape'
  <1> SUFFICES ASSUME TypeInv, PutShape, [Next]_vars PROVE PutShape'
    OBVIOUS
  <1> USE DEF PutShape
  <1>1. CallsWhileWaiting'
    <2> SUFFICES ASSUME NEW p \in Put, NEW t \in Replica, call'[p][t] # "none"
                 PROVE  put'[p].st = "wait"
      BY DEF CallsWhileWaiting
    <2>1. CASE call[p][t] = "none"
      BY <2>1, CallHistory
    <2>2. CASE call[p][t] # "none"
      <3>1. put[p].st = "wait"
        BY <2>2 DEF CallsWhileWaiting
      <3> QED BY <3>1, WaitEnds
    <2> QED BY <2>1, <2>2
  <1>2. RequestsPlanned'
    <2> SUFFICES ASSUME NEW p \in Put, NEW t \in Replica, <<p, t>> \in inflight'
                 PROVE  put'[p].st # "idle" /\ t \in DOMAIN put'[p].plan
      BY DEF RequestsPlanned
    <2>1. CASE <<p, t>> \in inflight
      BY <2>1, PutHistory DEF RequestsPlanned
    <2>2. CASE <<p, t>> \notin inflight
      BY <2>2, InflightHistory
    <2> QED BY <2>1, <2>2
  <1>3. ASSUME NEW p \in Put PROVE PlanSound(put'[p].plan)
    BY PutHistory, PlansSound
  <1> QED BY <1>1, <1>2, <1>3 DEF PlanSound

-----------------------------------------------------------------------------
(* AckedPutsHeld counts servers, and is not inductive: it does not say     *)
(* what an answer the coordinator has counted stands for.  The copy of the *)
(* put p for the replica t is held while t has a version at or above it or *)
(* the server that stands in for t has the hint.                           *)
Hinted(p, t) == put[p].plan[t] # t /\ <<p, t>> \in hints[put[p].plan[t]]
Held(p, t) == Covers(kv[t], put[p].obj.vc) \/ Hinted(p, t)

CountedHeld ==
  \A p \in Put : \A t \in Replica :
    call[p][t] = "OK" => t \in DOMAIN put[p].plan /\ Held(p, t)

AckedHeld ==
  \A p \in Put : put[p].st = "OK" =>
    \E S \in SUBSET Replica : /\ Cardinality(S) >= WriteQuorum
                              /\ \A t \in S : t \in DOMAIN put[p].plan /\ Held(p, t)

AckInv == CountedHeld /\ AckedHeld

(* While no replica rolls back, what a replica covers it goes on covering. *)
LEMMA KeepsCovered ==
  ASSUME TypeInv, TypeInv', Keeps, NEW n \in Node, NEW v \in VClocks, Covers(kv[n], v)
  PROVE  Covers(kv'[n], v)
  <1>1. Versions(kv[n]) /\ Versions(kv'[n])
    BY DEF TypeInv, TypeOK, Versions, Object
  <1> QED BY <1>1, CoversAll DEF Keeps

LEMMA StutterKeeps ==
  ASSUME TypeInv, [Keeps]_kv
  PROVE  Keeps
  <1>1. \A n \in Node : \A o \in kv[n] : o.vc \in VClocks
    BY DEF TypeInv, TypeOK, Object
  <1> QED BY <1>1, LeqReflexive DEF Keeps, Covers

(* A replica that answers OK to a put has it. *)
LEMMA StoredCovers ==
  ASSUME TypeInv, NEW p \in Put, NEW t \in Node, ReplicaPutErr(kv[t], put[p]) = "OK"
  PROVE  Covers(ReplicaPutStore(kv[t], put[p]), put[p].obj.vc)
  <1>1. put[p].obj.vc \in VClocks
    BY DEF TypeInv, TypeOK, PutRecord, Object
  <1>2. put[p].obj \in ReplicaPutStore(kv[t], put[p])
    BY DEF ReplicaPutStore, AddObject
  <1> QED BY <1>1, <1>2, LeqReflexive DEF Covers

(* A hint leaves its holder only when its target has the write. *)
LEMMA HintHistory ==
  ASSUME TypeInv, [Next]_vars, NEW h \in Node, NEW p \in Put, NEW t \in Replica,
         <<p, t>> \in hints[h]
  PROVE  <<p, t>> \in hints'[h] \/ Covers(kv'[t], put[p].obj.vc)
  <1> USE DEF getVars, repairVars, putVars
  <1>0. hints \in [Node -> SUBSET (Put \X Replica)] /\ kv \in [Node -> SUBSET Object]
    BY DEF TypeInv, TypeOK
  <1>1. ASSUME NEW k \in Node, NEW x \in hints[k], ReplayHint(k, x[1], x[2])
        PROVE  <<p, t>> \in hints'[h] \/ Covers(kv'[t], put[p].obj.vc)
    <2>1. x[1] \in Put /\ x[2] \in Replica /\ x[2] \in Node
      BY <1>0, ReplicaIsNode
    <2>2. CASE UNCHANGED hints
      BY <2>2
    <2>3. CASE ReplicaPutErr(kv[x[2]], put[x[1]]) = "OK" /\ RemoveHint(k, x[1], x[2])
      <3>1. CASE <<x[1], x[2]>> = <<p, t>>
        <4>1. kv'[t] = ReplicaPutStore(kv[t], put[p])
          BY <1>0, <1>1, <2>1, <3>1 DEF ReplayHint
        <4> QED BY <2>1, <2>3, <3>1, <4>1, StoredCovers
      <3>2. CASE <<x[1], x[2]>> # <<p, t>>
        BY <1>0, <2>3, <3>2 DEF RemoveHint
      <3> QED BY <3>1, <3>2
    <2> QED BY <1>1, <2>2, <2>3 DEF ReplayHint
  <1>2. ASSUME NEW q \in Put, PutStep(q)
        PROVE  <<p, t>> \in hints'[h]
    <2>1. \/ UNCHANGED hints
          \/ \E u \in Replica : hints' = [hints EXCEPT ![put[q].plan[u]] = @ \cup {<<q, u>>}]
      BY <1>2 DEF PutStep, CoordPut, ReplicaPut, HintedPut, PutCallFails, LateRequestLost,
                  CoordPutReturn
    <2> QED BY <1>0, <2>1
  <1>3. ASSUME NEW g \in Get, GetStep(g) PROVE UNCHANGED hints
    BY <1>3 DEF GetStep, CoordGet, ReplicaGet, GetCallFails, CoordGetReceive, CoordGetExhausted
  <1>4. ASSUME RepairStep PROVE UNCHANGED hints
    BY <1>4 DEF RepairStep, StartRepairJob, CollectResult, RepairReplicas, RepairPut,
                RepairPutFails, RepairGetDiff, ApplyDiff, InstallObjects
  <1> QED BY <1>1, <1>2, <1>3, <1>4 DEF Next, vars, MemberChange

LEMMA HeldKept ==
  ASSUME TypeInv, TypeInv', [Next]_vars, Keeps, NEW p \in Put, NEW t \in Replica,
         put[p].st # "idle", t \in DOMAIN put[p].plan, Held(p, t)
  PROVE  Held(p, t)' /\ t \in DOMAIN put'[p].plan
  <1>1. put'[p].obj = put[p].obj /\ put'[p].plan = put[p].plan
    BY PutHistory
  <1>2. put[p].obj.vc \in VClocks /\ put[p].plan \in Plan /\ t \in Node
    BY ReplicaIsNode DEF TypeInv, TypeOK, PutRecord, Object
  <1>3. CASE Covers(kv[t], put[p].obj.vc)
    BY <1>1, <1>2, <1>3, KeepsCovered DEF Held
  <1>4. CASE Hinted(p, t)
    <2>1. put[p].plan[t] \in Node
      BY <1>2 DEF Plan
    <2>2. <<p, t>> \in hints'[put[p].plan[t]] \/ Covers(kv'[t], put[p].obj.vc)
      BY <1>4, <2>1, HintHistory DEF Hinted
    <2> QED BY <1>1, <1>4, <2>2 DEF Held, Hinted
  <1> QED BY <1>1, <1>3, <1>4 DEF Held

LEMMA AckInit == Init => AckInv
  BY DEF Init, AckInv, CountedHeld, AckedHeld, NoCalls

LEMMA AckNext ==
  ASSUME TypeInv, TypeInv', PutShape, AckInv, [Next]_vars, Keeps
  PROVE  AckInv'
  <1> USE DEF AckInv
  <1>1. ASSUME NEW p \in Put, NEW t \in Replica, call'[p][t] = "OK"
        PROVE  (t \in DOMAIN put[p].plan /\ Held(p, t))'
    <2>1. CASE call[p][t] = "OK"
      <3>1. put[p].st = "wait" /\ t \in DOMAIN put[p].plan /\ Held(p, t)
        BY <2>1 DEF CountedHeld, PutShape, CallsWhileWaiting
      <3> QED BY <3>1, HeldKept
    <2>2. CASE ReplicaPut(p, t) /\ ReplicaPutErr(kv[t], put[p]) = "OK"
      <3>1. t \in Node /\ t \in DOMAIN put[p].plan
        BY <2>2, ReplicaIsNode DEF ReplicaPut, PutShape, RequestsPlanned
      <3>2. kv'[t] = ReplicaPutStore(kv[t], put[p]) /\ put' = put
        BY <2>2, <3>1 DEF ReplicaPut, TypeInv, TypeOK
      <3>3. Covers(kv'[t], put[p].obj.vc)
        BY <2>2, <3>1, <3>2, StoredCovers
      <3> QED BY <3>1, <3>2, <3>3 DEF Held
    <2>3. CASE HintedPut(p, t)
      <3>1. t \in DOMAIN put[p].plan
        BY <2>3 DEF HintedPut, PutShape, RequestsPlanned
      <3>2. put[p].plan[t] \in Node
        BY <3>1 DEF TypeInv, TypeOK, PutRecord, Plan
      <3>3. <<p, t>> \in hints'[put[p].plan[t]] /\ put' = put
        BY <2>3, <3>2 DEF HintedPut, TypeInv, TypeOK
      <3> QED BY <2>3, <3>1, <3>3 DEF HintedPut, Held, Hinted
    <2> QED BY <1>1, <2>1, <2>2, <2>3, CallHistory
  <1>2. ASSUME NEW p \in Put, put'[p].st = "OK"
        PROVE  \E S \in SUBSET Replica :
                 /\ Cardinality(S) >= WriteQuorum
                 /\ \A t \in S : t \in DOMAIN put'[p].plan /\ Held(p, t)'
    <2>1. PICK S \in SUBSET Replica :
            /\ put[p].st # "idle"
            /\ Cardinality(S) >= WriteQuorum
            /\ \A t \in S : t \in DOMAIN put[p].plan /\ Held(p, t)
      <3>1. CASE put[p].st = "OK"
        BY <3>1 DEF AckedHeld
      <3>2. CASE put[p].st # "OK"
        <4>1. put[p].st = "wait" /\ Results(p, "OK") >= WriteQuorum
          BY <1>2, <3>2, PutHistory
        <4>2. \A t \in {u \in Replica : call[p][u] = "OK"} :
                t \in DOMAIN put[p].plan /\ Held(p, t)
          BY DEF CountedHeld
        <4> QED BY <4>1, <4>2 DEF Results
      <3> QED BY <3>1, <3>2
    <2>2. \A t \in S : t \in DOMAIN put'[p].plan /\ Held(p, t)'
      BY <2>1, HeldKept
    <2> QED BY <2>1, <2>2
  <1>3. CountedHeld'
    BY <1>1 DEF CountedHeld
  <1>4. AckedHeld'
    BY <1>2 DEF AckedHeld
  <1> QED BY <1>3, <1>4

(* Distinct copies are held by distinct servers, since plans are sound. *)
LEMMA HeldByHolders ==
  ASSUME TypeInv, PutShape, AckInv
  PROVE  AckedPutsHeld
  <1> SUFFICES ASSUME NEW p \in Put, put[p].st = "OK"
               PROVE  Cardinality(Holders(p)) >= WriteQuorum
    BY DEF AckedPutsHeld
  <1>1. PICK S \in SUBSET Replica : /\ Cardinality(S) >= WriteQuorum
                                    /\ \A t \in S : t \in DOMAIN put[p].plan /\ Held(p, t)
    BY DEF AckInv, AckedHeld
  <1> DEFINE has(t) == Covers(kv[t], put[p].obj.vc)
             holder(t) == IF has(t) THEN t ELSE put[p].plan[t]
             f == [t \in S |-> holder(t)]
  <1>2. ASSUME NEW t \in S PROVE holder(t) \in Holders(p)
    <2>1. t \in Node /\ put[p].plan[t] \in Node
      BY <1>1, ReplicaIsNode DEF TypeInv, TypeOK, PutRecord, Plan
    <2> QED BY <1>1, <2>1 DEF Holders, Held, Hinted
  <1>3. ASSUME NEW t \in S, NEW u \in S, holder(t) = holder(u) PROVE t = u
    <2>1. PlanSound(put[p].plan)
      BY DEF PutShape
    <2>2. ~has(t) => put[p].plan[t] \notin Replica
      BY <1>1, <2>1 DEF PlanSound, Held, Hinted
    <2>3. ~has(u) => put[p].plan[u] \notin Replica
      BY <1>1, <2>1 DEF PlanSound, Held, Hinted
    <2> HIDE DEF has
    <2> QED BY <1>1, <1>3, <2>1, <2>2, <2>3 DEF PlanSound
  <1> HIDE DEF holder
  <1>4. f \in Injection(S, Holders(p))
    BY <1>2, <1>3 DEF Injection, IsInjective
  <1>5. IsFiniteSet(Holders(p))
    <2>1. Holders(p) \in SUBSET Node
      BY DEF Holders
    <2> QED BY <2>1, FS_Subset, DynamoAssumption
  <1>6. IsFiniteSet(S) /\ Cardinality(S) <= Cardinality(Holders(p))
    BY <1>4, <1>5, FS_Injection
  <1>7. Cardinality(S) \in Nat /\ Cardinality(Holders(p)) \in Nat /\ WriteQuorum \in Nat
    BY <1>5, <1>6, FS_CardinalityType, DynamoAssumption
  <1> QED BY <1>1, <1>6, <1>7

(* An acknowledged put stays held by W different servers for as long as no *)
(* replica is rolled back, whatever the membership views, the failures,    *)
(* the late requests and the replays do: a hint is dropped only when its   *)
(* target has the write, and no two copies of a put share a stand-in       *)
(* (server.go CoordPut, chooseHandoffNode; hinted_handoff.go replayHints). *)
(* Installs alone roll back (OnlyInstallsRollBack).                        *)
THEOREM AckedPutsStayHeld == Spec /\ NoRollback => []AckedPutsHeld
  <1>1. TypeInv /\ TypeInv' /\ PutShape /\ AckInv /\ [Next]_vars /\ [Keeps]_kv => AckInv'
    BY StutterKeeps, AckNext
  <1> QED BY TypeInit, TypeNext, ShapeInit, ShapeNext, AckInit, <1>1, HeldByHolders, PTL
          DEF Spec, NoRollback, Keeps

(* So in a cluster without read repair and anti-entropy every acknowledged *)
(* put stays held, for good.                                               *)
THEOREM AckedPutsHeldWithoutMerges ==
  ASSUME Round = {}, ~ReadRepairEnabled
  PROVE  Spec => []AckedPutsHeld
  BY NoRollbackWithoutMerges, AckedPutsStayHeld, PTL

-----------------------------------------------------------------------------
(* A replica that reports a version conflict covers the base of the put.   *)
ConflictsReal ==
  \A p \in Put : \A t \in Replica :
    call[p][t] = "ErrVersion" => Covers(kv[t], put[p].base)

LEMMA ConflictInit == Init => ConflictsReal /\ ErrVersionJustified
  BY DEF Init, ConflictsReal, ErrVersionJustified, NoCalls

LEMMA ConflictNext ==
  ASSUME TypeInv, TypeInv', PutShape, ConflictsReal, ErrVersionJustified, [Next]_vars, Keeps
  PROVE  ConflictsReal' /\ ErrVersionJustified'
  <1>1. ASSUME NEW p \in Put PROVE put[p].base \in VClocks
    BY DEF TypeInv, TypeOK, PutRecord
  <1>2. ASSUME NEW p \in Put, NEW t \in Replica, call'[p][t] = "ErrVersion"
        PROVE  Covers(kv'[t], put'[p].base)
    <2>1. t \in Node
      BY ReplicaIsNode
    <2>2. Covers(kv[t], put[p].base) /\ put[p].st # "idle"
      <3>1. CASE call[p][t] = "ErrVersion"
        BY <3>1 DEF ConflictsReal, PutShape, CallsWhileWaiting
      <3>2. CASE ReplicaPut(p, t) /\ ReplicaPutErr(kv[t], put[p]) = "ErrVersion"
        <4>1. ~CanBeAddedTo(put[p].base, kv[t])
          BY <3>2 DEF ReplicaPutErr
        <4>2. Versions(kv[t])
          BY <2>1 DEF TypeInv, TypeOK, Versions, Object
        <4>3. put[p].st # "idle"
          BY <3>2 DEF ReplicaPut, PutShape, RequestsPlanned
        <4> QED BY <1>1, <4>1, <4>2, <4>3, CanBeAddedToMeaning
      <3> QED BY <1>2, <3>1, <3>2, CallHistory
    <2> QED BY <1>1, <2>1, <2>2, PutHistory, KeepsCovered
  <1>3. ASSUME NEW p \in Put, put'[p].st = "ErrVersion"
        PROVE  Cardinality({n \in Replica : Covers(kv'[n], put'[p].base)}) >= WriteQuorum
    <2> DEFINE old == {n \in Replica : Covers(kv[n], put[p].base)}
               new == {n \in Replica : Covers(kv'[n], put'[p].base)}
    <2>1. put[p].st # "idle" /\ \E S \in SUBSET old : Cardinality(S) >= WriteQuorum
      <3>1. CASE put[p].st = "ErrVersion"
        BY <3>1 DEF ErrVersionJustified
      <3>2. CASE put[p].st # "ErrVersion"
        <4>1. put[p].st = "wait" /\ Results(p, "ErrVersion") >= WriteQuorum
          BY <1>3, <3>2, PutHistory
        <4>2. {t \in Replica : call[p][t] = "ErrVersion"} \in SUBSET old
          BY DEF ConflictsReal
        <4> QED BY <4>1, <4>2 DEF Results
      <3> QED BY <3>1, <3>2
    <2>2. old \subseteq new
      BY <1>1, <2>1, ReplicaIsNode, PutHistory, KeepsCovered
    <2>3. new \in SUBSET Replica
      OBVIOUS
    <2> HIDE DEF old, new
    <2>4. PICK S \in SUBSET old : Cardinality(S) >= WriteQuorum
      BY <2>1
    <2>5. IsFiniteSet(new)
      BY <2>3, ReplicaFinite, FS_Subset
    <2>6. S \in SUBSET new
      BY <2>2
    <2>7. IsFiniteSet(S) /\ Cardinality(S) <= Cardinality(new)
      BY <2>5, <2>6, FS_Subset
    <2>8. Cardinality(S) \in Nat /\ Cardinality(new) \in Nat /\ WriteQuorum \in Nat
      BY <2>5, <2>7, FS_CardinalityType, DynamoAssumption
    <2>9. Cardinality(new) >= WriteQuorum
      BY <2>4, <2>7, <2>8
    <2> QED BY <2>9 DEF new
  <1> QED BY <1>2, <1>3 DEF ConflictsReal, ErrVersionJustified

(* A client told ErrVersion wrote from a context that W replicas have seen *)
(* and still cover, as long as no replica is rolled back (server.go        *)
(* CoordPut classifies the errors after its replicas have moved on).       *)
THEOREM ErrVersionIsJustified == Spec /\ NoRollback => []ErrVersionJustified
  <1>1. TypeInv /\ TypeInv' /\ PutShape /\ ConflictsReal /\ ErrVersionJustified
          /\ [Next]_vars /\ [Keeps]_kv => ConflictsReal' /\ ErrVersionJustified'
    BY StutterKeeps, ConflictNext
  <1> QED BY TypeInit, TypeNext, ShapeInit, ShapeNext, ConflictInit, <1>1, PTL
          DEF Spec, NoRollback, Keeps

-----------------------------------------------------------------------------
(* How a step changes the read g and the answers it has. *)
Answered(g, t) == res[g][t].st \in {"got", "read"}

SameOrFresh(g) ==
  /\ get'[g] = get[g]
  /\ \A t \in Replica :
       /\ Answered(g, t)' => \/ Answered(g, t) /\ res'[g][t].objs = res[g][t].objs
                             \/ res'[g][t].objs = kv[t]
       /\ res'[g][t].st = "read" => res'[g][t] = res[g][t]

LEMMA GetHistory ==
  ASSUME TypeInv, [Next]_vars, NEW g \in Get
  PROVE  \/ SameOrFresh(g)
         \/ \E c \in Coord[g] : CoordGet(g, c)
         \/ \E s \in Replica : CoordGetReceive(g, s)
         \/ CoordGetExhausted(g)
         \/ \E s \in Replica : CollectResult(g, s)
  <1> USE DEF getVars, repairVars, putVars
  <1>0. get \in [Get -> GetRecord] /\ res \in [Get -> [Replica -> Result]]
    BY DEF TypeInv, TypeOK
  <1>1. CASE UNCHANGED <<get, res>>
    BY <1>1 DEF SameOrFresh, Answered
  <1>2. ASSUME get'[g] = get[g], res'[g] \in {res[g], NoResults}
        PROVE  SameOrFresh(g)
    BY <1>2 DEF SameOrFresh, Answered, NoResults
  <1>3. ASSUME NEW h \in Get, NEW s \in Replica, ReplicaGet(h, s) PROVE SameOrFresh(g)
    <2>1. get' = get /\ res' = [res EXCEPT ![h][s] = [st |-> "got", objs |-> kv[s]]]
      BY <1>3 DEF ReplicaGet
    <2> QED BY <1>0, <2>1 DEF SameOrFresh, Answered
  <1>4. ASSUME NEW h \in Get, NEW s \in Replica, GetCallFails(h, s) PROVE SameOrFresh(g)
    <2>1. get' = get /\ res' = [res EXCEPT ![h][s].st = "false"]
      BY <1>4 DEF GetCallFails
    <2> QED BY <1>0, <2>1 DEF SameOrFresh, Answered, Result
  <1>5. ASSUME NEW h \in Get, h # g, NEW c, CoordGet(h, c) PROVE SameOrFresh(g)
    BY <1>0, <1>2, <1>5 DEF CoordGet
  <1>6. ASSUME NEW h \in Get, h # g, NEW s \in Replica, CoordGetReceive(h, s)
        PROVE  SameOrFresh(g)
    <2>1. get'[g] = get[g]
      BY <1>0, <1>6 DEF CoordGetReceive
    <2>2. res' = [res EXCEPT ![h][s].st = "read"] \/ ScheduleReadRepair(h, s)
      BY <1>6 DEF CoordGetReceive
    <2>3. res'[g] \in {res[g], NoResults}
      BY <1>0, <1>6, <2>2 DEF ScheduleReadRepair
    <2> QED BY <1>2, <2>1, <2>3
  <1>7. ASSUME NEW h \in Get, h # g, CoordGetExhausted(h) PROVE SameOrFresh(g)
    BY <1>0, <1>2, <1>7 DEF CoordGetExhausted
  <1>8. ASSUME NEW h \in Get, h # g, NEW s \in Replica, CollectResult(h, s)
        PROVE  SameOrFresh(g)
    BY <1>0, <1>2, <1>8 DEF CollectResult
  <1>9. ASSUME RepairStep
        PROVE  \/ UNCHANGED <<get, res>>
               \/ \E h \in Get : \E s \in Replica : CollectResult(h, s)
    BY <1>9 DEF RepairStep, StartRepairJob, RepairReplicas, RepairPut,
                RepairPutFails, RepairGetDiff, ApplyDiff, InstallObjects
  <1>10. ASSUME NEW p \in Put, PutStep(p) PROVE UNCHANGED <<get, res>>
    BY <1>10 DEF PutStep, CoordPut, ReplicaPut, HintedPut, PutCallFails, LateRequestLost,
                 CoordPutReturn
  <1>11. ASSUME NEW h \in Get, GetStep(h)
         PROVE  \/ SameOrFresh(g)
                \/ \E c \in Coord[g] : CoordGet(g, c)
                \/ \E s \in Replica : CoordGetReceive(g, s)
                \/ CoordGetExhausted(g)
    BY <1>3, <1>4, <1>5, <1>6, <1>7, <1>11 DEF GetStep
  <1> QED BY <1>1, <1>8, <1>9, <1>10, <1>11 DEF Next, vars, MemberChange, ReplayHint

-----------------------------------------------------------------------------
(* Strict quorums: without hinted handoff a plan has no stand-ins. *)
DirectPlans == \A p \in Put : \A t \in DOMAIN put[p].plan : put[p].plan[t] = t

LEMMA DirectInit == Init => DirectPlans
  BY DEF Init, DirectPlans

LEMMA DirectNext ==
  ASSUME ~HintedHandoffEnabled, TypeInv, DirectPlans, [Next]_vars
  PROVE  DirectPlans'
  <1> SUFFICES ASSUME NEW p \in Put, NEW t \in DOMAIN put'[p].plan PROVE put'[p].plan[t] = t
    BY DEF DirectPlans
  <1>1. ASSUME NEW c \in Node, NEW u \in DOMAIN Plans(c) PROVE Plans(c)[u] = u
    BY DEF Plans
  <1> QED BY <1>1, PutHistory DEF DirectPlans

(* ReadSeesAcked speaks of the end of a read.  While it runs, every put it *)
(* must see is known to W replicas, those included that have answered it,  *)
(* and what CoordGet has merged covers every answer it has taken.          *)
Seen(g, p) ==
  \E S \in SUBSET Replica :
    /\ Cardinality(S) >= WriteQuorum
    /\ \A t \in S : /\ Covers(kv[t], put[p].obj.vc)
                    /\ Answered(g, t) => Covers(res[g][t].objs, put[p].obj.vc)

AckedBefore == \A g \in Get : \A p \in get[g].acked : put[p].st = "OK"
AckedSeen == \A g \in Get : get[g].st = "wait" => \A p \in get[g].acked : Seen(g, p)
CanonCovers ==
  \A g \in Get : get[g].st = "wait" =>
    \A t \in Replica : res[g][t].st = "read" =>
      \A o \in res[g][t].objs : Covers(get[g].canon, o.vc)

ReadInv == AckedBefore /\ AckedSeen /\ CanonCovers /\ ReadSeesAcked

LEMMA ReadInit == Init => ReadInv
  BY DEF Init, ReadInv, AckedBefore, AckedSeen, CanonCovers, ReadSeesAcked

(* The W replicas that cover a put go on covering it, and a replica that   *)
(* answers the read now answers with a version at or above it.             *)
LEMMA SeenKept ==
  ASSUME TypeInv, TypeInv', [Next]_vars, Keeps, NEW g \in Get, NEW p \in Put,
         put[p].st = "OK", Seen(g, p),
         \A t \in Replica :
           Answered(g, t)' => \/ Answered(g, t) /\ res'[g][t].objs = res[g][t].objs
                              \/ res'[g][t].objs = kv[t]
  PROVE  Seen(g, p)'
  <1>1. put'[p].obj = put[p].obj /\ put[p].obj.vc \in VClocks
    BY PutHistory DEF TypeInv, TypeOK, PutRecord, Object
  <1>2. PICK S \in SUBSET Replica :
          /\ Cardinality(S) >= WriteQuorum
          /\ \A t \in S : /\ Covers(kv[t], put[p].obj.vc)
                          /\ Answered(g, t) => Covers(res[g][t].objs, put[p].obj.vc)
    BY DEF Seen
  <1>3. ASSUME NEW t \in S
        PROVE  (/\ Covers(kv[t], put[p].obj.vc)
                /\ Answered(g, t) => Covers(res[g][t].objs, put[p].obj.vc))'
    BY <1>1, <1>2, ReplicaIsNode, KeepsCovered
  <1> QED BY <1>2, <1>3 DEF Seen

(* What the read of g merges covers the old canonical siblings and the new answer. *)
LEMMA ReceiveCovers ==
  ASSUME TypeInv, AntichainInv, NEW g \in Get, NEW s \in Replica,
         NEW o \in get[g].canon \cup res[g][s].objs
  PROVE  Covers(MergeObjects(get[g].canon, res[g][s].objs), o.vc)
  <1>1. Versions(get[g].canon) /\ Versions(res[g][s].objs)
    BY DEF TypeInv, TypeOK, GetRecord, Result, Versions, Object
  <1>2. Antichain(get[g].canon)
    BY DEF AntichainInv, ListsAntichain
  <1> QED BY <1>1, <1>2, MergeCovers

(* Taking the answer of s into the canonical siblings of g. *)
LEMMA CanonGrows ==
  ASSUME TypeInv, AntichainInv, NEW g \in Get, NEW s \in Replica,
         get'[g].canon = MergeObjects(get[g].canon, res[g][s].objs),
         \A t \in Replica : res'[g][t].st = "read" =>
            res'[g][t].objs = res[g][t].objs /\ (t = s \/ res[g][t].st = "read"),
         \A t \in Replica : res[g][t].st = "read" =>
            \A o \in res[g][t].objs : Covers(get[g].canon, o.vc)
  PROVE  \A t \in Replica : res'[g][t].st = "read" =>
            \A o \in res'[g][t].objs : Covers(get'[g].canon, o.vc)
  <1> DEFINE M == MergeObjects(get[g].canon, res[g][s].objs)
  <1>1. /\ Versions(get[g].canon)
        /\ \A t \in Replica : Versions(res[g][t].objs)
    BY DEF TypeInv, TypeOK, GetRecord, Result, Versions, Object
  <1>2. Versions(M)
    BY <1>1 DEF Versions, MergeObjects
  <1>3. \A o \in get[g].canon \cup res[g][s].objs : Covers(M, o.vc)
    BY ReceiveCovers
  <1> HIDE DEF M
  <1>4. ASSUME NEW t \in Replica, res[g][t].st = "read", NEW o \in res[g][t].objs
        PROVE  Covers(M, o.vc)
    BY <1>1, <1>2, <1>3, <1>4, CoversAll DEF Versions
  <1> QED BY <1>3, <1>4 DEF M

(* The heart of the matter: the R replicas whose answers agree that the    *)
(* key is there, or not, meet the W replicas that cover the put.           *)
LEMMA QuorumsMeet ==
  ASSUME ReadQuorum + WriteQuorum > Cardinality(Replica),
         TypeInv, AntichainInv, ReadInv, NEW g \in Get, NEW p \in Put, p \in get[g].acked,
         get[g].st = "wait", NEW s \in Replica, res[g][s].st = "got",
         NEW alike \in SUBSET Replica, Cardinality(alike) >= ReadQuorum,
         \A t \in alike : t = s \/ (res[g][t].st = "read" /\ (res[g][t].objs = {} <=> res[g][s].objs = {}))
  PROVE  /\ res[g][s].objs # {}
         /\ Covers(MergeObjects(get[g].canon, res[g][s].objs), put[p].obj.vc)
  <1> DEFINE v == put[p].obj.vc
             M == MergeObjects(get[g].canon, res[g][s].objs)
  <1>1. /\ Versions(get[g].canon)
        /\ \A t \in Replica : Versions(res[g][t].objs)
        /\ v \in VClocks
    BY DEF TypeInv, TypeOK, GetRecord, Result, Versions, Object, PutRecord
  <1>2. Versions(M)
    BY <1>1 DEF Versions, MergeObjects
  <1>3. PICK S \in SUBSET Replica :
          /\ Cardinality(S) >= WriteQuorum
          /\ \A t \in S : Answered(g, t) => Covers(res[g][t].objs, v)
    BY DEF ReadInv, AckedSeen, Seen
  <1>4. Cardinality(S) + Cardinality(alike) > Cardinality(Replica)
    <2>1. IsFiniteSet(S) /\ IsFiniteSet(alike)
      BY ReplicaFinite, FS_Subset
    <2>2. /\ Cardinality(S) \in Nat /\ Cardinality(alike) \in Nat
          /\ Cardinality(Replica) \in Nat /\ ReadQuorum \in Nat /\ WriteQuorum \in Nat
      BY <2>1, ReplicaFinite, FS_CardinalityType, DynamoAssumption
    <2> QED BY <1>3, <2>2
  <1>5. PICK t \in S \cap alike : TRUE
    BY <1>4, ReplicaFinite, FS_MajoritiesIntersect
  <1>6. Covers(res[g][t].objs, v)
    BY <1>3, <1>5 DEF Answered
  <1>7. res[g][s].objs # {}
    BY <1>5, <1>6 DEF Covers
  <1>8. \A o \in get[g].canon \cup res[g][s].objs : Covers(M, o.vc)
    BY ReceiveCovers
  <1>9. \A o \in res[g][t].objs : Covers(M, o.vc)
    <2>1. CASE t = s
      BY <1>8, <2>1
    <2>2. CASE t # s
      <3>1. \A o \in res[g][t].objs : Covers(get[g].canon, o.vc)
        BY <1>5, <2>2 DEF ReadInv, CanonCovers
      <3> HIDE DEF M
      <3> QED BY <1>1, <1>2, <1>5, <1>8, <3>1, CoversAll DEF Versions
    <2> QED BY <2>1, <2>2
  <1> HIDE DEF M, v
  <1>10. Covers(M, v)
    BY <1>1, <1>2, <1>5, <1>6, <1>9, CoversAll
  <1> QED BY <1>7, <1>10 DEF M, v

LEMMA ReadNext ==
  ASSUME ReadQuorum + WriteQuorum > Cardinality(Replica),
         TypeInv, TypeInv', AntichainInv, AckedHeld, DirectPlans, ReadInv,
         [Next]_vars, Keeps
  PROVE  ReadInv'
  <1> USE DEF ReadInv
  <1>0. /\ get \in [Get -> GetRecord] /\ res \in [Get -> [Replica -> Result]]
        /\ \A h \in Get : get[h].acked \subseteq Put
        /\ \A q \in Put : put[q].obj.vc \in VClocks
    BY DEF TypeInv, TypeOK, GetRecord, PutRecord, Object
  <1>1. \A q \in Put : put[q].st = "OK" => put'[q].st = "OK" /\ put'[q].obj = put[q].obj
    BY PutHistory, OKStays
  <1> SUFFICES ASSUME NEW g \in Get
        PROVE  /\ \A p \in get'[g].acked : put'[p].st = "OK"
               /\ get'[g].st = "wait" => \A p \in get'[g].acked : Seen(g, p)'
               /\ get'[g].st = "wait" =>
                    \A t \in Replica : res'[g][t].st = "read" =>
                      \A o \in res'[g][t].objs : Covers(get'[g].canon, o.vc)
               /\ \A p \in get'[g].acked :
                    /\ get'[g].st = "OK" => Covers(get'[g].objs, put'[p].obj.vc)
                    /\ get'[g].st # "ErrNoKey"
    BY DEF AckedBefore, AckedSeen, CanonCovers, ReadSeesAcked
  <1>2. \A p \in get[g].acked : p \in Put /\ put[p].st = "OK"
    BY <1>0 DEF AckedBefore
  <1>3. CASE SameOrFresh(g)
    <2>1. get[g].st = "wait" => \A p \in get[g].acked : Seen(g, p)'
      BY <1>2, <1>3, SeenKept DEF SameOrFresh, AckedSeen
    <2> QED BY <1>1, <1>2, <1>3, <2>1
            DEF SameOrFresh, CanonCovers, ReadSeesAcked
  <1>4. ASSUME NEW c \in Coord[g], CoordGet(g, c)
        PROVE  /\ \A p \in get'[g].acked : put'[p].st = "OK"
               /\ get'[g].st = "wait" => \A p \in get'[g].acked : Seen(g, p)'
               /\ \A t \in Replica : res'[g][t].st # "read" \/ get'[g].st # "wait"
               /\ get'[g].st \notin {"OK", "ErrNoKey"}
    <2>1. \/ /\ get'[g].st \in {"ErrNotCoordinator", "ErrReadQuorumNotMet"}
             /\ get'[g].acked = get[g].acked
          \/ /\ get'[g].st = "wait" /\ get'[g].acked = {p \in Put : put[p].st = "OK"}
             /\ \A t \in Replica : res'[g][t].st \in {"sent", "none"}
      BY <1>0, <1>4 DEF CoordGet, GetRecord
    <2>2. kv' = kv /\ put' = put
      BY <1>4 DEF CoordGet, putVars
    <2>3. ASSUME NEW p \in Put, put[p].st = "OK",
                 \A t \in Replica : res'[g][t].st \in {"sent", "none"}
          PROVE  Seen(g, p)'
      <3>1. PICK S \in SUBSET Replica :
              /\ Cardinality(S) >= WriteQuorum
              /\ \A t \in S : t \in DOMAIN put[p].plan /\ Held(p, t)
        BY <2>3 DEF AckedHeld
      <3>2. \A t \in S : Covers(kv[t], put[p].obj.vc)
        BY <3>1 DEF Held, Hinted, DirectPlans
      <3>3. \A t \in S : ~(res'[g][t].st \in {"got", "read"})
        BY <2>3
      <3> QED BY <2>2, <3>1, <3>2, <3>3 DEF Seen, Answered
    <2> QED BY <1>2, <2>1, <2>2, <2>3
  <1>5. ASSUME NEW s \in Replica, CoordGetReceive(g, s)
        PROVE  /\ \A p \in get'[g].acked : put'[p].st = "OK"
               /\ get'[g].st = "wait" => \A p \in get'[g].acked : Seen(g, p)'
               /\ get'[g].st = "wait" =>
                    \A t \in Replica : res'[g][t].st = "read" =>
                      \A o \in res'[g][t].objs : Covers(get'[g].canon, o.vc)
               /\ \A p \in get'[g].acked :
                    /\ get'[g].st = "OK" => Covers(get'[g].objs, put'[p].obj.vc)
                    /\ get'[g].st # "ErrNoKey"
    <2> DEFINE noKey == res[g][s].objs = {}
               alike == {t \in Replica :
                          t = s \/ (res[g][t].st = "read" /\ (res[g][t].objs = {} <=> noKey))}
               siblings == MergeObjects(get[g].canon, res[g][s].objs)
    <2>1. get[g].st = "wait" /\ res[g][s].st = "got" /\ kv' = kv /\ put' = put
      BY <1>5 DEF CoordGetReceive, putVars
    <2>2. \/ /\ get' = [get EXCEPT ![g].canon = siblings]
             /\ res' = [res EXCEPT ![g][s].st = "read"]
          \/ /\ ~(Cardinality(alike) < ReadQuorum)
             /\ get' = [get EXCEPT ![g] =
                          IF noKey THEN [@ EXCEPT !.st = "ErrNoKey", !.canon = {}]
                          ELSE [@ EXCEPT !.st = "OK", !.objs = siblings, !.canon = siblings]]
      BY <1>5, Zenon DEF CoordGetReceive
    <2>3. CASE /\ get' = [get EXCEPT ![g].canon = siblings]
               /\ res' = [res EXCEPT ![g][s].st = "read"]
      <3> HIDE DEF siblings
      <3>1. /\ get'[g].canon = siblings
            /\ get'[g].acked = get[g].acked /\ get'[g].st = "wait"
        BY <1>0, <2>1, <2>3 DEF GetRecord
      <3>2. \A t \in Replica : /\ res'[g][t].objs = res[g][t].objs
                               /\ t # s => res'[g][t].st = res[g][t].st
        BY <1>0, <2>3 DEF Result
      <3>3. \A t \in Replica : res[g][t].st = "read" =>
              \A o \in res[g][t].objs : Covers(get[g].canon, o.vc)
        BY <2>1 DEF CanonCovers
      <3>4. \A t \in Replica : res'[g][t].st = "read" =>
              \A o \in res'[g][t].objs : Covers(get'[g].canon, o.vc)
        BY <3>1, <3>2, <3>3, CanonGrows DEF siblings
      <3>5. \A t \in Replica : Answered(g, t)' => Answered(g, t)
        BY <2>1, <3>2 DEF Answered
      <3>6. \A p \in get[g].acked : Seen(g, p)'
        BY <1>2, <2>1, <3>2, <3>5, SeenKept DEF AckedSeen
      <3> QED BY <1>2, <2>1, <3>1, <3>4, <3>6
    <2>4. CASE /\ ~(Cardinality(alike) < ReadQuorum)
               /\ get' = [get EXCEPT ![g] =
                          IF noKey THEN [@ EXCEPT !.st = "ErrNoKey", !.canon = {}]
                          ELSE [@ EXCEPT !.st = "OK", !.objs = siblings, !.canon = siblings]]
      <3>1. alike \in SUBSET Replica
        OBVIOUS
      <3>2. Cardinality(alike) >= ReadQuorum
        <4> HIDE DEF alike
        <4>1. IsFiniteSet(alike)
          BY <3>1, ReplicaFinite, FS_Subset
        <4>2. Cardinality(alike) \in Nat /\ ReadQuorum \in Nat
          BY <4>1, FS_CardinalityType, DynamoAssumption
        <4> QED BY <2>4, <4>2
      <3>3. \A t \in alike : t = s \/ (/\ res[g][t].st = "read"
                                       /\ res[g][t].objs = {} <=> res[g][s].objs = {})
        OBVIOUS
      <3> HIDE DEF alike
      <3>4. \A p \in get[g].acked : ~noKey /\ Covers(siblings, put[p].obj.vc)
        BY <1>2, <2>1, <3>1, <3>2, <3>3, QuorumsMeet
      <3> HIDE DEF siblings, noKey
      <3>5. /\ get'[g].acked = get[g].acked
            /\ noKey => get'[g].st = "ErrNoKey"
            /\ ~noKey => get'[g].st = "OK" /\ get'[g].objs = siblings
        BY <1>0, <2>4 DEF GetRecord
      <3> QED BY <1>2, <2>1, <3>4, <3>5
    <2> QED BY <2>2, <2>3, <2>4
  <1>6. CASE CoordGetExhausted(g)
    <2>1. /\ get'[g].st = "ErrReadQuorumNotMet" /\ get'[g].acked = get[g].acked
          /\ put' = put
      BY <1>0, <1>6 DEF CoordGetExhausted, GetRecord, putVars
    <2> QED BY <1>2, <2>1
  <1>7. ASSUME NEW s \in Replica, CollectResult(g, s)
        PROVE  /\ \A p \in get'[g].acked : put'[p].st = "OK"
               /\ get'[g].st = "wait" => \A p \in get'[g].acked : Seen(g, p)'
               /\ get'[g].st = "wait" =>
                    \A t \in Replica : res'[g][t].st = "read" =>
                      \A o \in res'[g][t].objs : Covers(get'[g].canon, o.vc)
               /\ \A p \in get'[g].acked :
                    /\ get'[g].st = "OK" => Covers(get'[g].objs, put'[p].obj.vc)
                    /\ get'[g].st # "ErrNoKey"
    <2> DEFINE siblings == MergeObjects(get[g].canon, res[g][s].objs)
    <2>1. /\ get' = [get EXCEPT ![g].canon = siblings] /\ res[g][s].st = "got"
          /\ res' = [res EXCEPT ![g][s].st = "read"] /\ kv' = kv /\ put' = put
      BY <1>7 DEF CollectResult, putVars
    <2> HIDE DEF siblings
    <2>2. /\ get'[g].canon = siblings /\ get'[g].objs = get[g].objs
          /\ get'[g].acked = get[g].acked /\ get'[g].st = get[g].st
      BY <1>0, <2>1 DEF GetRecord
    <2>3. \A t \in Replica : /\ res'[g][t].objs = res[g][t].objs
                             /\ t # s => res'[g][t].st = res[g][t].st
      BY <1>0, <2>1 DEF Result
    <2>4. ASSUME get[g].st = "wait"
          PROVE  \A t \in Replica : res'[g][t].st = "read" =>
                   \A o \in res'[g][t].objs : Covers(get'[g].canon, o.vc)
      <3>1. \A t \in Replica : res[g][t].st = "read" =>
              \A o \in res[g][t].objs : Covers(get[g].canon, o.vc)
        BY <2>4 DEF CanonCovers
      <3> QED BY <2>2, <2>3, <3>1, CanonGrows DEF siblings
    <2>5. \A t \in Replica : Answered(g, t)' => Answered(g, t)
      BY <2>1, <2>3 DEF Answered
    <2>6. get[g].st = "wait" => \A p \in get[g].acked : Seen(g, p)'
      BY <1>2, <2>1, <2>3, <2>5, SeenKept DEF AckedSeen
    <2> QED BY <1>2, <2>1, <2>2, <2>4, <2>6 DEF ReadSeesAcked
  <1> QED BY <1>3, <1>4, <1>5, <1>6, <1>7, GetHistory

(* With strict quorums that intersect, R + W > N, a read that starts after *)
(* a put was acknowledged returns a version at or above it, and never      *)
(* ErrNoKey, whichever R answers come first and however other puts         *)
(* overlap (server.go CoordGet), as long as no replica is rolled back.     *)
THEOREM ReadsSeeAcked ==
  ASSUME ~HintedHandoffEnabled, ReadQuorum + WriteQuorum > Cardinality(Replica)
  PROVE  Spec /\ NoRollback => []ReadSeesAcked
  <1>1. TypeInv /\ TypeInv' /\ PutShape /\ AckInv /\ [Next]_vars /\ [Keeps]_kv => AckInv'
    BY StutterKeeps, AckNext
  <1>2. TypeInv /\ DirectPlans /\ [Next]_vars => DirectPlans'
    BY DirectNext
  <1>3. TypeInv /\ TypeInv' /\ AntichainInv /\ AckInv /\ DirectPlans /\ ReadInv
          /\ [Next]_vars /\ [Keeps]_kv => ReadInv'
    BY StutterKeeps, ReadNext DEF AckInv
  <1>4. ReadInv => ReadSeesAcked
    BY DEF ReadInv
  <1> QED BY TypeInit, TypeNext, AntichainInit, AntichainNext, ShapeInit, ShapeNext, AckInit,
             DirectInit, ReadInit, <1>1, <1>2, <1>3, <1>4, PTL
          DEF Spec, NoRollback, Keeps

(* So the cluster the quorum run checks, one without merges, gives every   *)
(* client its quorum guarantee, for any number of servers and clients.     *)
THEOREM ReadsSeeAckedWithoutMerges ==
  ASSUME ~HintedHandoffEnabled, ReadQuorum + WriteQuorum > Cardinality(Replica),
         Round = {}, ~ReadRepairEnabled
  PROVE  Spec => [](ReadSeesAcked /\ ErrVersionJustified)
  BY NoRollbackWithoutMerges, ReadsSeeAcked, ErrVersionIsJustified, PTL

-----------------------------------------------------------------------------
(* What read repair and anti-entropy achieve when no other merge overlaps  *)
(* theirs.                                                                 *)

(* A repair job belongs to a read that has returned and, once it has sent  *)
(* its RepairPuts, waits for no answer; merges under way belong to jobs    *)
(* and exchanges that are done.                                            *)
JobsAfterReads == \A g \in Get : job[g] # "none" => get[g].st \notin {"idle", "wait"}
DoneJobsWaitForNone == \A g \in Get : job[g] = "done" => Pending(g) = {}
MergesOfJobs ==
  /\ \A m \in repairs : m.op \in Get => job[m.op] = "done"
  /\ \A f \in frame : f.op \in Get => job[f.op] = "done"

MergeShape == JobsAfterReads /\ DoneJobsWaitForNone /\ MergesOfJobs

AllCovered(T, S) == \A o \in T : Covers(S, o.vc)

(* Until a job g that nothing overlaps is done, every replica still covers *)
(* what it answered; from then on every replica the job saw either covers  *)
(* the canonical siblings or is about to, by a RepairPut on its way or by  *)
(* a merge not yet installed.                                              *)
JobCovers(g) ==
  OnlyMerger(g) =>
    /\ job[g] # "done" =>
         \A s \in Replica : Answered(g, s) => AllCovered(res[g][s].objs, kv[s])
    /\ \A m \in repairs : m.op = g => m.objs = get[g].canon
    /\ \A f \in frame : f.op = g => AllCovered(get[g].canon, f.merged)
    /\ job[g] = "done" =>
         \A s \in Replica \ Flaky : res[g][s].st = "read" =>
           \/ \E m \in repairs : m.op = g /\ m.to = s
           \/ \E f \in frame : f.op = g /\ f.at = s
           \/ AllCovered(get[g].canon, kv[s])

(* The peer of an exchange r that nothing overlaps never forgets what it   *)
(* sent, and whatever r pushes or installs covers it.                      *)
RoundCovers(r) ==
  OnlyMerger(r) =>
    /\ round[r].st # "idle" => AllCovered(round[r].objs, kv[round[r].peer])
    /\ \A m \in repairs : m.op = r => AllCovered(round[r].objs, m.objs)
    /\ \A f \in frame : f.op = r => AllCovered(round[r].objs, f.merged)
    /\ round[r].st = "done" =>
         \/ \E f \in frame : f.op = r /\ f.at = round[r].node
         \/ AllCovered(round[r].objs, kv[round[r].node])

MergeInv ==
  /\ \A g \in Get : JobCovers(g)
  /\ \A r \in Round : RoundCovers(r)

-----------------------------------------------------------------------------
(* How a step changes the repair job of the read g. *)
LEMMA JobHistory ==
  ASSUME TypeInv, [Next]_vars, NEW g \in Get
  PROVE  /\ (job[g] = "none" /\ job'[g] # "none") =>
              \E s \in Replica : CoordGetReceive(g, s) /\ get'[g].st \in {"OK", "ErrNoKey"}
         /\ job[g] = "done" => job'[g] = "done" \/ get[g].st = "wait"
         /\ (job[g] # "done" /\ job'[g] = "done") => RepairReplicas(g)
  <1> USE DEF getVars, repairVars, putVars
  <1>0. /\ get \in [Get -> GetRecord]
        /\ job \in [Get -> {"none", "coalesced", "dropped", "running", "done"}]
    BY DEF TypeInv, TypeOK
  <1>1. ASSUME NEW h \in Get, NEW s \in Replica, CoordGetReceive(h, s)
        PROVE  \/ job' = job
               \/ /\ h = g /\ job'[g] = "coalesced" /\ get[g].st = "wait"
                  /\ get'[g].st \in {"OK", "ErrNoKey"}
               \/ h # g /\ job'[g] = job[g]
               \/ job[g] = "coalesced" /\ job'[g] = "dropped"
    <2> DEFINE sib == MergeObjects(get[h].canon, res[h][s].objs)
    <2>1. get[h].st = "wait"
      BY <1>1 DEF CoordGetReceive
    <2>2. \/ UNCHANGED job
          \/ /\ \/ get' = [get EXCEPT ![h] = [@ EXCEPT !.st = "ErrNoKey", !.canon = {}]]
                \/ get' = [get EXCEPT ![h] = [@ EXCEPT !.st = "OK", !.objs = sib, !.canon = sib]]
             /\ ScheduleReadRepair(h, s)
      BY <1>1, Zenon DEF CoordGetReceive
    <2> HIDE DEF sib
    <2>3. CASE UNCHANGED job
      BY <2>3
    <2>4. CASE /\ \/ get' = [get EXCEPT ![h] = [@ EXCEPT !.st = "ErrNoKey", !.canon = {}]]
                  \/ get' = [get EXCEPT ![h] = [@ EXCEPT !.st = "OK", !.objs = sib, !.canon = sib]]
               /\ ScheduleReadRepair(h, s)
      <3>1. get'[h].st \in {"OK", "ErrNoKey"}
        <4>1. PICK x \in {[get[h] EXCEPT !.st = "ErrNoKey", !.canon = {}],
                          [get[h] EXCEPT !.st = "OK", !.objs = sib, !.canon = sib]} :
                get' = [get EXCEPT ![h] = x]
          BY <2>4
        <4>2. x.st \in {"OK", "ErrNoKey"}
          BY <1>0, <4>1 DEF GetRecord
        <4> QED BY <1>0, <4>1, <4>2
      <3>2. \/ job' = job
            \/ /\ job'[h] = "coalesced"
               /\ g # h => \/ job'[g] = job[g]
                           \/ job[g] = "coalesced" /\ job'[g] = "dropped"
        BY <2>4 DEF ScheduleReadRepair
      <3> QED BY <2>1, <3>1, <3>2
    <2> QED BY <2>2, <2>3, <2>4
  <1>2. ASSUME NEW h \in Get, GetStep(h)
        PROVE  job' = job \/ \E s \in Replica : CoordGetReceive(h, s)
    BY <1>2 DEF GetStep, CoordGet, ReplicaGet, GetCallFails, CoordGetExhausted
  <1>3. ASSUME RepairStep
        PROVE  \/ job'[g] = job[g]
               \/ job[g] = "coalesced" /\ job'[g] = "running"
               \/ RepairReplicas(g) /\ job[g] = "running"
    BY <1>0, <1>3 DEF RepairStep, StartRepairJob, CollectResult, RepairReplicas, RepairPut,
                      RepairPutFails, RepairGetDiff, ApplyDiff, InstallObjects
  <1>4. ASSUME NEW p \in Put, PutStep(p) PROVE job' = job
    BY <1>4 DEF PutStep, CoordPut, ReplicaPut, HintedPut, PutCallFails, LateRequestLost,
                CoordPutReturn
  <1>5. CASE job'[g] = job[g]
    BY <1>5
  <1>6. CASE \E h \in Get : GetStep(h)
    BY <1>1, <1>2, <1>5, <1>6
  <1>7. CASE RepairStep
    BY <1>3, <1>5, <1>7
  <1> QED BY <1>4, <1>5, <1>6, <1>7 DEF Next, vars, MemberChange, ReplayHint

(* Only CoordGet sends requests to replicas. *)
LEMMA PendingHistory ==
  ASSUME TypeInv, [Next]_vars, NEW g \in Get, get[g].st # "idle"
  PROVE  Pending(g)' \subseteq Pending(g)
  <1> USE DEF getVars, repairVars, putVars
  <1>0. res \in [Get -> [Replica -> Result]]
    BY DEF TypeInv, TypeOK
  <1>1. CASE res'[g] \in {res[g], NoResults}
    BY <1>1 DEF Pending, NoResults
  <1>2. ASSUME NEW h \in Get, NEW s \in Replica, res[h][s].st \in {"sent", "got"},
               \A k \in Get : \A t \in Replica :
                 res'[k][t] = res[k][t] \/ (k = h /\ t = s)
        PROVE  Pending(g)' \subseteq Pending(g)
    BY <1>2 DEF Pending
  <1>3. ASSUME NEW h \in Get, NEW s \in Replica, ReplicaGet(h, s)
        PROVE  Pending(g)' \subseteq Pending(g)
    <2>1. \A k \in Get : \A t \in Replica : res'[k][t] = res[k][t] \/ (k = h /\ t = s)
      BY <1>0, <1>3 DEF ReplicaGet
    <2> QED BY <1>2, <1>3, <2>1 DEF ReplicaGet
  <1>4. ASSUME NEW h \in Get, NEW s \in Replica, res[h][s].st \in {"sent", "got"}, NEW y,
               res' = [res EXCEPT ![h][s].st = y]
        PROVE  Pending(g)' \subseteq Pending(g)
    <2>1. \A k \in Get : \A t \in Replica : res'[k][t] = res[k][t] \/ (k = h /\ t = s)
      BY <1>0, <1>4
    <2> QED BY <1>2, <1>4, <2>1
  <1>5. ASSUME NEW h \in Get, NEW c, CoordGet(h, c) PROVE res'[g] = res[g]
    BY <1>0, <1>5 DEF CoordGet
  <1>6. ASSUME NEW h \in Get, NEW s \in Replica, CoordGetReceive(h, s)
        PROVE  Pending(g)' \subseteq Pending(g)
    <2>1. res[h][s].st = "got"
      BY <1>6 DEF CoordGetReceive
    <2>2. res' = [res EXCEPT ![h][s].st = "read"] \/ ScheduleReadRepair(h, s)
      BY <1>6 DEF CoordGetReceive
    <2>3. CASE ScheduleReadRepair(h, s)
      <3>1. res'[g] \in {res[g], NoResults} \/ (g = h /\ res'[g] = [res[g] EXCEPT ![s].st = "read"])
        BY <1>0, <2>3 DEF ScheduleReadRepair
      <3>2. CASE g = h /\ res'[g] = [res[g] EXCEPT ![s].st = "read"]
        <4>1. res[g] \in [Replica -> Result]
          BY <1>0
        <4>2. \A t \in Replica : t # s => res'[g][t] = res[g][t]
          BY <3>2, <4>1
        <4> QED BY <2>1, <3>2, <4>2 DEF Pending
      <3> QED BY <1>1, <3>1, <3>2
    <2> QED BY <1>4, <2>1, <2>2, <2>3
  <1>7. ASSUME NEW h \in Get, CoordGetExhausted(h) PROVE res'[g] \in {res[g], NoResults}
    BY <1>0, <1>7 DEF CoordGetExhausted
  <1>8. ASSUME NEW h \in Get, GetStep(h) PROVE Pending(g)' \subseteq Pending(g)
    BY <1>1, <1>3, <1>4, <1>5, <1>6, <1>7, <1>8 DEF GetStep, GetCallFails
  <1>9. ASSUME RepairStep PROVE Pending(g)' \subseteq Pending(g)
    <2>1. \/ res' = res
          \/ \E h \in Get : \E s \in Replica : CollectResult(h, s)
      BY <1>9 DEF RepairStep, StartRepairJob, RepairReplicas, RepairPut,
                  RepairPutFails, RepairGetDiff, ApplyDiff, InstallObjects
    <2>2. ASSUME NEW h \in Get, NEW s \in Replica, CollectResult(h, s)
          PROVE  Pending(g)' \subseteq Pending(g)
      <3>1. res[h][s].st = "got" /\ res' = [res EXCEPT ![h][s].st = "read"]
        BY <2>2 DEF CollectResult
      <3> QED BY <1>4, <3>1
    <2> QED BY <1>1, <2>1, <2>2
  <1>10. ASSUME NEW p \in Put, PutStep(p) PROVE res' = res
    BY <1>10 DEF PutStep, CoordPut, ReplicaPut, HintedPut, PutCallFails, LateRequestLost,
                 CoordPutReturn
  <1> QED BY <1>1, <1>8, <1>9, <1>10 DEF Next, vars, MemberChange, ReplayHint

(* A read that has returned keeps its outcome. *)
LEMMA ReturnedStays ==
  ASSUME TypeInv, [Next]_vars, NEW g \in Get, get[g].st \notin {"idle", "wait"}
  PROVE  /\ get'[g].st = get[g].st
         /\ SameOrFresh(g) \/ \E s \in Replica : CollectResult(g, s)
  <1>1. \A s \in Replica : CollectResult(g, s) => get'[g].st = get[g].st
    BY DEF CollectResult, TypeInv, TypeOK, GetRecord
  <1> QED BY <1>1, GetHistory DEF SameOrFresh, CoordGet, CoordGetReceive, CoordGetExhausted

(* A step that is not part of a merge. *)
Quiet ==
  /\ UNCHANGED <<repairs, frame, round>>
  /\ \A h \in Get : job'[h] = "done" => job[h] = "done"

Merging ==
  \/ \E h \in Get : RepairReplicas(h)
  \/ \E m \in repairs : RepairPut(m) \/ RepairPutFails(m)
  \/ \E r \in Round : \/ \E n, m \in Replica : RepairGetDiff(r, n, m)
                      \/ ApplyDiff(r)
  \/ Installs

LEMMA QuietOrMerging ==
  ASSUME TypeInv, [Next]_vars
  PROVE  Quiet \/ Merging
  <1> SUFFICES ASSUME ~Merging PROVE Quiet
    OBVIOUS
  <1> USE DEF getVars, repairVars, putVars
  <1>1. \A h \in Get : job'[h] = "done" => job[h] = "done"
    BY JobHistory DEF Merging
  <1>2. ASSUME NEW p \in Put, PutStep(p) PROVE UNCHANGED <<repairs, frame, round>>
    BY <1>2 DEF PutStep, CoordPut, ReplicaPut, HintedPut, PutCallFails, LateRequestLost,
                CoordPutReturn
  <1>3. ASSUME NEW g \in Get, GetStep(g) PROVE UNCHANGED <<repairs, frame, round>>
    BY <1>3 DEF GetStep, CoordGet, ReplicaGet, GetCallFails, CoordGetReceive, CoordGetExhausted
  <1>4. ASSUME RepairStep PROVE UNCHANGED <<repairs, frame, round>>
    BY <1>4 DEF RepairStep, StartRepairJob, CollectResult, Merging, Installs
  <1> QED BY <1>1, <1>2, <1>3, <1>4 DEF Quiet, Next, vars, MemberChange, ReplayHint

LEMMA MergeShapeInit == Init => MergeShape
  BY DEF Init, MergeShape, JobsAfterReads, DoneJobsWaitForNone, MergesOfJobs

LEMMA MergeShapeNext == TypeInv /\ MergeShape /\ [Next]_vars => MergeShape'
  <1> SUFFICES ASSUME TypeInv, MergeShape, [Next]_vars PROVE MergeShape'
    OBVIOUS
  <1> USE DEF MergeShape
  <1>1. \A g \in Get : job[g] = "done" => job'[g] = "done"
    BY JobHistory DEF JobsAfterReads
  <1>2. JobsAfterReads'
    <2> SUFFICES ASSUME NEW g \in Get, job'[g] # "none"
                 PROVE  get'[g].st \notin {"idle", "wait"}
      BY DEF JobsAfterReads
    <2>1. CASE job[g] = "none"
      BY <2>1, JobHistory
    <2>2. CASE job[g] # "none"
      BY <2>2, ReturnedStays DEF JobsAfterReads
    <2> QED BY <2>1, <2>2
  <1>3. DoneJobsWaitForNone'
    <2> SUFFICES ASSUME NEW g \in Get, job'[g] = "done"
                 PROVE  Pending(g)' = {}
      BY DEF DoneJobsWaitForNone
    <2>1. CASE job[g] = "done"
      BY <2>1, PendingHistory DEF DoneJobsWaitForNone, JobsAfterReads
    <2>2. CASE job[g] # "done"
      <3>1. RepairReplicas(g)
        BY <2>2, JobHistory
      <3> QED BY <3>1 DEF RepairReplicas, Pending
    <2> QED BY <2>1, <2>2
  <1>4. MergesOfJobs'
    <2> SUFFICES /\ \A m \in repairs' : m.op \in Get => job'[m.op] = "done"
                 /\ \A f \in frame' : f.op \in Get => job'[f.op] = "done"
      BY DEF MergesOfJobs
    <2> USE DEF MergesOfJobs
    <2>0. Get \cap Round = {}
      BY DynamoAssumption
    <2>1. CASE Quiet
      BY <1>1, <2>1 DEF Quiet
    <2>2. ASSUME NEW h \in Get, RepairReplicas(h)
          PROVE  /\ frame' = frame /\ job'[h] = "done"
                 /\ \A m \in repairs' : m \in repairs \/ m.op = h
      BY <2>2 DEF RepairReplicas, TypeInv, TypeOK
    <2>3. ASSUME NEW m \in repairs, RepairPut(m) \/ RepairPutFails(m)
          PROVE  /\ repairs' \subseteq repairs
                 /\ \A f \in frame' : f \in frame \/ f.op = m.op
      BY <2>3 DEF RepairPut, RepairPutFails, MergeFrames
    <2>4. ASSUME NEW r \in Round, NEW n, NEW m, RepairGetDiff(r, n, m)
          PROVE  repairs' = repairs /\ frame' = frame
      BY <2>4 DEF RepairGetDiff
    <2>5. ASSUME NEW r \in Round, ApplyDiff(r)
          PROVE  /\ \A m \in repairs' : m \in repairs \/ m.op = r
                 /\ \A f \in frame' : f \in frame \/ f.op = r
      BY <2>5 DEF ApplyDiff, MergeFrames, PushBack
    <2>6. ASSUME NEW f \in frame, InstallObjects(f)
          PROVE  /\ \A m \in repairs' : m \in repairs \/ m.op \in Round
                 /\ frame' \subseteq frame
      BY <2>6 DEF InstallObjects, PushBack
    <2> QED BY <1>1, <2>0, <2>1, <2>2, <2>3, <2>4, <2>5, <2>6, QuietOrMerging
            DEF Merging, Installs
  <1> QED BY <1>2, <1>3, <1>4

-----------------------------------------------------------------------------
(* What is done stays done, and an exchange that is done does not change. *)
LEMMA DoneJobStays ==
  ASSUME TypeInv, MergeShape, [Next]_vars, NEW g \in Get, job[g] = "done"
  PROVE  /\ job'[g] = "done"
         /\ get'[g] = get[g]
         /\ \A t \in Replica : res'[g][t].st = "read" => res[g][t].st = "read"
  <1>1. get[g].st \notin {"idle", "wait"}
    BY DEF MergeShape, JobsAfterReads
  <1>2. \A s \in Replica : ~CollectResult(g, s)
    BY DEF CollectResult
  <1> QED BY <1>1, <1>2, JobHistory, ReturnedStays DEF SameOrFresh

LEMMA RoundHistory ==
  ASSUME TypeInv, [Next]_vars, NEW r \in Round
  PROVE  \/ round'[r] = round[r]
         \/ \E n, m \in Replica : RepairGetDiff(r, n, m)
         \/ ApplyDiff(r)
  <1> USE DEF TypeInv, TypeOK
  <1>1. CASE Quiet
    BY <1>1 DEF Quiet
  <1>2. ASSUME NEW q \in Round, q # r, ApplyDiff(q) \/ \E n, m \in Replica : RepairGetDiff(q, n, m)
        PROVE  round'[r] = round[r]
    BY <1>2 DEF ApplyDiff, RepairGetDiff
  <1>3. CASE Merging
    BY <1>2, <1>3 DEF Merging, Installs, RepairReplicas, RepairPut, RepairPutFails, InstallObjects
  <1> QED BY <1>1, <1>3, QuietOrMerging

LEMMA OnlyMergerBefore ==
  ASSUME TypeInv, MergeShape, [Next]_vars, NEW op, OnlyMerger(op)'
  PROVE  OnlyMerger(op)
  <1>1. \A g \in Get : job[g] = "done" => job'[g] = "done"
    BY DoneJobStays
  <1>2. \A r \in Round : round[r].st = "done" => round'[r].st = "done"
    BY RoundHistory DEF RepairGetDiff, ApplyDiff
  <1> QED BY <1>1, <1>2 DEF OnlyMerger

(* Every merge under way is that of the only merger. *)
LEMMA AloneMeaning ==
  ASSUME TypeInv, MergeShape, NEW op, OnlyMerger(op)
  PROVE  /\ \A m \in repairs : m.op = op
         /\ \A f \in frame : f.op = op
  <1>1. /\ \A m \in repairs : m.op \in Get \cup Round
        /\ \A f \in frame : f.op \in Get \cup Round
    BY DEF TypeInv, TypeOK, RepairArgs, MergeFrame
  <1> QED BY <1>1 DEF OnlyMerger, MergeShape, MergesOfJobs, TypeInv, RoundsStarted

LEMMA AllCoveredSelf ==
  ASSUME NEW S \in SUBSET Object
  PROVE  AllCovered(S, S)
  <1>1. \A o \in S : o.vc \in VClocks
    BY DEF Object
  <1> QED BY <1>1, LeqReflexive DEF AllCovered, Covers

LEMMA AllCoveredTransitive ==
  ASSUME NEW S \in SUBSET Object, NEW T \in SUBSET Object, NEW U \in SUBSET Object,
         AllCovered(S, T), AllCovered(T, U)
  PROVE  AllCovered(S, U)
  <1>1. Versions(S) /\ Versions(T) /\ Versions(U)
    BY DEF Versions, Object
  <1> QED BY <1>1, CoversAll DEF AllCovered, Versions

LEMMA AllCoveredKept ==
  ASSUME TypeInv, TypeInv', Keeps, NEW n \in Node, NEW S \in SUBSET Object, AllCovered(S, kv[n])
  PROVE  AllCovered(S, kv'[n])
  <1>1. AllCovered(kv[n], kv'[n]) /\ kv[n] \in SUBSET Object /\ kv'[n] \in SUBSET Object
    BY DEF Keeps, AllCovered, TypeInv, TypeOK
  <1> QED BY <1>1, AllCoveredTransitive

(* mergeObjectsCore either finds nothing new or computes a list that       *)
(* covers what came in.                                                    *)
LEMMA MergeFramesCover ==
  ASSUME TypeInv, AntichainInv, NEW op, NEW n \in Replica, NEW incoming \in SUBSET Object
  PROVE  /\ Changes(n, incoming) =>
              \E f \in MergeFrames(op, n, incoming) : f.op = op /\ f.at = n
         /\ \A f \in MergeFrames(op, n, incoming) : f.op = op /\ AllCovered(incoming, f.merged)
         /\ ~Changes(n, incoming) => AllCovered(incoming, kv[n])
  <1>1. n \in Node /\ Versions(kv[n]) /\ Versions(incoming) /\ Antichain(kv[n])
    BY ReplicaIsNode
       DEF TypeInv, TypeOK, Versions, Object, AntichainInv, SiblingsAntichain
  <1>2. AllCovered(incoming, MergeObjects(kv[n], incoming))
    BY <1>1, MergeCovers DEF AllCovered
  <1>3. ~Changes(n, incoming) => AllCovered(incoming, kv[n])
    BY <1>1, CanBeAddedToMeaning DEF Changes, AllCovered, Versions
  <1>4. CASE Changes(n, incoming)
    <2> DEFINE f == [op |-> op, at |-> n, merged |-> MergeObjects(kv[n], incoming)]
    <2>1. MergeFrames(op, n, incoming) = {f}
      BY <1>4 DEF MergeFrames
    <2>2. f.op = op /\ f.at = n /\ f.merged = MergeObjects(kv[n], incoming)
      OBVIOUS
    <2> HIDE DEF f
    <2> QED BY <1>2, <1>4, <2>1, <2>2
  <1>5. CASE ~Changes(n, incoming)
    BY <1>3, <1>5 DEF MergeFrames
  <1> QED BY <1>4, <1>5

LEMMA AnswerHistory ==
  ASSUME TypeInv, [Next]_vars, NEW g \in Get, NEW t \in Replica, Answered(g, t)'
  PROVE  \/ Answered(g, t) /\ res'[g][t].objs = res[g][t].objs
         \/ res'[g][t].objs = kv[t]
  <1> USE DEF Answered
  <1>0. res \in [Get -> [Replica -> Result]]
    BY DEF TypeInv, TypeOK
  <1>1. ASSUME NEW s \in Replica, res[g][s].st = "got",
               res'[g] = [res[g] EXCEPT ![s].st = "read"]
        PROVE  Answered(g, t) /\ res'[g][t].objs = res[g][t].objs
    BY <1>0, <1>1 DEF Result
  <1>2. ASSUME NEW s \in Replica, CollectResult(g, s)
        PROVE  Answered(g, t) /\ res'[g][t].objs = res[g][t].objs
    BY <1>0, <1>1, <1>2 DEF CollectResult
  <1>3. ASSUME NEW s \in Replica, CoordGetReceive(g, s)
        PROVE  Answered(g, t) /\ res'[g][t].objs = res[g][t].objs
    <2>1. res[g][s].st = "got"
      BY <1>3 DEF CoordGetReceive
    <2>2. res' = [res EXCEPT ![g][s].st = "read"] \/ ScheduleReadRepair(g, s)
      BY <1>3 DEF CoordGetReceive
    <2>3. res'[g] \in {[res[g] EXCEPT ![s].st = "read"], NoResults}
      BY <1>0, <2>2 DEF ScheduleReadRepair
    <2>4. res'[g] # NoResults
      BY DEF NoResults
    <2> QED BY <1>1, <2>1, <2>3, <2>4
  <1>4. ASSUME NEW c \in Coord[g], CoordGet(g, c)
        PROVE  Answered(g, t) /\ res'[g][t].objs = res[g][t].objs
    BY <1>0, <1>4 DEF CoordGet
  <1>5. ~CoordGetExhausted(g)
    BY <1>0 DEF CoordGetExhausted, NoResults
  <1> QED BY <1>2, <1>3, <1>4, <1>5, GetHistory DEF SameOrFresh

-----------------------------------------------------------------------------
LEMMA MergeInvInit == Init => MergeInv
  BY DEF Init, MergeInv, JobCovers, RoundCovers, Answered, NoResults

LEMMA JobCoversNext ==
  ASSUME TypeInv, TypeInv', AntichainInv, MergeShape, MergeShape', [Next]_vars,
         NEW g \in Get, JobCovers(g)
  PROVE  JobCovers(g)'
  <1> SUFFICES ASSUME OnlyMerger(g)'
        PROVE  /\ job'[g] # "done" =>
                    \A s \in Replica : Answered(g, s)' => AllCovered(res'[g][s].objs, kv'[s])
               /\ \A m \in repairs' : m.op = g => m.objs = get'[g].canon
               /\ \A f \in frame' : f.op = g => AllCovered(get'[g].canon, f.merged)
               /\ job'[g] = "done" =>
                    \A s \in Replica \ Flaky : res'[g][s].st = "read" =>
                      \/ \E m \in repairs' : m.op = g /\ m.to = s
                      \/ \E f \in frame' : f.op = g /\ f.at = s
                      \/ AllCovered(get'[g].canon, kv'[s])
    BY DEF JobCovers, AllCovered
  <1>1. OnlyMerger(g)
    BY OnlyMergerBefore
  <1>2. (\A m \in repairs : m.op = g) /\ (\A f \in frame : f.op = g)
    BY <1>1, AloneMeaning
  <1>3. g \notin Round /\ \A m \in repairs : m.op \notin Round
    BY <1>2, DynamoAssumption
  <1>4. ~Installs => Keeps
    BY StepsKeep
  <1>5. /\ \A s \in Replica : s \in Node /\ res[g][s].objs \in SUBSET Object
        /\ get[g].canon \in SUBSET Object
        /\ \A m \in repairs : m.to \in Replica /\ m.objs \in SUBSET Object
    BY ReplicaIsNode DEF TypeInv, TypeOK, Result, GetRecord, RepairArgs
  <1>6. CASE job[g] # "done"
    <2>1. frame = {} /\ repairs = {}
      BY <1>2, <1>6 DEF MergeShape, MergesOfJobs
    <2>2. Keeps
      BY <1>4, <2>1 DEF Installs
    <2>3. ASSUME NEW s \in Replica, Answered(g, s)'
          PROVE  AllCovered(res'[g][s].objs, kv'[s])
      <3>1. CASE Answered(g, s) /\ res'[g][s].objs = res[g][s].objs
        <4>1. AllCovered(res[g][s].objs, kv[s])
          BY <1>1, <1>6, <3>1 DEF JobCovers
        <4> QED BY <1>5, <2>2, <3>1, <4>1, AllCoveredKept
      <3>2. CASE res'[g][s].objs = kv[s]
        BY <1>5, <2>2, <3>2 DEF Keeps, AllCovered
      <3> QED BY <2>3, <3>1, <3>2, AnswerHistory
    <2>4. CASE job'[g] # "done"
      <3>1. \A m \in repairs' \cup frame' : m.op # g
        BY <2>4 DEF MergeShape, MergesOfJobs
      <3> QED BY <2>3, <2>4, <3>1
    <2>5. CASE job'[g] = "done"
      <3>1. RepairReplicas(g)
        BY <1>6, <2>5, JobHistory
      <3>2. frame' = {} /\ get' = get /\ res' = res /\ kv' = kv
        BY <2>1, <3>1 DEF RepairReplicas, putVars
      <3>3. \A m \in repairs' : m.objs = get[g].canon
        BY <2>1, <3>1 DEF RepairReplicas
      <3>4. ASSUME NEW s \in Replica, res[g][s].st = "read",
                   ~\E m \in repairs' : m.op = g /\ m.to = s
            PROVE  AllCovered(get[g].canon, kv[s])
        <4>1. CASE get[g].canon = {}
          BY <4>1 DEF AllCovered
        <4>2. CASE get[g].canon # {}
          <5>1. s \notin StaleReplicas(g)
            <6> SUFFICES ASSUME s \in StaleReplicas(g) PROVE FALSE
              OBVIOUS
            <6>1. [op |-> g, to |-> s, objs |-> get[g].canon] \in repairs'
              BY <3>1, <4>2 DEF RepairReplicas
            <6> QED BY <3>4, <6>1
          <5>2. res[g][s].objs = get[g].canon
            BY <3>4, <5>1 DEF StaleReplicas
          <5> QED BY <1>1, <1>6, <3>4, <5>2 DEF JobCovers, Answered
        <4> QED BY <4>1, <4>2
      <3> QED BY <2>5, <3>2, <3>3, <3>4
    <2> QED BY <2>4, <2>5
  <1>7. CASE job[g] = "done"
    <2>1. /\ job'[g] = "done" /\ get'[g] = get[g]
          /\ \A t \in Replica : res'[g][t].st = "read" => res[g][t].st = "read"
      BY <1>7, DoneJobStays
    <2>2. /\ \A m \in repairs : m.objs = get[g].canon
          /\ \A f \in frame : AllCovered(get[g].canon, f.merged)
          /\ \A s \in Replica \ Flaky : res[g][s].st = "read" =>
               \/ \E m \in repairs : m.to = s
               \/ \E f \in frame : f.at = s
               \/ AllCovered(get[g].canon, kv[s])
      BY <1>1, <1>2, <1>7 DEF JobCovers
    <2> SUFFICES
          /\ \A m \in repairs' : m.op = g => m.objs = get[g].canon
          /\ \A f \in frame' : f.op = g => AllCovered(get[g].canon, f.merged)
          /\ \A s \in Replica \ Flaky : res[g][s].st = "read" =>
               \/ \E m \in repairs' : m.op = g /\ m.to = s
               \/ \E f \in frame' : f.op = g /\ f.at = s
               \/ AllCovered(get[g].canon, kv'[s])
      BY <2>1
    <2>3. CASE repairs' = repairs /\ frame' = frame
      <3>1. ~Installs
        BY <2>3 DEF Installs, InstallObjects
      <3>2. \A s \in Replica : AllCovered(get[g].canon, kv[s]) => AllCovered(get[g].canon, kv'[s])
        BY <1>4, <1>5, <3>1, AllCoveredKept
      <3> QED BY <1>2, <2>2, <2>3, <3>2
    <2>4. ASSUME NEW m \in repairs, RepairPut(m)
          PROVE  /\ \A k \in repairs' : k.op = g => k.objs = get[g].canon
                 /\ \A f \in frame' : f.op = g => AllCovered(get[g].canon, f.merged)
                 /\ \A s \in Replica \ Flaky : res[g][s].st = "read" =>
                      \/ \E k \in repairs' : k.op = g /\ k.to = s
                      \/ \E f \in frame' : f.op = g /\ f.at = s
                      \/ AllCovered(get[g].canon, kv'[s])
      <3>1. /\ repairs' = repairs \ {m} /\ kv' = kv
            /\ frame' = frame \cup MergeFrames(g, m.to, get[g].canon)
        BY <1>2, <2>2, <2>4 DEF RepairPut
      <3>2. /\ \A f \in MergeFrames(g, m.to, get[g].canon) : AllCovered(get[g].canon, f.merged)
            /\ \/ AllCovered(get[g].canon, kv[m.to])
               \/ \E f \in frame' : f.op = g /\ f.at = m.to
        BY <1>5, <3>1, MergeFramesCover
      <3> QED BY <1>2, <2>2, <3>1, <3>2
    <2>5. ASSUME NEW m \in repairs, RepairPutFails(m)
          PROVE  /\ \A k \in repairs' : k.op = g => k.objs = get[g].canon
                 /\ \A f \in frame' : f.op = g => AllCovered(get[g].canon, f.merged)
                 /\ \A s \in Replica \ Flaky : res[g][s].st = "read" =>
                      \/ \E k \in repairs' : k.op = g /\ k.to = s
                      \/ \E f \in frame' : f.op = g /\ f.at = s
                      \/ AllCovered(get[g].canon, kv'[s])
      <3>1. repairs' = repairs \ {m} /\ frame' = frame /\ kv' = kv /\ m.to \in Flaky
        BY <2>5 DEF RepairPutFails
      <3> QED BY <1>2, <2>2, <3>1
    <2>6. ASSUME NEW f \in frame, InstallObjects(f)
          PROVE  /\ \A k \in repairs' : k.op = g => k.objs = get[g].canon
                 /\ \A k \in frame' : k.op = g => AllCovered(get[g].canon, k.merged)
                 /\ \A s \in Replica \ Flaky : res[g][s].st = "read" =>
                      \/ \E k \in repairs' : k.op = g /\ k.to = s
                      \/ \E k \in frame' : k.op = g /\ k.at = s
                      \/ AllCovered(get[g].canon, kv'[s])
      <3>1. repairs' = repairs /\ frame' = frame \ {f}
        BY <1>2, <1>3, <2>6 DEF InstallObjects
      <3>2. \A s \in Replica : kv'[s] = IF s = f.at THEN f.merged ELSE kv[s]
        BY <1>5, <2>6 DEF InstallObjects, TypeInv, TypeOK
      <3> QED BY <1>2, <2>2, <3>1, <3>2
    <2>7. ~\E h \in Get : RepairReplicas(h)
      <3>1. ~RepairReplicas(g)
        BY <1>7 DEF RepairReplicas
      <3>2. \A h \in Get : RepairReplicas(h) => job'[h] = "done"
        BY DEF RepairReplicas, TypeInv, TypeOK
      <3> QED BY <3>1, <3>2 DEF OnlyMerger
    <2>8. ~\E r \in Round : ApplyDiff(r)
      <3>1. \A r \in Round : ApplyDiff(r) => round'[r].st = "done"
        BY DEF ApplyDiff, TypeInv, TypeOK, Exchange
      <3> QED BY <1>3, <3>1 DEF OnlyMerger
    <2>9. ASSUME \E r \in Round : \E n, m \in Replica : RepairGetDiff(r, n, m)
          PROVE  repairs' = repairs /\ frame' = frame
      BY <2>9 DEF RepairGetDiff
    <2> QED BY <2>3, <2>4, <2>5, <2>6, <2>7, <2>8, <2>9, QuietOrMerging
            DEF Quiet, Merging, Installs
  <1> QED BY <1>6, <1>7

LEMMA RoundCoversNext ==
  ASSUME TypeInv, TypeInv', AntichainInv, MergeShape, MergeShape', [Next]_vars,
         NEW r \in Round, RoundCovers(r)
  PROVE  RoundCovers(r)'
  <1> SUFFICES ASSUME OnlyMerger(r)'
        PROVE  /\ round'[r].st # "idle" => AllCovered(round'[r].objs, kv'[round'[r].peer])
               /\ \A m \in repairs' : m.op = r => AllCovered(round'[r].objs, m.objs)
               /\ \A f \in frame' : f.op = r => AllCovered(round'[r].objs, f.merged)
               /\ round'[r].st = "done" =>
                    \/ \E f \in frame' : f.op = r /\ f.at = round'[r].node
                    \/ AllCovered(round'[r].objs, kv'[round'[r].node])
    BY DEF RoundCovers, AllCovered
  <1>1. OnlyMerger(r)
    BY OnlyMergerBefore
  <1>2. (\A m \in repairs : m.op = r) /\ (\A f \in frame : f.op = r)
    BY <1>1, AloneMeaning
  <1>3. r \notin Get
    BY DynamoAssumption
  <1>4. ~Installs => Keeps
    BY StepsKeep
  <1>5. /\ round[r].st \in {"idle", "pulled", "done"} /\ round[r].objs \in SUBSET Object
        /\ round[r].st # "idle" =>
             /\ round[r].peer \in Replica /\ round[r].peer \in Node
             /\ round[r].node \in Replica /\ round[r].node \in Node
        /\ \A m \in repairs : m.to \in Replica /\ m.objs \in SUBSET Object
        /\ \A f \in frame : f.merged \in SUBSET Object
        /\ \A n \in Node : kv[n] \in SUBSET Object
    BY ReplicaIsNode DEF TypeInv, TypeOK, RoundsStarted, Exchange, RepairArgs, MergeFrame
  <1>6. ASSUME round'[r].st # "done"
        PROVE  /\ \A m \in repairs' : m.op # r
               /\ \A f \in frame' : f.op # r
    BY <1>6 DEF TypeInv, RoundsStarted
  <1>7. ASSUME round[r].st # "done" PROVE frame = {} /\ repairs = {} /\ Keeps
    BY <1>2, <1>4, <1>7 DEF TypeInv, RoundsStarted, Installs
  <1>8. CASE round[r].st # "done" /\ round'[r] = round[r]
    BY <1>1, <1>5, <1>6, <1>7, <1>8, AllCoveredKept DEF RoundCovers
  <1>9. ASSUME NEW n \in Replica, NEW m \in Replica, RepairGetDiff(r, n, m)
        PROVE  round'[r].st = "pulled" /\ AllCovered(round'[r].objs, kv'[round'[r].peer])
    <2>1. round'[r] = [st |-> "pulled", node |-> n, peer |-> m, objs |-> kv[m]] /\ kv' = kv
      BY <1>9 DEF RepairGetDiff, TypeInv, TypeOK
    <2> QED BY <1>5, <2>1, ReplicaIsNode, AllCoveredSelf
  <1>10. CASE ApplyDiff(r)
    <2> DEFINE n == round[r].node
               objs == round[r].objs
    <2>1. /\ round[r].st = "pulled" /\ kv' = kv
          /\ frame' = frame \cup MergeFrames(r, n, objs)
          /\ repairs' = IF Changes(n, objs) THEN repairs
                        ELSE repairs \cup {PushBack(r, kv[n])}
      BY <1>10 DEF ApplyDiff
    <2>2. /\ round'[r].objs = objs /\ round'[r].peer = round[r].peer
          /\ round'[r].node = n
      BY <1>10 DEF ApplyDiff, TypeInv, TypeOK, Exchange
    <2>3. frame = {} /\ repairs = {}
      BY <1>7, <2>1
    <2>4. /\ Changes(n, objs) => \E f \in frame' : f.op = r /\ f.at = n
          /\ \A f \in frame' : AllCovered(objs, f.merged)
          /\ ~Changes(n, objs) => AllCovered(objs, kv[n])
      <3>1. n \in Replica /\ objs \in SUBSET Object
        BY <1>5, <2>1
      <3>2. frame' = MergeFrames(r, n, objs)
        BY <2>1, <2>3
      <3> HIDE DEF n, objs
      <3> QED BY <3>1, <3>2, MergeFramesCover
    <2>5. PushBack(r, kv[n]).objs = kv[n]
      BY DEF PushBack
    <2>6. \A m \in repairs' : AllCovered(objs, m.objs)
      BY <2>1, <2>3, <2>4, <2>5
    <2>7. AllCovered(objs, kv[round[r].peer])
      BY <1>1, <2>1 DEF RoundCovers
    <2> QED BY <2>1, <2>2, <2>4, <2>6, <2>7
  <1>11. CASE round[r].st = "done"
    <2>1. round'[r] = round[r]
      BY <1>11, RoundHistory DEF RepairGetDiff, ApplyDiff
    <2>2. /\ AllCovered(round[r].objs, kv[round[r].peer])
          /\ \A m \in repairs : AllCovered(round[r].objs, m.objs)
          /\ \A f \in frame : AllCovered(round[r].objs, f.merged)
          /\ \/ \E f \in frame : f.at = round[r].node
             \/ AllCovered(round[r].objs, kv[round[r].node])
      BY <1>1, <1>2, <1>11 DEF RoundCovers
    <2> DEFINE objs == round[r].objs
               n == round[r].node
               peer == round[r].peer
               kept == /\ AllCovered(objs, kv'[peer])
                       /\ \A m \in repairs' : m.op = r => AllCovered(objs, m.objs)
                       /\ \A f \in frame' : f.op = r => AllCovered(objs, f.merged)
                       /\ \/ \E f \in frame' : f.op = r /\ f.at = n
                          \/ AllCovered(objs, kv'[n])
    <2> SUFFICES kept
      BY <2>1
    <2>3. CASE repairs' = repairs /\ frame' = frame
      <3>1. ~Installs
        BY <2>3 DEF Installs, InstallObjects
      <3>2. \A s \in Node : AllCovered(objs, kv[s]) => AllCovered(objs, kv'[s])
        BY <1>4, <1>5, <3>1, AllCoveredKept
      <3> QED BY <1>2, <1>5, <1>11, <2>2, <2>3, <3>2
    <2>4. ASSUME NEW m \in repairs, RepairPut(m) PROVE kept
      <3>1. /\ repairs' = repairs \ {m} /\ kv' = kv
            /\ frame' = frame \cup MergeFrames(r, m.to, m.objs)
        BY <1>2, <2>4 DEF RepairPut
      <3>2. ASSUME NEW f \in MergeFrames(r, m.to, m.objs) PROVE AllCovered(objs, f.merged)
        <4>1. AllCovered(m.objs, f.merged)
          BY <1>5, MergeFramesCover
        <4>2. f.merged \in SUBSET Object
          <5>1. f \in MergeFrame'
            BY <3>1 DEF TypeInv, TypeOK
          <5> QED BY <5>1 DEF MergeFrame
        <4> QED BY <1>5, <2>2, <4>1, <4>2, AllCoveredTransitive
      <3> QED BY <1>2, <2>2, <3>1, <3>2
    <2>5. ASSUME NEW m \in repairs, RepairPutFails(m) PROVE kept
      <3>1. repairs' = repairs \ {m} /\ frame' = frame /\ kv' = kv
        BY <2>5 DEF RepairPutFails
      <3> QED BY <1>2, <2>2, <3>1
    <2>6. ASSUME NEW f \in frame, InstallObjects(f) PROVE kept
      <3>1. /\ frame' = frame \ {f}
            /\ \A m \in repairs' : m \in repairs \/ m.objs = f.merged
        BY <2>6 DEF InstallObjects, PushBack
      <3>2. \A s \in Node : kv'[s] = IF s = f.at THEN f.merged ELSE kv[s]
        BY <2>6 DEF InstallObjects, TypeInv, TypeOK
      <3> QED BY <1>2, <1>5, <1>11, <2>2, <3>1, <3>2
    <2>7. ~\E h \in Get : RepairReplicas(h)
      <3>1. \A h \in Get : RepairReplicas(h) => job'[h] = "done"
        BY DEF RepairReplicas, TypeInv, TypeOK
      <3> QED BY <1>3, <3>1 DEF OnlyMerger
    <2>8. ~\E q \in Round : ApplyDiff(q)
      <3>1. \A q \in Round : ApplyDiff(q) => round'[q].st = "done" /\ round[q].st = "pulled"
        BY DEF ApplyDiff, TypeInv, TypeOK, Exchange
      <3> QED BY <1>11, <3>1 DEF OnlyMerger
    <2>9. ASSUME \E q \in Round : \E k, m \in Replica : RepairGetDiff(q, k, m)
          PROVE  repairs' = repairs /\ frame' = frame
      BY <2>9 DEF RepairGetDiff
    <2> HIDE DEF kept
    <2> QED BY <2>3, <2>4, <2>5, <2>6, <2>7, <2>8, <2>9, QuietOrMerging
            DEF Quiet, Merging, Installs
  <1>12. CASE \E n, m \in Replica : RepairGetDiff(r, n, m)
    BY <1>6, <1>9, <1>12
  <1> QED BY <1>8, <1>10, <1>11, <1>12, RoundHistory

(* Once the RepairPuts of a read repair job are installed, and no other    *)
(* merge has overlapped them, every replica the job saw and RepairPut      *)
(* could reach has all versions the job merged, whatever puts, replays,    *)
(* reads and failures came between the answers, the RepairPuts and the two *)
(* critical sections of each merge (readrepair.go, server.go).             *)
THEOREM RepairsCover == Spec => []RepairedReplicasCover
  <1>1. TypeInv /\ TypeInv' /\ AntichainInv /\ MergeShape /\ MergeShape' /\ MergeInv
          /\ [Next]_vars => MergeInv'
    BY JobCoversNext, RoundCoversNext DEF MergeInv
  <1>2. MergeInv => RepairedReplicasCover
    BY DEF MergeInv, JobCovers, RepairedReplicasCover, Finished, AllCovered
  <1> QED BY TypeInit, TypeNext, AntichainInit, AntichainNext, MergeShapeInit, MergeShapeNext,
             MergeInvInit, <1>1, <1>2, PTL DEF Spec

(* When an exchange that no other merge has overlapped is over, both sides *)
(* cover what the peer sent, whatever was written to either meanwhile and  *)
(* whether or not the push back arrived (anti_entropy.go ApplyDiff).       *)
THEOREM ExchangesCover == Spec => []ExchangeCovers
  <1>1. TypeInv /\ TypeInv' /\ AntichainInv /\ MergeShape /\ MergeShape' /\ MergeInv
          /\ [Next]_vars => MergeInv'
    BY JobCoversNext, RoundCoversNext DEF MergeInv
  <1>2. MergeInv => ExchangeCovers
    BY DEF MergeInv, RoundCovers, ExchangeCovers, Finished, AllCovered
  <1> QED BY TypeInit, TypeNext, AntichainInit, AntichainNext, MergeShapeInit, MergeShapeNext,
             MergeInvInit, <1>1, <1>2, PTL DEF Spec

=============================================================================
