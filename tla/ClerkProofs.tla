----------------------------- MODULE ClerkProofs ----------------------------
(***************************************************************************)
(* Theorems about the simulated network (LabRPC) and the retry loops of    *)
(* the clients over it (Clerk), for every set of calls, ends and servers,  *)
(* every number of tries and every history of the network.                 *)
(***************************************************************************)
EXTENDS Clerk, SiblingsProofs

RpcState == {"idle", "send", "dispatch", "wait", "replyTrue", "replyFalse", "true", "false"}
ServerSeen(c) == servers[ServerOf[EndOf[c]]]

(* The incarnations there have been are 1 .. changes + 1. *)
NetTyped ==
  /\ changes \in Nat /\ changes <= MaxChanges
  /\ servers \in [ServerName -> Nat]
  /\ reliable \in BOOLEAN
  /\ rpc \in [Call -> [st : RpcState, server : Nat, reliable : BOOLEAN]]
  /\ handler \in [Call -> {"none", "started", "done", "late"}]
  /\ \A s \in ServerName : servers[s] <= changes + 1
  /\ \A c \in Call : rpc[c].server <= changes + 1

(* A handler starts once processReq has found its server, runs once, and   *)
(* an incarnation that is gone never comes back.                           *)
CallShape ==
  \A c \in Call :
    /\ rpc[c].st \in {"idle", "send", "dispatch"} => handler[c] = "none"
    /\ (rpc[c].st = "dispatch" \/ handler[c] # "none") => rpc[c].server # 0
    /\ handler[c] = "late" => ServerSeen(c) # rpc[c].server

NetInv == NetTyped /\ CallShape /\ ReplyFromRegistered

LEMMA NetInit == LabInit => NetInv
  BY LabRPCAssumption
     DEF LabInit, NetInv, NetTyped, CallShape, ReplyFromRegistered, RpcState

(* Moving a call on changes its state only. *)
LEMMA MoveMeaning ==
  ASSUME NetTyped, NEW c \in Call, NEW st \in RpcState, Move(c, st)
  PROVE  /\ rpc' \in [Call -> [st : RpcState, server : Nat, reliable : BOOLEAN]]
         /\ rpc'[c].st = st /\ rpc'[c].server = rpc[c].server
         /\ \A d \in Call : d # c => rpc'[d] = rpc[d]
  BY DEF NetTyped, Move

(* A step of the call c that leaves the network alone: what it must respect. *)
LEMMA CallStepInv ==
  ASSUME NetInv, UNCHANGED netVars, NEW c \in Call,
         rpc' \in [Call -> [st : RpcState, server : Nat, reliable : BOOLEAN]],
         handler' \in [Call -> {"none", "started", "done", "late"}],
         \A d \in Call : d # c => rpc'[d] = rpc[d] /\ handler'[d] = handler[d],
         rpc'[c].server <= changes + 1,
         rpc'[c].st \in {"idle", "send", "dispatch"} => handler'[c] = "none",
         (rpc'[c].st = "dispatch" \/ handler'[c] # "none") => rpc'[c].server # 0,
         handler'[c] = "late" => ServerSeen(c) # rpc'[c].server,
         rpc'[c].st \in {"replyTrue", "true"} => handler'[c] = "done"
  PROVE  NetInv'
  <1>1. NetTyped'
    BY DEF NetInv, NetTyped, netVars
  <1>2. ASSUME NEW d \in Call
        PROVE  (/\ rpc[d].st \in {"idle", "send", "dispatch"} => handler[d] = "none"
                /\ (rpc[d].st = "dispatch" \/ handler[d] # "none") => rpc[d].server # 0
                /\ handler[d] = "late" => ServerSeen(d) # rpc[d].server
                /\ rpc[d].st \in {"replyTrue", "true"} => handler[d] = "done")'
    BY DEF NetInv, CallShape, ReplyFromRegistered, netVars, ServerSeen
  <1> QED BY <1>1, <1>2 DEF NetInv, CallShape, ReplyFromRegistered

LEMMA CallStepsInv ==
  ASSUME NetInv, NEW c \in Call, Issue(c) \/ CallStep(c) \/ RunHandler(c)
  PROVE  NetInv'
  <1> USE DEF RpcState
  <1>0. /\ rpc[c].server \in Nat /\ rpc[c].server <= changes + 1 /\ NetTyped
        /\ handler[c] \in {"none", "started", "done", "late"}
        /\ rpc \in [Call -> [st : RpcState, server : Nat, reliable : BOOLEAN]]
        /\ rpc[c].st \in {"idle", "send", "dispatch"} => handler[c] = "none"
        /\ (rpc[c].st = "dispatch" \/ handler[c] # "none") => rpc[c].server # 0
        /\ handler[c] = "late" => ServerSeen(c) # rpc[c].server
        /\ rpc[c].st \in {"replyTrue", "true"} => handler[c] = "done"
        /\ handler \in [Call -> {"none", "started", "done", "late"}]
    BY DEF NetInv, NetTyped, CallShape, ReplyFromRegistered
  <1>1. ASSUME NEW st \in RpcState, Move(c, st), UNCHANGED <<netVars, handler>>,
               st \in {"idle", "send", "dispatch"} => handler[c] = "none",
               st = "dispatch" => rpc[c].st = "dispatch",
               st \in {"replyTrue", "true"} => handler[c] = "done"
        PROVE  NetInv'
    <2>1. /\ rpc' \in [Call -> [st : RpcState, server : Nat, reliable : BOOLEAN]]
          /\ rpc'[c].st = st /\ rpc'[c].server = rpc[c].server
          /\ \A d \in Call : d # c => rpc'[d] = rpc[d]
      BY <1>0, <1>1, MoveMeaning
    <2> QED BY <1>0, <1>1, <2>1, CallStepInv
  <1>2. CASE Issue(c)
    BY <1>0, <1>1, <1>2 DEF Issue
  <1>3. CASE NetworkGone(c)
    BY <1>1, <1>3 DEF NetworkGone
  <1>4. CASE Deliver(c)
    BY <1>0, <1>1, <1>4 DEF Deliver
  <1>5. CASE ReadEndnameInfo(c)
    <2> DEFINE server == servers[ServerOf[EndOf[c]]]
               x == [st |-> IF EndOf[c] \in enabled \cap ends /\ server # 0
                            THEN "dispatch" ELSE "replyFalse",
                     server |-> server, reliable |-> reliable]
    <2>1. rpc' = [rpc EXCEPT ![c] = x] /\ UNCHANGED <<netVars, handler>> /\ rpc[c].st = "send"
      BY <1>5 DEF ReadEndnameInfo
    <2>2. ServerOf[EndOf[c]] \in ServerName
      BY LabRPCAssumption
    <2>3. server \in Nat /\ server <= changes + 1 /\ reliable \in BOOLEAN
      BY <2>2 DEF NetInv, NetTyped
    <2>4. /\ x \in [st : RpcState, server : Nat, reliable : BOOLEAN]
          /\ x.server = server
          /\ x.st \in {"dispatch", "replyFalse"} /\ (x.st = "dispatch" => server # 0)
      BY <2>3
    <2> HIDE DEF x, server
    <2>5. /\ rpc' \in [Call -> [st : RpcState, server : Nat, reliable : BOOLEAN]]
          /\ rpc'[c] = x /\ \A d \in Call : d # c => rpc'[d] = rpc[d]
      BY <1>0, <2>1, <2>4
    <2> QED BY <1>0, <2>1, <2>3, <2>4, <2>5, CallStepInv
  <1>6. CASE DropRequest(c)
    BY <1>1, <1>6 DEF DropRequest
  <1>7. CASE StartHandler(c)
    <2>1. /\ rpc' \in [Call -> [st : RpcState, server : Nat, reliable : BOOLEAN]]
          /\ rpc'[c].st = "wait" /\ rpc'[c].server = rpc[c].server
          /\ \A d \in Call : d # c => rpc'[d] = rpc[d]
      BY <1>0, <1>7, MoveMeaning DEF StartHandler
    <2>2. /\ handler' \in [Call -> {"none", "started", "done", "late"}]
          /\ handler'[c] = "started" /\ \A d \in Call : d # c => handler'[d] = handler[d]
          /\ rpc[c].st = "dispatch" /\ UNCHANGED netVars
      BY <1>0, <1>7 DEF StartHandler
    <2> QED BY <1>0, <2>1, <2>2, CallStepInv
  <1>8. CASE PollServerDead(c)
    BY <1>1, <1>8 DEF PollServerDead
  <1>9. CASE HandlerReplied(c)
    <2>1. ~IsServerDead(c) /\ handler[c] \in {"done", "late"} => handler[c] = "done"
      BY <1>0 DEF IsServerDead, ServerSeen
    <2> QED BY <1>1, <1>9, <2>1 DEF HandlerReplied
  <1>10. CASE RunHandler(c)
    <2>1. /\ handler' \in [Call -> {"none", "started", "done", "late"}]
          /\ handler'[c] \in {"done", "late"}
          /\ handler'[c] = "late" => ServerSeen(c) # rpc[c].server
          /\ \A d \in Call : d # c => handler'[d] = handler[d]
          /\ handler[c] = "started" /\ UNCHANGED <<netVars, rpc>>
      BY <1>0, <1>10 DEF RunHandler, ServerSeen
    <2> QED BY <1>0, <2>1, CallStepInv
  <1> QED BY <1>2, <1>3, <1>4, <1>5, <1>6, <1>7, <1>8, <1>9, <1>10 DEF CallStep

LEMMA NetworkStepInv ==
  ASSUME NetInv, NetworkStep
  PROVE  NetInv'
  <1>1. /\ changes' \in Nat /\ changes' = changes + 1 /\ changes' <= MaxChanges
        /\ UNCHANGED callVars /\ changes \in Nat
    BY LabRPCAssumption
       DEF NetworkStep, DeleteEnd, Enable, DeleteServer, AddServer, Reliable, Cleanup, Change,
           NetInv, NetTyped
  <1>2. reliable' \in BOOLEAN
    BY DEF NetworkStep, DeleteEnd, Enable, DeleteServer, AddServer, Reliable, Cleanup,
           NetInv, NetTyped
  <1>3. \/ servers' = servers
        \/ \E s \in ServerName : \E i \in {0, changes + 2} : servers' = [servers EXCEPT ![s] = i]
    BY DEF NetworkStep, DeleteEnd, Enable, DeleteServer, AddServer, Reliable, Cleanup
  <1>4. /\ servers' \in [ServerName -> Nat]
        /\ \A s \in ServerName : servers'[s] \in {servers[s], 0, changes + 2}
    BY <1>1, <1>3 DEF NetInv, NetTyped
  <1>5. NetTyped'
    BY <1>1, <1>2, <1>4 DEF NetInv, NetTyped, callVars
  <1>6. ASSUME NEW c \in Call, handler[c] = "late" PROVE ServerSeen(c)' # rpc[c].server
    <2>1. ServerOf[EndOf[c]] \in ServerName
      BY LabRPCAssumption
    <2>2. /\ rpc[c].server # 0 /\ rpc[c].server \in Nat /\ rpc[c].server <= changes + 1
          /\ ServerSeen(c) # rpc[c].server
      BY <1>6 DEF NetInv, NetTyped, CallShape
    <2> QED BY <1>1, <1>4, <2>1, <2>2 DEF ServerSeen
  <1> QED BY <1>1, <1>5, <1>6 DEF NetInv, CallShape, ReplyFromRegistered, callVars

-----------------------------------------------------------------------------
Version == [id : Put \cup Other, vc : VClocks]
ReplyErr == {"none", "OK", "ErrVersion", "ErrNoKey", "ErrNotCoordinator",
             "ErrWriteQuorumNotMet", "ErrReadQuorumNotMet"}
Outcome == ReplyErr \cup {"ErrMaybe", "ErrRPCFailure"}
OpRecord == [st : {"idle", "call"} \cup Outcome, retry : 0..MaxRetry, failed : BOOLEAN,
             base : VClocks, objs : SUBSET Version]
Reply == [err : ReplyErr, objs : SUBSET Version]

ClerkTyped ==
  /\ kv \in [Incarnation -> SUBSET Version]
  /\ reply \in [Call -> Reply]
  /\ op \in [Put \cup Get -> OpRecord]
  /\ \A o \in Put \cup Get : op[o].retry = 0 <=> op[o].st = "idle"
  /\ applied \in [Put -> [Incarnation -> Nat]]
  /\ others \subseteq Other

LEMMA ClerkTypedInit == Init => ClerkTyped
  <1>1. NewVClock \in VClocks
    BY DEF NewVClock, VClocks
  <1> QED BY <1>1, ClerkAssumption
          DEF Init, ClerkTyped, Reply, OpRecord, ReplyErr, Outcome

(* The calls of an operation are its tries. *)
LEMMA CallsAreTries ==
  /\ \A o \in Put \cup Get : \A k \in 1..MaxRetry : <<o, k>> \in Call
  /\ \A c \in Call : /\ c[1] \in Put \cup Get /\ c[2] \in 1..MaxRetry
                     /\ c = <<c[1], c[2]>>
  BY ClerkAssumption

LEMMA AddObjectType ==
  ASSUME ClerkTyped, NEW i \in Incarnation, NEW p \in Put \cup Other, NEW v \in VClocks
  PROVE  [kv EXCEPT ![i] = AddObject(@, [id |-> p, vc |-> Increment(v, Coordinator)])]
           \in [Incarnation -> SUBSET Version]
  <1>1. Increment(v, Coordinator) \in VClocks
    BY IncrementAbove, ClerkAssumption
  <1>2. AddObject(kv[i], [id |-> p, vc |-> Increment(v, Coordinator)]) \in SUBSET Version
    BY <1>1 DEF AddObject, Version, ClerkTyped
  <1> QED BY <1>2 DEF ClerkTyped

(* A handler that runs does so in an incarnation there has been. *)
LEMMA HandlerIncarnation ==
  ASSUME NetInv, NEW c \in Call, handler[c] # "none"
  PROVE  rpc[c].server \in Incarnation
  <1>1. rpc[c].server # 0 /\ rpc[c].server \in Nat /\ rpc[c].server <= changes + 1
    BY DEF NetInv, NetTyped, CallShape
  <1>2. changes \in Nat /\ changes <= MaxChanges /\ MaxChanges \in Nat
    BY LabRPCAssumption DEF NetInv, NetTyped
  <1> QED BY <1>1, <1>2 DEF Incarnation

(* The handlers of the coordinator. *)
LEMMA TypedHandle ==
  ASSUME NetInv, ClerkTyped, NEW c \in Call, Handle(c)
  PROVE  ClerkTyped'
  <1> USE DEF ClerkTyped
  <1>1. RunHandler(c) /\ handler[c] = "started"
    BY DEF Handle, CoordPutRefused, CoordPutStored, CoordGet, RunHandler
  <1>2. rpc[c].server \in Incarnation
    BY <1>1, HandlerIncarnation
  <1>3. \A err \in ReplyErr : [reply EXCEPT ![c].err = err] \in [Call -> Reply]
    BY DEF Reply
  <1>4. CASE CoordPutRefused(c)
    <2>1. \E err \in ReplyErr : reply' = [reply EXCEPT ![c].err = err]
      BY <1>4 DEF CoordPutRefused, ReplyErr
    <2> QED BY <1>3, <1>4, <2>1 DEF CoordPutRefused
  <1>5. CASE CoordPutStored(c)
    <2>1. \E err \in ReplyErr : reply' = [reply EXCEPT ![c].err = err]
      BY <1>5 DEF CoordPutStored, ReplyErr
    <2>2. c[1] \in Put /\ op[c[1]].base \in VClocks
      BY <1>5 DEF CoordPutStored, OpRecord
    <2>3. kv' \in [Incarnation -> SUBSET Version]
      BY <1>2, <1>5, <2>2, AddObjectType DEF CoordPutStored
    <2>4. applied' \in [Put -> [Incarnation -> Nat]]
      <3>1. applied' = [applied EXCEPT ![c[1]][rpc[c].server] = @ + 1]
        BY <1>5 DEF CoordPutStored
      <3>2. applied[c[1]] \in [Incarnation -> Nat]
        BY <2>2
      <3> QED BY <1>2, <2>2, <3>1, <3>2
    <2> QED BY <1>3, <1>5, <2>1, <2>3, <2>4 DEF CoordPutStored
  <1>6. CASE CoordGet(c)
    <2>1. [err |-> "OK", objs |-> kv[rpc[c].server]] \in Reply
      BY <1>2 DEF Reply, ReplyErr
    <2>2. \/ reply' = [reply EXCEPT ![c] = [err |-> "OK", objs |-> kv[rpc[c].server]]]
          \/ \E err \in ReplyErr : reply' = [reply EXCEPT ![c].err = err]
      BY <1>6 DEF CoordGet, ReplyErr
    <2>3. reply' \in [Call -> Reply]
      BY <1>3, <2>1, <2>2
    <2> QED BY <1>6, <2>3 DEF CoordGet
  <1> QED BY <1>4, <1>5, <1>6 DEF Handle

LEMMA OtherPutAdds ==
  ASSUME NetInv, ClerkTyped, NEW p \in others, OtherPut(p)
  PROVE  \E i \in Incarnation : \E base \in VClocks :
           kv' = [kv EXCEPT ![i] = AddObject(@, [id |-> p, vc |-> Increment(base, Coordinator)])]
  <1> DEFINE i == servers[Coordinator]
  <1>1. i \in Incarnation
    <2>1. i # 0 /\ i \in Nat /\ i <= changes + 1
      BY ClerkAssumption DEF OtherPut, NetInv, NetTyped
    <2>2. changes \in Nat /\ changes <= MaxChanges /\ MaxChanges \in Nat
      BY LabRPCAssumption DEF NetInv, NetTyped
    <2> QED BY <2>1, <2>2 DEF Incarnation
  <1>2. p \in Other /\ Writer[p] \in Name /\ kv[i] \subseteq Version
    BY <1>1, ClerkAssumption DEF ClerkTyped
  <1>3. NewVClock \in VClocks
    BY DEF NewVClock, VClocks
  <1>4. \A o \in kv[i] : Increment(o.vc, Writer[p]) \in VClocks
    BY <1>2, IncrementAbove DEF Version
  <1>5. PICK base \in VClocks :
          kv' = [kv EXCEPT ![i] = AddObject(@, [id |-> p, vc |-> Increment(base, Coordinator)])]
    BY <1>3, <1>4 DEF OtherPut
  <1> QED BY <1>1, <1>5

LEMMA TypedOtherPut ==
  ASSUME NetInv, ClerkTyped, NEW p \in others, OtherPut(p)
  PROVE  ClerkTyped'
  <1>1. kv' \in [Incarnation -> SUBSET Version]
    <2>1. PICK i \in Incarnation : \E base \in VClocks :
            kv' = [kv EXCEPT ![i] = AddObject(@, [id |-> p, vc |-> Increment(base, Coordinator)])]
      BY OtherPutAdds
    <2>2. p \in Put \cup Other
      BY DEF ClerkTyped
    <2> QED BY <2>1, <2>2, AddObjectType
  <1> QED BY <1>1 DEF OtherPut, ClerkTyped

(* The two updates of an operation's record that Start and Retry make. *)
LEMMA RecordUpdate ==
  ASSUME NEW r \in OpRecord, NEW v \in VClocks
  PROVE  LET x == [r EXCEPT !.st = "call", !.retry = 1, !.base = v]
         IN  x \in OpRecord /\ x.retry # 0 /\ x.st # "idle"
  <1> DEFINE y == [r EXCEPT !.st = "call", !.retry = 1]
  <1>1. 1 \in 0..MaxRetry
    BY ClerkAssumption
  <1>2. y \in OpRecord /\ y.retry = 1 /\ y.st = "call"
    BY <1>1 DEF OpRecord
  <1>3. [r EXCEPT !.st = "call", !.retry = 1, !.base = v] = [y EXCEPT !.base = v]
    BY DEF OpRecord
  <1> HIDE DEF y
  <1>4. /\ [y EXCEPT !.base = v] \in OpRecord
        /\ [y EXCEPT !.base = v].retry = 1 /\ [y EXCEPT !.base = v].st = "call"
    BY <1>2 DEF OpRecord
  <1> QED BY <1>3, <1>4

LEMMA RetryUpdate ==
  ASSUME NEW r \in OpRecord, NEW k \in 1..MaxRetry, NEW f \in BOOLEAN, r.st # "idle"
  PROVE  LET x == [r EXCEPT !.retry = k, !.failed = f]
         IN  x \in OpRecord /\ x.retry # 0 /\ x.st # "idle"
  <1>1. k \in 0..MaxRetry /\ k # 0
    BY ClerkAssumption
  <1> QED BY <1>1 DEF OpRecord

(* The retry loops: what they do to the operation o. *)
LEMMA TypedLoops ==
  ASSUME ClerkTyped, NEW o \in Put \cup Get,
         Start(o) \/ Retry(o) \/ (o \in Put /\ PutReturns(o)) \/ (o \in Get /\ GetReturns(o))
  PROVE  /\ ClerkTyped'
         /\ \A q \in Put \cup Get : q # o => op'[q] = op[q]
         /\ UNCHANGED <<kv, reply, applied, others>>
  <1> USE DEF ClerkTyped
  <1>1. op[o] \in OpRecord /\ MaxRetry \in Nat /\ MaxRetry >= 1
    BY ClerkAssumption
  <1>2. UNCHANGED <<kv, reply, applied, others>>
    BY DEF Start, Retry, PutReturns, GetReturns
  <1>3. ASSUME NEW x \in OpRecord, op' = [op EXCEPT ![o] = x], x.retry # 0, x.st # "idle"
        PROVE  ClerkTyped' /\ \A q \in Put \cup Get : q # o => op'[q] = op[q]
    BY <1>2, <1>3
  <1>4. ASSUME op[o].st = "call", NEW err \in Outcome, op' = [op EXCEPT ![o].st = err]
        PROVE  ClerkTyped' /\ \A q \in Put \cup Get : q # o => op'[q] = op[q]
    <2> DEFINE x == [op[o] EXCEPT !.st = err]
    <2>1. op' = [op EXCEPT ![o] = x]
      BY <1>4
    <2>2. x \in OpRecord /\ x.retry # 0 /\ x.st # "idle"
      BY <1>1, <1>4 DEF OpRecord, Outcome, ReplyErr
    <2> HIDE DEF x
    <2> QED BY <1>3, <2>1, <2>2
  <1>5. CASE Start(o)
    <2>1. o \in Put => BaseContexts(o) \subseteq VClocks
      <3>1. NewVClock \in VClocks
        BY DEF NewVClock, VClocks
      <3>2. \A g \in Get : \A v \in op[g].objs : v.vc \in VClocks
        BY DEF OpRecord, Version
      <3>3. o \in Put => Writer[o] \in Name
        BY ClerkAssumption
      <3> QED BY <3>1, <3>2, <3>3, IncrementAbove DEF BaseContexts
    <2>2. NewVClock \in VClocks
      BY DEF NewVClock, VClocks
    <2>3. PICK base \in VClocks :
            op' = [op EXCEPT ![o] = [@ EXCEPT !.st = "call", !.retry = 1, !.base = base]]
      BY <1>5, <2>1, <2>2 DEF Start
    <2> DEFINE x == [op[o] EXCEPT !.st = "call", !.retry = 1, !.base = base]
    <2>4. x \in OpRecord /\ x.retry # 0 /\ x.st # "idle"
      BY <1>1, RecordUpdate
    <2>5. op' = [op EXCEPT ![o] = x]
      BY <2>3
    <2> HIDE DEF x
    <2> QED BY <1>2, <1>3, <2>4, <2>5
  <1>6. CASE Retry(o)
    <2> DEFINE c == <<o, op[o].retry>>
               x == [op[o] EXCEPT !.retry = op[o].retry + 1,
                                  !.failed = op[o].failed \/ rpc[c].st = "false"]
    <2>1. op' = [op EXCEPT ![o] = x] /\ op[o].retry < MaxRetry /\ op[o].st = "call"
      BY <1>6 DEF Retry
    <2>2. /\ op[o].retry + 1 \in 1..MaxRetry
          /\ (op[o].failed \/ rpc[c].st = "false") \in BOOLEAN
          /\ op[o].st # "idle"
      BY <1>1, <2>1 DEF OpRecord
    <2>3. x \in OpRecord /\ x.retry # 0 /\ x.st # "idle"
      BY <1>1, <2>2, RetryUpdate
    <2> HIDE DEF x
    <2> QED BY <1>2, <1>3, <2>1, <2>3
  <1>7. ASSUME op[o].st = "call"
        PROVE  reply[<<o, op[o].retry>>] \in Reply
    <2>1. <<o, op[o].retry>> \in Call
      BY <1>1, <1>7, CallsAreTries DEF OpRecord
    <2> QED BY <2>1
  <1>8. CASE o \in Put /\ PutReturns(o)
    <2> DEFINE c == <<o, op[o].retry>>
    <2>1. op[o].st = "call"
      BY <1>8 DEF PutReturns
    <2>2. PutErr(reply[c].err, op[o].failed) \in Outcome
      BY <1>7, <2>1 DEF PutErr, Reply, Outcome
    <2>3. \E err \in Outcome : op' = [op EXCEPT ![o].st = err]
      BY <1>8, <2>2 DEF PutReturns, Finish, Outcome, ReplyErr
    <2> QED BY <1>2, <1>4, <2>1, <2>3
  <1>9. CASE o \in Get /\ GetReturns(o)
    <2> DEFINE objs == reply[<<o, op[o].retry>>].objs
               x == [op[o] EXCEPT !.st = IF objs = {} THEN "ErrNoKey" ELSE "OK", !.objs = objs]
    <2>1. op[o].st = "call"
      BY <1>9 DEF GetReturns
    <2>2. \/ op' = [op EXCEPT ![o] = x]
          \/ \E err \in Outcome : op' = [op EXCEPT ![o].st = err]
      BY <1>9 DEF GetReturns, Finish, Outcome, ReplyErr
    <2>3. objs \in SUBSET Version
      BY <1>7, <2>1 DEF Reply
    <2> HIDE DEF objs
    <2>4. x \in OpRecord /\ x.retry # 0 /\ x.st # "idle"
      BY <1>1, <2>1, <2>3 DEF OpRecord, Outcome, ReplyErr
    <2> HIDE DEF x
    <2> QED BY <1>2, <1>3, <1>4, <2>1, <2>2, <2>4
  <1> QED BY <1>5, <1>6, <1>8, <1>9

-----------------------------------------------------------------------------
(* What the caller sees of c, and whether its handler has run: the state    *)
(* of RPC.                                                                  *)
Ret(c) == IF rpc[c].st = "idle" THEN "none" ELSE IF Returned(c) THEN rpc[c].st ELSE "pending"
Ran(c) == handler[c] \in {"done", "late"}

(* The steps of Call and processReq, as a caller sees them. *)
LEMMA CallStepSeen ==
  ASSUME NetInv, NEW c \in Call, CallStep(c)
  PROVE  /\ \A d \in Call : d # c => rpc'[d] = rpc[d] /\ handler'[d] = handler[d]
         /\ Ret(c) = "pending"
         /\ handler'[c] = handler[c] \/ (handler[c] = "none" /\ handler'[c] = "started")
         /\ (Ret(c) \in {"pending", "false"})' \/ (Ret(c)' = "true" /\ Ran(c))
         /\ UNCHANGED netVars
  <1> USE DEF RpcState
  <1>0. /\ NetTyped
        /\ handler \in [Call -> {"none", "started", "done", "late"}]
        /\ rpc \in [Call -> [st : RpcState, server : Nat, reliable : BOOLEAN]]
        /\ rpc[c].st = "dispatch" => handler[c] = "none"
        /\ rpc[c].st \in {"replyTrue", "true"} => Ran(c)
    BY DEF NetInv, NetTyped, CallShape, ReplyFromRegistered, Ran
  <1>1. ASSUME NEW st \in RpcState, Move(c, st), UNCHANGED <<netVars, handler>>,
               rpc[c].st \notin {"idle", "true", "false"},
               st \notin {"idle", "true"} \/ (st = "true" /\ rpc[c].st = "replyTrue")
        PROVE  /\ \A d \in Call : d # c => rpc'[d] = rpc[d] /\ handler'[d] = handler[d]
               /\ Ret(c) = "pending"
               /\ handler'[c] = handler[c]
               /\ (Ret(c) \in {"pending", "false"})' \/ (Ret(c)' = "true" /\ Ran(c))
               /\ UNCHANGED netVars
    <2>1. rpc'[c].st = st /\ \A d \in Call : d # c => rpc'[d] = rpc[d]
      BY <1>0, <1>1, MoveMeaning
    <2> QED BY <1>0, <1>1, <2>1 DEF Ret, Returned
  <1>2. CASE NetworkGone(c)
    BY <1>1, <1>2 DEF NetworkGone
  <1>3. CASE Deliver(c)
    BY <1>1, <1>3 DEF Deliver
  <1>4. CASE ReadEndnameInfo(c)
    <2> DEFINE x == [st |-> IF EndOf[c] \in enabled \cap ends /\ ServerSeen(c) # 0
                            THEN "dispatch" ELSE "replyFalse",
                     server |-> ServerSeen(c), reliable |-> reliable]
    <2>1. rpc' = [rpc EXCEPT ![c] = x] /\ UNCHANGED <<netVars, handler>> /\ rpc[c].st = "send"
      BY <1>4 DEF ReadEndnameInfo, ServerSeen
    <2>2. x.st \in {"dispatch", "replyFalse"}
      OBVIOUS
    <2> HIDE DEF x
    <2>3. rpc'[c] = x /\ \A d \in Call : d # c => rpc'[d] = rpc[d]
      BY <1>0, <2>1
    <2> QED BY <2>1, <2>2, <2>3 DEF Ret, Returned
  <1>5. CASE DropRequest(c)
    BY <1>1, <1>5 DEF DropRequest
  <1>6. CASE StartHandler(c)
    <2>1. rpc'[c].st = "wait" /\ \A d \in Call : d # c => rpc'[d] = rpc[d]
      BY <1>0, <1>6, MoveMeaning DEF StartHandler
    <2>2. /\ handler'[c] = "started" /\ \A d \in Call : d # c => handler'[d] = handler[d]
          /\ rpc[c].st = "dispatch" /\ UNCHANGED netVars
      BY <1>0, <1>6 DEF StartHandler
    <2> QED BY <1>0, <2>1, <2>2 DEF Ret, Returned
  <1>7. CASE PollServerDead(c)
    BY <1>1, <1>7 DEF PollServerDead
  <1>8. CASE HandlerReplied(c)
    BY <1>1, <1>8 DEF HandlerReplied
  <1> QED BY <1>2, <1>3, <1>4, <1>5, <1>6, <1>7, <1>8 DEF CallStep

(* Issuing c, and running its handler. *)
LEMMA IssueSeen ==
  ASSUME NetInv, NEW c \in Call, Issue(c)
  PROVE  /\ \A d \in Call : d # c => rpc'[d] = rpc[d]
         /\ rpc[c].st = "idle" /\ rpc'[c].st = "send"
         /\ Ret(c) = "none" /\ Ret(c)' = "pending"
         /\ UNCHANGED <<netVars, handler>>
  <1>1. rpc'[c].st = "send" /\ \A d \in Call : d # c => rpc'[d] = rpc[d]
    BY MoveMeaning DEF Issue, NetInv, RpcState
  <1> QED BY <1>1 DEF Issue, Ret, Returned

LEMMA RunSeen ==
  ASSUME NetInv, NEW c \in Call, RunHandler(c)
  PROVE  /\ \A d \in Call : d # c => handler'[d] = handler[d]
         /\ Ran(c)' /\ ~Ran(c)
         /\ Ret(c) \in {"pending", "false"}
         /\ UNCHANGED <<netVars, rpc>>
  <1>1. /\ handler[c] = "started" /\ UNCHANGED <<netVars, rpc>>
        /\ handler'[c] \in {"done", "late"}
        /\ \A d \in Call : d # c => handler'[d] = handler[d]
    BY DEF RunHandler, NetInv, NetTyped
  <1>2. rpc[c].st \notin {"idle", "true"}
    BY <1>1 DEF NetInv, CallShape, ReplyFromRegistered
  <1> QED BY <1>1, <1>2 DEF Ran, Ret, Returned

(* What a step of the program is to the network. *)
LEMMA LabStep ==
  ASSUME ClerkTyped, [Next]_vars
  PROVE  \/ UNCHANGED labVars
         \/ NetworkStep
         \/ \E c \in Call : Issue(c) \/ CallStep(c) \/ RunHandler(c)
  <1>1. ASSUME NEW o \in Put \cup Get, Start(o) \/ Retry(o) PROVE \E c \in Call : Issue(c)
    <2>1. op[o].retry \in 0..MaxRetry /\ MaxRetry \in Nat \ {0}
      BY ClerkAssumption DEF ClerkTyped, OpRecord
    <2>2. CASE Start(o)
      <3>1. <<o, 1>> \in Call
        BY <2>1, CallsAreTries
      <3> QED BY <2>2, <3>1 DEF Start
    <2>3. CASE Retry(o)
      <3>1. op[o].retry + 1 \in 1..MaxRetry
        BY <2>1, <2>3 DEF Retry
      <3>2. <<o, op[o].retry + 1>> \in Call
        BY <3>1, CallsAreTries
      <3> QED BY <2>3, <3>2 DEF Retry
    <2> QED BY <1>1, <2>2, <2>3
  <1>2. \A c \in Call : Handle(c) => RunHandler(c)
    BY DEF Handle, CoordPutRefused, CoordPutStored, CoordGet
  <1>3. \A o \in Put \cup Get : PutReturns(o) \/ GetReturns(o) => UNCHANGED labVars
    BY DEF PutReturns, GetReturns, Finish, labVars, callVars
  <1>4. \A p \in others : OtherPut(p) => UNCHANGED labVars
    BY DEF OtherPut
  <1> QED BY <1>1, <1>2, <1>3, <1>4 DEF Next, vars

LEMMA NetNext ==
  ASSUME ClerkTyped, NetInv, [Next]_vars
  PROVE  NetInv'
  <1>1. CASE UNCHANGED labVars
    BY <1>1 DEF NetInv, NetTyped, CallShape, ReplyFromRegistered, ServerSeen,
                labVars, netVars, callVars
  <1> QED BY <1>1, LabStep, NetworkStepInv, CallStepsInv

LEMMA TypedNext ==
  ASSUME ClerkTyped, NetInv, [Next]_vars
  PROVE  ClerkTyped'
  <1>1. CASE UNCHANGED clerkVars
    BY <1>1 DEF ClerkTyped, clerkVars
  <1>2. CASE \E c \in Call : Handle(c)
    BY <1>2, TypedHandle
  <1>3. CASE \E p \in others : OtherPut(p)
    BY <1>3, TypedOtherPut
  <1>4. CASE \E o \in Put \cup Get : Start(o) \/ Retry(o)
    BY <1>4, TypedLoops
  <1>5. CASE \E p \in Put : PutReturns(p)
    BY <1>5, TypedLoops
  <1>6. CASE \E g \in Get : GetReturns(g)
    BY <1>6, TypedLoops
  <1> QED BY <1>1, <1>2, <1>3, <1>4, <1>5, <1>6 DEF Next, vars

LEMMA Bounded == Spec => [](NetInv /\ ClerkTyped)
  <1>1. Init => NetInv /\ ClerkTyped
    BY NetInit, ClerkTypedInit DEF Init
  <1>2. NetInv /\ ClerkTyped /\ [Next]_vars => (NetInv /\ ClerkTyped)'
    BY NetNext, TypedNext
  <1> QED BY <1>1, <1>2, PTL DEF Spec

(* "do not reply if DeleteServer() has been called" (labrpc.go,            *)
(* processReq): whatever the network goes through, a caller that gets true *)
(* got it from a handler that ran while its server was registered.         *)
THEOREM RepliesFromRegistered == Spec => []ReplyFromRegistered
  <1>1. NetInv => ReplyFromRegistered
    BY DEF NetInv
  <1> QED BY <1>1, Bounded, PTL

-----------------------------------------------------------------------------
(* The safety part of KeepsPromise. *)
PromiseKept == Promise!Init /\ [][Promise!Next]_(Promise!rpcVars)

RetMap == [c \in Call |-> IF rpc[c].st = "idle" THEN "none"
                          ELSE IF Returned(c) THEN rpc[c].st ELSE "pending"]
RunsMap == [c \in Call |-> IF handler[c] \in {"done", "late"} THEN 1 ELSE 0]

LEMMA MapsMean ==
  /\ RetMap = [c \in Call |-> Ret(c)] /\ RunsMap = [c \in Call |-> IF Ran(c) THEN 1 ELSE 0]
  /\ RetMap' = [c \in Call |-> Ret(c)'] /\ RunsMap' = [c \in Call |-> IF Ran(c)' THEN 1 ELSE 0]
  BY DEF RetMap, RunsMap, Ret, Ran

(* labrpc keeps the safety part of what RPC, and with it Dynamo, assumes    *)
(* of ClientEnd.Call: every step of the network, of processReq and of a     *)
(* handler goroutine is one of RPC's steps or not visible to a caller.      *)
THEOREM LabRPCImplementsRPC == Spec => PromiseKept
  <1>1. ASSUME NetInv, ClerkTyped, [Next]_vars
        PROVE  [Promise!Next]_(Promise!rpcVars)
    <2>0. ASSUME \A c \in Call : Ret(c)' = Ret(c) /\ (Ran(c)' <=> Ran(c))
          PROVE  UNCHANGED Promise!rpcVars
      <3>1. RetMap' = RetMap /\ RunsMap' = RunsMap
        BY <2>0, MapsMean
      <3> QED BY <3>1 DEF Promise!rpcVars, RetMap, RunsMap
    <2>1. CASE UNCHANGED callVars
      BY <2>0, <2>1 DEF callVars, Ret, Returned, Ran
    <2>2. ASSUME NEW c \in Call, Issue(c) PROVE Promise!Issue(c)
      <3>1. RetMap[c] = "none" /\ RetMap' = [RetMap EXCEPT ![c] = "pending"]
        BY <1>1, <2>2, IssueSeen, MapsMean DEF Ret, Returned
      <3>2. RunsMap' = RunsMap
        BY <1>1, <2>2, IssueSeen DEF RunsMap
      <3> QED BY <3>1, <3>2 DEF Promise!Issue, RetMap, RunsMap
    <2>3. ASSUME NEW c \in Call, RunHandler(c) PROVE Promise!Execute(c)
      <3>1. RetMap[c] \in {"pending", "false"} /\ RetMap' = RetMap
        BY <1>1, <2>3, RunSeen, MapsMean DEF Ret, Returned
      <3>2. RunsMap[c] = 0 /\ RunsMap' = [RunsMap EXCEPT ![c] = 1]
        BY <1>1, <2>3, RunSeen, MapsMean DEF Ran
      <3> QED BY <3>1, <3>2 DEF Promise!Execute, RetMap, RunsMap
    <2>4. ASSUME NEW c \in Call, CallStep(c)
          PROVE  Promise!ReturnTrue(c) \/ Promise!ReturnFalse(c) \/ UNCHANGED Promise!rpcVars
      <3>1. /\ \A d \in Call : d # c => rpc'[d] = rpc[d] /\ handler'[d] = handler[d]
            /\ Ret(c) = "pending"
            /\ handler'[c] = handler[c] \/ (handler[c] = "none" /\ handler'[c] = "started")
            /\ (Ret(c) \in {"pending", "false"})' \/ (Ret(c)' = "true" /\ Ran(c))
        BY <1>1, <2>4, CallStepSeen
      <3>2. \A d \in Call : d # c => Ret(d)' = Ret(d)
        BY <3>1 DEF Ret, Returned
      <3>3. \A d \in Call : Ran(d)' <=> Ran(d)
        BY <3>1 DEF Ran
      <3>4. RunsMap' = RunsMap
        BY <3>3, MapsMean
      <3>5. RetMap[c] = "pending" /\ RetMap' = [RetMap EXCEPT ![c] = Ret(c)']
        BY <3>1, <3>2, MapsMean
      <3>6. CASE Ret(c)' = "pending"
        BY <2>0, <3>1, <3>2, <3>3, <3>6
      <3>7. CASE Ret(c)' = "false"
        BY <3>4, <3>5, <3>7 DEF Promise!ReturnFalse, RetMap, RunsMap
      <3>8. CASE Ret(c)' = "true" /\ Ran(c)
        <4>1. RunsMap[c] = 1
          BY <3>8, MapsMean
        <4> QED BY <3>4, <3>5, <3>8, <4>1 DEF Promise!ReturnTrue, RetMap, RunsMap
      <3> QED BY <3>1, <3>6, <3>7, <3>8
    <2>5. NetworkStep => UNCHANGED callVars
      BY DEF NetworkStep, DeleteEnd, Enable, DeleteServer, AddServer, Reliable, Cleanup
    <2> QED BY <1>1, <2>1, <2>2, <2>3, <2>4, <2>5, LabStep DEF Promise!Next, labVars
  <1>2. Init => Promise!Init
    BY DEF Init, LabInit, Promise!Init, Returned
  <1> QED BY <1>1, <1>2, Bounded, PTL DEF Spec, PromiseKept

-----------------------------------------------------------------------------
(* What is known of the tries of an operation and of what they stored.      *)

(* Only the tries the loop has come to have been made. *)
TriesIssued ==
  \A o \in Put \cup Get : \A k \in 1..MaxRetry :
    rpc[<<o, k>>].st # "idle" => k <= op[o].retry

(* As long as no call failed, the earlier tries were refused by their server. *)
TriesRefused ==
  \A p \in Put : \A k \in 1..MaxRetry :
    k < op[p].retry /\ ~op[p].failed =>
      rpc[<<p, k>>].st = "true" /\ reply[<<p, k>>].err = "ErrNotCoordinator"

(* ErrVersion is reported only if no call failed and the last one says so. *)
VersionRefused ==
  \A p \in Put :
    op[p].st = "ErrVersion" =>
      /\ ~op[p].failed
      /\ rpc[<<p, op[p].retry>>].st = "true"
      /\ reply[<<p, op[p].retry>>].err = "ErrVersion"

(* What is stored was stored by a handler that said so, heard or not. *)
StoredByTry ==
  \A p \in Put : \A i \in Incarnation :
    applied[p][i] > 0 =>
      \E k \in 1..MaxRetry :
        Ran(<<p, k>>) /\ reply[<<p, k>>].err \in {"OK", "ErrWriteQuorumNotMet"}

StoredSomewhere(p) == \E i \in Incarnation : applied[p][i] > 0

OKStored ==
  \A p \in Put :
    /\ \A k \in 1..MaxRetry : reply[<<p, k>>].err = "OK" => StoredSomewhere(p)
    /\ op[p].st = "OK" => StoredSomewhere(p)

(* An incarnation that stored p has a version at or above p's context, and  *)
(* refuses it from then on.                                                 *)
StoredOnce ==
  \A p \in Put : \A i \in Incarnation :
    /\ applied[p][i] <= 1
    /\ applied[p][i] > 0 => op[p].st # "idle" /\ Covers(kv[i], op[p].base)

TryInv == TriesIssued /\ TriesRefused /\ VersionRefused
StoreInv == StoredByTry /\ OKStored /\ StoredOnce
ClerkInv == TryInv /\ StoreInv

LEMMA ClerkInvInit == Init => ClerkInv
  <1> SUFFICES ASSUME Init PROVE ClerkInv
    OBVIOUS
  <1>1. /\ \A o \in Put \cup Get : \A k \in 1..MaxRetry :
             rpc[<<o, k>>].st = "idle" /\ reply[<<o, k>>].err = "none"
        /\ \A o \in Put \cup Get : op[o].st = "idle" /\ op[o].retry = 0
        /\ \A p \in Put : \A i \in Incarnation : applied[p][i] = 0
    BY CallsAreTries DEF Init, LabInit
  <1>2. \A k \in 1..MaxRetry : ~(k < 0)
    BY ClerkAssumption
  <1> QED BY <1>1, <1>2
          DEF ClerkInv, TryInv, StoreInv, TriesIssued, TriesRefused, VersionRefused,
              StoredByTry, OKStored, StoredOnce

(* Steps of the network and of the calls: no reply that arrived and no     *)
(* handler that ran is taken back.                                         *)
LEMMA ClerkInvLab ==
  ASSUME NetInv, ClerkTyped, ClerkInv, UNCHANGED clerkVars,
         UNCHANGED callVars \/ \E c \in Call : CallStep(c)
  PROVE  ClerkInv'
  <1>1. \A d \in Call : /\ rpc[d].st = "idle" => rpc'[d].st = "idle"
                        /\ rpc[d].st = "true" => rpc'[d].st = "true"
                        /\ Ran(d) => Ran(d)'
    <2>1. CASE UNCHANGED callVars
      BY <2>1 DEF callVars, Ran
    <2>2. ASSUME NEW c \in Call, CallStep(c), NEW d \in Call
          PROVE  /\ rpc[d].st = "idle" => rpc'[d].st = "idle"
                 /\ rpc[d].st = "true" => rpc'[d].st = "true"
                 /\ Ran(d) => Ran(d)'
      <3>1. CASE d # c
        BY <2>2, <3>1, CallStepSeen DEF Ran
      <3>2. CASE d = c
        BY <2>2, <3>2, CallStepSeen DEF Ran, Ret, Returned
      <3> QED BY <3>1, <3>2
    <2> QED BY <2>1, <2>2
  <1>2. \A o \in Put \cup Get : op[o].st # "idle" => op[o].retry \in 1..MaxRetry
    BY ClerkAssumption DEF ClerkTyped, OpRecord
  <1>3. TriesIssued' /\ TriesRefused'
    BY <1>1, CallsAreTries DEF ClerkInv, TryInv, TriesIssued, TriesRefused, clerkVars
  <1>4. VersionRefused'
    BY <1>1, <1>2, CallsAreTries DEF ClerkInv, TryInv, VersionRefused, clerkVars
  <1>5. StoredByTry'
    BY <1>1, CallsAreTries DEF ClerkInv, StoreInv, StoredByTry, clerkVars
  <1>6. OKStored' /\ StoredOnce'
    BY DEF ClerkInv, StoreInv, OKStored, StoredOnce, StoredSomewhere, clerkVars
  <1> QED BY <1>3, <1>4, <1>5, <1>6 DEF ClerkInv, TryInv, StoreInv

(* Adding an object keeps what the siblings cover. *)
LEMMA AddKeepsCovered ==
  ASSUME NEW S, Versions(S), NEW o, o.vc \in VClocks, NEW v \in VClocks, Covers(S, v)
  PROVE  Covers(AddObject(S, o), v)
  <1>1. Versions(AddObject(S, o))
    BY DEF Versions, AddObject
  <1>2. \A s \in S : Covers(AddObject(S, o), s.vc)
    BY AddCovers
  <1> QED BY <1>1, <1>2, CoversAll

LEMMA CoversKept ==
  ASSUME ClerkTyped, NEW i \in Incarnation, NEW p \in Put \cup Other, NEW base \in VClocks,
         kv' = [kv EXCEPT ![i] = AddObject(@, [id |-> p, vc |-> Increment(base, Coordinator)])]
  PROVE  /\ \A j \in Incarnation : \A v \in VClocks : Covers(kv[j], v) => Covers(kv'[j], v)
         /\ Covers(kv'[i], base)
  <1> DEFINE new == [id |-> p, vc |-> Increment(base, Coordinator)]
  <1>1. new.vc \in VClocks /\ Leq(base, new.vc)
    BY IncrementAbove, ClerkAssumption
  <1>2. \A j \in Incarnation : Versions(kv[j])
    BY DEF ClerkTyped, Version, Versions
  <1>3. \A j \in Incarnation : kv'[j] = kv[j] \/ kv'[j] = AddObject(kv[j], new)
    BY DEF ClerkTyped
  <1>4. kv'[i] = AddObject(kv[i], new)
    BY DEF ClerkTyped
  <1> HIDE DEF new
  <1>5. \A j \in Incarnation : \A v \in VClocks : Covers(kv[j], v) => Covers(kv'[j], v)
    BY <1>1, <1>2, <1>3, AddKeepsCovered
  <1>6. new \in kv'[i]
    BY <1>4 DEF AddObject
  <1> QED BY <1>1, <1>5, <1>6 DEF Covers

LEMMA OtherPutInv ==
  ASSUME NetInv, ClerkTyped, ClerkInv, NEW p \in others, OtherPut(p)
  PROVE  ClerkInv'
  <1>1. UNCHANGED <<labVars, reply, op, applied>>
    BY DEF OtherPut
  <1>2. TryInv' /\ StoredByTry' /\ OKStored'
    BY <1>1 DEF ClerkInv, TryInv, TriesIssued, TriesRefused, VersionRefused, Ran,
                StoreInv, StoredByTry, OKStored, StoredSomewhere, labVars, callVars
  <1>3. \A j \in Incarnation : \A v \in VClocks : Covers(kv[j], v) => Covers(kv'[j], v)
    BY OtherPutAdds, CoversKept DEF ClerkTyped
  <1>4. \A q \in Put : op[q].base \in VClocks
    BY DEF ClerkTyped, OpRecord
  <1>5. StoredOnce'
    BY <1>1, <1>3, <1>4 DEF ClerkInv, StoreInv, StoredOnce
  <1> QED BY <1>2, <1>5 DEF ClerkInv, StoreInv

(* The handlers: what they do to the reply, the store and the counters. *)
LEMMA HandleInv ==
  ASSUME NetInv, ClerkTyped, ClerkInv, NEW c \in Call, Handle(c)
  PROVE  ClerkInv'
  <1> DEFINE p == c[1]
             k == c[2]
             i == rpc[c].server
  <1>0. p \in Put \cup Get /\ k \in 1..MaxRetry /\ c = <<p, k>>
    BY CallsAreTries
  <1>1. RunHandler(c) /\ UNCHANGED <<op, others>>
    BY DEF Handle, CoordPutRefused, CoordPutStored, CoordGet
  <1>2. /\ \A d \in Call : d # c => handler'[d] = handler[d] /\ reply'[d] = reply[d]
        /\ Ran(c)' /\ ~Ran(c) /\ rpc[c].st \notin {"idle", "true"} /\ rpc' = rpc
    <2>1. \A d \in Call : d # c => reply'[d] = reply[d]
      BY DEF Handle, CoordPutRefused, CoordPutStored, CoordGet, ClerkTyped
    <2> QED BY <1>1, <2>1, RunSeen DEF Ret, Returned
  <1>3. i \in Incarnation
    BY <1>1, HandlerIncarnation DEF RunHandler
  <1>4. \A o \in Put \cup Get : op[o].st # "idle" => op[o].retry \in 1..MaxRetry
    BY ClerkAssumption DEF ClerkTyped, OpRecord
  <1>5. TryInv'
    <2>1. TriesIssued' /\ TriesRefused'
      BY <1>1, <1>2, CallsAreTries DEF ClerkInv, TryInv, TriesIssued, TriesRefused
    <2>2. VersionRefused'
      BY <1>1, <1>2, <1>4, CallsAreTries DEF ClerkInv, TryInv, VersionRefused
    <2> QED BY <2>1, <2>2 DEF TryInv
  <1>6. \A q \in Put : op[q].base \in VClocks
    BY DEF ClerkTyped, OpRecord
  <1>7. CASE CoordPutStored(c)
    <2>1. /\ p \in Put
          /\ kv' = [kv EXCEPT ![i] = AddObject(@, [id |-> p, vc |-> Increment(op[p].base, Coordinator)])]
          /\ applied' = [applied EXCEPT ![p][i] = @ + 1]
          /\ CanBeAddedTo(op[p].base, kv[i])
          /\ reply'[c].err \in {"OK", "ErrWriteQuorumNotMet"}
      BY <1>7 DEF CoordPutStored, ClerkTyped, Reply
    <2>2. /\ \A j \in Incarnation : \A v \in VClocks : Covers(kv[j], v) => Covers(kv'[j], v)
          /\ Covers(kv'[i], op[p].base)
      BY <1>3, <1>6, <2>1, CoversKept
    <2>3. applied[p][i] = 0
      <3>1. Versions(kv[i])
        BY <1>3 DEF ClerkTyped, Version, Versions
      <3>2. ~Covers(kv[i], op[p].base)
        BY <1>6, <2>1, <3>1, CanBeAddedToMeaning
      <3>3. applied[p][i] \in Nat
        BY <1>3, <2>1 DEF ClerkTyped
      <3> QED BY <1>3, <2>1, <3>2, <3>3 DEF ClerkInv, StoreInv, StoredOnce
    <2>4. /\ applied'[p][i] = 1
          /\ \A q \in Put : \A j \in Incarnation :
               <<q, j>> # <<p, i>> => applied'[q][j] = applied[q][j]
      <3>1. applied[p] \in [Incarnation -> Nat]
        BY <2>1 DEF ClerkTyped
      <3> QED BY <1>3, <2>1, <2>3, <3>1 DEF ClerkTyped
    <2>5. op[p].st # "idle"
      <3>1. k <= op[p].retry /\ op[p].retry \in Nat /\ k >= 1 /\ k \in Nat
        BY <1>0, <1>2, ClerkAssumption DEF ClerkInv, TryInv, TriesIssued, ClerkTyped, OpRecord
      <3>2. op[p].retry # 0
        BY <3>1
      <3> QED BY <1>0, <3>2 DEF ClerkTyped
    <2>6. StoredByTry'
      <3> SUFFICES ASSUME NEW q \in Put, NEW j \in Incarnation, applied'[q][j] > 0
                   PROVE  (\E l \in 1..MaxRetry :
                             Ran(<<q, l>>) /\ reply[<<q, l>>].err \in {"OK", "ErrWriteQuorumNotMet"})'
        BY DEF StoredByTry
      <3>1. CASE <<q, j>> = <<p, i>>
        BY <1>0, <1>2, <2>1, <3>1
      <3>2. CASE <<q, j>> # <<p, i>>
        <4>1. PICK l \in 1..MaxRetry :
                Ran(<<q, l>>) /\ reply[<<q, l>>].err \in {"OK", "ErrWriteQuorumNotMet"}
          BY <2>4, <3>2 DEF ClerkInv, StoreInv, StoredByTry
        <4>2. <<q, l>> # c /\ <<q, l>> \in Call
          BY <1>2, <4>1, CallsAreTries
        <4> QED BY <1>2, <4>1, <4>2 DEF Ran
      <3> QED BY <3>1, <3>2
    <2>7. OKStored'
      <3>1. \A q \in Put : StoredSomewhere(q) => StoredSomewhere(q)'
        <4>1. \A j \in Incarnation : \A q \in Put : applied[q][j] > 0 => applied'[q][j] > 0
          BY <2>4
        <4> QED BY <4>1 DEF StoredSomewhere
      <3>2. StoredSomewhere(p)'
        BY <1>3, <2>4 DEF StoredSomewhere
      <3>3. ASSUME NEW q \in Put, NEW l \in 1..MaxRetry, reply'[<<q, l>>].err = "OK"
            PROVE  StoredSomewhere(q)'
        <4>1. CASE <<q, l>> = c
          BY <1>0, <3>2, <4>1
        <4>2. CASE <<q, l>> # c
          BY <1>2, <3>1, <3>3, <4>2, CallsAreTries DEF ClerkInv, StoreInv, OKStored
        <4> QED BY <4>1, <4>2
      <3> QED BY <1>1, <3>1, <3>3 DEF ClerkInv, StoreInv, OKStored
    <2>8. StoredOnce'
      BY <1>1, <1>6, <2>2, <2>4, <2>5 DEF ClerkInv, StoreInv, StoredOnce
    <2> QED BY <1>5, <2>6, <2>7, <2>8 DEF ClerkInv, StoreInv
  <1>8. CASE CoordPutRefused(c) \/ CoordGet(c)
    <2>1. UNCHANGED <<kv, applied>> /\ (p \in Put => reply'[c].err # "OK")
      BY <1>8, ClerkAssumption DEF CoordPutRefused, CoordGet, ClerkTyped, Reply
    <2>2. StoredOnce'
      BY <1>1, <2>1 DEF ClerkInv, StoreInv, StoredOnce
    <2>3. OKStored'
      BY <1>1, <1>2, <2>1, CallsAreTries
         DEF ClerkInv, StoreInv, OKStored, StoredSomewhere
    <2>4. StoredByTry'
      <3>1. \A d \in Call : Ran(d) => Ran(d)' /\ reply'[d] = reply[d]
        BY <1>2 DEF Ran
      <3> QED BY <2>1, <3>1, CallsAreTries DEF ClerkInv, StoreInv, StoredByTry
    <2> QED BY <1>5, <2>2, <2>3, <2>4 DEF ClerkInv, StoreInv
  <1> QED BY <1>7, <1>8 DEF Handle

(* The retry loops.  A new try touches its own call only ... *)
LEMMA IssueInv ==
  ASSUME NetInv, ClerkTyped, ClerkInv, NEW o \in Put \cup Get, Start(o) \/ Retry(o)
  PROVE  ClerkInv'
  <1> DEFINE n == op[o].retry + 1
  <1>0. op[o] \in OpRecord /\ MaxRetry \in Nat /\ MaxRetry >= 1
    BY ClerkAssumption DEF ClerkTyped
  <1>1. op[o].retry \in Nat /\ op[o].retry <= MaxRetry
    BY <1>0 DEF OpRecord
  <1>2. Start(o) => op[o].retry = 0 /\ op[o].st = "idle"
    BY DEF Start, ClerkTyped
  <1>3. n \in 1..MaxRetry /\ Issue(<<o, n>>) /\ <<o, n>> \in Call
    <2>1. n \in 1..MaxRetry /\ Issue(<<o, n>>)
      <3>1. CASE Start(o)
        <4>1. n = 1 /\ 1 \in 1..MaxRetry
          BY <1>0, <1>2, <3>1
        <4>2. Issue(<<o, 1>>)
          BY <3>1 DEF Start
        <4> QED BY <4>1, <4>2
      <3>2. CASE Retry(o)
        <4>1. op[o].retry < MaxRetry /\ Issue(<<o, n>>)
          BY <3>2 DEF Retry
        <4> QED BY <1>0, <1>1, <4>1
      <3> QED BY <3>1, <3>2
    <2> QED BY <2>1, CallsAreTries
  <1>4. /\ \A d \in Call : d # <<o, n>> => rpc'[d] = rpc[d]
        /\ rpc[<<o, n>>].st = "idle" /\ UNCHANGED handler
    BY <1>3, IssueSeen
  <1>5. /\ \A q \in Put \cup Get : q # o => op'[q] = op[q]
        /\ UNCHANGED <<kv, reply, applied, others>>
    BY TypedLoops
  <1>6. op'[o].retry = n /\ op'[o].st = "call"
    <2>1. CASE Start(o)
      <3>1. PICK base :
              op' = [op EXCEPT ![o] = [op[o] EXCEPT !.st = "call", !.retry = 1, !.base = base]]
        BY <2>1 DEF Start
      <3>2. op'[o].retry = 1 /\ op'[o].st = "call"
        BY <1>0, <3>1 DEF ClerkTyped, OpRecord
      <3>3. n = 1
        BY <1>2, <2>1
      <3> QED BY <3>2, <3>3
    <2>2. CASE Retry(o)
      BY <1>0, <2>2 DEF Retry, ClerkTyped, OpRecord
    <2> QED BY <2>1, <2>2
  <1>7. \A q \in Put \cup Get : op[q].st # "idle" => op[q].retry \in 1..MaxRetry
    BY ClerkAssumption DEF ClerkTyped, OpRecord
  <1>8. TriesIssued'
    <2>1. ASSUME NEW q \in Put \cup Get, NEW k \in 1..MaxRetry, rpc'[<<q, k>>].st # "idle"
          PROVE  k <= op'[q].retry
      <3>1. CASE <<q, k>> = <<o, n>>
        BY <1>1, <1>6, <3>1
      <3>2. CASE <<q, k>> # <<o, n>>
        <4>1. k <= op[q].retry
          BY <1>4, <2>1, <3>2, CallsAreTries DEF ClerkInv, TryInv, TriesIssued
        <4> QED BY <1>0, <1>1, <1>5, <1>6, <4>1
      <3> QED BY <3>1, <3>2
    <2> QED BY <2>1 DEF TriesIssued
  <1>9. TriesRefused'
    <2>1. ASSUME NEW p \in Put, NEW k \in 1..MaxRetry, k < op'[p].retry, ~op'[p].failed
          PROVE  rpc'[<<p, k>>].st = "true" /\ reply'[<<p, k>>].err = "ErrNotCoordinator"
      <3>1. CASE p # o
        <4>1. rpc[<<p, k>>].st = "true" /\ reply[<<p, k>>].err = "ErrNotCoordinator"
          BY <1>5, <2>1, <3>1 DEF ClerkInv, TryInv, TriesRefused
        <4> QED BY <1>4, <1>5, <3>1, <4>1, CallsAreTries
      <3>2. CASE p = o
        <4>1. Retry(o) /\ k <= op[o].retry /\ k # n
          BY <1>0, <1>1, <1>2, <1>6, <2>1, <3>2
        <4>2. ~op[o].failed /\ rpc[<<o, op[o].retry>>].st # "false"
          <5>1. op'[o].failed = (op[o].failed \/ rpc[<<o, op[o].retry>>].st = "false")
            BY <4>1 DEF Retry, ClerkTyped, OpRecord
          <5> QED BY <2>1, <3>2, <5>1
        <4>3. rpc[<<o, k>>].st = "true" /\ reply[<<o, k>>].err = "ErrNotCoordinator"
          <5>1. CASE k = op[o].retry
            BY <4>1, <4>2, <5>1 DEF Retry
          <5>2. CASE k < op[o].retry
            BY <2>1, <3>2, <4>2, <5>2 DEF ClerkInv, TryInv, TriesRefused
          <5> QED BY <1>0, <1>1, <4>1, <5>1, <5>2
        <4> QED BY <1>4, <1>5, <3>2, <4>1, <4>3, CallsAreTries
      <3> QED BY <3>1, <3>2
    <2> QED BY <2>1 DEF TriesRefused
  <1>10. VersionRefused'
    <2>1. ASSUME NEW p \in Put, op'[p].st = "ErrVersion"
          PROVE  p # o /\ op[p].st = "ErrVersion" /\ op'[p] = op[p]
                 /\ rpc'[<<p, op[p].retry>>] = rpc[<<p, op[p].retry>>]
      BY <1>4, <1>5, <1>6, <1>7, <2>1, CallsAreTries
    <2> QED BY <1>5, <2>1 DEF ClerkInv, TryInv, VersionRefused
  <1>11. StoredByTry'
    BY <1>4, <1>5 DEF ClerkInv, StoreInv, StoredByTry, Ran
  <1>12. OKStored'
    BY <1>5, <1>6 DEF ClerkInv, StoreInv, OKStored, StoredSomewhere
  <1>13. StoredOnce'
    <2>1. CASE Start(o)
      BY <1>2, <1>5, <2>1 DEF ClerkInv, StoreInv, StoredOnce
    <2>2. CASE Retry(o)
      <3>1. op'[o].base = op[o].base
        BY <2>2 DEF Retry, ClerkTyped, OpRecord
      <3> QED BY <1>5, <1>6, <3>1 DEF ClerkInv, StoreInv, StoredOnce
    <2> QED BY <2>1, <2>2
  <1> QED BY <1>8, <1>9, <1>10, <1>11, <1>12, <1>13 DEF ClerkInv, TryInv, StoreInv

(* ... and a loop that ends touches its operation only. *)
LEMMA ReturnInv ==
  ASSUME NetInv, ClerkTyped, ClerkInv, NEW o \in Put \cup Get,
         (o \in Put /\ PutReturns(o)) \/ (o \in Get /\ GetReturns(o))
  PROVE  ClerkInv'
  <1>1. /\ \A q \in Put \cup Get : q # o => op'[q] = op[q]
        /\ UNCHANGED <<kv, reply, applied, others>>
        /\ ClerkTyped'
    BY TypedLoops
  <1>2. UNCHANGED callVars
    BY DEF PutReturns, GetReturns, Finish, callVars
  <1>3. /\ op'[o].retry = op[o].retry /\ op'[o].failed = op[o].failed
        /\ op'[o].base = op[o].base /\ op'[o].st # "idle"
    <2>1. /\ op'[o].retry = op[o].retry /\ op'[o].failed = op[o].failed
          /\ op'[o].base = op[o].base
      <3>1. op[o] \in OpRecord
        BY DEF ClerkTyped
      <3>2. CASE \E err : op' = [op EXCEPT ![o].st = err]
        BY <3>1, <3>2 DEF ClerkTyped, OpRecord
      <3>3. CASE \E err, objs : op' = [op EXCEPT ![o] = [op[o] EXCEPT !.st = err, !.objs = objs]]
        <4>1. PICK err, objs : op' = [op EXCEPT ![o] = [op[o] EXCEPT !.st = err, !.objs = objs]]
          BY <3>3
        <4>2. op'[o] = [op[o] EXCEPT !.st = err, !.objs = objs]
          BY <4>1 DEF ClerkTyped
        <4> QED BY <3>1, <4>2 DEF OpRecord
      <3>4. CASE PutReturns(o)
        BY <3>2, <3>4 DEF PutReturns, Finish
      <3>5. CASE GetReturns(o)
        <4> DEFINE objs == reply[<<o, op[o].retry>>].objs
                   st == IF objs = {} THEN "ErrNoKey" ELSE "OK"
        <4>1. \/ op' = [op EXCEPT ![o] = [op[o] EXCEPT !.st = st, !.objs = objs]]
              \/ \E err : op' = [op EXCEPT ![o].st = err]
          BY <3>5 DEF GetReturns, Finish
        <4> HIDE DEF objs, st
        <4> QED BY <3>2, <3>3, <4>1
      <3> QED BY <3>4, <3>5
    <2>2. op[o].retry # 0
      BY DEF PutReturns, GetReturns, ClerkTyped
    <2>3. op'[o].retry = 0 <=> op'[o].st = "idle"
      BY <1>1 DEF ClerkTyped
    <2> QED BY <2>1, <2>2, <2>3
  <1>4. o \in Put => PutReturns(o)
    BY ClerkAssumption
  <1>5. o \in Put /\ op'[o].st \in {"OK", "ErrVersion"} =>
          /\ rpc[<<o, op[o].retry>>].st = "true"
          /\ reply[<<o, op[o].retry>>].err = op'[o].st
          /\ op'[o].st = "ErrVersion" => ~op[o].failed
          /\ op[o].retry \in 1..MaxRetry
    <2>1. o \in Put => op[o].st = "call" /\ op[o].retry \in 1..MaxRetry
      BY <1>4, ClerkAssumption DEF PutReturns, ClerkTyped, OpRecord
    <2> QED BY <1>4, <2>1 DEF PutReturns, Finish, PutErr, ClerkTyped, OpRecord
  <1>6. TriesIssued' /\ TriesRefused'
    BY <1>1, <1>2, <1>3 DEF ClerkInv, TryInv, TriesIssued, TriesRefused, callVars
  <1>7. VersionRefused'
    BY <1>1, <1>2, <1>3, <1>5 DEF ClerkInv, TryInv, VersionRefused, callVars
  <1>8. StoredByTry'
    BY <1>1, <1>2 DEF ClerkInv, StoreInv, StoredByTry, Ran, callVars
  <1>9. OKStored'
    BY <1>1, <1>5 DEF ClerkInv, StoreInv, OKStored, StoredSomewhere
  <1>10. StoredOnce'
    BY <1>1, <1>3 DEF ClerkInv, StoreInv, StoredOnce
  <1> QED BY <1>6, <1>7, <1>8, <1>9, <1>10 DEF ClerkInv, TryInv, StoreInv

LEMMA ClerkInvNext ==
  ASSUME NetInv, ClerkTyped, ClerkInv, [Next]_vars
  PROVE  ClerkInv'
  <1>1. CASE UNCHANGED vars
    BY <1>1, ClerkInvLab DEF vars, labVars
  <1>2. CASE NetworkStep /\ UNCHANGED clerkVars
    <2>1. UNCHANGED callVars
      BY <1>2 DEF NetworkStep, DeleteEnd, Enable, DeleteServer, AddServer, Reliable, Cleanup
    <2> QED BY <1>2, <2>1, ClerkInvLab
  <1>3. CASE \E c \in Call : CallStep(c) /\ UNCHANGED clerkVars
    BY <1>3, ClerkInvLab
  <1>4. CASE \E c \in Call : Handle(c)
    BY <1>4, HandleInv
  <1>5. CASE \E p \in others : OtherPut(p)
    BY <1>5, OtherPutInv
  <1>6. CASE \E o \in Put \cup Get : Start(o) \/ Retry(o)
    BY <1>6, IssueInv
  <1>7. CASE \E p \in Put : PutReturns(p)
    BY <1>7, ReturnInv
  <1>8. CASE \E g \in Get : GetReturns(g)
    BY <1>8, ReturnInv
  <1> QED BY <1>1, <1>2, <1>3, <1>4, <1>5, <1>6, <1>7, <1>8 DEF Next

LEMMA ClerkInvHolds == Spec => [](NetInv /\ ClerkTyped /\ ClerkInv)
  <1>1. NetInv /\ ClerkTyped /\ ClerkInv /\ [Next]_vars => ClerkInv'
    BY ClerkInvNext
  <1> QED BY <1>1, ClerkInvInit, Bounded, PTL DEF Spec

(* A put that Clerk.Put (client.go) tries again, or whose earlier handler   *)
(* runs late, is stored at most once by each incarnation of its server,     *)
(* for every number of tries and every order of the network's operations.   *)
THEOREM TriesApplyOnce == Spec => []RetriesApplyOnce
  <1>1. ClerkInv => RetriesApplyOnce
    BY DEF ClerkInv, StoreInv, StoredOnce, RetriesApplyOnce
  <1> QED BY <1>1, ClerkInvHolds, PTL

(* What Clerk.Put reports is true: after OK the put is stored at some       *)
(* incarnation, after ErrVersion it is at none.  The second needs all the   *)
(* tries: the last one was refused, and no earlier one can have stored it,  *)
(* since no call failed.                                                    *)
THEOREM ClerksTellTruth == Spec => []ClerkTellsTruth
  <1>1. ASSUME NetInv, ClerkTyped, ClerkInv PROVE ClerkTellsTruth
    <2>1. ASSUME NEW p \in Put, op[p].st = "ErrVersion", NEW i \in Incarnation
          PROVE  applied[p][i] = 0
      <3>1. SUFFICES ASSUME applied[p][i] > 0 PROVE FALSE
        <4>1. applied[p][i] \in Nat
          BY <1>1 DEF ClerkTyped
        <4> QED BY <4>1
      <3>2. PICK k \in 1..MaxRetry :
              Ran(<<p, k>>) /\ reply[<<p, k>>].err \in {"OK", "ErrWriteQuorumNotMet"}
        BY <1>1, <3>1 DEF ClerkInv, StoreInv, StoredByTry
      <3>3. ~op[p].failed /\ reply[<<p, op[p].retry>>].err = "ErrVersion"
        BY <1>1, <2>1 DEF ClerkInv, TryInv, VersionRefused
      <3>4. rpc[<<p, k>>].st # "idle"
        <4>1. <<p, k>> \in Call
          BY CallsAreTries
        <4> QED BY <1>1, <3>2, <4>1 DEF NetInv, CallShape, Ran
      <3>5. k <= op[p].retry
        BY <1>1, <3>4 DEF ClerkInv, TryInv, TriesIssued
      <3>6. k < op[p].retry => reply[<<p, k>>].err = "ErrNotCoordinator"
        BY <1>1, <3>3 DEF ClerkInv, TryInv, TriesRefused
      <3>7. op[p].retry \in Nat /\ MaxRetry \in Nat
        BY <1>1, ClerkAssumption DEF ClerkTyped, OpRecord
      <3> QED BY <3>2, <3>3, <3>5, <3>6, <3>7
    <2>2. \A p \in Put : op[p].st = "OK" => \E i \in Incarnation : applied[p][i] > 0
      BY <1>1 DEF ClerkInv, StoreInv, OKStored, StoredSomewhere
    <2> QED BY <2>1, <2>2 DEF ClerkTellsTruth
  <1> QED BY <1>1, ClerkInvHolds, PTL

=============================================================================
