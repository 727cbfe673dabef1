------------------------------- MODULE Dynamo -------------------------------
(***************************************************************************)
(* The data plane of one key: coordinators (server.go CoordPut, CoordGet), *)
(* replicas (ReplicaPut, ReplicaGet), hinted handoff (hinted_handoff.go),  *)
(* read repair (readrepair.go) and the merge half of anti-entropy          *)
(* (anti_entropy.go), over an RPC layer that may lose a request, lose a    *)
(* reply, or report failure while the handler still runs (labrpc.go).      *)
(*                                                                         *)
(* Keys never interact: every handler works on one key and kv.mu is held   *)
(* per handler, so one key is the whole story.  Operations are named by    *)
(* the sets Put, Get and Round (anti-entropy exchanges), which bound how   *)
(* many an instance performs.                                              *)
(***************************************************************************)
EXTENDS Siblings, Sequences, FiniteSets

CONSTANTS
  Node,                  \* the servers, numbered in the order of their IDs
  Pref,                  \* ring.GetPreferenceList(key): a sequence of servers
  WriteQuorum,           \* kv.writeQuorum
  ReadQuorum,            \* kv.readQuorum
  Put, Get, Round,       \* the client puts, the client gets, the exchanges
  Writer,                \* Writer[p]: the clock label of the client that issues p
  HintedHandoffEnabled,  \* kv.hintedHandoffEnabled
  ReadRepairEnabled,     \* kv.readRepairEnabled
  Watched,               \* <<n, m>>: n may change its opinion of m's status
  Flaky,                 \* servers to which calls may fail
  Coord                  \* Coord[op]: the servers the client of a put or get may call

Replica == {Pref[i] : i \in DOMAIN Pref}

ASSUME DynamoAssumption ==
  /\ Node \subseteq Name /\ Node \subseteq Nat /\ IsFiniteSet(Node)
  /\ Pref \in Seq(Node)
  /\ \A i, j \in DOMAIN Pref : Pref[i] = Pref[j] => i = j
  /\ WriteQuorum \in Nat /\ ReadQuorum \in Nat
  /\ Put \cap Get = {} /\ Get \cap Round = {} /\ Round \cap Put = {}
  /\ Writer \in [Put -> Name]
  /\ HintedHandoffEnabled \in BOOLEAN /\ ReadRepairEnabled \in BOOLEAN
  /\ Watched \subseteq Node \X Node
  /\ Flaky \subseteq Node
  /\ Coord \in [Put \cup Get -> SUBSET Node]

VARIABLES
  kv,        \* kv[n]: the siblings of the key at n, {} when the key is absent
  hints,     \* hints[n]: the pairs <<put, target>> n holds for other servers
  status,    \* status[n][m]: kv.members[m].Status at n
  put,       \* put[p]: arguments, plan and outcome of the CoordPut that runs p
  call,      \* call[p][t]: what the coordinator of p knows of its call for t
  inflight,  \* forwarded puts <<p, t>> whose handler has not run yet
  get,       \* get[g]: the CoordGet that runs g
  res,       \* res[g][s]: the result of g's call to s, "read" when consumed
  job,       \* job[g]: the read repair job g scheduled
  repairs,   \* RepairPut requests under way
  frame,     \* merges computed by mergeObjectsCore and not yet installed
  round      \* round[r]: the anti-entropy exchange r

vars == <<kv, hints, status, put, call, inflight, get, res, job, repairs, frame, round>>
putVars == <<put, call, inflight>>
getVars == <<get, res, job>>
repairVars == <<repairs, frame, round>>

Object == [id : Put, vc : VClocks]
Status == {"Alive", "Suspect", "Dead"}
PutErr == {"OK", "ErrVersion", "ErrNoKey", "ErrWriteQuorumNotMet", "ErrNotCoordinator"}
GetErr == {"OK", "ErrNoKey", "ErrReadQuorumNotMet", "ErrNotCoordinator"}
Plan == UNION {[S -> Node] : S \in SUBSET Replica}

PutRecord == [st : {"idle", "wait"} \cup PutErr, base : VClocks, obj : Object, plan : Plan]
CallState == {"none", "sent", "false", "OK", "ErrVersion", "ErrNoKey"}
GetRecord == [st : {"idle", "wait"} \cup GetErr, coord : Nat, objs : SUBSET Object,
              canon : SUBSET Object, acked : SUBSET Put]
Result == [st : {"none", "sent", "got", "read", "false"}, objs : SUBSET Object]
RepairArgs == [op : Get \cup Round, to : Replica, objs : SUBSET Object]
MergeFrame == [op : Get \cup Round, at : Replica, merged : SUBSET Object]
Exchange == [st : {"idle", "pulled", "done"}, node : Nat, peer : Nat, objs : SUBSET Object]

NoCalls == [t \in Replica |-> "none"]
NoResults == [s \in Replica |-> [st |-> "none", objs |-> {}]]

Init ==
  /\ kv = [n \in Node |-> {}]
  /\ hints = [n \in Node |-> {}]
  /\ status = [n \in Node |-> [m \in Node |-> "Alive"]]
  /\ put = [p \in Put |-> [st |-> "idle", base |-> NewVClock,
                           obj |-> [id |-> p, vc |-> NewVClock],
                           plan |-> [t \in {} |-> t]]]
  /\ call = [p \in Put |-> NoCalls]
  /\ inflight = {}
  /\ get = [g \in Get |-> [st |-> "idle", coord |-> 0, objs |-> {}, canon |-> {},
                           acked |-> {}]]
  /\ res = [g \in Get |-> NoResults]
  /\ job = [g \in Get |-> "none"]
  /\ repairs = {}
  /\ frame = {}
  /\ round = [r \in Round |-> [st |-> "idle", node |-> 0, peer |-> 0, objs |-> {}]]

-----------------------------------------------------------------------------
(* Membership as the data plane sees it: any opinion n holds of m may       *)
(* change at any time (mergeMembers, detectMemberFailures, UpdateMemberInfo *)
(* of membership.go).                                                       *)
MemberChange(n, m, s) ==
  /\ <<n, m>> \in Watched
  /\ status[n][m] # s
  /\ status' = [status EXCEPT ![n][m] = s]
  /\ UNCHANGED <<kv, hints, putVars, getVars, repairVars>>

-----------------------------------------------------------------------------
(* Clients.  A context comes from NewContext, from an acknowledged put or   *)
(* from the objects of a read, and is passed as it is or with the writer's  *)
(* own label bumped.                                                        *)
Contexts ==
  {NewVClock} \cup {put[p].obj.vc : p \in {q \in Put : put[q].st = "OK"}}
              \cup {o.vc : o \in UNION {get[g].objs : g \in Get}}

BaseContexts(p) == Contexts \cup {Increment(v, Writer[p]) : v \in Contexts}

-----------------------------------------------------------------------------
(* CoordPut. *)

(* chooseHandoffNode returns the first candidate in ID order that is not    *)
(* used yet, so the k-th dead replica of the preference list gets the k-th  *)
(* live server outside the list, as long as there is one.                   *)
HandoffNode(c, t) ==
  LET candidates == {n \in Node \ Replica : status[c][n] # "Dead"}
      deadBefore == {i \in DOMAIN Pref :
                       /\ status[c][Pref[i]] = "Dead"
                       /\ \E j \in DOMAIN Pref : i < j /\ Pref[j] = t}
  IN  {n \in candidates :
         Cardinality({m \in candidates : m < n}) = Cardinality(deadBefore)}

(* The put plans of coordinator c: replica -> server the put is sent to. *)
Plans(c) ==
  LET direct == {t \in Replica : status[c][t] # "Dead"}
      handed == {t \in Replica \ direct : HintedHandoffEnabled /\ HandoffNode(c, t) # {}}
  IN  [t \in direct \cup handed |->
         IF t \in direct THEN t ELSE CHOOSE n \in HandoffNode(c, t) : TRUE]

CoordPut(p, c, base) ==
  /\ put[p].st = "idle"
  /\ \A q \in Put : Writer[q] = Writer[p] => put[q].st # "wait"
  /\ LET plan == Plans(c)
         returns(err) == /\ put' = [put EXCEPT ![p].st = err]
                         /\ UNCHANGED <<call, inflight>>
     IN  IF c \notin Replica THEN returns("ErrNotCoordinator")
         ELSE IF Cardinality(DOMAIN plan) < WriteQuorum
         THEN returns("ErrWriteQuorumNotMet")
         ELSE /\ put' = [put EXCEPT ![p] =
                           [st |-> "wait", base |-> base, plan |-> plan,
                            obj |-> [id |-> p, vc |-> Increment(base, c)]]]
              /\ call' = [call EXCEPT ![p] =
                            [t \in Replica |-> IF t \in DOMAIN plan THEN "sent" ELSE "none"]]
              /\ inflight' = inflight \cup {<<p, t>> : t \in DOMAIN plan}
  /\ UNCHANGED <<kv, hints, status, getVars, repairVars>>

(* The handler's reply reaches the coordinator, unless it has given the     *)
(* call up already or the reply is lost.                                    *)
Replied(p, t, err) ==
  /\ inflight' = inflight \ {<<p, t>>}
  /\ \E e \in {err} \cup (IF put[p].plan[t] \in Flaky THEN {"false"} ELSE {}) :
       call' = [call EXCEPT ![p][t] = IF @ = "sent" THEN e ELSE @]

(* MUTANT of ReplicaPutErr: a stale base is accepted. *)
ReplicaPutErrUnchecked(siblings, args) ==
  IF siblings = {} /\ ~IsInitial(args.base) THEN "ErrNoKey" ELSE "OK"

(* MUTANT of ReplicaPutErr: a missing key is reported as a version conflict. *)
ReplicaPutErrNoKeyAsVersion(siblings, args) ==
  IF (siblings = {} /\ ~IsInitial(args.base)) \/ ~CanBeAddedTo(args.base, siblings)
  THEN "ErrVersion" ELSE "OK"

(* ReplicaPut's verdict and its effect on the siblings: the base context is *)
(* what is compared, the object is what is stored.                          *)
ReplicaPutErr(siblings, args) ==
  IF siblings = {} /\ ~IsInitial(args.base) THEN "ErrNoKey"
  ELSE IF ~CanBeAddedTo(args.base, siblings) THEN "ErrVersion"
  ELSE "OK"

ReplicaPutStore(siblings, args) ==
  IF ReplicaPutErr(siblings, args) = "OK" THEN AddObject(siblings, args.obj) ELSE siblings

ReplicaPut(p, t) ==
  /\ <<p, t>> \in inflight
  /\ put[p].plan[t] = t
  /\ kv' = [kv EXCEPT ![t] = ReplicaPutStore(@, put[p])]
  /\ Replied(p, t, ReplicaPutErr(kv[t], put[p]))
  /\ UNCHANGED <<put, hints, status, getVars, repairVars>>

HintedPut(p, t) ==
  /\ <<p, t>> \in inflight
  /\ put[p].plan[t] # t
  /\ hints' = [hints EXCEPT ![put[p].plan[t]] = @ \cup {<<p, t>>}]
  /\ Replied(p, t, "OK")
  /\ UNCHANGED <<put, kv, status, getVars, repairVars>>

(* MUTANT of PutCallFails: the failed call is reported with an empty error. *)
PutCallFailsUnmarked(p, t) ==
  /\ <<p, t>> \in inflight
  /\ put[p].plan[t] \in Flaky
  /\ call[p][t] = "sent"
  /\ call' = [call EXCEPT ![p][t] = ""]
  /\ inflight' \in {inflight, inflight \ {<<p, t>>}}
  /\ UNCHANGED <<put, kv, hints, status, getVars, repairVars>>

(* Call returns false: the request was dropped, or the server was cut off   *)
(* and its handler runs later.                                              *)
PutCallFails(p, t) ==
  /\ <<p, t>> \in inflight
  /\ put[p].plan[t] \in Flaky
  /\ call[p][t] = "sent"
  /\ call' = [call EXCEPT ![p][t] = "false"]
  /\ inflight' \in {inflight, inflight \ {<<p, t>>}}
  /\ UNCHANGED <<put, kv, hints, status, getVars, repairVars>>

(* A request whose caller no longer waits may also never run. *)
LateRequestLost(p, t) ==
  /\ <<p, t>> \in inflight
  /\ put[p].plan[t] \in Flaky
  /\ call[p][t] # "sent"
  /\ inflight' = inflight \ {<<p, t>>}
  /\ UNCHANGED <<put, call, kv, hints, status, getVars, repairVars>>

(* MUTANT of Results: a version conflict counts as an acknowledgement. *)
ResultsOrConflicts(p, err) ==
  Cardinality({t \in Replica : call[p][t] \in {err, "ErrVersion"}})

(* MUTANT of Results: a failed call never delivers its result. *)
ResultsUndelivered(p, err) ==
  Cardinality({t \in Replica : call[p][t] = err \/ (err = "sent" /\ call[p][t] = "false")})

Results(p, err) == Cardinality({t \in Replica : call[p][t] = err})

(* OK as soon as W calls succeeded; otherwise the errors are classified     *)
(* when every call has returned.  Results that come later are drained       *)
(* unread, though their requests still run.                                 *)
CoordPutReturn(p) ==
  /\ put[p].st = "wait"
  /\ \/ /\ Results(p, "OK") >= WriteQuorum
        /\ put' = [put EXCEPT ![p].st = "OK"]
     \/ /\ Results(p, "OK") < WriteQuorum
        /\ Results(p, "sent") = 0
        /\ put' = [put EXCEPT ![p].st =
                     IF Results(p, "ErrVersion") >= WriteQuorum THEN "ErrVersion"
                     ELSE IF Results(p, "ErrNoKey") >= WriteQuorum THEN "ErrNoKey"
                     ELSE "ErrWriteQuorumNotMet"]
  /\ call' = [call EXCEPT ![p] = NoCalls]
  /\ UNCHANGED <<inflight, kv, hints, status, getVars, repairVars>>

-----------------------------------------------------------------------------
(* removeHint: the hint of the same put for the same target. *)
RemoveHint(h, p, t) == hints' = [hints EXCEPT ![h] = @ \ {<<p, t>>}]

(* MUTANT of ReplayHint: the hint is dropped whatever the target answers. *)
ReplayHintOnce(h, p, t) ==
  /\ <<p, t>> \in hints[h]
  /\ status[h][t] = "Alive"
  /\ kv' = [kv EXCEPT ![t] = ReplicaPutStore(@, put[p])]
  /\ RemoveHint(h, p, t)
  /\ UNCHANGED <<putVars, status, getVars, repairVars>>

(* MUTANT of ReplayHint: removeHint never finds its match. *)
ReplayHintKept(h, p, t) ==
  /\ <<p, t>> \in hints[h]
  /\ status[h][t] = "Alive"
  /\ kv' = [kv EXCEPT ![t] = ReplicaPutStore(@, put[p])]
  /\ UNCHANGED <<hints, putVars, status, getVars, repairVars>>

(* Hinted handoff: holder h resends a hint to a target it believes alive    *)
(* and removes it if the reply comes back and says OK.  The call is         *)
(* synchronous, so sending and executing it are one step; a call that ends  *)
(* in "false" without running the handler changes nothing.                  *)
ReplayHint(h, p, t) ==
  /\ <<p, t>> \in hints[h]
  /\ status[h][t] = "Alive"
  /\ kv' = [kv EXCEPT ![t] = ReplicaPutStore(@, put[p])]
  /\ \/ ReplicaPutErr(kv[t], put[p]) = "OK" /\ RemoveHint(h, p, t)
     \/ /\ ReplicaPutErr(kv[t], put[p]) # "OK" \/ t \in Flaky
        /\ UNCHANGED hints
  /\ UNCHANGED <<putVars, status, getVars, repairVars>>

-----------------------------------------------------------------------------
(* CoordGet and ReplicaGet. *)
CoordGet(g, c) ==
  /\ get[g].st = "idle"
  /\ LET live == {s \in Replica : status[c][s] # "Dead"}
         returns(err) == /\ get' = [get EXCEPT ![g].st = err]
                         /\ UNCHANGED res
     IN  IF c \notin Replica THEN returns("ErrNotCoordinator")
         ELSE IF Cardinality(live) < ReadQuorum THEN returns("ErrReadQuorumNotMet")
         ELSE /\ get' = [get EXCEPT ![g] =
                           [st |-> "wait", coord |-> c, objs |-> {}, canon |-> {},
                            acked |-> {p \in Put : put[p].st = "OK"}]]
              /\ res' = [res EXCEPT ![g] =
                           [s \in Replica |->
                              [st |-> IF s \in live THEN "sent" ELSE "none", objs |-> {}]]]
  /\ UNCHANGED <<job, kv, hints, status, putVars, repairVars>>

ReplicaGet(g, s) ==
  /\ res[g][s].st = "sent"
  /\ res' = [res EXCEPT ![g][s] = [st |-> "got", objs |-> kv[s]]]
  /\ UNCHANGED <<get, job, kv, hints, status, putVars, repairVars>>

GetCallFails(g, s) ==
  /\ res[g][s].st = "sent"
  /\ s \in Flaky
  /\ res' = [res EXCEPT ![g][s].st = "false"]
  /\ UNCHANGED <<get, job, kv, hints, status, putVars, repairVars>>

(* The read g returns with the answer of s.  scheduleReadRepair hands the   *)
(* results to a new job, which takes the place of one its server has not    *)
(* given to a worker yet; results nobody wants are drained unread.          *)
ScheduleReadRepair(g, s) ==
  LET superseded == {h \in Get : job[h] = "coalesced" /\ get[h].coord = get[g].coord}
  IN  IF ReadRepairEnabled
      THEN /\ job' = [h \in Get |-> IF h = g THEN "coalesced"
                                   ELSE IF h \in superseded THEN "dropped" ELSE job[h]]
           /\ res' = [h \in Get |-> IF h = g THEN [res[g] EXCEPT ![s].st = "read"]
                                   ELSE IF h \in superseded THEN NoResults ELSE res[h]]
      ELSE /\ UNCHANGED job
           /\ res' = [res EXCEPT ![g] = NoResults]

(* One turn of CoordGet's loop: a result is taken from the channel, and the *)
(* read returns with the R-th success or the R-th ErrNoKey.  The repair job *)
(* of an ErrNoKey read starts without canonical siblings.                   *)
CoordGetReceive(g, s) ==
  /\ get[g].st = "wait"
  /\ res[g][s].st = "got"
  /\ LET noKey == res[g][s].objs = {}
         alike == {t \in Replica :
                     t = s \/ (res[g][t].st = "read" /\ (res[g][t].objs = {} <=> noKey))}
         siblings == MergeObjects(get[g].canon, res[g][s].objs)
     IN  IF Cardinality(alike) < ReadQuorum
         THEN /\ get' = [get EXCEPT ![g].canon = siblings]
              /\ res' = [res EXCEPT ![g][s].st = "read"]
              /\ UNCHANGED job
         ELSE /\ get' = [get EXCEPT ![g] =
                           IF noKey THEN [@ EXCEPT !.st = "ErrNoKey", !.canon = {}]
                           ELSE [@ EXCEPT !.st = "OK", !.objs = siblings, !.canon = siblings]]
              /\ ScheduleReadRepair(g, s)
  /\ UNCHANGED <<kv, hints, status, putVars, repairVars>>

(* MUTANT of Pending: a failed call never delivers its result. *)
PendingOrFailed(g) == {s \in Replica : res[g][s].st \in {"sent", "got", "false"}}

Pending(g) == {s \in Replica : res[g][s].st \in {"sent", "got"}}

CoordGetExhausted(g) ==
  /\ get[g].st = "wait"
  /\ Pending(g) = {}
  /\ get' = [get EXCEPT ![g] = [@ EXCEPT !.st = "ErrReadQuorumNotMet", !.canon = {}]]
  /\ res' = [res EXCEPT ![g] = NoResults]
  /\ UNCHANGED <<job, kv, hints, status, putVars, repairVars>>

-----------------------------------------------------------------------------
(* Read repair. *)

(* The coalesce timer fires, the job is queued and a worker takes it. *)
StartRepairJob(g) ==
  /\ job[g] = "coalesced"
  /\ job' = [job EXCEPT ![g] = "running"]
  /\ UNCHANGED <<get, res, kv, hints, status, putVars, repairVars>>

(* finishCoordGetReadRepair: the results CoordGet did not wait for ... *)
CollectResult(g, s) ==
  /\ job[g] = "running"
  /\ res[g][s].st = "got"
  /\ res' = [res EXCEPT ![g][s].st = "read"]
  /\ get' = [get EXCEPT ![g].canon = MergeObjects(@, res[g][s].objs)]
  /\ UNCHANGED <<job, kv, hints, status, putVars, repairVars>>

(* MUTANT of StaleReplicas: a replica without the key is not repaired. *)
StaleReplicasWithKey(g) ==
  {s \in Replica : res[g][s].st = "read" /\ res[g][s].objs \notin {{}, get[g].canon}}

StaleReplicas(g) ==
  {s \in Replica : res[g][s].st = "read" /\ res[g][s].objs # get[g].canon}

(* ... and then a RepairPut to every replica that answered otherwise. *)
RepairReplicas(g) ==
  /\ job[g] = "running"
  /\ Pending(g) = {}
  /\ job' = [job EXCEPT ![g] = "done"]
  /\ repairs' = IF get[g].canon = {} THEN repairs
                ELSE repairs \cup {[op |-> g, to |-> s, objs |-> get[g].canon] :
                                     s \in StaleReplicas(g)}
  /\ UNCHANGED <<get, res, frame, round, kv, hints, status, putVars>>

(* MUTANT of Changes: a merge is skipped unless every incoming object is new. *)
ChangesIfAllNew(n, incoming) == \A o \in incoming : CanBeAddedTo(o.vc, kv[n])

(* mergeObjectsCore up to the point where it releases kv.mu: the merged     *)
(* list, to be installed in a second critical section if it differs.        *)
Changes(n, incoming) == \E o \in incoming : CanBeAddedTo(o.vc, kv[n])

MergeFrames(op, n, incoming) ==
  IF Changes(n, incoming)
  THEN {[op |-> op, at |-> n, merged |-> MergeObjects(kv[n], incoming)]}
  ELSE {}

RepairPut(m) ==
  /\ m \in repairs
  /\ repairs' = repairs \ {m}
  /\ frame' = frame \cup MergeFrames(m.op, m.to, m.objs)
  /\ UNCHANGED <<round, kv, hints, status, putVars, getVars>>

RepairPutFails(m) ==
  /\ m \in repairs
  /\ m.to \in Flaky
  /\ repairs' = repairs \ {m}
  /\ UNCHANGED <<frame, round, kv, hints, status, putVars, getVars>>

-----------------------------------------------------------------------------
(* Anti-entropy between two replicas whose Merkle trees differ.  The trees  *)
(* are refreshed apart from the data, so whether they differ is left open.  *)

(* Reconcile and RepairGetDiff: node receives its peer's siblings. *)
RepairGetDiff(r, node, peer) ==
  /\ round[r].st = "idle"
  /\ node # peer
  /\ kv[peer] # {}
  /\ round' = [round EXCEPT ![r] =
                 [st |-> "pulled", node |-> node, peer |-> peer, objs |-> kv[peer]]]
  /\ UNCHANGED <<repairs, frame, kv, hints, status, putVars, getVars>>

PushBack(r, merged) == [op |-> r, to |-> round[r].peer, objs |-> merged]

(* ApplyDiff: merge what came back; if nothing changes, the node's own      *)
(* siblings are pushed to the peer at once, otherwise after the install.    *)
ApplyDiff(r) ==
  /\ round[r].st = "pulled"
  /\ round' = [round EXCEPT ![r].st = "done"]
  /\ LET n == round[r].node
     IN  /\ frame' = frame \cup MergeFrames(r, n, round[r].objs)
         /\ repairs' = IF Changes(n, round[r].objs) THEN repairs
                       ELSE repairs \cup {PushBack(r, kv[n])}
  /\ UNCHANGED <<kv, hints, status, putVars, getVars>>

(* installObjects: the second critical section of a merge, overwriting the  *)
(* siblings with what the first one computed.                               *)
InstallObjects(f) ==
  /\ f \in frame
  /\ frame' = frame \ {f}
  /\ kv' = [kv EXCEPT ![f.at] = f.merged]
  /\ repairs' = IF f.op \in Round /\ f.at = round[f.op].node
                THEN repairs \cup {PushBack(f.op, f.merged)}
                ELSE repairs
  /\ UNCHANGED <<round, hints, status, putVars, getVars>>

-----------------------------------------------------------------------------
PutStep(p) ==
  \/ \E c \in Coord[p] : \E base \in BaseContexts(p) : CoordPut(p, c, base)
  \/ \E t \in Replica :
       ReplicaPut(p, t) \/ HintedPut(p, t) \/ PutCallFails(p, t) \/ LateRequestLost(p, t)
  \/ CoordPutReturn(p)

GetStep(g) ==
  \/ \E c \in Coord[g] : CoordGet(g, c)
  \/ \E s \in Replica : ReplicaGet(g, s) \/ GetCallFails(g, s) \/ CoordGetReceive(g, s)
  \/ CoordGetExhausted(g)

RepairStep ==
  \/ \E g \in Get : \/ StartRepairJob(g)
                    \/ \E s \in Replica : CollectResult(g, s)
                    \/ RepairReplicas(g)
  \/ \E m \in repairs : RepairPut(m) \/ RepairPutFails(m)
  \/ \E r \in Round : \/ \E n, m \in Replica : RepairGetDiff(r, n, m)
                      \/ ApplyDiff(r)
  \/ \E f \in frame : InstallObjects(f)

Next ==
  \/ \E n, m \in Node : \E s \in Status : MemberChange(n, m, s)
  \/ \E p \in Put : PutStep(p)
  \/ \E h \in Node : \E x \in hints[h] : ReplayHint(h, x[1], x[2])
  \/ \E g \in Get : GetStep(g)
  \/ RepairStep

Spec == Init /\ [][Next]_vars

(* Fairness.  labrpc answers every Call (processReq always writes to        *)
(* replyCh) and the Go runtime runs every goroutine that can run, so calls  *)
(* return and the coordinators' loops take what has arrived.                *)
CallReturns(p, t) == ReplicaPut(p, t) \/ HintedPut(p, t) \/ PutCallFails(p, t)
ResultArrives(g, s) == ReplicaGet(g, s) \/ GetCallFails(g, s)
CoordGetTurn(g) == CoordGetExhausted(g) \/ \E s \in Replica : CoordGetReceive(g, s)

Fairness ==
  /\ \A p \in Put : /\ \A t \in Replica : WF_vars(CallReturns(p, t))
                    /\ WF_vars(CoordPutReturn(p))
  /\ \A g \in Get : /\ \A s \in Replica : WF_vars(ResultArrives(g, s))
                    /\ WF_vars(CoordGetTurn(g))

(* StartHintedHandoff replays on every tick, and a link that loses replies  *)
(* delivers infinitely many of infinitely many.  Hints are held outside the *)
(* preference list.                                                         *)
ReplayAnswered(h, p, t) == ReplayHint(h, p, t) /\ hints' # hints

ReplayFairness ==
  \A h \in Node \ Replica, p \in Put, t \in Replica : SF_vars(ReplayAnswered(h, p, t))

FairSpec == Spec /\ Fairness
ReplaySpec == FairSpec /\ ReplayFairness

-----------------------------------------------------------------------------
TypeOK ==
  /\ kv \in [Node -> SUBSET Object]
  /\ hints \in [Node -> SUBSET (Put \X Replica)]
  /\ status \in [Node -> [Node -> Status]]
  /\ put \in [Put -> PutRecord]
  /\ call \in [Put -> [Replica -> CallState]]
  /\ inflight \subseteq Put \X Replica
  /\ get \in [Get -> GetRecord]
  /\ res \in [Get -> [Replica -> Result]]
  /\ job \in [Get -> {"none", "coalesced", "dropped", "running", "done"}]
  /\ repairs \subseteq RepairArgs
  /\ frame \subseteq MergeFrame
  /\ round \in [Round -> Exchange]

(* A replica never stores two versions of which one supersedes or equals   *)
(* the other, and no read returns such a pair.  ReplicaPut (server.go)     *)
(* compares the base context and then stores the coordinator's object;     *)
(* merges are computed and installed in different critical sections.       *)
SiblingsAntichain ==
  /\ \A n \in Node : Antichain(kv[n])
  /\ \A g \in Get : Antichain(get[g].objs)

(* A version a replica has taken is only ever replaced by one at or above  *)
(* it: no step of any handler makes a replica forget a write.              *)
NoRollback == [][\A n \in Node : \A o \in kv[n] : Covers(kv'[n], o.vc)]_kv

(* A put that CoordPut acknowledged stays held, by W servers at least: as  *)
(* a version at or above it, or as a hint for a replica that was dead.     *)
(* replayHints drops a hint only when its target has stored the write.     *)
Holders(p) ==
  {n \in Node : \/ Covers(kv[n], put[p].obj.vc)
                \/ \E t \in Replica : <<p, t>> \in hints[n]}

AckedPutsHeld ==
  \A p \in Put : put[p].st = "OK" => Cardinality(Holders(p)) >= WriteQuorum

(* With strict quorums and R + W > N, a read that starts after a put was   *)
(* acknowledged returns a version at or above it, and never ErrNoKey       *)
(* (server.go CoordGet's early return with the R-th answer).               *)
ReadSeesAcked ==
  \A g \in Get : \A p \in get[g].acked :
    /\ get[g].st = "OK" => Covers(get[g].objs, put[p].obj.vc)
    /\ get[g].st # "ErrNoKey"

(* CoordPut answers ErrVersion only to a client whose context is out of    *)
(* date: W replicas hold a version at or above the base it wrote from.     *)
ErrVersionJustified ==
  \A p \in Put : put[p].st = "ErrVersion" =>
    Cardinality({n \in Replica : Covers(kv[n], put[p].base)}) >= WriteQuorum

(* Two merges into one replica may overlap, and then the later install    *)
(* undoes the earlier one (see NeighborKeepsWrites).  What a repair or an  *)
(* exchange achieves is stated for one that no other has overlapped.       *)
OnlyMerger(op) ==
  /\ \A g \in Get \ {op} : job[g] # "done"
  /\ \A r \in Round \ {op} : round[r].st # "done"

Finished(op) ==
  /\ ~\E m \in repairs : m.op = op
  /\ ~\E f \in frame : f.op = op

(* Once the RepairPuts of a read repair job are installed, every replica   *)
(* whose answer the job saw, and that RepairPut cannot miss, has all       *)
(* versions the job merged, whatever puts arrived meanwhile (readrepair.go *)
(* findStaleReplicas, repairReplicas).                                     *)
RepairedReplicasCover ==
  \A g \in Get :
    (job[g] = "done" /\ Finished(g) /\ OnlyMerger(g))
      => \A s \in Replica \ Flaky :
           res[g][s].st = "read" => \A o \in get[g].canon : Covers(kv[s], o.vc)

(* When an anti-entropy exchange is over, both sides have the versions the *)
(* peer sent, whatever was written meanwhile (anti_entropy.go ApplyDiff).  *)
ExchangeCovers ==
  \A r \in Round :
    (round[r].st = "done" /\ Finished(r) /\ OnlyMerger(r))
      => \A n \in {round[r].node, round[r].peer} :
           \A o \in round[r].objs : Covers(kv[n], o.vc)

(* Every put and every get a coordinator starts gets an answer: the loops  *)
(* of CoordPut and CoordGet wait for no more results than were sent.       *)
PutsAnswered == \A p \in Put : put[p].st = "wait" ~> put[p].st # "wait"
GetsAnswered == \A g \in Get : get[g].st = "wait" ~> get[g].st # "wait"

(* The hint left by an acknowledged put is replayed and removed while its  *)
(* holder believes the target alive (hinted_handoff.go replayHints,        *)
(* removeHint).                                                            *)
HintsDrained ==
  \A h \in Node \ Replica, p \in Put, t \in Replica :
    (put[p].st = "OK" /\ <<p, t>> \in hints[h])
      ~> (<<p, t>> \notin hints[h] \/ status[h][t] # "Alive")

(* "the neighbor will not roll back any concurrent writes": no step of an  *)
(* exchange makes the peer forget a version it has taken.                  *)
NeighborKeepsWrites ==
  [][\A r \in Round : round[r].st = "done" =>
       \A o \in kv[round[r].peer] : Covers(kv'[round[r].peer], o.vc)]_vars

=============================================================================
