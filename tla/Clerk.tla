-------------------------------- MODULE Clerk -------------------------------
(***************************************************************************)
(* The clients of the store (kvsrv/client.go): the retry loops of Clerk    *)
(* over labrpc, against the coordinator of one key.                        *)
(*                                                                         *)
(* The coordinator is reduced to its own copy of the key, which CoordPut   *)
(* and CoordGet read and write as ReplicaPut and ReplicaGet do; what       *)
(* depends on other servers is a free choice of outcome.  A server that is *)
(* restarted begins with an empty store: StartKVServer ignores its         *)
(* persister.                                                              *)
(***************************************************************************)
EXTENDS LabRPC, Siblings, Sequences

CONSTANTS
  Program,       \* the operations of the client, one after the other
  Put, Get,      \* which of them are puts and gets
  Other,         \* puts of other clients, which just reach the coordinator
  MaxRetry,      \* maxRetry
  Coordinator,   \* ring.GetCoordinator(key): a server, and an entry of clocks
  Writer         \* Writer[p]: the clock label of the client that issues p

ASSUME ClerkAssumption ==
  /\ MaxRetry \in Nat \ {0}
  /\ Program \in Seq(Put \cup Get)
  /\ Call = (Put \cup Get) \X (1..MaxRetry)
  /\ Put \cap Get = {} /\ Other \cap (Put \cup Get) = {}
  /\ Coordinator \in ServerName \cap Name
  /\ Writer \in [Put \cup Other -> Name]

VARIABLES
  kv,       \* kv[i]: the siblings in incarnation i of the coordinator
  reply,    \* reply[c]: what the handler of c left in its reply
  op,       \* op[o]: the loop of CoordPut or CoordGet for o
  applied,  \* applied[p][i]: how often incarnation i stored p
  others    \* the puts of other clients still to come

clerkVars == <<kv, reply, op, applied, others>>
vars == <<labVars, clerkVars>>

Incarnation == 1..(MaxChanges + 1)

Init ==
  /\ LabInit
  /\ kv = [i \in Incarnation |-> {}]
  /\ reply = [c \in Call |-> [err |-> "none", objs |-> {}]]
  /\ op = [o \in Put \cup Get |->
             [st |-> "idle", retry |-> 0, failed |-> FALSE, base |-> NewVClock, objs |-> {}]]
  /\ applied = [p \in Put |-> [i \in Incarnation |-> 0]]
  /\ others = Other

-----------------------------------------------------------------------------
(* The handlers. *)

(* CoordPut stores nothing and says why ... *)
CoordPutRefused(c) ==
  LET siblings == kv[rpc[c].server]
      base == op[c[1]].base
  IN  /\ c[1] \in Put
      /\ RunHandler(c)
      /\ \E err \in {"ErrNotCoordinator", "ErrWriteQuorumNotMet", "ErrNoKey", "ErrVersion"} :
           /\ err = "ErrNoKey" => siblings = {} /\ ~IsInitial(base)
           /\ err = "ErrVersion" => ~CanBeAddedTo(base, siblings)
           /\ reply' = [reply EXCEPT ![c].err = err]
      /\ UNCHANGED <<kv, op, applied, others>>

(* ... or stores the object, whether the other replicas make up the write   *)
(* quorum or not.                                                           *)
CoordPutStored(c) ==
  LET p == c[1]
      i == rpc[c].server
      base == op[p].base
  IN  /\ p \in Put
      /\ RunHandler(c)
      /\ kv[i] # {} \/ IsInitial(base)
      /\ CanBeAddedTo(base, kv[i])
      /\ kv' = [kv EXCEPT ![i] = AddObject(@, [id |-> p, vc |-> Increment(base, Coordinator)])]
      /\ applied' = [applied EXCEPT ![p][i] = @ + 1]
      /\ \E err \in {"OK", "ErrWriteQuorumNotMet"} : reply' = [reply EXCEPT ![c].err = err]
      /\ UNCHANGED <<op, others>>

(* Another client's put: of a new key or on top of what is there. *)
OtherPut(p) ==
  LET i == servers[Coordinator]
      bases == IF kv[i] = {} THEN {NewVClock} ELSE {Increment(o.vc, Writer[p]) : o \in kv[i]}
  IN  /\ p \in others /\ i # 0
      /\ \E base \in bases :
           kv' = [kv EXCEPT ![i] = AddObject(@, [id |-> p, vc |-> Increment(base, Coordinator)])]
      /\ others' = others \ {p}
      /\ UNCHANGED <<labVars, reply, op, applied>>

CoordGet(c) ==
  /\ c[1] \in Get
  /\ RunHandler(c)
  /\ \/ /\ kv[rpc[c].server] # {}
        /\ reply' = [reply EXCEPT ![c] = [err |-> "OK", objs |-> kv[rpc[c].server]]]
     \/ \E err \in {"ErrNoKey", "ErrReadQuorumNotMet", "ErrNotCoordinator"} :
          /\ err = "ErrNoKey" => kv[rpc[c].server] = {}
          /\ reply' = [reply EXCEPT ![c].err = err]
  /\ UNCHANGED <<kv, op, applied, others>>

-----------------------------------------------------------------------------
(* The clerks. *)

(* A context is new, or that of an object read, bumped by the writer. *)
BaseContexts(p) ==
  {NewVClock} \cup {Increment(o.vc, Writer[p]) : o \in UNION {op[g].objs : g \in Get}}

(* The client's next operation. *)
Start(o) ==
  /\ op[o].st = "idle"
  /\ \E k \in DOMAIN Program :
       Program[k] = o /\ \A j \in 1..(k - 1) : op[Program[j]].st \notin {"idle", "call"}
  /\ \E base \in IF o \in Put THEN BaseContexts(o) ELSE {NewVClock} :
       op' = [op EXCEPT ![o] = [@ EXCEPT !.st = "call", !.retry = 1, !.base = base]]
  /\ Issue(<<o, 1>>)
  /\ UNCHANGED <<kv, reply, applied, others>>

Finish(o, err) == op' = [op EXCEPT ![o].st = err] /\ UNCHANGED rpc

(* The call failed, or went to a server that is not the coordinator: once   *)
(* more, unless the tries are used up.                                      *)
Retry(o) ==
  LET c == <<o, op[o].retry>> IN
  /\ op[o].st = "call" /\ op[o].retry < MaxRetry
  /\ \/ rpc[c].st = "false"
     \/ rpc[c].st = "true" /\ reply[c].err = "ErrNotCoordinator"
  /\ op' = [op EXCEPT ![o] =
       [op[o] EXCEPT !.retry = op[o].retry + 1,
                     !.failed = op[o].failed \/ rpc[c].st = "false"]]
  /\ Issue(<<o, op[o].retry + 1>>)
  /\ UNCHANGED <<kv, reply, applied, others>>

(* MUTANT of PutErr: the failure of an earlier try is forgotten. *)
PutErrAsReplied(err, failed) == err

(* The server's word on a put, unless it refuses a version that an earlier  *)
(* try of the same put may have stored.                                     *)
PutErr(err, failed) == IF err = "ErrVersion" /\ failed THEN "ErrMaybe" ELSE err

PutReturns(p) ==
  LET c == <<p, op[p].retry>> IN
  /\ op[p].st = "call"
  /\ \/ /\ rpc[c].st = "true" /\ reply[c].err # "ErrNotCoordinator"
        /\ Finish(p, PutErr(reply[c].err, op[p].failed))
     \/ /\ rpc[c].st = "true" /\ reply[c].err = "ErrNotCoordinator" /\ op[p].retry = MaxRetry
        /\ Finish(p, "ErrNotCoordinator")
     \/ /\ rpc[c].st = "false" /\ op[p].retry = MaxRetry
        /\ Finish(p, "ErrMaybe")
  /\ UNCHANGED <<netVars, handler, kv, reply, applied, others>>

(* A reply without objects is reported as ErrNoKey, whatever its Err. *)
GetReturns(g) ==
  LET c == <<g, op[g].retry>>
      objs == reply[c].objs
  IN  /\ op[g].st = "call"
      /\ \/ /\ rpc[c].st = "true" /\ reply[c].err # "ErrNotCoordinator"
            /\ op' = [op EXCEPT ![g] =
                 [@ EXCEPT !.st = IF objs = {} THEN "ErrNoKey" ELSE "OK", !.objs = objs]]
            /\ UNCHANGED rpc
         \/ /\ rpc[c].st = "true" /\ reply[c].err = "ErrNotCoordinator" /\ op[g].retry = MaxRetry
            /\ Finish(g, "ErrNotCoordinator")
         \/ /\ rpc[c].st = "false" /\ op[g].retry = MaxRetry
            /\ Finish(g, "ErrRPCFailure")
      /\ UNCHANGED <<netVars, handler, kv, reply, applied, others>>

-----------------------------------------------------------------------------
Handle(c) == CoordPutRefused(c) \/ CoordPutStored(c) \/ CoordGet(c)

Next ==
  \/ \E o \in Put \cup Get : Start(o) \/ Retry(o)
  \/ \E p \in Put : PutReturns(p)
  \/ \E p \in others : OtherPut(p)
  \/ \E g \in Get : GetReturns(g)
  \/ \E c \in Call : Handle(c) \/ (CallStep(c) /\ UNCHANGED clerkVars)
  \/ NetworkStep /\ UNCHANGED clerkVars

Spec == Init /\ [][Next]_vars

(* Goroutines run; handlers return, but for the ones in Hung.  Nothing is   *)
(* asked of the operations of the network.                                  *)
Fairness ==
  \A c \in Call : WF_vars(CallStep(c) /\ UNCHANGED clerkVars) /\ WF_vars(Handle(c))

FairSpec == Spec /\ Fairness

-----------------------------------------------------------------------------
(* What a Clerk reports of a put is true: OK, and a coordinator stored it;  *)
(* ErrVersion, and none ever did or will, not even a handler that is still  *)
(* under way after its call was given up (ErrMaybe is for that case).       *)
ClerkTellsTruth ==
  \A p \in Put :
    /\ op[p].st = "OK" => \E i \in Incarnation : applied[p][i] > 0
    /\ op[p].st = "ErrVersion" => \A i \in Incarnation : applied[p][i] = 0

(* A put that is tried again, by the retry loop or because an earlier       *)
(* handler runs late, is stored at most once by each server: its own first  *)
(* version, or one that supersedes it, refuses the base context.            *)
RetriesApplyOnce ==
  \A p \in Put, i \in Incarnation : applied[p][i] <= 1

=============================================================================
