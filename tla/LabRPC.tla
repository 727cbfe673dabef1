------------------------------- MODULE LabRPC -------------------------------
(***************************************************************************)
(* The simulated network (labrpc/labrpc.go): ClientEnd.Call, the goroutine *)
(* processReq and the handler goroutine it starts for every request, and   *)
(* the operations of the network that may come at any moment between their *)
(* steps.                                                                  *)
(*                                                                         *)
(* Delays are not modelled as such: each step of a goroutine comes when it *)
(* comes, which covers the short delay, the long tail of LongReordering    *)
(* and the time-outs of a disabled end, with or without LongDelays.        *)
(* Encoding is left out: a reply reaches the caller as the handler left it.*)
(***************************************************************************)
EXTENDS Naturals, FiniteSets

CONSTANTS
  Call,         \* the calls made
  End,          \* the client ends
  ServerName,
  EndOf,        \* EndOf[c]: the end c is made on
  ServerOf,     \* ServerOf[e]: the server e is connected to
  Hung,         \* calls whose handler never returns
  MaxChanges    \* bound: how many operations of the network there are

ASSUME LabRPCAssumption ==
  /\ EndOf \in [Call -> End]
  /\ ServerOf \in [End -> ServerName]
  /\ Hung \subseteq Call
  /\ MaxChanges \in Nat

VARIABLES
  ends,      \* rn.ends: the ends there are
  enabled,   \* rn.enabled: the ends that are enabled
  servers,   \* rn.servers[s]: the incarnation registered under s, 0 for nil
  reliable,  \* rn.reliable
  done,      \* rn.done is closed
  rpc,       \* rpc[c]: where Call and processReq are, and what processReq knows
  handler,   \* handler[c]: the handler goroutine
  changes    \* how many operations of the network there were

netVars == <<ends, enabled, servers, reliable, done, changes>>
callVars == <<rpc, handler>>
labVars == <<netVars, callVars>>

LabInit ==
  /\ ends = End
  /\ enabled = End
  /\ servers = [s \in ServerName |-> 1]
  /\ reliable = TRUE
  /\ done = FALSE
  /\ rpc = [c \in Call |-> [st |-> "idle", server |-> 0, reliable |-> TRUE]]
  /\ handler = [c \in Call |-> "none"]
  /\ changes = 0

Returned(c) == rpc[c].st \in {"true", "false"}
Move(c, st) == rpc' = [rpc EXCEPT ![c].st = st]

(* isServerDead: the end was disabled or the server replaced since. *)
IsServerDead(c) ==
  LET e == EndOf[c] IN e \notin enabled \/ servers[ServerOf[e]] # rpc[c].server

-----------------------------------------------------------------------------
(* Call. *)

Issue(c) ==
  /\ rpc[c].st = "idle"
  /\ Move(c, "send")
  /\ UNCHANGED <<netVars, handler>>

(* The branch of the select that does not send. *)
NetworkGone(c) ==
  /\ rpc[c].st = "send" /\ done
  /\ Move(c, "false")
  /\ UNCHANGED <<netVars, handler>>

(* MUTANT of Deliver: a failed call looks like one with an empty reply. *)
DeliverTrue(c) ==
  /\ rpc[c].st \in {"replyTrue", "replyFalse"}
  /\ Move(c, "true")
  /\ UNCHANGED <<netVars, handler>>

(* The reply message reaches Call. *)
Deliver(c) ==
  /\ rpc[c].st \in {"replyTrue", "replyFalse"}
  /\ Move(c, IF rpc[c].st = "replyTrue" THEN "true" ELSE "false")
  /\ UNCHANGED <<netVars, handler>>

-----------------------------------------------------------------------------
(* processReq. *)

(* The dispatcher goroutine takes the request, which it may do even after   *)
(* done is closed, and starts processReq: readEndnameInfo and the first     *)
(* test.  A request on a disabled or deleted end, or to a server that is    *)
(* not there, is left to time out.                                          *)
ReadEndnameInfo(c) ==
  LET e == EndOf[c]
      server == servers[ServerOf[e]]
  IN  /\ rpc[c].st = "send"
      /\ rpc' = [rpc EXCEPT ![c] =
           [st |-> IF e \in enabled \cap ends /\ server # 0 THEN "dispatch" ELSE "replyFalse",
            server |-> server, reliable |-> reliable]]
      /\ UNCHANGED <<netVars, handler>>

DropRequest(c) ==
  /\ rpc[c].st = "dispatch" /\ ~rpc[c].reliable
  /\ Move(c, "replyFalse")
  /\ UNCHANGED <<netVars, handler>>

StartHandler(c) ==
  /\ rpc[c].st = "dispatch"
  /\ Move(c, "wait")
  /\ handler' = [handler EXCEPT ![c] = "started"]
  /\ UNCHANGED netVars

(* server.dispatch runs the handler, whether anyone still waits for it or   *)
(* not: "late" when its incarnation is no longer registered.                *)
RunHandler(c) ==
  /\ handler[c] = "started" /\ c \notin Hung
  /\ handler' = [handler EXCEPT ![c] =
       IF servers[ServerOf[EndOf[c]]] = rpc[c].server THEN "done" ELSE "late"]
  /\ UNCHANGED <<netVars, rpc>>

(* MUTANT of PollServerDead: only a reply ends the loop. *)
PollServerDeadNever(c) == FALSE /\ UNCHANGED labVars

(* The loop is left for a poll that finds the server dead, and the handler  *)
(* is left to itself ...                                                    *)
PollServerDead(c) ==
  /\ rpc[c].st = "wait" /\ IsServerDead(c)
  /\ Move(c, "replyFalse")
  /\ UNCHANGED <<netVars, handler>>

(* MUTANT of HandlerReplied: a reply in hand is passed on. *)
HandlerRepliedUnchecked(c) ==
  /\ rpc[c].st = "wait" /\ handler[c] \in {"done", "late"}
  /\ Move(c, "replyTrue")
  /\ UNCHANGED <<netVars, handler>>

(* ... or for the handler's reply, which is passed on if the test that      *)
(* follows the loop finds the server alive and the reply is not dropped.    *)
HandlerReplied(c) ==
  /\ rpc[c].st = "wait" /\ handler[c] \in {"done", "late"}
  /\ \/ ~IsServerDead(c) /\ Move(c, "replyTrue")
     \/ (IsServerDead(c) \/ ~rpc[c].reliable) /\ Move(c, "replyFalse")
  /\ UNCHANGED <<netVars, handler>>

-----------------------------------------------------------------------------
(* The network's operations. *)

Change == changes < MaxChanges /\ changes' = changes + 1

Enable(e, yes) ==
  /\ Change /\ e \in ends /\ (e \in enabled) # yes
  /\ enabled' = IF yes THEN enabled \cup {e} ELSE enabled \ {e}
  /\ UNCHANGED <<ends, servers, reliable, done, callVars>>

DeleteEnd(e) ==
  /\ Change /\ e \in ends
  /\ ends' = ends \ {e}
  /\ enabled' = enabled \ {e}
  /\ UNCHANGED <<servers, reliable, done, callVars>>

DeleteServer(s) ==
  /\ Change /\ servers[s] # 0
  /\ servers' = [servers EXCEPT ![s] = 0]
  /\ UNCHANGED <<ends, enabled, reliable, done, callVars>>

(* A server made anew is another object: an incarnation of its own. *)
AddServer(s) ==
  /\ Change /\ servers[s] = 0
  /\ servers' = [servers EXCEPT ![s] = changes + 2]
  /\ UNCHANGED <<ends, enabled, reliable, done, callVars>>

Reliable(yes) ==
  /\ Change /\ reliable # yes
  /\ reliable' = yes
  /\ UNCHANGED <<ends, enabled, servers, done, callVars>>

Cleanup ==
  /\ Change /\ ~done
  /\ done' = TRUE
  /\ UNCHANGED <<ends, enabled, servers, reliable, callVars>>

-----------------------------------------------------------------------------
CallStep(c) ==
  \/ NetworkGone(c) \/ Deliver(c)
  \/ ReadEndnameInfo(c) \/ DropRequest(c) \/ StartHandler(c)
  \/ PollServerDead(c) \/ HandlerReplied(c)

NetworkStep ==
  \/ \E e \in End : DeleteEnd(e) \/ \E yes \in BOOLEAN : Enable(e, yes)
  \/ \E s \in ServerName : DeleteServer(s) \/ AddServer(s)
  \/ \E yes \in BOOLEAN : Reliable(yes)
  \/ Cleanup

-----------------------------------------------------------------------------
(* "do not reply if DeleteServer() has been called": a caller that gets     *)
(* true got it from a handler that ran while its server was the registered  *)
(* one, although DeleteServer may come between the handler's end and the    *)
(* moment processReq notices it.                                            *)
ReplyFromRegistered ==
  \A c \in Call : rpc[c].st \in {"replyTrue", "true"} => handler[c] = "done"

(* Every call returns, under every order of the network's operations: the   *)
(* only one that may wait for ever is one whose handler hangs on a server   *)
(* that is still there.                                                     *)
CallsReturn ==
  \A c \in Call :
    rpc[c].st # "idle" ~> (Returned(c) \/ (c \in Hung /\ ~IsServerDead(c)))

(* The promise of RPC, seen from labrpc's state. *)
Promise == INSTANCE RPC WITH
  ret <- [c \in Call |-> IF rpc[c].st = "idle" THEN "none"
                         ELSE IF Returned(c) THEN rpc[c].st ELSE "pending"],
  runs <- [c \in Call |-> IF handler[c] \in {"done", "late"} THEN 1 ELSE 0]

(* The simulated network keeps the promise: no handler runs twice, no true  *)
(* without a handler that ran, no answer that gets lost for ever.           *)
KeepsPromise == Promise!Spec

=============================================================================
