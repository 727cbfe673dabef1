----------------------------- MODULE Membership -----------------------------
(***************************************************************************)
(* Gossip membership and failure detection (kvsrv/membership.go).          *)
(*                                                                         *)
(* Every server keeps a table of what it knows of every server: the newest *)
(* heartbeat it has heard of and a status.  Tables travel in gossip        *)
(* requests and in their replies, which may be lost, delayed and           *)
(* reordered; two equal messages to one server count as one.  Time is per  *)
(* server: since[n][m] counts the clock ticks of n after its last update   *)
(* of m and stops at CleanupTimeout, beyond which nothing changes; no one  *)
(* reads the age of a server's own record, which stays 0.                  *)
(*                                                                         *)
(* MakeKVServer enters every server in the table, so mergeMembers' branch  *)
(* for an unknown server never runs and tables are total.                  *)
(***************************************************************************)
EXTENDS Integers, FiniteSets

CONSTANTS
  Server,          \* the server IDs
  NumNeighbors,    \* kv.numNeighbors
  FailureTimeout,  \* kv.failureTimeout, in clock ticks
  CleanupTimeout,  \* kv.cleanupTimeout, in clock ticks
  Pausable,        \* the servers the PBS demo may pause
  MaxHeartbeat,    \* bound: MaxHeartbeat[n], the heartbeats n sends
  MaxInFlight      \* bound: messages under way

ASSUME MembershipAssumption ==
  /\ NumNeighbors \in Int
  /\ FailureTimeout \in Nat /\ CleanupTimeout \in Nat
  /\ Pausable \subseteq Server
  /\ MaxHeartbeat \in [Server -> Nat] /\ MaxInFlight \in Nat

VARIABLES
  members,  \* members[n]: the table of n
  since,    \* since[n][m]: age of members[n][m], from kv.memberLastUpdated
  counter,  \* counter[n]: kv.heartbeatCounter
  paused,   \* the servers whose kv.pbsDemoPauseMembershipGoss is set
  bumped,   \* servers between bumpLocalHeartbeat and SyncMembers
  net,      \* gossip messages under way
  serving   \* <<from, to>>: to has merged from's table and not answered yet

vars == <<members, since, counter, paused, bumped, net, serving>>

(* rpc.NodeStatus, in the order IsWorse compares. *)
Alive == 0
Suspect == 1
Dead == 2

MemberInfo == [hb : Nat, status : {Alive, Suspect, Dead}]
Table == [Server -> MemberInfo]
Message == [kind : {"request", "reply"}, from : Server, to : Server, infos : Table]

Init ==
  /\ members = [n \in Server |-> [m \in Server |-> [hb |-> 0, status |-> Alive]]]
  /\ since = [n \in Server |-> [m \in Server |-> 0]]
  /\ counter = [n \in Server |-> 0]
  /\ paused = {}
  /\ bumped = {}
  /\ net = {}
  /\ serving = {}

-----------------------------------------------------------------------------
(* MUTANT of Newer: the statuses are compared before the heartbeats. *)
NewerByStatus(info, mine) ==
  info.status > mine.status \/ (info.status = mine.status /\ info.hb > mine.hb)

(* Whether mergeMembers takes info in place of mine. *)
Newer(info, mine) ==
  info.hb > mine.hb \/ (info.hb = mine.hb /\ info.status > mine.status)

(* UpdateMemberInfo for every m in M: the new record, and a fresh age. *)
UpdateMembers(n, M, info(_)) ==
  /\ members' = [members EXCEPT ![n] = [m \in Server |-> IF m \in M THEN info(m) ELSE @[m]]]
  /\ since' = [since EXCEPT ![n] = [m \in Server |-> IF m \in M THEN 0 ELSE @[m]]]

MergeMembers(n, infos) ==
  UpdateMembers(n, {m \in Server : Newer(infos[m], members[n][m])}, LAMBDA m : infos[m])

-----------------------------------------------------------------------------
SetPBSDemoPauseMembershipGoss(n) ==
  /\ n \in Pausable
  /\ paused' \in {paused \cup {n}, paused \ {n}}
  /\ UNCHANGED <<members, since, counter, bumped, net, serving>>

(* MUTANT of BumpLocalHeartbeat: the record gets ahead of the counter. *)
BumpLocalHeartbeatAhead(n) ==
  /\ n \notin paused /\ n \notin bumped
  /\ counter[n] < MaxHeartbeat[n]
  /\ counter' = [counter EXCEPT ![n] = @ + 1]
  /\ UpdateMembers(n, {n}, LAMBDA m : [hb |-> counter[n] + 2, status |-> Alive])
  /\ bumped' = bumped \cup {n}
  /\ UNCHANGED <<paused, net, serving>>

(* The first half of a gossip tick ... *)
BumpLocalHeartbeat(n) ==
  /\ n \notin paused /\ n \notin bumped
  /\ counter[n] < MaxHeartbeat[n]
  /\ counter' = [counter EXCEPT ![n] = @ + 1]
  /\ UpdateMembers(n, {n}, LAMBDA m : [hb |-> counter[n] + 1, status |-> Alive])
  /\ bumped' = bumped \cup {n}
  /\ UNCHANGED <<paused, net, serving>>

(* GetRandomNeighbors: NumNeighbors of the other servers, or all of them. *)
Neighbors(n) ==
  LET others == Server \ {n}
      k == IF NumNeighbors \in 1..Cardinality(others) THEN NumNeighbors
           ELSE Cardinality(others)
  IN  {S \in SUBSET others : Cardinality(S) = k}

(* ... and the second: the table goes to the neighbors chosen. *)
SyncMembers(n, S) ==
  /\ n \in bumped
  /\ Cardinality(net) + Cardinality(S) <= MaxInFlight
  /\ net' = net \cup {[kind |-> "request", from |-> n, to |-> m, infos |-> members[n]] : m \in S}
  /\ bumped' = bumped \ {n}
  /\ UNCHANGED <<members, since, counter, paused, serving>>

(* GossipSyncMembers merges the request under kv.mu ... *)
GossipSyncMembers(x) ==
  /\ x \in net /\ x.kind = "request"
  /\ net' = net \ {x}
  /\ serving' = serving \cup {<<x.from, x.to>>}
  /\ MergeMembers(x.to, x.infos)
  /\ UNCHANGED <<counter, paused, bumped>>

(* MUTANT of GossipReply: the reply's table is left empty. *)
GossipReplyEmpty(from, to) ==
  /\ <<from, to>> \in serving
  /\ Cardinality(net) < MaxInFlight
  /\ serving' = serving \ {<<from, to>>}
  /\ net' = net \cup {[kind |-> "reply", from |-> to, to |-> from, infos |-> <<>>]}
  /\ UNCHANGED <<members, since, counter, paused, bumped>>

(* ... and locks it again to copy the table into the reply. *)
GossipReply(from, to) ==
  /\ <<from, to>> \in serving
  /\ Cardinality(net) < MaxInFlight
  /\ serving' = serving \ {<<from, to>>}
  /\ net' = net \cup {[kind |-> "reply", from |-> to, to |-> from, infos |-> members[to]]}
  /\ UNCHANGED <<members, since, counter, paused, bumped>>

ReceiveReply(x) ==
  /\ x \in net /\ x.kind = "reply"
  /\ net' = net \ {x}
  /\ MergeMembers(x.to, x.infos)
  /\ UNCHANGED <<counter, paused, bumped, serving>>

Lose(x) ==
  /\ x \in net
  /\ net' = net \ {x}
  /\ UNCHANGED <<members, since, counter, paused, bumped, serving>>

-----------------------------------------------------------------------------
Tick(n) ==
  /\ since' = [since EXCEPT ![n] = [m \in Server |-> IF m # n /\ @[m] < CleanupTimeout
                                                    THEN @[m] + 1 ELSE @[m]]]
  /\ UNCHANGED <<members, counter, paused, bumped, net, serving>>

(* What the failure detector of n makes of m. *)
Verdict(n, m) ==
  IF since[n][m] >= CleanupTimeout THEN Dead
  ELSE IF since[n][m] >= FailureTimeout /\ members[n][m].status = Alive THEN Suspect
  ELSE members[n][m].status

(* MUTANT of DetectMemberFailures: a suspect never becomes dead. *)
DetectOnlyAlive(n) ==
  LET judged == {m \in Server \ {n} : /\ members[n][m].status = Alive
                                      /\ Verdict(n, m) # Alive}
  IN  /\ UpdateMembers(n, judged,
                       LAMBDA m : [hb |-> members[n][m].hb, status |-> Verdict(n, m)])
      /\ UNCHANGED <<counter, paused, bumped, net, serving>>

DetectMemberFailures(n) ==
  LET judged == {m \in Server \ {n} : Verdict(n, m) # members[n][m].status}
  IN  /\ UpdateMembers(n, judged,
                       LAMBDA m : [hb |-> members[n][m].hb, status |-> Verdict(n, m)])
      /\ UNCHANGED <<counter, paused, bumped, net, serving>>

-----------------------------------------------------------------------------
Next ==
  \/ \E n \in Server : \/ SetPBSDemoPauseMembershipGoss(n)
                       \/ BumpLocalHeartbeat(n)
                       \/ \E S \in Neighbors(n) : SyncMembers(n, S)
                       \/ Tick(n)
                       \/ DetectMemberFailures(n)
  \/ \E x \in net : GossipSyncMembers(x) \/ ReceiveReply(x) \/ Lose(x)
  \/ \E y \in serving : GossipReply(y[1], y[2])

Spec == Init /\ [][Next]_vars

(* Clocks advance and the detector's ticker fires; nothing is assumed of   *)
(* gossip or of message delivery.                                          *)
FairSpec == Spec /\ \A n \in Server : WF_vars(Tick(n)) /\ WF_vars(DetectMemberFailures(n))

-----------------------------------------------------------------------------
TypeOK ==
  /\ members \in [Server -> Table]
  /\ since \in [Server -> [Server -> Nat]]
  /\ counter \in [Server -> Nat]
  /\ paused \subseteq Server
  /\ bumped \subseteq Server
  /\ net \subseteq Message
  /\ serving \subseteq Server \X Server

(* No news of a server is ahead of that server: neither a table nor a      *)
(* message holds a heartbeat of m that m has not sent, and gossip about m  *)
(* that comes back to m (mergeMembers has no exception for kv.id) never    *)
(* replaces m's own heartbeat by another one.                              *)
HeartbeatsGenuine ==
  \A m \in Server : /\ members[m][m].hb = counter[m]
                    /\ \A n \in Server : members[n][m].hb <= counter[m]
                    /\ \A x \in net : x.infos[m].hb <= counter[m]

(* What a server knows only moves forward: to a higher heartbeat, or to a  *)
(* worse status at the same one.  A server once dead is alive again only   *)
(* with a heartbeat nobody had seen, however messages are reordered, and   *)
(* bumpLocalHeartbeat never steps back behind what gossip reported.        *)
NewsMovesForward ==
  [][\A n, m \in Server :
       \/ members'[n][m] = members[n][m]
       \/ members'[n][m].hb > members[n][m].hb
       \/ /\ members'[n][m].hb = members[n][m].hb
          /\ members'[n][m].status > members[n][m].status]_vars

(* A server that falls silent for good is declared dead by every other     *)
(* one, and stays so: the age restarts when detectMemberFailures makes it  *)
(* suspect and when gossip brings a worse status, but not for ever.        *)
SilentDetected ==
  \A n, m \in Server : n # m =>
    (<>[](m \in paused) => <>[](members[n][m].status = Dead))

=============================================================================
