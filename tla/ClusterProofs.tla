--------------------------- MODULE ClusterProofs ----------------------------
(***************************************************************************)
(* Theorems about who is in the cluster and who owns what: the gossip      *)
(* membership (Membership), for every set of servers, every number of      *)
(* neighbors, every choice of timeouts and every loss, delay and order of  *)
(* the messages, and the consistent hash ring (HashRing), for every set of *)
(* nodes, every number of sectors, replicas and buckets, and every history *)
(* of joins and departures, seen at every turn of the loops that move      *)
(* sectors.  The two share no state.                                       *)
(***************************************************************************)
EXTENDS Membership, HashRing, Induction

(***************************************************************************)
(* Gossip membership.                                                      *)
(***************************************************************************)
(* One server's table and ages are replaced; everyone else's stay. *)
LEMMA RowType ==
  ASSUME TypeOK, NEW n \in Server, NEW row \in Table, NEW ages \in [Server -> Nat],
         members' = [members EXCEPT ![n] = row], since' = [since EXCEPT ![n] = ages]
  PROVE  /\ members' \in [Server -> Table]
         /\ since' \in [Server -> [Server -> Nat]]
         /\ \A k, m \in Server : members'[k][m] = IF k = n THEN row[m] ELSE members[k][m]
  BY DEF TypeOK

(* Resetting some of the ages of a server leaves ages. *)
LEMMA AgesType ==
  ASSUME TypeOK, NEW n \in Server, NEW M
  PROVE  [m \in Server |-> IF m \in M THEN 0 ELSE since[n][m]] \in [Server -> Nat]
  BY DEF TypeOK

(* mergeMembers keeps types and takes only records that are newer. *)
LEMMA MergeEffect ==
  ASSUME TypeOK, NEW n \in Server, NEW infos \in Table, MergeMembers(n, infos)
  PROVE  /\ members' \in [Server -> Table]
         /\ since' \in [Server -> [Server -> Nat]]
         /\ \A k, m \in Server :
              \/ members'[k][m] = members[k][m]
              \/ k = n /\ members'[k][m] = infos[m] /\ Newer(infos[m], members[n][m])
  <1> DEFINE news == {m \in Server : Newer(infos[m], members[n][m])}
             row == [m \in Server |-> IF m \in news THEN infos[m] ELSE members[n][m]]
             ages == [m \in Server |-> IF m \in news THEN 0 ELSE since[n][m]]
  <1>1. members' = [members EXCEPT ![n] = row] /\ since' = [since EXCEPT ![n] = ages]
    BY DEF MergeMembers, UpdateMembers
  <1>2. row \in Table
    BY DEF Table, TypeOK
  <1>3. \A m \in Server :
          row[m] = members[n][m] \/ (row[m] = infos[m] /\ Newer(infos[m], members[n][m]))
    OBVIOUS
  <1>4. ages \in [Server -> Nat]
    BY AgesType
  <1> HIDE DEF row, ages
  <1> QED BY <1>1, <1>2, <1>3, <1>4, RowType

(* The verdict of the failure detector keeps the heartbeat and is worse    *)
(* than the status it replaces.                                            *)
LEMMA DetectEffect ==
  ASSUME TypeOK, NEW n \in Server, DetectMemberFailures(n)
  PROVE  /\ members' \in [Server -> Table]
         /\ since' \in [Server -> [Server -> Nat]]
         /\ \A k, m \in Server :
              \/ members'[k][m] = members[k][m]
              \/ /\ members'[k][m].hb = members[k][m].hb
                 /\ members'[k][m].status > members[k][m].status
  <1> DEFINE judged == {m \in Server \ {n} : Verdict(n, m) # members[n][m].status}
             judge(m) == [hb |-> members[n][m].hb, status |-> Verdict(n, m)]
             row == [m \in Server |-> IF m \in judged THEN judge(m) ELSE members[n][m]]
             ages == [m \in Server |-> IF m \in judged THEN 0 ELSE since[n][m]]
  <1>1. members' = [members EXCEPT ![n] = row] /\ since' = [since EXCEPT ![n] = ages]
    BY DEF DetectMemberFailures, UpdateMembers
  <1>2. \A m \in Server : /\ members[n][m] \in MemberInfo
                          /\ members[n][m].hb \in Nat
                          /\ members[n][m].status \in {Alive, Suspect, Dead}
    BY DEF TypeOK, Table, MemberInfo
  <1>3. \A m \in Server : Verdict(n, m) \in {Alive, Suspect, Dead}
    BY <1>2 DEF Verdict
  <1>4. \A m \in Server : judge(m) \in MemberInfo
    BY <1>2, <1>3 DEF MemberInfo
  <1>5. \A m \in judged : Verdict(n, m) > members[n][m].status
    BY <1>2 DEF Verdict, Alive, Suspect, Dead
  <1>6. \A m : judge(m).hb = members[n][m].hb /\ judge(m).status = Verdict(n, m)
    OBVIOUS
  <1> HIDE DEF judged, judge
  <1>7. row \in Table
    BY <1>2, <1>4 DEF Table
  <1>8. \A m \in Server : \/ row[m] = members[n][m]
                          \/ /\ row[m].hb = members[n][m].hb
                             /\ row[m].status > members[n][m].status
    BY <1>5, <1>6
  <1>9. ages \in [Server -> Nat]
    BY AgesType
  <1> HIDE DEF row, ages
  <1> QED BY <1>1, <1>7, <1>8, <1>9, RowType

(* A bump raises the server's own record to its new counter. *)
LEMMA BumpEffect ==
  ASSUME TypeOK, NEW n \in Server, BumpLocalHeartbeat(n)
  PROVE  /\ members' \in [Server -> Table]
         /\ since' \in [Server -> [Server -> Nat]]
         /\ counter' \in [Server -> Nat]
         /\ \A m \in Server : counter'[m] = IF m = n THEN counter[n] + 1 ELSE counter[m]
         /\ \A k, m \in Server :
              members'[k][m] = IF k = n /\ m = n THEN [hb |-> counter[n] + 1, status |-> Alive]
                               ELSE members[k][m]
  <1> DEFINE bump == [hb |-> counter[n] + 1, status |-> Alive]
             row == [m \in Server |-> IF m \in {n} THEN bump ELSE members[n][m]]
             ages == [m \in Server |-> IF m \in {n} THEN 0 ELSE since[n][m]]
  <1>1. members' = [members EXCEPT ![n] = row] /\ since' = [since EXCEPT ![n] = ages]
    BY DEF BumpLocalHeartbeat, UpdateMembers
  <1>2. bump \in MemberInfo
    BY DEF TypeOK, MemberInfo
  <1>3. counter' \in [Server -> Nat]
    BY DEF BumpLocalHeartbeat, UpdateMembers, TypeOK
  <1>4. \A m \in Server : counter'[m] = IF m = n THEN counter[n] + 1 ELSE counter[m]
    BY DEF BumpLocalHeartbeat, UpdateMembers, TypeOK
  <1> HIDE DEF bump
  <1>5. row \in Table
    BY <1>2 DEF Table, TypeOK
  <1>6. \A m \in Server : row[m] = IF m = n THEN bump ELSE members[n][m]
    OBVIOUS
  <1>7. ages \in [Server -> Nat]
    BY AgesType
  <1> HIDE DEF row, ages
  <1> QED BY <1>1, <1>3, <1>4, <1>5, <1>6, <1>7, RowType DEF bump

-----------------------------------------------------------------------------
(* Types and genuine heartbeats are inductive together. *)
Inv == TypeOK /\ HeartbeatsGenuine

LEMMA InvInit == Init => Inv
  BY DEF Init, Inv, TypeOK, HeartbeatsGenuine, Table, MemberInfo, Alive

(* A record that replaces another one, of a server that has not bumped     *)
(* meanwhile, is genuine if it was at most its counter before.             *)
LEMMA MergeInv ==
  ASSUME Inv, NEW x \in net, MergeMembers(x.to, x.infos), net' = net \ {x},
         UNCHANGED <<counter, paused, bumped>>, serving' \subseteq Server \X Server
  PROVE  Inv'
  <1>1. x.to \in Server /\ x.infos \in Table
    BY DEF Inv, TypeOK, Message
  <1>2. /\ members' \in [Server -> Table]
        /\ since' \in [Server -> [Server -> Nat]]
        /\ \A k, m \in Server :
             \/ members'[k][m] = members[k][m]
             \/ /\ k = x.to /\ members'[k][m] = x.infos[m]
                /\ Newer(x.infos[m], members[x.to][m])
    BY <1>1, MergeEffect DEF Inv
  <1>3. TypeOK'
    BY <1>2 DEF Inv, TypeOK
  <1>4. \A k, m \in Server : members'[k][m].hb <= counter[m]
    BY <1>2 DEF Inv, HeartbeatsGenuine
  <1>5. ASSUME NEW m \in Server PROVE members'[m][m].hb = counter[m]
    <2>1. members[m][m].hb = counter[m] /\ x.infos[m].hb <= counter[m]
      BY DEF Inv, HeartbeatsGenuine
    <2>2. /\ members[m][m].hb \in Nat /\ x.infos[m].hb \in Nat /\ counter[m] \in Nat
      BY <1>1 DEF Inv, TypeOK, Table, MemberInfo
    <2> QED BY <1>2, <2>1, <2>2 DEF Newer
  <1>6. HeartbeatsGenuine'
    BY <1>4, <1>5 DEF Inv, HeartbeatsGenuine
  <1> QED BY <1>3, <1>6 DEF Inv

LEMMA InvNext == Inv /\ [Next]_vars => Inv'
  <1> SUFFICES ASSUME Inv, [Next]_vars PROVE Inv'
    OBVIOUS
  <1>1. ASSUME NEW n \in Server, SetPBSDemoPauseMembershipGoss(n) PROVE Inv'
    BY <1>1 DEF SetPBSDemoPauseMembershipGoss, Inv, TypeOK, HeartbeatsGenuine
  <1>2. ASSUME NEW n \in Server, BumpLocalHeartbeat(n) PROVE Inv'
    <2>1. /\ members' \in [Server -> Table]
          /\ since' \in [Server -> [Server -> Nat]]
          /\ counter' \in [Server -> Nat]
          /\ \A m \in Server : counter'[m] = IF m = n THEN counter[n] + 1 ELSE counter[m]
          /\ \A k, m \in Server :
               members'[k][m] = IF k = n /\ m = n THEN [hb |-> counter[n] + 1, status |-> Alive]
                                ELSE members[k][m]
      BY <1>2, BumpEffect DEF Inv
    <2>2. UNCHANGED <<paused, net, serving>> /\ bumped' \subseteq Server
      BY <1>2 DEF BumpLocalHeartbeat, Inv, TypeOK
    <2>3. TypeOK'
      BY <2>1, <2>2 DEF Inv, TypeOK
    <2>4. /\ \A m \in Server : counter[m] \in Nat
          /\ \A k, m \in Server : members[k][m].hb \in Nat
          /\ \A x \in net : \A m \in Server : x.infos[m].hb \in Nat
      BY DEF Inv, TypeOK, Table, MemberInfo, Message
    <2>5. \A m \in Server : members'[m][m].hb = counter'[m]
      BY <2>1 DEF Inv, HeartbeatsGenuine
    <2>6. \A k, m \in Server : members'[k][m].hb <= counter'[m]
      BY <2>1, <2>4 DEF Inv, HeartbeatsGenuine
    <2>7. \A x \in net' : \A m \in Server : x.infos[m].hb <= counter'[m]
      BY <2>1, <2>2, <2>4 DEF Inv, HeartbeatsGenuine
    <2>8. HeartbeatsGenuine'
      BY <2>5, <2>6, <2>7 DEF HeartbeatsGenuine
    <2> QED BY <2>3, <2>8 DEF Inv
  <1>3. ASSUME NEW n \in Server, NEW S \in Neighbors(n), SyncMembers(n, S) PROVE Inv'
    <2>1. S \subseteq Server
      BY DEF Neighbors
    <2>2. \A x \in net' : \/ x \in net
                          \/ \E m \in S : x = [kind |-> "request", from |-> n, to |-> m,
                                               infos |-> members[n]]
      BY <1>3 DEF SyncMembers
    <2>3. net' \subseteq Message
      BY <2>1, <2>2 DEF Inv, TypeOK, Message
    <2>4. \A x \in net' : x \in net \/ x.infos = members[n]
      BY <2>2
    <2> QED BY <1>3, <2>3, <2>4 DEF SyncMembers, Inv, TypeOK, HeartbeatsGenuine
  <1>4. ASSUME NEW n \in Server, Tick(n) PROVE Inv'
    <2>1. since' \in [Server -> [Server -> Nat]]
      BY <1>4 DEF Tick, Inv, TypeOK
    <2> QED BY <1>4, <2>1 DEF Tick, Inv, TypeOK, HeartbeatsGenuine
  <1>5. ASSUME NEW n \in Server, DetectMemberFailures(n) PROVE Inv'
    <2>1. /\ members' \in [Server -> Table]
          /\ since' \in [Server -> [Server -> Nat]]
          /\ \A k, m \in Server : members'[k][m].hb = members[k][m].hb
      BY <1>5, DetectEffect DEF Inv
    <2>2. UNCHANGED <<counter, paused, bumped, net, serving>>
      BY <1>5 DEF DetectMemberFailures
    <2> QED BY <2>1, <2>2 DEF Inv, TypeOK, HeartbeatsGenuine
  <1>6. ASSUME NEW x \in net, GossipSyncMembers(x) PROVE Inv'
    <2>1. serving' \subseteq Server \X Server
      BY <1>6 DEF GossipSyncMembers, Inv, TypeOK, Message
    <2> QED BY <1>6, <2>1, MergeInv DEF GossipSyncMembers
  <1>7. ASSUME NEW x \in net, ReceiveReply(x) PROVE Inv'
    <2>1. serving' \subseteq Server \X Server
      BY <1>7 DEF ReceiveReply, Inv, TypeOK
    <2> QED BY <1>7, <2>1, MergeInv DEF ReceiveReply
  <1>8. ASSUME NEW x \in net, Lose(x) PROVE Inv'
    BY <1>8 DEF Lose, Inv, TypeOK, HeartbeatsGenuine
  <1>9. ASSUME NEW y \in serving, GossipReply(y[1], y[2]) PROVE Inv'
    <2>1. y[1] \in Server /\ y[2] \in Server
      BY DEF Inv, TypeOK
    <2> DEFINE reply == [kind |-> "reply", from |-> y[2], to |-> y[1], infos |-> members[y[2]]]
    <2>2. net' = net \cup {reply} /\ serving' \subseteq serving
          /\ UNCHANGED <<members, since, counter, paused, bumped>>
      BY <1>9 DEF GossipReply
    <2>3. reply \in Message /\ reply.infos = members[y[2]]
      BY <2>1 DEF Inv, TypeOK, Message
    <2> HIDE DEF reply
    <2> QED BY <2>1, <2>2, <2>3 DEF Inv, TypeOK, HeartbeatsGenuine
  <1>10. CASE UNCHANGED vars
    BY <1>10 DEF vars, Inv, TypeOK, HeartbeatsGenuine
  <1> QED BY <1>1, <1>2, <1>3, <1>4, <1>5, <1>6, <1>7, <1>8, <1>9, <1>10 DEF Next

(* Whatever gossip loses, delays or reorders, no table and no message is   *)
(* ahead of the server it speaks of, and a server's own record is always   *)
(* its heartbeatCounter (membership.go mergeMembers, bumpLocalHeartbeat).  *)
THEOREM HeartbeatsAreGenuine == Spec => [](TypeOK /\ HeartbeatsGenuine)
  BY InvInit, InvNext, PTL DEF Spec, Inv

(* Tables, messages and ages keep their shape: every message under way is   *)
(* a table of one server to another, and no age or heartbeat is negative    *)
(* (membership.go).                                                         *)
THEOREM TypeCorrect == Spec => []TypeOK
  BY InvInit, InvNext, PTL DEF Spec, Inv

(* One step of a table never goes back. *)
Forward ==
  \A n, m \in Server :
    \/ members'[n][m] = members[n][m]
    \/ members'[n][m].hb > members[n][m].hb
    \/ /\ members'[n][m].hb = members[n][m].hb
       /\ members'[n][m].status > members[n][m].status

LEMMA StepsForward == Inv /\ [Next]_vars => Forward
  <1> SUFFICES ASSUME Inv, [Next]_vars PROVE Forward
    OBVIOUS
  <1>1. CASE UNCHANGED members
    BY <1>1 DEF Forward
  <1>2. ASSUME NEW n \in Server, BumpLocalHeartbeat(n) PROVE Forward
    <2>1. \A k, m \in Server :
            members'[k][m] = IF k = n /\ m = n THEN [hb |-> counter[n] + 1, status |-> Alive]
                             ELSE members[k][m]
      BY <1>2, BumpEffect DEF Inv
    <2>2. members[n][n].hb = counter[n] /\ counter[n] \in Nat
      BY DEF Inv, HeartbeatsGenuine, TypeOK
    <2>3. members'[n][n].hb > members[n][n].hb
      BY <2>1, <2>2
    <2> QED BY <2>1, <2>3 DEF Forward
  <1>3. ASSUME NEW n \in Server, DetectMemberFailures(n) PROVE Forward
    BY <1>3, DetectEffect DEF Inv, Forward
  <1>4. ASSUME NEW x \in net, MergeMembers(x.to, x.infos) PROVE Forward
    <2>1. x.to \in Server /\ x.infos \in Table
      BY DEF Inv, TypeOK, Message
    <2> QED BY <1>4, <2>1, MergeEffect DEF Inv, Newer, Forward
  <1> QED BY <1>1, <1>2, <1>3, <1>4
          DEF Next, vars, SetPBSDemoPauseMembershipGoss, SyncMembers, Tick,
              GossipSyncMembers, ReceiveReply, Lose, GossipReply

(* No step makes a server know less: in particular a server that was       *)
(* declared dead comes back only with a heartbeat higher than any the      *)
(* table held, never through an old message.                               *)
THEOREM NewsAlwaysMovesForward == Spec => NewsMovesForward
  <1>1. Inv /\ [Next]_vars => [Forward]_vars
    BY StepsForward
  <1> QED BY InvInit, InvNext, <1>1, PTL DEF Spec, NewsMovesForward, Forward

-----------------------------------------------------------------------------
(***************************************************************************)
(* The consistent hash ring.                                               *)
(***************************************************************************)
N == Len(InitialIDs)

LEMMA SeqMono ==
  ASSUME NEW S, NEW T, S \subseteq T, NEW q \in Seq(S)
  PROVE  q \in Seq(T)
  OBVIOUS

LEMMA InitialNodes ==
  /\ N \in Nat \ {0} /\ DOMAIN InitialIDs = 1..N
  /\ \A s \in Nat : (s % N) + 1 \in 1..N /\ FirstOwner(s) \in Node
  /\ \A s \in 0..(N - 1) : FirstOwner(s) = InitialIDs[s + 1]
  <1>1. N \in Nat \ {0} /\ DOMAIN InitialIDs = 1..N
    BY RingAssumption DEF N
  <1>2. ASSUME NEW s \in Nat PROVE (s % N) + 1 \in 1..N
    BY <1>1
  <1>3. ASSUME NEW s \in 0..(N - 1) PROVE s % N = s
    BY <1>1
  <1>4. \A i \in 1..N : InitialIDs[i] \in Node
    BY <1>1, RingAssumption
  <1>5. \A s : FirstOwner(s) = InitialIDs[(s % N) + 1]
    BY DEF FirstOwner, N
  <1> HIDE DEF N
  <1> QED BY <1>1, <1>2, <1>3, <1>4, <1>5

-----------------------------------------------------------------------------
(* The loop of MakeConsistentHashRing. *)

DealtBy(f) ==
  f = [i \in 0..NumSectors |->
         IF i = 0 THEN [n \in Node |-> <<>>]
         ELSE [f[i - 1] EXCEPT ![FirstOwner(i - 1)] = Append(@, i - 1)]]

LEMMA DealtDef == DealtBy(Dealt)
  <1> DEFINE S == [Node -> Seq(Nat)]
             c == [n \in Node |-> <<>>]
             D == [i \in 1..NumSectors |->
                     [x \in S |-> [x EXCEPT ![FirstOwner(i - 1)] = Append(@, i - 1)]]]
  <1>1. NumSectors \in Nat /\ c \in S
    BY RingAssumption
  <1>2. Steps(D, NumSectors, S)
    <2> SUFFICES ASSUME NEW i \in 1..NumSectors, NEW x \in S
                 PROVE  [x EXCEPT ![FirstOwner(i - 1)] = Append(@, i - 1)] \in S
      BY DEF Steps
    <2>1. i - 1 \in Nat
      BY <1>1
    <2>2. FirstOwner(i - 1) \in Node
      BY <2>1, InitialNodes
    <2>3. Append(x[FirstOwner(i - 1)], i - 1) \in Seq(Nat)
      BY <2>1, <2>2
    <2> QED BY <2>2, <2>3
  <1>3. PICK f : Follows(f, c, D, NumSectors, S)
    <2> HIDE DEF S, c, D
    <2> QED BY <1>1, <1>2, Recursion
  <1>4. DealtBy(f)
    <2> SUFFICES ASSUME NEW i \in 0..NumSectors
                 PROVE  f[i] = IF i = 0 THEN c
                               ELSE [f[i - 1] EXCEPT ![FirstOwner(i - 1)] = Append(@, i - 1)]
      BY <1>3 DEF DealtBy, Follows
    <2>1. CASE i = 0
      BY <2>1, <1>3 DEF Follows
    <2>2. CASE i # 0
      <3>1. i \in 1..NumSectors /\ i - 1 \in 0..NumSectors
        BY <2>2, <1>1
      <3>2. f[i - 1] \in S
        BY <3>1, <1>3 DEF Follows
      <3>3. f[i] = D[i][f[i - 1]]
        BY <3>1, <1>3 DEF Follows
      <3> HIDE DEF S
      <3>4. D[i] = [x \in S |-> [x EXCEPT ![FirstOwner(i - 1)] = Append(@, i - 1)]]
        BY <3>1
      <3> HIDE DEF D
      <3>5. D[i][f[i - 1]] = [f[i - 1] EXCEPT ![FirstOwner(i - 1)] = Append(@, i - 1)]
        BY <3>2, <3>4
      <3> QED BY <2>2, <3>3, <3>5
    <2> QED BY <2>1, <2>2
  <1>5. Dealt = CHOOSE g : DealtBy(g)
    BY DEF Dealt, DealtBy
  <1> QED BY <1>4, <1>5

LEMMA DealtSteps ==
  /\ Dealt[0] = [n \in Node |-> <<>>]
  /\ \A i \in 1..NumSectors :
       Dealt[i] = [Dealt[i - 1] EXCEPT ![FirstOwner(i - 1)] = Append(@, i - 1)]
  <1>0. NumSectors \in Nat
    BY RingAssumption
  <1>1. ASSUME NEW f, DealtBy(f), NEW i \in 0..NumSectors
        PROVE  f[i] = IF i = 0 THEN [n \in Node |-> <<>>]
                      ELSE [f[i - 1] EXCEPT ![FirstOwner(i - 1)] = Append(@, i - 1)]
    BY <1>1 DEF DealtBy
  <1>2. 0 \in 0..NumSectors /\ \A i \in 1..NumSectors : i \in 0..NumSectors /\ i # 0
    BY <1>0
  <1> QED BY <1>1, <1>2, DealtDef

(* After i turns the first i sectors are listed once, each by its owner. *)
DealtSoFar(i, lists) ==
  /\ lists \in [Node -> Seq(0..(i - 1))]
  /\ \A n \in Node : \A k \in DOMAIN lists[n] : FirstOwner(lists[n][k]) = n
  /\ \A n \in Node : \A k, l \in DOMAIN lists[n] : lists[n][k] = lists[n][l] => k = l
  /\ \A s \in 0..(i - 1) : \E k \in DOMAIN lists[FirstOwner(s)] : lists[FirstOwner(s)][k] = s

LEMMA DealtOnce == DealtSoFar(NumSectors, Dealt[NumSectors])
  <1> DEFINE P == {i \in 0..NumSectors : DealtSoFar(i, Dealt[i])}
  <1>0. NumSectors \in Nat
    BY RingAssumption
  <1>1. 0 \in P
    <2> DEFINE none == [n \in Node |-> <<>>]
    <2>1. none \in [Node -> Seq(0..(0 - 1))] /\ \A n \in Node : DOMAIN none[n] = {}
      OBVIOUS
    <2>2. 0..(0 - 1) = {}
      OBVIOUS
    <2> HIDE DEF none
    <2>3. DealtSoFar(0, none)
      BY <2>1, <2>2 DEF DealtSoFar
    <2> QED BY <1>0, <2>3, DealtSteps DEF none
  <1>2. ASSUME NEW i \in 1..NumSectors, i - 1 \in P PROVE i \in P
    <2> DEFINE old == Dealt[i - 1]
               o == FirstOwner(i - 1)
               new == [old EXCEPT ![o] = Append(@, i - 1)]
    <2>1. Dealt[i] = new
      BY DealtSteps
    <2>2. o \in Node /\ i - 1 \in Nat /\ i \in Nat /\ i \in 0..NumSectors
      BY <1>0, InitialNodes
    <2>3. DealtSoFar(i - 1, old)
      BY <1>2
    <2> HIDE DEF old, P
    <2>4. \A n \in Node : old[n] \in Seq(0..((i - 1) - 1))
      BY <2>3 DEF DealtSoFar
    <2>5. old \in [Node -> Seq(0..(i - 1))]
      <3>1. 0..((i - 1) - 1) \subseteq 0..(i - 1)
        BY <2>2
      <3> QED BY <2>3, <3>1, SeqMono DEF DealtSoFar
    <2>6. /\ new[o] = Append(old[o], i - 1)
          /\ \A n \in Node : n # o => new[n] = old[n]
      BY <2>2, <2>5
    <2>7. /\ Len(new[o]) = Len(old[o]) + 1 /\ DOMAIN new[o] = 1..(Len(old[o]) + 1)
          /\ DOMAIN old[o] = 1..Len(old[o]) /\ Len(old[o]) \in Nat
          /\ new[o][Len(old[o]) + 1] = i - 1
          /\ \A k \in DOMAIN old[o] : new[o][k] = old[o][k] /\ old[o][k] < i - 1
      <3>1. old[o] \in Seq(0..(i - 1)) /\ i - 1 \in 0..(i - 1)
        BY <2>2, <2>5
      <3>2. \A k \in DOMAIN old[o] : old[o][k] \in 0..((i - 1) - 1)
        BY <2>2, <2>4
      <3> QED BY <2>2, <2>6, <3>1, <3>2
    <2>8. new \in [Node -> Seq(0..(i - 1))]
      <3>1. Append(old[o], i - 1) \in Seq(0..(i - 1))
        BY <2>2, <2>5
      <3> QED BY <2>5, <2>2, <3>1
    <2> HIDE DEF new, o
    <2>9. DealtSoFar(i, new)
      <3>1. \A n \in Node : \A k \in DOMAIN new[n] : FirstOwner(new[n][k]) = n
        <4> SUFFICES ASSUME NEW k \in DOMAIN new[o] PROVE FirstOwner(new[o][k]) = o
          BY <2>3, <2>6 DEF DealtSoFar
        <4>1. CASE k \in DOMAIN old[o]
          BY <2>2, <2>3, <2>7, <4>1 DEF DealtSoFar
        <4>2. CASE k = Len(old[o]) + 1
          BY <2>7, <4>2 DEF o
        <4> QED BY <2>7, <4>1, <4>2
      <3>2. \A n \in Node : \A k, l \in DOMAIN new[n] : new[n][k] = new[n][l] => k = l
        <4> SUFFICES ASSUME NEW k \in DOMAIN new[o], NEW l \in DOMAIN new[o], new[o][k] = new[o][l]
                     PROVE k = l
          BY <2>3, <2>6 DEF DealtSoFar
        <4>1. CASE k \in DOMAIN old[o] /\ l \in DOMAIN old[o]
          BY <2>2, <2>3, <2>7, <4>1 DEF DealtSoFar
        <4>2. CASE k = Len(old[o]) + 1 \/ l = Len(old[o]) + 1
          <5>1. \A j \in DOMAIN new[o] : j \in DOMAIN old[o] \/ j = Len(old[o]) + 1
            BY <2>7
          <5>2. \A j \in DOMAIN old[o] : new[o][j] # i - 1
            BY <2>2, <2>7
          <5> QED BY <2>7, <4>2, <5>1, <5>2
        <4> QED BY <2>7, <4>1, <4>2
      <3>3. ASSUME NEW s \in 0..(i - 1)
            PROVE  \E k \in DOMAIN new[FirstOwner(s)] : new[FirstOwner(s)][k] = s
        <4>1. CASE s = i - 1
          BY <2>2, <2>7, <4>1 DEF o
        <4>2. CASE s # i - 1
          <5>1. s \in 0..((i - 1) - 1) /\ FirstOwner(s) \in Node
            BY <2>2, <4>2, InitialNodes
          <5>2. PICK k \in DOMAIN old[FirstOwner(s)] : old[FirstOwner(s)][k] = s
            BY <2>3, <5>1 DEF DealtSoFar
          <5> QED BY <2>6, <2>7, <5>1, <5>2
        <4> QED BY <4>1, <4>2
      <3> QED BY <2>8, <3>1, <3>2, <3>3 DEF DealtSoFar
    <2> QED BY <2>1, <2>2, <2>9 DEF P
  <1>3. NumSectors \in P
    <2> HIDE DEF P
    <2> QED BY <1>0, <1>1, <1>2, BoundedInduction
  <1> QED BY <1>3

-----------------------------------------------------------------------------
(* The walk of GetNeighbors. *)

OwnerAt(s, j) == sectorMap[(s + j) % NumSectors]

LEMMA OwnerIsNode ==
  ASSUME RingTypeOK, NEW s \in Nat, NEW j \in Nat
  PROVE  OwnerAt(s, j) \in Node
  <1>1. (s + j) % NumSectors \in Sector
    BY RingAssumption DEF Sector
  <1> QED BY <1>1 DEF OwnerAt, RingTypeOK

LEMMA Remainder ==
  ASSUME NEW n \in Nat, NEW t \in 0..(n - 1)
  PROVE  t % n = t /\ (t + n) % n = t
  OBVIOUS

(* From any sector the walk comes to every other one. *)
LEMMA RoundTheRing ==
  ASSUME NEW s \in Sector, NEW t \in Sector
  PROVE  \E j \in 0..(NumSectors - 1) : OwnerAt(s, j) = sectorMap[t]
  <1> DEFINE j == IF t >= s THEN t - s ELSE t - s + NumSectors
  <1>1. NumSectors \in Nat \ {0} /\ s \in 0..(NumSectors - 1) /\ t \in 0..(NumSectors - 1)
    BY RingAssumption DEF Sector
  <1>2. j \in 0..(NumSectors - 1) /\ (s + j = t \/ s + j = t + NumSectors)
    BY <1>1
  <1> HIDE DEF j
  <1>3. (s + j) % NumSectors = t
    BY <1>1, <1>2, Remainder
  <1> QED BY <1>2, <1>3 DEF OwnerAt

WalkBy(f, s) ==
  f = [k \in 0..NumSectors |->
         IF k = 0 THEN <<>> ELSE Visit(f[k - 1], sectorMap[(s + k - 1) % NumSectors])]

LEMMA VisitType ==
  ASSUME NEW found \in Seq(Node), NEW n \in Node
  PROVE  Visit(found, n) \in Seq(Node)
  BY DEF Visit

LEMMA WalkDef ==
  ASSUME RingTypeOK, NEW s \in Sector
  PROVE  WalkBy(Walk(s), s)
  <1> DEFINE S == Seq(Node)
             D == [k \in 1..NumSectors |-> [x \in S |-> Visit(x, sectorMap[(s + k - 1) % NumSectors])]]
  <1>1. NumSectors \in Nat /\ s \in Nat /\ <<>> \in S
    BY RingAssumption DEF Sector
  <1>2. Steps(D, NumSectors, S)
    <2> SUFFICES ASSUME NEW k \in 1..NumSectors, NEW x \in S
                 PROVE  Visit(x, sectorMap[(s + k - 1) % NumSectors]) \in S
      BY DEF Steps
    <2>1. k - 1 \in Nat /\ s + k - 1 = s + (k - 1)
      BY <1>1
    <2>2. sectorMap[(s + k - 1) % NumSectors] \in Node
      BY <1>1, <2>1, OwnerIsNode DEF OwnerAt
    <2> QED BY <2>2, VisitType
  <1>3. PICK f : Follows(f, <<>>, D, NumSectors, S)
    <2> HIDE DEF S, D
    <2> QED BY <1>1, <1>2, Recursion
  <1>4. WalkBy(f, s)
    <2> SUFFICES ASSUME NEW k \in 0..NumSectors
                 PROVE  f[k] = IF k = 0 THEN <<>>
                               ELSE Visit(f[k - 1], sectorMap[(s + k - 1) % NumSectors])
      BY <1>3 DEF WalkBy, Follows
    <2>1. CASE k = 0
      BY <2>1, <1>3 DEF Follows
    <2>2. CASE k # 0
      <3>1. k \in 1..NumSectors /\ k - 1 \in 0..NumSectors
        BY <2>2, <1>1
      <3>2. f[k - 1] \in S /\ f[k] = D[k][f[k - 1]]
        BY <3>1, <1>3 DEF Follows
      <3>3. D[k][f[k - 1]] = Visit(f[k - 1], sectorMap[(s + k - 1) % NumSectors])
        BY <3>1, <3>2
      <3> QED BY <2>2, <3>2, <3>3
    <2> QED BY <2>1, <2>2
  <1>5. Walk(s) = CHOOSE g : WalkBy(g, s)
    BY DEF Walk, WalkBy
  <1> QED BY <1>4, <1>5

LEMMA WalkSteps ==
  ASSUME RingTypeOK, NEW s \in Sector
  PROVE  /\ Walk(s)[0] = <<>>
         /\ \A k \in 1..NumSectors : Walk(s)[k] = Visit(Walk(s)[k - 1], OwnerAt(s, k - 1))
  <1>0. NumSectors \in Nat /\ s \in Nat
    BY RingAssumption DEF Sector
  <1>1. ASSUME NEW f, WalkBy(f, s), NEW k \in 0..NumSectors
        PROVE  f[k] = IF k = 0 THEN <<>>
                      ELSE Visit(f[k - 1], sectorMap[(s + k - 1) % NumSectors])
    BY <1>1 DEF WalkBy
  <1>2. 0 \in 0..NumSectors
    BY <1>0
  <1>3. \A k \in 1..NumSectors : k \in 0..NumSectors /\ k # 0 /\ s + k - 1 = s + (k - 1)
    BY <1>0
  <1> QED BY <1>1, <1>2, <1>3, WalkDef DEF OwnerAt

(* After k sectors the walk has found Target owners, or all there are,     *)
(* each once, that of its first sector first.                              *)
FoundSoFar(s, k, found) ==
  /\ found \in Seq(Node)
  /\ Len(found) <= Target
  /\ \A i, j \in DOMAIN found : found[i] = found[j] => i = j
  /\ \A i \in DOMAIN found : \E j \in 0..(k - 1) : found[i] = OwnerAt(s, j)
  /\ Len(found) < Target =>
       \A j \in 0..(k - 1) : \E i \in DOMAIN found : found[i] = OwnerAt(s, j)
  /\ k > 0 => found # <<>> /\ found[1] = OwnerAt(s, 0)

LEMMA VisitFinds ==
  ASSUME NEW s \in Nat, NEW k \in Nat \ {0}, NEW found, FoundSoFar(s, k - 1, found),
         OwnerAt(s, k - 1) \in Node, Target \in Nat \ {0}
  PROVE  FoundSoFar(s, k, Visit(found, OwnerAt(s, k - 1)))
  <1> DEFINE n == OwnerAt(s, k - 1)
             new == Visit(found, n)
  <1>1. found \in Seq(Node) /\ Len(found) \in Nat /\ DOMAIN found = 1..Len(found)
    BY DEF FoundSoFar
  <1>2. \A j \in 0..(k - 1) : j \in 0..((k - 1) - 1) \/ j = k - 1
    OBVIOUS
  <1>3. CASE Len(found) < Target /\ n \notin ToSet(found)
    <2>1. new = Append(found, n)
      BY <1>3 DEF Visit
    <2>2. /\ new \in Seq(Node) /\ Len(new) = Len(found) + 1 /\ DOMAIN new = 1..(Len(found) + 1)
          /\ new[Len(found) + 1] = n /\ \A i \in DOMAIN found : new[i] = found[i]
      BY <1>1, <2>1
    <2> HIDE DEF new
    <2>3. \A i \in DOMAIN found : found[i] # n
      BY <1>3 DEF ToSet
    <2>4. \A i \in DOMAIN new : i \in DOMAIN found \/ i = Len(found) + 1
      BY <1>1, <2>2
    <2>5. \A i, j \in DOMAIN new : new[i] = new[j] => i = j
      BY <2>2, <2>3, <2>4 DEF FoundSoFar
    <2>6. \A i \in DOMAIN new : \E j \in 0..(k - 1) : new[i] = OwnerAt(s, j)
      <3> TAKE i \in DOMAIN new
      <3>1. CASE i \in DOMAIN found
        <4>1. PICK j \in 0..((k - 1) - 1) : found[i] = OwnerAt(s, j)
          BY <3>1 DEF FoundSoFar
        <4> QED BY <2>2, <3>1, <4>1
      <3>2. CASE i = Len(found) + 1
        BY <2>2, <3>2
      <3> QED BY <2>4, <3>1, <3>2
    <2>7. \A j \in 0..(k - 1) : \E i \in DOMAIN new : new[i] = OwnerAt(s, j)
      <3> TAKE j \in 0..(k - 1)
      <3>1. CASE j \in 0..((k - 1) - 1)
        <4>1. PICK i \in DOMAIN found : found[i] = OwnerAt(s, j)
          BY <1>3, <3>1 DEF FoundSoFar
        <4> QED BY <1>1, <2>2, <4>1
      <3>2. CASE j = k - 1
        BY <1>1, <2>2, <3>2
      <3> QED BY <1>2, <3>1, <3>2
    <2>8. new # <<>> /\ new[1] = OwnerAt(s, 0)
      <3>1. CASE k = 1
        <4>1. Len(found) = 0
          <5>1. DOMAIN found = {}
            BY <3>1 DEF FoundSoFar
          <5> QED BY <1>1, <5>1
        <4> QED BY <2>2, <3>1, <4>1
      <3>2. CASE k # 1
        <4>1. found # <<>> /\ found[1] = OwnerAt(s, 0)
          BY <3>2 DEF FoundSoFar
        <4> QED BY <1>1, <2>2, <4>1
      <3> QED BY <3>1, <3>2
    <2>9. Len(new) <= Target
      BY <1>1, <1>3, <2>2
    <2>10. FoundSoFar(s, k, new)
      BY <2>2, <2>5, <2>6, <2>7, <2>8, <2>9 DEF FoundSoFar
    <2> QED BY <2>10 DEF new
  <1>4. CASE ~(Len(found) < Target /\ n \notin ToSet(found))
    <2>1. new = found
      BY <1>4 DEF Visit
    <2>2. \A i \in DOMAIN found : \E j \in 0..(k - 1) : found[i] = OwnerAt(s, j)
      <3>1. 0..((k - 1) - 1) \subseteq 0..(k - 1)
        OBVIOUS
      <3> QED BY <3>1 DEF FoundSoFar
    <2>3. Len(found) < Target => \A j \in 0..(k - 1) : \E i \in DOMAIN found : found[i] = OwnerAt(s, j)
      <3> SUFFICES ASSUME Len(found) < Target, NEW j \in 0..(k - 1)
                   PROVE  \E i \in DOMAIN found : found[i] = OwnerAt(s, j)
        OBVIOUS
      <3>1. CASE j \in 0..((k - 1) - 1)
        BY <3>1 DEF FoundSoFar
      <3>2. CASE j = k - 1
        BY <1>4, <3>2 DEF ToSet
      <3> QED BY <1>2, <3>1, <3>2
    <2>4. found # <<>> /\ found[1] = OwnerAt(s, 0)
      <3>1. CASE k = 1
        <4>1. DOMAIN found = {}
          BY <3>1 DEF FoundSoFar
        <4>2. Len(found) = 0
          BY <1>1, <4>1
        <4>3. n \notin ToSet(found)
          BY <4>1 DEF ToSet
        <4> QED BY <1>4, <4>2, <4>3
      <3>2. CASE k # 1
        BY <3>2 DEF FoundSoFar
      <3> QED BY <3>1, <3>2
    <2> QED BY <2>1, <2>2, <2>3, <2>4 DEF FoundSoFar
  <1> QED BY <1>3, <1>4

LEMMA WalkFinds ==
  ASSUME RingTypeOK, Target \in Nat \ {0}, NEW s \in Sector
  PROVE  FoundSoFar(s, NumSectors, GetNeighbors(s))
  <1> DEFINE P == {k \in 0..NumSectors : FoundSoFar(s, k, Walk(s)[k])}
  <1>0. NumSectors \in Nat /\ s \in Nat
    BY RingAssumption DEF Sector
  <1>1. 0 \in P
    <2>1. FoundSoFar(s, 0, <<>>)
      BY DEF FoundSoFar
    <2> QED BY <1>0, <2>1, WalkSteps
  <1>2. ASSUME NEW k \in 1..NumSectors, k - 1 \in P PROVE k \in P
    <2>1. k \in Nat \ {0} /\ k - 1 \in Nat /\ k \in 0..NumSectors
      BY <1>0
    <2>2. FoundSoFar(s, k - 1, Walk(s)[k - 1])
      BY <1>2
    <2>3. OwnerAt(s, k - 1) \in Node
      BY <1>0, <2>1, OwnerIsNode
    <2>4. Walk(s)[k] = Visit(Walk(s)[k - 1], OwnerAt(s, k - 1))
      BY WalkSteps
    <2>5. FoundSoFar(s, k, Walk(s)[k])
      BY <1>0, <2>1, <2>2, <2>3, <2>4, VisitFinds
    <2> QED BY <2>1, <2>5
  <1>3. NumSectors \in P
    <2> HIDE DEF P
    <2> QED BY <1>0, <1>1, <1>2, BoundedInduction
  <1> QED BY <1>3 DEF GetNeighbors

-----------------------------------------------------------------------------
(* Lists without repetitions. *)

Has(q, x) == \E i \in DOMAIN q : q[i] = x
Once(q) == \A i, j \in DOMAIN q : q[i] = q[j] => i = j

LEMMA EmptyHas == Once(<<>>) /\ \A x : ~Has(<<>>, x)
  BY DEF Once, Has

LEMMA AppendHas ==
  ASSUME NEW S, NEW q \in Seq(S), NEW x \in S
  PROVE  /\ \A y : Has(Append(q, x), y) <=> Has(q, y) \/ y = x
         /\ Once(q) /\ ~Has(q, x) => Once(Append(q, x))
         /\ Append(q, x) \in Seq(S) /\ Append(q, x) # <<>>
  <1> DEFINE a == Append(q, x)
  <1>1. /\ Len(q) \in Nat /\ DOMAIN q = 1..Len(q) /\ DOMAIN a = 1..(Len(q) + 1)
        /\ a[Len(q) + 1] = x /\ \A i \in DOMAIN q : a[i] = q[i]
        /\ a \in Seq(S) /\ a # <<>>
    OBVIOUS
  <1> HIDE DEF a
  <1>2. Len(q) + 1 \in DOMAIN a /\ \A i : i \in DOMAIN a <=> i \in DOMAIN q \/ i = Len(q) + 1
    BY <1>1
  <1>3. ASSUME Once(q), ~Has(q, x) PROVE Once(a)
    BY <1>1, <1>2, <1>3 DEF Once, Has
  <1>4. \A y : Has(a, y) <=> Has(q, y) \/ y = x
    BY <1>1, <1>2 DEF Has
  <1> QED BY <1>1, <1>3, <1>4 DEF a

LEMMA TailHas ==
  ASSUME NEW S, NEW q \in Seq(S), q # <<>>, Once(q)
  PROVE  /\ Head(q) \in S /\ Has(q, Head(q)) /\ Tail(q) \in Seq(S)
         /\ Once(Tail(q))
         /\ \A y : Has(Tail(q), y) <=> Has(q, y) /\ y # Head(q)
  <1> DEFINE t == Tail(q)
  <1>1. /\ Len(q) \in Nat \ {0} /\ DOMAIN q = 1..Len(q) /\ DOMAIN t = 1..(Len(q) - 1)
        /\ q[1] = Head(q) /\ Head(q) \in S /\ t \in Seq(S)
        /\ \A i \in DOMAIN t : t[i] = q[i + 1]
    OBVIOUS
  <1> HIDE DEF t
  <1>2. 1 \in DOMAIN q /\ \A i \in DOMAIN t : i \in Nat /\ i + 1 \in DOMAIN q /\ i + 1 # 1
    BY <1>1
  <1>3. Once(t)
    <2> SUFFICES ASSUME NEW i \in DOMAIN t, NEW j \in DOMAIN t, t[i] = t[j] PROVE i = j
      BY DEF Once
    <2>1. i + 1 = j + 1
      BY <1>1, <1>2 DEF Once
    <2> QED BY <1>2, <2>1
  <1>4. ASSUME NEW y, Has(t, y) PROVE Has(q, y) /\ y # Head(q)
    <2>1. PICK i \in DOMAIN t : t[i] = y
      BY <1>4 DEF Has
    <2>2. q[i + 1] = y /\ i + 1 \in DOMAIN q
      BY <1>1, <1>2, <2>1
    <2> QED BY <1>1, <1>2, <2>2 DEF Has, Once
  <1>5. ASSUME NEW y, Has(q, y), y # Head(q) PROVE Has(t, y)
    <2>1. PICK i \in DOMAIN q : q[i] = y
      BY <1>5 DEF Has
    <2>2. i - 1 \in DOMAIN t /\ (i - 1) + 1 = i
      BY <1>1, <1>5, <2>1
    <2> QED BY <1>1, <2>1, <2>2 DEF Has
  <1>6. Has(q, Head(q))
    BY <1>1, <1>2 DEF Has
  <1> QED BY <1>1, <1>3, <1>4, <1>5, <1>6 DEF t

LEMMA TailNonempty ==
  ASSUME NEW S, NEW q \in Seq(S), Len(q) >= 2
  PROVE  Tail(q) # <<>>
  <1>1. 1 \in DOMAIN Tail(q) /\ DOMAIN <<>> = {}
    OBVIOUS
  <1> QED BY <1>1

LEMMA DeleteHas ==
  ASSUME NEW S, NEW q \in Seq(S), Once(q), NEW i \in DOMAIN q
  PROVE  LET d == DeleteFromSlice(q, i)
         IN  /\ d \in Seq(S) /\ Len(d) = Len(q) - 1 /\ Once(d)
             /\ \A y : Has(d, y) <=> Has(q, y) /\ y # q[i]
  <1> DEFINE d == DeleteFromSlice(q, i)
             at(j) == IF j < i THEN j ELSE j + 1
  <1>1. Len(q) \in Nat \ {0} /\ DOMAIN q = 1..Len(q) /\ i \in 1..Len(q)
    OBVIOUS
  <1>2. d = [j \in 1 .. Len(q) - 1 |-> q[at(j)]]
    BY <1>1 DEF DeleteFromSlice
  <1>3. \A j \in 1 .. Len(q) - 1 : at(j) \in DOMAIN q /\ at(j) # i
    BY <1>1
  <1>4. \A j, k \in 1 .. Len(q) - 1 : at(j) = at(k) => j = k
    BY <1>1
  <1>5. \A k \in DOMAIN q : k # i => \E j \in 1 .. Len(q) - 1 : at(j) = k
    <2> SUFFICES ASSUME NEW k \in DOMAIN q, k # i PROVE \E j \in 1 .. Len(q) - 1 : at(j) = k
      OBVIOUS
    <2>1. CASE k < i
      BY <1>1, <2>1
    <2>2. CASE k > i
      <3>1. k - 1 \in 1 .. Len(q) - 1 /\ at(k - 1) = k
        BY <1>1, <2>2
      <3> QED BY <3>1
    <2> QED BY <1>1, <2>1, <2>2
  <1> HIDE DEF d, at
  <1>6. d \in Seq(S) /\ Len(d) = Len(q) - 1 /\ DOMAIN d = 1 .. Len(q) - 1
    <2>1. \A j \in 1 .. Len(q) - 1 : q[at(j)] \in S
      BY <1>3
    <2>2. Len(q) - 1 \in Nat
      BY <1>1
    <2> QED BY <1>2, <2>1, <2>2
  <1>7. \A j \in DOMAIN d : d[j] = q[at(j)]
    BY <1>2, <1>6
  <1>8. Once(d)
    BY <1>3, <1>4, <1>6, <1>7 DEF Once
  <1>9. ASSUME NEW y PROVE Has(d, y) <=> Has(q, y) /\ y # q[i]
    <2>1. ASSUME Has(d, y) PROVE Has(q, y) /\ y # q[i]
      BY <1>3, <1>6, <1>7, <2>1 DEF Has, Once
    <2>2. ASSUME Has(q, y), y # q[i] PROVE Has(d, y)
      BY <1>5, <1>6, <1>7, <2>2 DEF Has
    <2> QED BY <2>1, <2>2
  <1> QED BY <1>6, <1>8, <1>9 DEF d

-----------------------------------------------------------------------------
(* The inductive invariant. *)

(* The list of nodes has no repetitions and its length is kept in          *)
(* numServers; the node that joins or leaves is not on it.                 *)
NodesCounted ==
  /\ numServers = Len(nodeIDs) /\ numServers > 0
  /\ Once(nodeIDs)
  /\ change.kind # "none" => ~Has(nodeIDs, change.node)

(* Nodes outside the ring have no sectors, but for the one that joins,     *)
(* which has what its loop has taken so far.                               *)
Joins(n) == change.kind = "add" /\ n = change.node
OutsidersEmpty == \A n \in Node : ~Has(nodeIDs, n) /\ ~Joins(n) => nodes[n] = <<>>
TakenSoFar ==
  change.kind = "add" =>
    Len(nodes[change.node]) + change.left = NumSectors \div (numServers + 1)

(* Each list has its sectors once and they are its owner's; what           *)
(* RemoveNode has yet to give away is still the departed node's.           *)
OwnLists ==
  \A n \in Node : /\ Once(nodes[n])
                  /\ \A s \in Sector : Has(nodes[n], s) => sectorMap[s] = n
PendingOwned ==
  change.kind = "remove" =>
    /\ Once(change.rest)
    /\ \A s \in Sector : Has(change.rest, s) => sectorMap[s] = change.node
AllListed == \A s \in Sector : Has(nodes[sectorMap[s]], s) \/ Has(Pending, s)

RingInv ==
  /\ RingTypeOK /\ NodesCounted /\ OutsidersEmpty /\ TakenSoFar
  /\ OwnLists /\ PendingOwned /\ AllListed

(* There are sectors for all the nodes that may join; no node of the ring  *)
(* goes without one.                                                       *)
EnoughSectors == Cardinality(Node) <= NumSectors
NoneWithout == \A n \in Node : Has(nodeIDs, n) => nodes[n] # <<>>

LEMMA ChangeTyped ==
  ASSUME RingTypeOK
  PROVE  /\ change.kind \in {"none", "add", "remove"}
         /\ change.kind = "none" => change = Idle
         /\ change.kind # "none" => change.node \in Node
         /\ change.kind = "add" => change.left \in Nat /\ change = Adding(change.node, change.left)
         /\ change.kind = "remove" => change.rest \in Seq(Sector) /\ change.i \in Nat
         /\ Idle.kind = "none"
  BY DEF RingTypeOK, Idle, Adding

LEMMA ChangeMade ==
  ASSUME NEW n \in Node
  PROVE  /\ \A k \in Nat : /\ Adding(n, k) \in [kind : {"add"}, node : Node, left : Nat]
                           /\ Adding(n, k).kind = "add" /\ Adding(n, k).node = n
                           /\ Adding(n, k).left = k
         /\ \A i \in Nat, q \in Seq(Sector) :
              /\ Removing(n, i, q) \in [kind : {"remove"}, node : Node, i : Nat, rest : Seq(Sector)]
              /\ Removing(n, i, q).kind = "remove" /\ Removing(n, i, q).node = n
              /\ Removing(n, i, q).rest = q
  BY DEF Adding, Removing

LEMMA MemberHas ==
  ASSUME RingTypeOK
  PROVE  \A n : n \in Member <=> Has(nodeIDs, n)
  BY DEF Member, Has

LEMMA RingInvInit == RingInit => RingInv
  <1> SUFFICES ASSUME RingInit PROVE RingInv
    OBVIOUS
  <1>1. DealtSoFar(NumSectors, nodes) /\ nodes \in [Node -> Seq(Sector)]
    BY DealtOnce DEF RingInit, DealtSoFar, Sector
  <1>2. \A s \in Sector : s \in Nat /\ FirstOwner(s) \in Node /\ sectorMap[s] = FirstOwner(s)
    BY InitialNodes, RingAssumption DEF RingInit, Sector
  <1>3. RingTypeOK
    <2>1. sectorMap \in [Sector -> Node]
      BY <1>2 DEF RingInit
    <2>2. nodeIDs \in Seq(Node) /\ numServers \in Nat
      BY RingAssumption DEF RingInit
    <2> QED BY <1>1, <2>1, <2>2 DEF RingInit, RingTypeOK, Idle
  <1>4. NodesCounted
    BY InitialNodes, RingAssumption DEF NodesCounted, RingInit, Once, Idle, N
  <1>5. \A n \in Node : \A k \in DOMAIN nodes[n] : nodes[n][k] \in Sector /\ FirstOwner(nodes[n][k]) = n
    BY <1>1 DEF DealtSoFar
  <1>6. OwnLists
    BY <1>1, <1>2, <1>5 DEF OwnLists, DealtSoFar, Once, Has
  <1>7. AllListed
    <2> SUFFICES ASSUME NEW s \in Sector PROVE Has(nodes[sectorMap[s]], s)
      BY DEF AllListed
    <2> QED BY <1>1, <1>2 DEF DealtSoFar, Has, Sector
  <1>8. OutsidersEmpty
    <2> SUFFICES ASSUME NEW n \in Node, nodes[n] # <<>> PROVE Has(nodeIDs, n)
      BY DEF OutsidersEmpty
    <2>1. nodes[n] \in Seq(Sector)
      BY <1>1
    <2>2. 1 \in DOMAIN nodes[n]
      BY <2>1
    <2> DEFINE s == nodes[n][1]
    <2>3. s \in Sector /\ FirstOwner(s) = n
      BY <1>5, <2>2
    <2>4. (s % N) + 1 \in DOMAIN InitialIDs
      BY <1>2, <2>3, InitialNodes
    <2> QED BY <2>3, <2>4 DEF RingInit, Has, FirstOwner, N
  <1>9. TakenSoFar /\ PendingOwned
    BY DEF RingInit, TakenSoFar, PendingOwned, Idle
  <1> QED BY <1>3, <1>4, <1>6, <1>7, <1>8, <1>9 DEF RingInv

LEMMA Quotient ==
  ASSUME NEW a \in Nat, NEW b \in Nat \ {0}
  PROVE  a \div b \in Nat /\ b * (a \div b) <= a /\ (b <= a => a \div b >= 1)
  OBVIOUS

(* What AddNode takes for the new node. *)
LEMMA ShareType ==
  ASSUME RingTypeOK
  PROVE  NumSectors \div (numServers + 1) \in Nat
  <1>1. NumSectors \in Nat /\ numServers + 1 \in Nat \ {0}
    BY RingAssumption DEF RingTypeOK
  <1> QED BY <1>1, Quotient

LEMMA AddNodeStep ==
  ASSUME RingInv, NEW n \in Node, AddNode(n)
  PROVE  RingInv'
  <1> USE DEF RingInv
  <1>1. /\ nodeIDs' = nodeIDs /\ nodes' = nodes /\ sectorMap' = sectorMap
        /\ numServers' = numServers /\ change.kind = "none" /\ ~Has(nodeIDs, n)
    BY MemberHas DEF AddNode, Idle
  <1>2. NumSectors \div (numServers + 1) \in Nat
    BY ShareType
  <1>3. /\ change'.kind = "add" /\ change'.node = n
        /\ change'.left = NumSectors \div (numServers + 1)
        /\ change' \in [kind : {"add"}, node : Node, left : Nat]
    BY <1>2, ChangeMade DEF AddNode
  <1>4. nodes[n] = <<>> /\ Len(nodes[n]) = 0
    BY <1>1 DEF OutsidersEmpty, Joins
  <1>5. RingTypeOK'
    BY <1>1, <1>3 DEF RingTypeOK
  <1>6. NodesCounted'
    BY <1>1, <1>3 DEF NodesCounted
  <1>7. OutsidersEmpty'
    BY <1>1, <1>3 DEF OutsidersEmpty, Joins
  <1>8. TakenSoFar'
    BY <1>1, <1>2, <1>3, <1>4 DEF TakenSoFar
  <1>9. OwnLists' /\ PendingOwned' /\ AllListed'
    BY <1>1, <1>3 DEF OwnLists, PendingOwned, AllListed, Pending
  <1> QED BY <1>5, <1>6, <1>7, <1>8, <1>9

LEMMA TakeStep ==
  ASSUME RingInv, NEW i \in DOMAIN nodeIDs, TakeSectorFrom(nodeIDs[i])
  PROVE  RingInv'
  <1> USE DEF RingInv
  <1> DEFINE r == nodeIDs[i]
             m == change.node
             s == Head(nodes[r])
  <1>1. /\ nodeIDs' = nodeIDs /\ numServers' = numServers
        /\ change.kind = "add" /\ change.left > 0 /\ nodes[r] # <<>>
        /\ nodes' = [nodes EXCEPT ![r] = Tail(@), ![m] = Append(@, s)]
        /\ sectorMap' = [sectorMap EXCEPT ![s] = m]
        /\ change' = Adding(m, change.left - 1)
    BY DEF TakeSectorFrom
  <1>2. r \in Node /\ m \in Node /\ Has(nodeIDs, r) /\ r # m /\ change.left \in Nat
    BY <1>1, ChangeTyped DEF RingTypeOK, NodesCounted, Has
  <1>3. nodes[r] \in Seq(Sector) /\ nodes[m] \in Seq(Sector) /\ Once(nodes[r]) /\ Once(nodes[m])
    BY <1>2 DEF RingTypeOK, OwnLists
  <1>4. /\ s \in Sector /\ sectorMap[s] = r /\ Tail(nodes[r]) \in Seq(Sector) /\ Once(Tail(nodes[r]))
        /\ \A t : Has(Tail(nodes[r]), t) <=> Has(nodes[r], t) /\ t # s
    BY <1>1, <1>2, <1>3, TailHas DEF OwnLists
  <1>5. ~Has(nodes[m], s)
    BY <1>2, <1>4 DEF OwnLists
  <1>6. /\ Append(nodes[m], s) \in Seq(Sector) /\ Once(Append(nodes[m], s))
        /\ \A t : Has(Append(nodes[m], s), t) <=> Has(nodes[m], t) \/ t = s
        /\ Len(Append(nodes[m], s)) = Len(nodes[m]) + 1 /\ Len(nodes[m]) \in Nat
    BY <1>3, <1>4, <1>5, AppendHas
  <1>7. /\ nodes'[r] = Tail(nodes[r]) /\ nodes'[m] = Append(nodes[m], s)
        /\ \A n \in Node : n # r /\ n # m => nodes'[n] = nodes[n]
        /\ nodes' \in [Node -> Seq(Sector)]
    BY <1>1, <1>2, <1>4, <1>6 DEF RingTypeOK
  <1>8. /\ sectorMap' \in [Sector -> Node] /\ sectorMap'[s] = m
        /\ \A t \in Sector : t # s => sectorMap'[t] = sectorMap[t]
    BY <1>1, <1>2, <1>4 DEF RingTypeOK
  <1>9. /\ change'.kind = "add" /\ change'.node = m /\ change'.left = change.left - 1
        /\ change' \in [kind : {"add"}, node : Node, left : Nat]
    <2>1. change.left - 1 \in Nat
      BY <1>1, <1>2
    <2> QED BY <1>1, <1>2, <2>1, ChangeMade
  <1> HIDE DEF r, m, s
  <1>10. RingTypeOK'
    BY <1>1, <1>7, <1>8, <1>9 DEF RingTypeOK
  <1>11. NodesCounted'
    BY <1>1, <1>9 DEF NodesCounted, m
  <1>12. OutsidersEmpty'
    BY <1>1, <1>2, <1>7, <1>9 DEF OutsidersEmpty, Joins, m
  <1>13. TakenSoFar'
    <2>1. Len(nodes[m]) + change.left = NumSectors \div (numServers + 1)
      BY <1>1 DEF TakenSoFar, m
    <2>2. Len(nodes'[m]) + (change.left - 1) = NumSectors \div (numServers + 1)
      BY <1>2, <1>6, <1>7, <2>1, ShareType
    <2> QED BY <1>1, <1>9, <2>2 DEF TakenSoFar
  <1>14. OwnLists'
    <2> SUFFICES ASSUME NEW n \in Node
                 PROVE  Once(nodes'[n]) /\ \A t \in Sector : Has(nodes'[n], t) => sectorMap'[t] = n
      BY DEF OwnLists
    <2>1. Once(nodes[n]) /\ \A t \in Sector : Has(nodes[n], t) => sectorMap[t] = n
      BY DEF OwnLists
    <2>2. CASE n = r
      BY <1>4, <1>7, <1>8, <2>1, <2>2
    <2>3. CASE n = m
      BY <1>6, <1>7, <1>8, <2>1, <2>3
    <2>4. CASE n # r /\ n # m
      BY <1>4, <1>7, <1>8, <2>1, <2>4
    <2> QED BY <2>2, <2>3, <2>4
  <1>15. PendingOwned'
    BY <1>9 DEF PendingOwned
  <1>16. AllListed'
    <2> SUFFICES ASSUME NEW t \in Sector PROVE Has(nodes'[sectorMap'[t]], t)
      BY DEF AllListed
    <2>1. Has(nodes[sectorMap[t]], t) /\ sectorMap[t] \in Node
      BY <1>1, EmptyHas DEF AllListed, Pending, RingTypeOK
    <2>2. CASE t = s
      BY <1>6, <1>7, <1>8, <2>2
    <2>3. CASE t # s
      BY <1>4, <1>6, <1>7, <1>8, <2>1, <2>3
    <2> QED BY <2>2, <2>3
  <1> QED BY <1>10, <1>11, <1>12, <1>13, <1>14, <1>15, <1>16

LEMMA AddReturnsStep ==
  ASSUME RingInv, AddNodeReturns
  PROVE  RingInv' /\ \A n : Has(nodeIDs', n) <=> Has(nodeIDs, n) \/ n = change.node
  <1> USE DEF RingInv
  <1> DEFINE m == change.node
  <1>1. /\ nodes' = nodes /\ sectorMap' = sectorMap /\ change' = Idle
        /\ change.kind = "add" /\ change.left = 0
        /\ nodeIDs' = Append(nodeIDs, m) /\ numServers' = numServers + 1
    BY DEF AddNodeReturns
  <1>2. m \in Node /\ nodeIDs \in Seq(Node) /\ Once(nodeIDs) /\ ~Has(nodeIDs, m)
    BY <1>1, ChangeTyped DEF RingTypeOK, NodesCounted
  <1>3. /\ nodeIDs' \in Seq(Node) /\ Once(nodeIDs') /\ Len(nodeIDs') = Len(nodeIDs) + 1
        /\ \A n : Has(nodeIDs', n) <=> Has(nodeIDs, n) \/ n = m
    BY <1>1, <1>2, AppendHas
  <1>4. change'.kind = "none" /\ change' \in [kind : {"none"}]
    BY <1>1 DEF Idle
  <1>5. RingTypeOK'
    BY <1>1, <1>3, <1>4 DEF RingTypeOK
  <1>6. NodesCounted'
    BY <1>1, <1>2, <1>3, <1>4 DEF NodesCounted, RingTypeOK
  <1>7. OutsidersEmpty'
    BY <1>1, <1>3 DEF OutsidersEmpty, Joins
  <1>8. TakenSoFar' /\ PendingOwned'
    BY <1>4 DEF TakenSoFar, PendingOwned
  <1>9. OwnLists' /\ AllListed'
    BY <1>1, <1>4 DEF OwnLists, AllListed, Pending
  <1> QED BY <1>3, <1>5, <1>6, <1>7, <1>8, <1>9

LEMMA RemoveStep ==
  ASSUME RingInv, NEW i \in DOMAIN nodeIDs, RemoveNode(i)
  PROVE  RingInv' /\ \A n : Has(nodeIDs', n) <=> Has(nodeIDs, n) /\ n # nodeIDs[i]
  <1> USE DEF RingInv
  <1> DEFINE r == nodeIDs[i]
  <1>1. /\ sectorMap' = sectorMap /\ change.kind = "none" /\ Len(nodeIDs) > 1
        /\ change' = Removing(r, 0, nodes[r]) /\ nodes' = [nodes EXCEPT ![r] = <<>>]
        /\ nodeIDs' = DeleteFromSlice(nodeIDs, i) /\ numServers' = numServers - 1
    BY DEF RemoveNode, Idle
  <1>2. r \in Node /\ nodeIDs \in Seq(Node) /\ Once(nodeIDs) /\ nodes[r] \in Seq(Sector)
    BY DEF RingTypeOK, NodesCounted
  <1>3. /\ nodeIDs' \in Seq(Node) /\ Once(nodeIDs') /\ Len(nodeIDs') = Len(nodeIDs) - 1
        /\ \A n : Has(nodeIDs', n) <=> Has(nodeIDs, n) /\ n # r
    BY <1>1, <1>2, DeleteHas
  <1>4. /\ change'.kind = "remove" /\ change'.node = r /\ change'.rest = nodes[r]
        /\ change' \in [kind : {"remove"}, node : Node, i : Nat, rest : Seq(Sector)]
    BY <1>1, <1>2, ChangeMade
  <1>5. /\ nodes' \in [Node -> Seq(Sector)] /\ nodes'[r] = <<>>
        /\ \A n \in Node : n # r => nodes'[n] = nodes[n]
    BY <1>1, <1>2 DEF RingTypeOK
  <1> HIDE DEF r
  <1>6. RingTypeOK'
    <2>1. numServers' \in Nat
      BY <1>1 DEF NodesCounted, RingTypeOK
    <2> QED BY <1>1, <1>3, <1>4, <1>5, <2>1 DEF RingTypeOK
  <1>7. NodesCounted'
    BY <1>1, <1>2, <1>3, <1>4 DEF NodesCounted, RingTypeOK
  <1>8. OutsidersEmpty'
    BY <1>1, <1>3, <1>4, <1>5 DEF OutsidersEmpty, Joins
  <1>9. TakenSoFar'
    BY <1>4 DEF TakenSoFar
  <1>10. OwnLists'
    BY <1>1, <1>2, <1>5, EmptyHas DEF OwnLists
  <1>11. PendingOwned'
    BY <1>1, <1>2, <1>4 DEF OwnLists, PendingOwned
  <1>12. AllListed'
    <2> SUFFICES ASSUME NEW s \in Sector
                 PROVE  Has(nodes'[sectorMap'[s]], s) \/ Has(nodes[r], s)
      BY <1>4 DEF AllListed, Pending
    <2>1. Has(nodes[sectorMap[s]], s) /\ sectorMap[s] \in Node
      BY <1>1, EmptyHas DEF AllListed, Pending, RingTypeOK
    <2> QED BY <1>1, <1>5, <2>1
  <1> QED BY <1>3, <1>6, <1>7, <1>8, <1>9, <1>10, <1>11, <1>12 DEF r

LEMMA TurnIsNode ==
  ASSUME RingInv, change.kind = "remove"
  PROVE  LET k == (change.i % numServers) + 1
         IN  k \in DOMAIN nodeIDs /\ nodeIDs[k] \in Node /\ Has(nodeIDs, nodeIDs[k])
  <1>1. /\ nodeIDs \in Seq(Node) /\ numServers = Len(nodeIDs) /\ numServers \in Nat \ {0}
        /\ change.i \in Nat
    BY ChangeTyped DEF RingInv, RingTypeOK, NodesCounted
  <1>2. (change.i % numServers) + 1 \in 1..numServers
    BY <1>1
  <1> QED BY <1>1, <1>2 DEF Has

LEMMA GiveStep ==
  ASSUME RingInv, NEW n \in Node, Has(nodeIDs, n), GiveSectorTo(n)
  PROVE  RingInv'
  <1> USE DEF RingInv
  <1> DEFINE s == Head(change.rest)
  <1>1. /\ nodeIDs' = nodeIDs /\ numServers' = numServers
        /\ change.kind = "remove" /\ change.rest # <<>>
        /\ nodes' = [nodes EXCEPT ![n] = Append(@, s)]
        /\ sectorMap' = [sectorMap EXCEPT ![s] = n]
        /\ change' = Removing(change.node, change.i + 1, Tail(change.rest))
    BY DEF GiveSectorTo
  <1>2. /\ change.node \in Node /\ change.rest \in Seq(Sector) /\ change.i \in Nat
        /\ Once(change.rest) /\ n # change.node /\ nodes[n] \in Seq(Sector) /\ Once(nodes[n])
    BY <1>1, ChangeTyped DEF RingTypeOK, NodesCounted, PendingOwned, OwnLists
  <1>3. /\ s \in Sector /\ sectorMap[s] = change.node /\ Once(Tail(change.rest))
        /\ Tail(change.rest) \in Seq(Sector)
        /\ \A t : Has(Tail(change.rest), t) <=> Has(change.rest, t) /\ t # s
    BY <1>1, <1>2, TailHas DEF PendingOwned
  <1>4. ~Has(nodes[n], s)
    BY <1>2, <1>3 DEF OwnLists
  <1>5. /\ Append(nodes[n], s) \in Seq(Sector) /\ Once(Append(nodes[n], s))
        /\ \A t : Has(Append(nodes[n], s), t) <=> Has(nodes[n], t) \/ t = s
    BY <1>2, <1>3, <1>4, AppendHas
  <1>6. /\ nodes' \in [Node -> Seq(Sector)] /\ nodes'[n] = Append(nodes[n], s)
        /\ \A u \in Node : u # n => nodes'[u] = nodes[u]
    BY <1>1, <1>5 DEF RingTypeOK
  <1>7. /\ sectorMap' \in [Sector -> Node] /\ sectorMap'[s] = n
        /\ \A t \in Sector : t # s => sectorMap'[t] = sectorMap[t]
    BY <1>1, <1>3 DEF RingTypeOK
  <1>8. /\ change'.kind = "remove" /\ change'.node = change.node
        /\ change'.rest = Tail(change.rest)
        /\ change' \in [kind : {"remove"}, node : Node, i : Nat, rest : Seq(Sector)]
    <2>1. change.i + 1 \in Nat
      BY <1>2
    <2> HIDE DEF RingInv
    <2> QED BY <1>1, <1>2, <1>3, <2>1 DEF Removing
  <1> HIDE DEF s
  <1>9. RingTypeOK'
    BY <1>1, <1>6, <1>7, <1>8 DEF RingTypeOK
  <1>10. NodesCounted'
    BY <1>1, <1>8 DEF NodesCounted
  <1>11. OutsidersEmpty'
    BY <1>1, <1>6, <1>8 DEF OutsidersEmpty, Joins
  <1>12. TakenSoFar'
    BY <1>8 DEF TakenSoFar
  <1>13. OwnLists'
    <2> SUFFICES ASSUME NEW u \in Node
                 PROVE  Once(nodes'[u]) /\ \A t \in Sector : Has(nodes'[u], t) => sectorMap'[t] = u
      BY DEF OwnLists
    <2>1. Once(nodes[u]) /\ \A t \in Sector : Has(nodes[u], t) => sectorMap[t] = u
      BY DEF OwnLists
    <2>2. CASE u = n
      BY <1>5, <1>6, <1>7, <2>1, <2>2
    <2>3. CASE u # n
      <3>1. u # change.node \/ nodes[u] = <<>>
        BY <1>1 DEF OutsidersEmpty, NodesCounted, Joins
      <3>2. ~Has(nodes[u], s)
        BY <1>3, <2>1, <3>1, EmptyHas
      <3> QED BY <1>6, <1>7, <2>1, <2>3, <3>2
    <2> QED BY <2>2, <2>3
  <1>14. PendingOwned'
    BY <1>1, <1>3, <1>7, <1>8 DEF PendingOwned
  <1>15. AllListed'
    <2> SUFFICES ASSUME NEW t \in Sector
                 PROVE  Has(nodes'[sectorMap'[t]], t) \/ Has(Tail(change.rest), t)
      BY <1>8 DEF AllListed, Pending
    <2>1. sectorMap[t] \in Node /\ (Has(nodes[sectorMap[t]], t) \/ Has(change.rest, t))
      BY <1>1 DEF AllListed, Pending, RingTypeOK
    <2>2. CASE t = s
      BY <1>5, <1>6, <1>7, <2>2
    <2>3. CASE t # s
      BY <1>3, <1>5, <1>6, <1>7, <2>1, <2>3
    <2> QED BY <2>2, <2>3
  <1> QED BY <1>9, <1>10, <1>11, <1>12, <1>13, <1>14, <1>15

LEMMA RemoveReturnsStep ==
  ASSUME RingInv, RemoveNodeReturns
  PROVE  RingInv'
  <1> USE DEF RingInv
  <1>1. /\ nodeIDs' = nodeIDs /\ nodes' = nodes /\ sectorMap' = sectorMap
        /\ numServers' = numServers /\ change.kind = "remove" /\ change.rest = <<>>
        /\ change' = Idle /\ change'.kind = "none" /\ change' \in [kind : {"none"}]
    BY DEF RemoveNodeReturns, Idle
  <1>2. RingTypeOK'
    BY <1>1 DEF RingTypeOK
  <1>3. NodesCounted' /\ OutsidersEmpty' /\ TakenSoFar' /\ OwnLists' /\ PendingOwned'
    BY <1>1 DEF NodesCounted, OutsidersEmpty, Joins, TakenSoFar, OwnLists, PendingOwned
  <1>4. AllListed'
    BY <1>1, EmptyHas DEF AllListed, Pending
  <1> QED BY <1>2, <1>3, <1>4

LEMMA RingInvNext == RingInv /\ [RingNext]_ringVars => RingInv'
  <1> SUFFICES ASSUME RingInv, [RingNext]_ringVars PROVE RingInv'
    OBVIOUS
  <1>1. CASE UNCHANGED ringVars
    BY <1>1 DEF ringVars, RingInv, RingTypeOK, NodesCounted, OutsidersEmpty, Joins, TakenSoFar,
                OwnLists, PendingOwned, AllListed, Pending
  <1>2. CASE change.kind = "remove" /\ GiveSectorTo(nodeIDs[(change.i % numServers) + 1])
    BY <1>2, TurnIsNode, GiveStep
  <1> QED BY <1>1, <1>2, AddNodeStep, RemoveStep, TakeStep, AddReturnsStep, RemoveReturnsStep
          DEF RingNext

-----------------------------------------------------------------------------
(* Counting. *)

ElementsOf(q) == {q[i] : i \in 1..Len(q)}

LEMMA ListCount ==
  ASSUME NEW S, NEW q \in Seq(S)
  PROVE  /\ IsFiniteSet(ElementsOf(q)) /\ Cardinality(ElementsOf(q)) <= Len(q)
         /\ Once(q) => Cardinality(ElementsOf(q)) = Len(q)
         /\ \A x : x \in ElementsOf(q) <=> Has(q, x)
  <1>1. Len(q) \in Nat /\ DOMAIN q = 1..Len(q)
    OBVIOUS
  <1>2. IsFiniteSet(1..Len(q)) /\ Cardinality(1..Len(q)) = Len(q)
    BY <1>1, FS_Interval
  <1> DEFINE T == ElementsOf(q)
             f == [i \in 1..Len(q) |-> q[i]]
  <1>3. f \in Surjection(1..Len(q), T)
    BY DEF Surjection, ElementsOf
  <1>4. IsFiniteSet(T) /\ Cardinality(T) <= Len(q)
    <2> HIDE DEF f, T
    <2> QED BY <1>2, <1>3, FS_Surjection
  <1>5. ASSUME Once(q) PROVE Cardinality(T) = Len(q)
    <2>1. f \in Injection(1..Len(q), T)
      BY <1>1, <1>3, <1>5 DEF Injection, IsInjective, Surjection, Once
    <2> HIDE DEF f, T
    <2> QED BY <1>2, <1>3, <2>1, FS_Surjection
  <1> QED BY <1>1, <1>4, <1>5 DEF ElementsOf, Has

LEMMA SectorCount == IsFiniteSet(Sector) /\ Cardinality(Sector) = NumSectors
  BY RingAssumption, FS_Interval DEF Sector

(* A node that joins takes fewer than its share of the sectors before its  *)
(* last turn, so more sectors are left than there are nodes on the ring:   *)
(* the richest of them has two.                                            *)
LEMMA RichestHasTwo ==
  ASSUME RingInv, change.kind = "add", change.left > 0, NEW i \in DOMAIN nodeIDs, IsRichest(i)
  PROVE  Len(nodes[nodeIDs[i]]) >= 2
  <1> SUFFICES ASSUME Len(nodes[nodeIDs[i]]) < 2 PROVE FALSE
    BY DEF RingInv, RingTypeOK
  <1> USE DEF RingInv
  <1> DEFINE m == change.node
             F == {s \in Sector : sectorMap[s] # m}
             M == ElementsOf(nodeIDs)
             q == NumSectors \div (numServers + 1)
  <1>1. m \in Node /\ change.left \in Nat /\ nodes[m] \in Seq(Sector) /\ nodeIDs \in Seq(Node)
    BY ChangeTyped DEF RingTypeOK
  <1>2. /\ IsFiniteSet(M) /\ Cardinality(M) <= numServers /\ numServers \in Nat
        /\ \A n : n \in M <=> Has(nodeIDs, n)
    BY <1>1, ListCount DEF NodesCounted, RingTypeOK
  <1>3. \A n \in M : n \in Node /\ Len(nodes[n]) \in Nat /\ Len(nodes[n]) < 2
    <2> TAKE n \in M
    <2>1. PICK j \in DOMAIN nodeIDs : nodeIDs[j] = n
      BY <1>2 DEF Has
    <2>2. n \in Node /\ nodeIDs[i] \in Node
      BY <2>1 DEF RingTypeOK
    <2>3. Len(nodes[n]) \in Nat /\ Len(nodes[nodeIDs[i]]) \in Nat
      BY <2>2 DEF RingTypeOK
    <2>4. Len(nodes[n]) < Len(nodes[nodeIDs[i]]) \/ Len(nodes[n]) = Len(nodes[nodeIDs[i]])
      BY <2>1 DEF IsRichest
    <2> QED BY <2>1, <2>2, <2>3, <2>4
  <1>4. \A s \in F : sectorMap[s] \in M /\ Has(nodes[sectorMap[s]], s)
    <2> TAKE s \in F
    <2>1. Has(nodes[sectorMap[s]], s) /\ sectorMap[s] \in Node
      BY EmptyHas DEF AllListed, Pending, RingTypeOK
    <2>2. Has(nodeIDs, sectorMap[s])
      BY <2>1, EmptyHas DEF OutsidersEmpty, Joins
    <2> QED BY <1>2, <2>1, <2>2
  <1>5. \A s, t \in F : sectorMap[s] = sectorMap[t] => s = t
    <2> SUFFICES ASSUME NEW s \in F, NEW t \in F, sectorMap[s] = sectorMap[t] PROVE s = t
      OBVIOUS
    <2> DEFINE l == nodes[sectorMap[s]]
    <2>1. Has(l, s) /\ Has(l, t) /\ Len(l) \in Nat /\ Len(l) < 2 /\ l \in Seq(Sector)
      BY <1>3, <1>4 DEF RingTypeOK
    <2> HIDE DEF l
    <2>2. DOMAIN l \subseteq {1}
      BY <2>1
    <2> QED BY <2>1, <2>2 DEF Has
  <1>6. IsFiniteSet(F) /\ Cardinality(F) >= NumSectors - Len(nodes[m]) /\ Cardinality(F) \in Nat
    <2> DEFINE G == ElementsOf(nodes[m])
    <2>1. IsFiniteSet(G) /\ Cardinality(G) <= Len(nodes[m])
      BY <1>1, ListCount
    <2>2. F = Sector \ G
      <3>1. ASSUME NEW s \in Sector PROVE sectorMap[s] = m <=> Has(nodes[m], s)
        BY <1>1, EmptyHas DEF AllListed, Pending, OwnLists
      <3> QED BY <1>1, <3>1, ListCount
    <2> HIDE DEF F, G, m
    <2>3. /\ IsFiniteSet(F) /\ Cardinality(F) = Cardinality(Sector) - Cardinality(Sector \cap G)
          /\ Cardinality(F) \in Nat
      BY <2>2, SectorCount, FS_Difference, FS_CardinalityType
    <2>4. Cardinality(Sector \cap G) <= Cardinality(G) /\ Cardinality(Sector \cap G) \in Nat
      <3>1. Sector \cap G \subseteq G
        OBVIOUS
      <3> QED BY <2>1, <3>1, FS_Subset, FS_CardinalityType
    <2>5. Len(nodes[m]) \in Nat /\ Cardinality(G) \in Nat /\ NumSectors \in Nat
      BY <1>1, <2>1, FS_CardinalityType, RingAssumption
    <2> QED BY <2>1, <2>3, <2>4, <2>5, SectorCount
  <1>7. NumSectors - Len(nodes[m]) > numServers
    <2>1. q \in Nat /\ NumSectors \in Nat /\ (numServers + 1) * q <= NumSectors
      <3>1. NumSectors \in Nat /\ numServers + 1 \in Nat \ {0}
        BY <1>2, RingAssumption
      <3> QED BY <3>1, Quotient
    <2>2. Len(nodes[m]) + change.left = q /\ Len(nodes[m]) \in Nat
      BY <1>1 DEF TakenSoFar
    <2> HIDE DEF q, m
    <2>3. q >= 1 /\ Len(nodes[m]) <= q - 1
      BY <1>1, <2>1, <2>2
    <2>4. (numServers + 1) * q = numServers * q + q /\ numServers * q >= numServers
      BY <1>2, <2>1, <2>3
    <2>5. numServers * q \in Nat
      BY <1>2, <2>1
    <2> HIDE DEF RingInv
    <2> QED BY <1>2, <2>1, <2>2, <2>3, <2>4, <2>5
  <1>8. Cardinality(M) < Cardinality(F)
    <2>1. Cardinality(M) \in Nat /\ Len(nodes[m]) \in Nat /\ NumSectors \in Nat
      BY <1>1, <1>2, FS_CardinalityType, RingAssumption
    <2> QED BY <1>2, <1>6, <1>7, <2>1
  <1> DEFINE f == [s \in F |-> sectorMap[s]]
  <1>9. f \in [F -> M]
    BY <1>4
  <1>10. \E s, t \in F : s # t /\ f[s] = f[t]
    <2> HIDE DEF F, M, f
    <2> QED BY <1>2, <1>6, <1>8, <1>9, FS_PigeonHole
  <1> QED BY <1>5, <1>10

(* AddNode's share is not 0 when there are sectors for all nodes. *)
LEMMA ShareIsOne ==
  ASSUME RingInv, EnoughSectors, change.kind = "add"
  PROVE  NumSectors \div (numServers + 1) >= 1
  <1> DEFINE M == ElementsOf(nodeIDs)
  <1>1. change.node \in Node /\ nodeIDs \in Seq(Node) /\ Once(nodeIDs) /\ ~Has(nodeIDs, change.node)
    BY ChangeTyped DEF RingInv, RingTypeOK, NodesCounted
  <1>2. IsFiniteSet(M) /\ Cardinality(M) = numServers /\ numServers \in Nat
    BY <1>1, ListCount DEF RingInv, RingTypeOK, NodesCounted
  <1>3. change.node \notin M /\ M \cup {change.node} \subseteq Node
    <2>1. \A n : n \in M => Has(nodeIDs, n)
      BY <1>1, ListCount
    <2> QED BY <1>1, <2>1 DEF Has
  <1> HIDE DEF M
  <1>4. Cardinality(M \cup {change.node}) = numServers + 1
    BY <1>2, <1>3, FS_AddElement
  <1>5. numServers + 1 <= Cardinality(Node) /\ Cardinality(Node) \in Nat
    BY <1>3, <1>4, RingAssumption, FS_Subset, FS_CardinalityType
  <1>6. NumSectors \in Nat /\ numServers + 1 \in Nat \ {0} /\ numServers + 1 <= NumSectors
    BY <1>2, <1>5, RingAssumption DEF EnoughSectors
  <1> QED BY <1>6, Quotient

LEMMA NoneWithoutInit == RingInit /\ EnoughSectors => NoneWithout
  <1> SUFFICES ASSUME RingInit, EnoughSectors, NEW n \in Node, Has(nodeIDs, n)
               PROVE  nodes[n] # <<>>
    BY DEF NoneWithout
  <1>1. PICK i \in 1..N : InitialIDs[i] = n
    BY InitialNodes DEF RingInit, Has
  <1>2. N <= NumSectors /\ NumSectors \in Nat
    <2>1. InitialIDs \in Seq(Node) /\ Once(InitialIDs) /\ NumSectors \in Nat /\ IsFiniteSet(Node)
      BY RingAssumption DEF Once
    <2>2. ElementsOf(InitialIDs) \subseteq Node
      BY <2>1 DEF ElementsOf
    <2>3. Cardinality(ElementsOf(InitialIDs)) = N
      BY <2>1, ListCount DEF N
    <2>4. Cardinality(Node) \in Nat /\ N <= Cardinality(Node)
      BY <2>1, <2>2, <2>3, FS_Subset, FS_CardinalityType
    <2> QED BY <2>1, <2>4, InitialNodes DEF EnoughSectors
  <1>3. i - 1 \in 0..(N - 1) /\ i - 1 \in 0..(NumSectors - 1) /\ (i - 1) + 1 = i
    BY <1>2, InitialNodes
  <1>4. FirstOwner(i - 1) = n
    BY <1>1, <1>3, InitialNodes
  <1>5. \E k \in DOMAIN nodes[n] : nodes[n][k] = i - 1
    BY <1>3, <1>4, DealtOnce DEF RingInit, DealtSoFar
  <1> QED BY <1>5

LEMMA NoneWithoutNext ==
  ASSUME RingInv, NoneWithout, EnoughSectors, [RingNext]_ringVars
  PROVE  NoneWithout'
  <1> SUFFICES ASSUME NEW n \in Node, Has(nodeIDs', n) PROVE nodes'[n] # <<>>
    BY DEF NoneWithout
  <1> USE DEF RingInv
  <1>1. CASE \E u \in Node : AddNode(u)
    BY <1>1 DEF AddNode, NoneWithout
  <1>2. ASSUME NEW i \in DOMAIN nodeIDs, RemoveNode(i) PROVE nodes'[n] # <<>>
    <2>1. Has(nodeIDs, n) /\ n # nodeIDs[i] /\ nodeIDs[i] \in Node
      BY <1>2, RemoveStep DEF RingTypeOK
    <2>2. nodes'[n] = nodes[n]
      BY <1>2, <2>1 DEF RemoveNode, RingTypeOK
    <2> QED BY <2>1, <2>2 DEF NoneWithout
  <1>3. ASSUME NEW i \in DOMAIN nodeIDs, IsRichest(i), TakeSectorFrom(nodeIDs[i])
        PROVE  nodes'[n] # <<>>
    <2> DEFINE r == nodeIDs[i]
               m == change.node
    <2>1. /\ change.kind = "add" /\ change.left > 0 /\ nodeIDs' = nodeIDs
          /\ nodes' = [nodes EXCEPT ![r] = Tail(@), ![m] = Append(@, Head(nodes[r]))]
      BY <1>3 DEF TakeSectorFrom
    <2>2. r \in Node /\ m \in Node /\ Has(nodeIDs, r) /\ Has(nodeIDs, n) /\ n # m /\ r # m
      BY <2>1, ChangeTyped DEF RingTypeOK, NodesCounted, Has
    <2>3. CASE n = r
      <3>1. nodes[r] \in Seq(Sector) /\ Len(nodes[r]) >= 2
        BY <1>3, <2>1, <2>2, RichestHasTwo DEF RingTypeOK
      <3>2. nodes'[r] = Tail(nodes[r])
        BY <2>1, <2>2 DEF RingTypeOK
      <3> QED BY <2>3, <3>1, <3>2, TailNonempty
    <2>4. CASE n # r
      BY <2>1, <2>2, <2>4 DEF RingTypeOK, NoneWithout
    <2> QED BY <2>3, <2>4
  <1>4. CASE AddNodeReturns
    <2>1. change.kind = "add" /\ change.left = 0 /\ nodes' = nodes
      BY <1>4 DEF AddNodeReturns
    <2>2. Has(nodeIDs, n) \/ n = change.node
      BY <1>4, AddReturnsStep
    <2>3. CASE n = change.node
      <3>1. Len(nodes[n]) + 0 >= 1 /\ nodes[n] \in Seq(Sector)
        BY <2>1, <2>3, ShareIsOne DEF TakenSoFar, RingTypeOK
      <3> QED BY <2>1, <3>1
    <2> QED BY <2>1, <2>2, <2>3 DEF NoneWithout
  <1>5. CASE change.kind = "remove" /\ GiveSectorTo(nodeIDs[(change.i % numServers) + 1])
    <2> DEFINE u == nodeIDs[(change.i % numServers) + 1]
    <2>1. /\ u \in Node /\ nodeIDs' = nodeIDs /\ change.rest # <<>> /\ change.rest \in Seq(Sector)
          /\ nodes' = [nodes EXCEPT ![u] = Append(@, Head(change.rest))]
      BY <1>5, TurnIsNode, ChangeTyped DEF GiveSectorTo
    <2>2. CASE n = u
      <3>1. Head(change.rest) \in Sector /\ nodes[u] \in Seq(Sector)
        BY <2>1 DEF RingTypeOK
      <3>2. Append(nodes[u], Head(change.rest)) # <<>>
        BY <3>1, AppendHas
      <3> QED BY <2>1, <2>2, <3>2 DEF RingTypeOK
    <2>3. CASE n # u
      BY <2>1, <2>3 DEF RingTypeOK, NoneWithout
    <2> QED BY <2>2, <2>3
  <1>6. CASE RemoveNodeReturns
    BY <1>6 DEF RemoveNodeReturns, NoneWithout
  <1>7. CASE UNCHANGED ringVars
    BY <1>7 DEF ringVars, NoneWithout
  <1> QED BY <1>1, <1>2, <1>3, <1>4, <1>5, <1>6, <1>7 DEF RingNext

-----------------------------------------------------------------------------
(* The theorems. *)

LEMMA InvGivesSectorsOwned ==
  ASSUME RingInv, NoneWithout
  PROVE  SectorsOwned
  <1> USE DEF RingInv
  <1>1. ListedOnce
    <2>1. ASSUME NEW n \in Node, NEW i \in DOMAIN nodes[n] PROVE sectorMap[nodes[n][i]] = n
      <3>1. nodes[n][i] \in Sector /\ Has(nodes[n], nodes[n][i])
        BY DEF RingTypeOK, Has
      <3> QED BY <3>1 DEF OwnLists
    <2> QED BY <2>1 DEF ListedOnce, OwnLists, Once
  <1>2. NoneLost
    BY DEF NoneLost, AllListed, Has
  <1>3. \A n \in Member : nodes[n] # <<>>
    <2>1. \A n \in Member : n \in Node /\ Has(nodeIDs, n)
      BY DEF Member, Has, RingTypeOK
    <2> QED BY <2>1 DEF NoneWithout
  <1> QED BY <1>1, <1>2, <1>3 DEF SectorsOwned

(* While there are at least as many sectors as nodes that may join, every  *)
(* sector has one owner, who lists it once, at every turn of the loops of  *)
(* AddNode and RemoveNode, and no node of the ring goes without (chr/ring.go). *)
THEOREM SectorsAlwaysOwned == EnoughSectors /\ RingSpec => []SectorsOwned
  <1>1. RingInit /\ EnoughSectors => RingInv /\ NoneWithout
    BY RingInvInit, NoneWithoutInit
  <1>2. EnoughSectors /\ (RingInv /\ NoneWithout) /\ [RingNext]_ringVars => (RingInv /\ NoneWithout)'
    BY RingInvNext, NoneWithoutNext
  <1>3. RingInv /\ NoneWithout => SectorsOwned
    BY InvGivesSectorsOwned
  <1>4. EnoughSectors => []EnoughSectors
    <2>1. EnoughSectors => EnoughSectors'
      BY DEF EnoughSectors
    <2> QED BY <2>1, PTL
  <1> QED BY <1>1, <1>2, <1>3, <1>4, PTL DEF RingSpec

LEMMA QuotientBelow ==
  ASSUME NEW a \in Nat, NEW b \in Nat, NEW t \in Nat \ {0}, a < b * t
  PROVE  a \div t \in Nat /\ a \div t < b
  <1> DEFINE q == a \div t
  <1>1. q \in Nat /\ t * q <= a
    BY Quotient
  <1> HIDE DEF q
  <1>2. ASSUME q >= b PROVE t * q >= b * t
    BY <1>1, <1>2
  <1>3. t * q \in Nat /\ b * t \in Nat
    BY <1>1
  <1>4. q < b
    BY <1>1, <1>2, <1>3
  <1> QED BY <1>1, <1>4 DEF q

LEMMA SectorOfHash ==
  ASSUME NEW hash \in 0 .. HashSize - 1
  PROVE  SectorOf(hash) \in Sector
  <1> DEFINE B == NumSectors * BucketsPerSector
             a == B * hash
             p == a \div HashSize
  <1>1. /\ NumSectors \in Nat \ {0} /\ BucketsPerSector \in Nat \ {0} /\ HashSize \in Nat \ {0}
        /\ hash \in Nat /\ hash < HashSize
    BY RingAssumption
  <1>2. B \in Nat /\ B > 0
    BY <1>1
  <1>3. a \in Nat /\ a < B * HashSize
    <2> HIDE DEF B
    <2> QED BY <1>1, <1>2
  <1>4. p \in Nat /\ p < B
    <2> HIDE DEF a, B
    <2> QED BY <1>1, <1>2, <1>3, QuotientBelow
  <1>5. p \div BucketsPerSector \in Nat /\ p \div BucketsPerSector < NumSectors
    <2> HIDE DEF p
    <2> QED BY <1>1, <1>4, QuotientBelow
  <1>6. SectorOf(hash) = p \div BucketsPerSector
    BY DEF SectorOf
  <1> HIDE DEF p
  <1> QED BY <1>1, <1>5, <1>6 DEF Sector

LEMMA InvGivesPreferenceLists ==
  ASSUME RingInv, NoneWithout
  PROVE  PreferenceListsCurrent
  <1> SUFFICES ASSUME NEW s \in Sector
               PROVE  LET list == GetNeighbors(s)
                      IN  /\ Len(list) = Target
                          /\ \A i, j \in DOMAIN list : list[i] = list[j] => i = j
                          /\ list[1] = sectorMap[s]
                          /\ change = Idle => ToSet(list) \subseteq Member
    BY SectorOfHash DEF PreferenceListsCurrent, GetPreferenceList, GetCoordinator
  <1> USE DEF RingInv
  <1> DEFINE list == GetNeighbors(s)
             M == ElementsOf(nodeIDs)
             L == ElementsOf(list)
  <1>1. /\ NumSectors \in Nat \ {0} /\ s \in 0..(NumSectors - 1) /\ numServers \in Nat \ {0}
        /\ nodeIDs \in Seq(Node) /\ NumReplicas \in Nat \ {0}
    BY RingAssumption DEF Sector, RingTypeOK, NodesCounted
  <1>2. Target \in Nat \ {0} /\ Target <= numServers
    BY <1>1 DEF Target
  <1>3. FoundSoFar(s, NumSectors, list)
    BY <1>2, WalkFinds
  <1>4. list \in Seq(Node) /\ Len(list) \in Nat /\ Len(list) <= Target /\ Once(list)
    BY <1>3 DEF FoundSoFar, Once
  <1>5. list[1] = sectorMap[s]
    <2>1. (s + 0) % NumSectors = s
      BY <1>1, Remainder
    <2> QED BY <1>1, <1>3, <2>1 DEF FoundSoFar, OwnerAt
  <1>6. Len(list) = Target
    <2> SUFFICES ASSUME Len(list) < Target PROVE FALSE
      BY <1>2, <1>4
    <2>1. \A n \in M : n \in L
      <3> TAKE n \in M
      <3>1. Has(nodeIDs, n) /\ n \in Node
        BY <1>1, ListCount DEF Has
      <3>2. nodes[n] # <<>> /\ nodes[n] \in Seq(Sector)
        BY <3>1 DEF NoneWithout, RingTypeOK
      <3>3. 1 \in DOMAIN nodes[n] /\ nodes[n][1] \in Sector /\ Has(nodes[n], nodes[n][1])
        BY <3>2 DEF Has
      <3>4. sectorMap[nodes[n][1]] = n
        BY <3>1, <3>3 DEF OwnLists
      <3>5. PICK j \in 0..(NumSectors - 1) : OwnerAt(s, j) = n
        BY <3>3, <3>4, RoundTheRing
      <3>6. Has(list, n)
        BY <1>3, <3>5 DEF FoundSoFar, Has
      <3> QED BY <1>4, <3>6, ListCount
    <2>2. IsFiniteSet(L) /\ Cardinality(L) <= Len(list)
      BY <1>4, ListCount
    <2>3. Cardinality(M) = numServers
      BY <1>1, ListCount DEF NodesCounted
    <2> HIDE DEF L, M
    <2>4. Cardinality(M) <= Cardinality(L)
      BY <2>1, <2>2, FS_Subset
    <2>5. Cardinality(L) \in Nat
      BY <2>2, FS_CardinalityType
    <2> QED BY <1>1, <1>2, <1>4, <2>2, <2>3, <2>4, <2>5
  <1>7. ASSUME change = Idle PROVE ToSet(list) \subseteq Member
    <2> SUFFICES ASSUME NEW i \in DOMAIN list PROVE list[i] \in Member
      BY DEF ToSet
    <2>1. PICK j \in 0..(NumSectors - 1) : list[i] = OwnerAt(s, j)
      BY <1>3 DEF FoundSoFar
    <2> DEFINE t == (s + j) % NumSectors
    <2>2. t \in Sector /\ list[i] = sectorMap[t]
      BY <1>1, <2>1 DEF Sector, OwnerAt
    <2> HIDE DEF t
    <2>3. change.kind = "none" /\ sectorMap[t] \in Node
      BY <1>7, <2>2 DEF Idle, RingTypeOK
    <2>4. Has(nodes[sectorMap[t]], t)
      BY <2>2, <2>3, EmptyHas DEF AllListed, Pending
    <2>5. Has(nodeIDs, sectorMap[t])
      BY <2>3, <2>4, EmptyHas DEF OutsidersEmpty, Joins
    <2> QED BY <2>2, <2>5, MemberHas
  <1>8. \A i, j \in DOMAIN list : list[i] = list[j] => i = j
    BY <1>4 DEF Once
  <1> QED BY <1>5, <1>6, <1>7, <1>8

(* While there are at least as many sectors as nodes that may join, the    *)
(* preference list of every key has as many different nodes as it should,  *)
(* its coordinator first, even in the middle of AddNode and RemoveNode,    *)
(* where StartAntiEntropy may call GetNeighbors; between changes it names  *)
(* nodes of the ring only (chr/ring.go).                                   *)
THEOREM PreferenceListsAlwaysCurrent == EnoughSectors /\ RingSpec => []PreferenceListsCurrent
  <1>1. RingInit /\ EnoughSectors => RingInv /\ NoneWithout
    BY RingInvInit, NoneWithoutInit
  <1>2. EnoughSectors /\ (RingInv /\ NoneWithout) /\ [RingNext]_ringVars => (RingInv /\ NoneWithout)'
    BY RingInvNext, NoneWithoutNext
  <1>3. RingInv /\ NoneWithout => PreferenceListsCurrent
    BY InvGivesPreferenceLists
  <1>4. EnoughSectors => []EnoughSectors
    <2>1. EnoughSectors => EnoughSectors'
      BY DEF EnoughSectors
    <2> QED BY <2>1, PTL
  <1> QED BY <1>1, <1>2, <1>3, <1>4, PTL DEF RingSpec

=============================================================================
