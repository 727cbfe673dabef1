------------------------------ MODULE HashRing ------------------------------
(***************************************************************************)
(* The consistent hash ring (kvsrv/chr/ring.go): which server owns which   *)
(* sector, and the preference lists that follow.                           *)
(*                                                                         *)
(* AddNode and RemoveNode move one sector per turn of their loops.  They   *)
(* hold the write lock, so GetPreferenceList and GetCoordinator see whole  *)
(* changes only; StartAntiEntropy, however, calls GetNeighbors without the *)
(* lock, so each turn of a loop is a step of its own here.                 *)
(*                                                                         *)
(* Callers remove only nodes of the ring and never the last one, for which *)
(* RemoveNode divides by zero.  crc32 only picks a position of the ring;   *)
(* every hash value is considered.                                         *)
(***************************************************************************)
EXTENDS Naturals, SequencesExt

CONSTANTS
  Node,              \* the node IDs that may ever join
  InitialIDs,        \* the nodeIDs the ring is made with
  NumSectors,        \* chr.numSectors
  NumReplicas,       \* chr.numReplicas (chr.numBackups is 0)
  BucketsPerSector,  \* chr.bucketsPerSector
  HashSize           \* number of hash values: 2^32 in the code

ASSUME RingAssumption ==
  /\ InitialIDs \in Seq(Node) /\ InitialIDs # <<>>
  /\ \A i, j \in DOMAIN InitialIDs : InitialIDs[i] = InitialIDs[j] => i = j
  /\ NumSectors \in Nat \ {0} /\ NumReplicas \in Nat \ {0}
  /\ BucketsPerSector \in Nat \ {0} /\ HashSize \in Nat \ {0}
  /\ IsFiniteSet(Node)

VARIABLES
  nodeIDs,     \* the nodes, in the order they joined
  nodes,       \* nodes[n]: the list of sectors of n, <<>> for unknown nodes
  sectorMap,   \* sectorMap[s]: the owner of sector s
  numServers,
  change       \* the AddNode or RemoveNode that holds the write lock

ringVars == <<nodeIDs, nodes, sectorMap, numServers, change>>

Sector == 0 .. NumSectors - 1
Member == {nodeIDs[i] : i \in DOMAIN nodeIDs}

Idle == [kind |-> "none"]
Adding(n, left) == [kind |-> "add", node |-> n, left |-> left]
Removing(n, i, rest) == [kind |-> "remove", node |-> n, i |-> i, rest |-> rest]

(* The loop of MakeConsistentHashRing deals the sectors out in turn:        *)
(* Dealt[i] are the lists after i turns.                                    *)
FirstOwner(s) == InitialIDs[(s % Len(InitialIDs)) + 1]
Dealt[i \in 0..NumSectors] ==
  IF i = 0 THEN [n \in Node |-> <<>>]
  ELSE [Dealt[i - 1] EXCEPT ![FirstOwner(i - 1)] = Append(@, i - 1)]

RingInit ==
  /\ nodeIDs = InitialIDs
  /\ numServers = Len(InitialIDs)
  /\ sectorMap = [s \in Sector |-> FirstOwner(s)]
  /\ nodes = Dealt[NumSectors]
  /\ change = Idle

-----------------------------------------------------------------------------
(* GetRichestNode: the node with the most sectors, the first among equals. *)
IsRichest(i) ==
  LET load(j) == Len(nodes[nodeIDs[j]])
  IN  \A j \in DOMAIN nodeIDs : load(j) < load(i) \/ (load(j) = load(i) /\ i <= j)

DeleteFromSlice(slice, i) ==
  [j \in 1 .. Len(slice) - 1 |-> IF j < i THEN slice[j] ELSE slice[j + 1]]

(* A node that is in the ring already is left alone. *)
AddNode(n) ==
  /\ change = Idle
  /\ n \notin Member
  /\ change' = Adding(n, NumSectors \div (numServers + 1))
  /\ UNCHANGED <<nodeIDs, nodes, sectorMap, numServers>>

(* One turn of AddNode's loop; from a node without sectors it panics. *)
TakeSectorFrom(richest) ==
  /\ change.kind = "add" /\ change.left > 0
  /\ nodes[richest] # <<>>
  /\ LET s == Head(nodes[richest])
     IN  /\ nodes' = [nodes EXCEPT ![richest] = Tail(@), ![change.node] = Append(@, s)]
         /\ sectorMap' = [sectorMap EXCEPT ![s] = change.node]
  /\ change' = Adding(change.node, change.left - 1)
  /\ UNCHANGED <<nodeIDs, numServers>>

AddNodeReturns ==
  /\ change.kind = "add" /\ change.left = 0
  /\ nodeIDs' = Append(nodeIDs, change.node)
  /\ numServers' = numServers + 1
  /\ change' = Idle
  /\ UNCHANGED <<nodes, sectorMap>>

RemoveNode(i) ==
  /\ change = Idle
  /\ Len(nodeIDs) > 1
  /\ LET n == nodeIDs[i]
     IN  /\ change' = Removing(n, 0, nodes[n])
         /\ nodes' = [nodes EXCEPT ![n] = <<>>]
  /\ nodeIDs' = DeleteFromSlice(nodeIDs, i)
  /\ numServers' = numServers - 1
  /\ UNCHANGED sectorMap

(* MUTANT of GiveSectorTo: the map keeps the removed node as owner. *)
GiveSectorToUnmapped(n) ==
  /\ change.kind = "remove" /\ change.rest # <<>>
  /\ nodes' = [nodes EXCEPT ![n] = Append(@, Head(change.rest))]
  /\ change' = Removing(change.node, change.i + 1, Tail(change.rest))
  /\ UNCHANGED <<nodeIDs, sectorMap, numServers>>

(* One turn of RemoveNode's loop. *)
GiveSectorTo(n) ==
  /\ change.kind = "remove" /\ change.rest # <<>>
  /\ LET s == Head(change.rest)
     IN  /\ nodes' = [nodes EXCEPT ![n] = Append(@, s)]
         /\ sectorMap' = [sectorMap EXCEPT ![s] = n]
  /\ change' = Removing(change.node, change.i + 1, Tail(change.rest))
  /\ UNCHANGED <<nodeIDs, numServers>>

RemoveNodeReturns ==
  /\ change.kind = "remove" /\ change.rest = <<>>
  /\ change' = Idle
  /\ UNCHANGED <<nodeIDs, nodes, sectorMap, numServers>>

RingNext ==
  \/ \E n \in Node : AddNode(n)
  \/ \E i \in DOMAIN nodeIDs : RemoveNode(i)
  \/ \E i \in DOMAIN nodeIDs : IsRichest(i) /\ TakeSectorFrom(nodeIDs[i])
  \/ AddNodeReturns
  \/ change.kind = "remove" /\ GiveSectorTo(nodeIDs[(change.i % numServers) + 1])
  \/ RemoveNodeReturns

RingSpec == RingInit /\ [][RingNext]_ringVars

-----------------------------------------------------------------------------
(* Readers. *)

(* GetLocation: the sector of a hash (its bucket is position % BucketsPerSector). *)
SectorOf(hash) ==
  LET position == (NumSectors * BucketsPerSector * hash) \div HashSize
  IN  position \div BucketsPerSector

Target == IF NumReplicas > numServers THEN numServers ELSE NumReplicas

(* One turn of the loop of GetNeighbors, at a sector of n. *)
Visit(found, n) ==
  IF Len(found) < Target /\ n \notin ToSet(found) THEN Append(found, n) ELSE found

(* MUTANT of Walk: the walk begins at the next sector. *)
WalkAfter(s) ==
  LET found[k \in 0..NumSectors] ==
        IF k = 0 THEN <<>> ELSE Visit(found[k - 1], sectorMap[(s + k) % NumSectors])
  IN  found

(* Walk(s)[k]: the nodes GetNeighbors has found after k sectors. *)
Walk(s) ==
  LET found[k \in 0..NumSectors] ==
        IF k = 0 THEN <<>> ELSE Visit(found[k - 1], sectorMap[(s + k - 1) % NumSectors])
  IN  found

(* One round of the ring; the code walks until it has Target nodes. *)
GetNeighbors(s) == Walk(s)[NumSectors]

GetPreferenceList(hash) == GetNeighbors(SectorOf(hash))
GetCoordinator(hash) == sectorMap[SectorOf(hash)]

-----------------------------------------------------------------------------
RingTypeOK ==
  /\ nodeIDs \in Seq(Node)
  /\ nodes \in [Node -> Seq(Sector)]
  /\ sectorMap \in [Sector -> Node]
  /\ numServers \in Nat
  /\ change \in [kind : {"none"}]
               \cup [kind : {"add"}, node : Node, left : Nat]
               \cup [kind : {"remove"}, node : Node, i : Nat, rest : Seq(Sector)]

(* nodes and sectorMap tell the same story: after any sequence of joins    *)
(* and departures each sector is listed once, by its owner, or is one that *)
(* RemoveNode has yet to give away; and no node of the ring goes without.  *)
Pending == IF change.kind = "remove" THEN change.rest ELSE <<>>
ListedOnce ==
  /\ \A n \in Node : \A i \in DOMAIN nodes[n] : sectorMap[nodes[n][i]] = n
  /\ \A n \in Node : \A i, j \in DOMAIN nodes[n] : nodes[n][i] = nodes[n][j] => i = j
NoneLost ==
  \A s \in Sector :
    \/ \E i \in DOMAIN nodes[sectorMap[s]] : nodes[sectorMap[s]][i] = s
    \/ \E i \in DOMAIN Pending : Pending[i] = s
SectorsOwned == ListedOnce /\ NoneLost /\ \A n \in Member : nodes[n] # <<>>

(* Every key's preference list has Target different nodes, its coordinator  *)
(* first, whatever its hash.  The lists are complete at every turn of every *)
(* loop, so GetNeighbors also returns when StartAntiEntropy calls it in the *)
(* middle of a change; between changes no list names a node that has left.  *)
PreferenceListsCurrent ==
  \A hash \in 0 .. HashSize - 1 :
    LET list == GetPreferenceList(hash)
    IN  /\ Len(list) = Target
        /\ \A i, j \in DOMAIN list : list[i] = list[j] => i = j
        /\ list[1] = GetCoordinator(hash)
        /\ change = Idle => ToSet(list) \subseteq Member

=============================================================================
