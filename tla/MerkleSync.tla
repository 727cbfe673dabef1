----------------------------- MODULE MerkleSync -----------------------------
(***************************************************************************)
(* Merkle trees kept beside the store and the anti-entropy exchange that   *)
(* compares them: the bucket index and installObjects (server.go), the     *)
(* refresher (merkle.go), StartAntiEntropy, Reconcile, RepairGetDiff and   *)
(* ApplyDiff (anti_entropy.go), RepairPut (readrepair.go).                 *)
(*                                                                         *)
(* Three locks guard three pieces of state (kv.mu the store and the index, *)
(* dirtyMu the marks, merkleMu the trees), so an install and its mark, or  *)
(* a snapshot and the tree built from it, are different steps.             *)
(*                                                                         *)
(* What reaches a server from outside comes once each from the set Input:  *)
(* the ReplicaPut of a put, a read repair, RepairPut with Delete, the stop *)
(* of the server.  Dynamo models how the first two come about.             *)
(***************************************************************************)
EXTENDS Siblings, MerkleTree

CONSTANTS
  Server,
  Key,
  Sector,
  Location,    \* Location[k] = <<sector, bucket>>: ring.GetLocation
  Owner,       \* Owner[s]: the server whose GetResponsibleSectors has s
  Neighbors,   \* Neighbors[s]: the other servers of ring.GetNeighbors(s)
  Input,
  NoRoot       \* a sector without an entry in merkleRoots

SectorOf(k) == Location[k][1]
BucketOf(k) == Location[k][2]

ASSUME MerkleSyncAssumption ==
  /\ Location \in [Key -> Sector \X Bucket]
  /\ Owner \in [Sector -> Server]
  /\ Neighbors \in [Sector -> SUBSET Server]
  /\ \A s \in Sector : Owner[s] \notin Neighbors[s]
  /\ Input \subseteq
       [type : {"put"}, at : Server, key : Key, base : VClocks, obj : [id : STRING, vc : VClocks]]
       \cup [type : {"read", "delete"}, at : Server, key : Key]
       \cup [type : {"stop"}, at : Server]
  /\ \A i \in Input : i.type = "put" => Leq(i.base, i.obj.vc)

VARIABLES
  kv,         \* kv[n][k]: the siblings of k, {} when n does not have the key
  index,      \* index[n][s][b]: kv.keysInBuckets
  dirty,      \* kv.dirtySectors
  roots,      \* roots[n][s]: the summary of kv.merkleRoots[s], or NoRoot
  refresher,  \* the goroutine of StartMerkleRefresher
  exchange,   \* the goroutine of StartAntiEntropy and the call it waits for
  frames,     \* the installs of mergeObjectsCore and RepairPut under way
  repairs,    \* RepairPut requests under way
  inputs,     \* the inputs still to come
  silent      \* <<n, s>>: n stored a put in s after it last read s for a tree

vars == <<kv, index, dirty, roots, refresher, exchange, frames, repairs, inputs, silent>>
store == <<kv, index>>
trees == <<dirty, roots, refresher>>
calls == <<exchange, frames, repairs>>

Running(n) == [type |-> "stop", at |-> n] \in inputs \/ [type |-> "stop", at |-> n] \notin Input

(* The states of the goroutine of StartAntiEntropy.  While RepairGetDiff    *)
(* runs at the peer: the buckets and the keys of the present one that are   *)
(* still to be read, and the reply so far; then what is left of the reply.  *)
Idle == [st |-> "idle"]
Collecting(s, m, buckets, keys, infos) ==
  [st |-> "collect", sector |-> s, peer |-> m, buckets |-> buckets, keys |-> keys, infos |-> infos]
Applying(m, infos) == IF infos = <<>> THEN Idle ELSE [st |-> "apply", peer |-> m, infos |-> infos]

(* The states of the refresher's goroutine: the sectors of the present flush *)
(* still to be rebuilt, and a sector with its new tree before that is stored. *)
Flush(st, todo, built) == [st |-> st, todo |-> todo, built |-> built]

Init ==
  /\ kv = [n \in Server |-> [k \in Key |-> {}]]
  /\ index = [n \in Server |-> [s \in Sector |-> [b \in Bucket |-> <<>>]]]
  /\ dirty = [n \in Server |-> {}]
  /\ roots = [n \in Server |-> [s \in Sector |-> NoRoot]]
  /\ refresher = [n \in Server |-> Flush("loop", {}, <<>>)]
  /\ exchange = [n \in Server |-> Idle]
  /\ frames = {}
  /\ repairs = {}
  /\ inputs = Input
  /\ silent = {}

-----------------------------------------------------------------------------
(* The bucket index. *)

AppendUniqueKey(keys, k) == IF Contains(keys, k) THEN keys ELSE Append(keys, k)

RemoveKey(keys, k) == RemoveFirst(keys, k)

GetKeysFromBucket(n, s, b) == index[n][s][b]

(* BuildMerkleTree: snapshotSector, then buildMerkleTreeFromSnapshot.  A    *)
(* tree never changes once it is built, so its summary stands for it.       *)
BuildMerkleTree(n, s) ==
  ToSummary([i \in 1..NumBuckets |-> Leaf(GetKeysFromBucket(n, s, i - 1), kv[n])])

-----------------------------------------------------------------------------
(* MUTANT of ReplicaPut: a key that comes with a first version is not put   *)
(* into the bucket index.                                                   *)
ReplicaPutNoIndex(i) ==
  /\ i \in inputs /\ i.type = "put"
  /\ kv[i.at][i.key] # {} \/ IsInitial(i.base)
  /\ CanBeAddedTo(i.base, kv[i.at][i.key])
  /\ kv' = [kv EXCEPT ![i.at][i.key] = AddObject(@, i.obj)]
  /\ silent' = silent \cup {<<i.at, SectorOf(i.key)>>}
  /\ inputs' = inputs \ {i}
  /\ UNCHANGED <<index, trees, calls>>

(* ReplicaPut stores the object and, for a first version, puts the key into *)
(* its bucket.  It marks no sector dirty: the tree learns of the put when   *)
(* something else has the sector rebuilt.                                   *)
ReplicaPut(i) ==
  /\ i \in inputs /\ i.type = "put"
  /\ kv[i.at][i.key] # {} \/ IsInitial(i.base)
  /\ CanBeAddedTo(i.base, kv[i.at][i.key])
  /\ kv' = [kv EXCEPT ![i.at][i.key] = AddObject(@, i.obj)]
  /\ index' = IF IsInitial(i.base)
              THEN [index EXCEPT ![i.at][SectorOf(i.key)][BucketOf(i.key)] = AppendUniqueKey(@, i.key)]
              ELSE index
  /\ silent' = silent \cup {<<i.at, SectorOf(i.key)>>}
  /\ inputs' = inputs \ {i}
  /\ UNCHANGED <<trees, calls>>

(* ErrNoKey and ErrVersion change nothing. *)
ReplicaPutRefused(i) ==
  /\ i \in inputs /\ i.type = "put"
  /\ \/ kv[i.at][i.key] = {} /\ ~IsInitial(i.base)
     \/ ~CanBeAddedTo(i.base, kv[i.at][i.key])
  /\ inputs' = inputs \ {i}
  /\ UNCHANGED <<store, trees, calls, silent>>

(* repairReplicas: the merged siblings of the replicas that answered a read *)
(* are sent to a stale one.                                                 *)
ReadRepair(i) ==
  /\ i \in inputs /\ i.type = "read"
  /\ \E n \in Server \ {i.at} :
       LET canonical == MergeObjects(kv[i.at][i.key], kv[n][i.key])
       IN  /\ canonical # {} /\ canonical # kv[i.at][i.key]
           /\ repairs' = repairs \cup {[to |-> i.at, key |-> i.key, objs |-> canonical]}
  /\ inputs' = inputs \ {i}
  /\ UNCHANGED <<store, trees, exchange, frames, silent>>

(* RepairPut with Delete: installObjects(key, nil) up to the end of its     *)
(* critical section; MarkSectorDirty is the rest.                           *)
RepairDelete(i) ==
  /\ i \in inputs /\ i.type = "delete"
  /\ kv' = [kv EXCEPT ![i.at][i.key] = {}]
  /\ index' = [index EXCEPT ![i.at][SectorOf(i.key)][BucketOf(i.key)] = RemoveKey(@, i.key)]
  /\ frames' = frames \cup {[st |-> "mark", by |-> "RepairPut", at |-> i.at, key |-> i.key, merged |-> {}]}
  /\ inputs' = inputs \ {i}
  /\ UNCHANGED <<trees, exchange, repairs, silent>>

(* The cleanup of a cluster closes stopCh. *)
Stop(i) ==
  /\ i \in inputs /\ i.type = "stop"
  /\ inputs' = inputs \ {i}
  /\ UNCHANGED <<store, trees, calls, silent>>

-----------------------------------------------------------------------------
(* The Merkle refresher. *)

(* drainDirtySectors at the head of flushDirtyMerkle, on a tick. *)
DrainDirtySectors(n) ==
  /\ refresher[n].st = "loop" /\ refresher[n].todo = {} /\ dirty[n] # {}
  /\ refresher' = [refresher EXCEPT ![n] = Flush("loop", dirty[n], <<>>)]
  /\ dirty' = [dirty EXCEPT ![n] = {}]
  /\ UNCHANGED <<store, roots, calls, inputs, silent>>

(* The flush after stopCh is closed is the last one. *)
LastFlush(n) ==
  /\ refresher[n].st = "loop" /\ refresher[n].todo = {} /\ ~Running(n)
  /\ refresher' = [refresher EXCEPT ![n] = Flush("over", dirty[n], <<>>)]
  /\ dirty' = [dirty EXCEPT ![n] = {}]
  /\ UNCHANGED <<store, roots, calls, inputs, silent>>

(* BuildMerkleTree reads the sector under kv.mu ... *)
SnapshotSector(n, s) ==
  /\ LET r == refresher[n]
     IN  /\ s \in r.todo /\ r.built = <<>>
         /\ refresher' = [refresher EXCEPT ![n] = Flush(r.st, r.todo, <<s, BuildMerkleTree(n, s)>>)]
  /\ silent' = silent \ {<<n, s>>}
  /\ UNCHANGED <<store, dirty, roots, calls, inputs>>

(* MUTANT of RebuildMerkleTree: the mark goes when the new tree is in place. *)
RebuildMerkleTreeAndClear(n) ==
  /\ refresher[n].built # <<>>
  /\ LET r == refresher[n]
         s == r.built[1]
     IN  /\ roots' = [roots EXCEPT ![n][s] = r.built[2]]
         /\ refresher' = [refresher EXCEPT ![n] = Flush(r.st, r.todo \ {s}, <<>>)]
         /\ dirty' = [dirty EXCEPT ![n] = @ \ {s}]
  /\ UNCHANGED <<store, calls, inputs, silent>>

(* ... and rebuildMerkleTreeForSector stores the new root under merkleMu. *)
RebuildMerkleTree(n) ==
  /\ refresher[n].built # <<>>
  /\ LET r == refresher[n]
         s == r.built[1]
     IN  /\ roots' = [roots EXCEPT ![n][s] = r.built[2]]
         /\ refresher' = [refresher EXCEPT ![n] = Flush(r.st, r.todo \ {s}, <<>>)]
  /\ UNCHANGED <<store, dirty, calls, inputs, silent>>

-----------------------------------------------------------------------------
(* Merges.  mergeObjectsCore leaves kv.mu between the merge it computes and *)
(* the install, and installObjects leaves it before the mark.               *)

(* installObjects, its critical section. *)
InstallObjects(f) ==
  /\ f \in frames /\ f.st = "install"
  /\ kv' = [kv EXCEPT ![f.at][f.key] = f.merged]
  /\ index' = IF kv[f.at][f.key] = {}
              THEN [index EXCEPT ![f.at][SectorOf(f.key)][BucketOf(f.key)] = AppendUniqueKey(@, f.key)]
              ELSE index
  /\ frames' = (frames \ {f}) \cup {[f EXCEPT !.st = "mark"]}
  /\ UNCHANGED <<trees, exchange, repairs, inputs, silent>>

(* ApplyDiff goes on with the next key once it has sent the merged siblings *)
(* back; the outcome of that call is ignored.                               *)
SendBack(n, merged) ==
  LET e == exchange[n] IN
  /\ exchange' = [exchange EXCEPT ![n] = Applying(e.peer, Tail(e.infos))]
  /\ repairs' = repairs \cup {[to |-> e.peer, key |-> Head(e.infos).key, objs |-> merged]}

(* markSectorDirty, the end of installObjects. *)
MarkSectorDirty(f) ==
  /\ f \in frames /\ f.st = "mark"
  /\ dirty' = [dirty EXCEPT ![f.at] = @ \cup {SectorOf(f.key)}]
  /\ frames' = frames \ {f}
  /\ IF f.by = "RepairPut" THEN UNCHANGED <<exchange, repairs>> ELSE SendBack(f.by, f.merged)
  /\ UNCHANGED <<store, roots, refresher, inputs, silent>>

(* RepairPut: mergeObjectsAndDiscard. *)
RepairPut(r) ==
  /\ r \in repairs
  /\ LET merged == MergeObjects(kv[r.to][r.key], r.objs)
     IN  frames' = IF merged = kv[r.to][r.key] THEN frames
                   ELSE frames \cup {[st |-> "install", by |-> "RepairPut", at |-> r.to,
                                      key |-> r.key, merged |-> merged]}
  /\ repairs' = repairs \ {r}
  /\ UNCHANGED <<store, trees, exchange, inputs, silent>>

LoseRepair(r) ==
  /\ r \in repairs
  /\ repairs' = repairs \ {r}
  /\ UNCHANGED <<store, trees, exchange, frames, inputs, silent>>

-----------------------------------------------------------------------------
(* The exchange.  Only the owner of a sector starts one. *)

(* StartAntiEntropy picks a sector and a neighbor; Reconcile returns at     *)
(* once when there is no tree of the sector.                                *)
Reconcile(n, s, m) ==
  /\ exchange[n] = Idle
  /\ Owner[s] = n /\ m \in Neighbors[s]
  /\ roots[n][s] # NoRoot
  /\ exchange' = [exchange EXCEPT ![n] =
       [st |-> "asked", sector |-> s, peer |-> m, tree |-> roots[n][s]]]
  /\ UNCHANGED <<store, trees, frames, repairs, inputs, silent>>

(* The call of RepairGetDiff fails.  The handler changes nothing, so a lost *)
(* reply is the same as a lost request.                                     *)
LoseDiff(n) ==
  /\ exchange[n].st = "asked"
  /\ exchange' = [exchange EXCEPT ![n] = Idle]
  /\ UNCHANGED <<store, trees, frames, repairs, inputs, silent>>

(* RepairGetDiff at the peer.  ErrNoHashValue and equal roots end the       *)
(* exchange; else the buckets that differ are gone through ...              *)
RepairGetDiff(n) ==
  /\ exchange[n].st = "asked"
  /\ LET e == exchange[n]
         root == roots[e.peer][e.sector]
     IN  exchange' = [exchange EXCEPT ![n] =
           IF root \in {NoRoot, e.tree} THEN Idle
           ELSE Collecting(e.sector, e.peer, FindDiffBuckets(root, e.tree), <<>>, <<>>)]
  /\ UNCHANGED <<store, trees, frames, repairs, inputs, silent>>

(* ... in their order, the keys of each as they are when it is its turn ... *)
NextBucket(n) ==
  LET e == exchange[n] IN
  /\ e.st = "collect" /\ e.keys = <<>>
  /\ \E b \in e.buckets :
       /\ \A c \in e.buckets : b <= c
       /\ exchange' = [exchange EXCEPT ![n] =
            Collecting(e.sector, e.peer, e.buckets \ {b},
                       GetKeysFromBucket(e.peer, e.sector, b), e.infos)]
  /\ UNCHANGED <<store, trees, frames, repairs, inputs, silent>>

(* ... and the siblings of one key at a time, as they are by then.          *)
CollectSiblings(n) ==
  LET e == exchange[n] IN
  /\ e.st = "collect" /\ e.keys # <<>>
  /\ exchange' = [exchange EXCEPT ![n] =
       Collecting(e.sector, e.peer, e.buckets, Tail(e.keys),
                  Append(e.infos, [key |-> Head(e.keys), objs |-> kv[e.peer][Head(e.keys)]]))]
  /\ UNCHANGED <<store, trees, frames, repairs, inputs, silent>>

(* The reply arrives and Reconcile calls ApplyDiff, unless it is empty. *)
DiffReplied(n) ==
  LET e == exchange[n] IN
  /\ e.st = "collect" /\ e.keys = <<>> /\ e.buckets = {}
  /\ exchange' = [exchange EXCEPT ![n] = Applying(e.peer, e.infos)]
  /\ UNCHANGED <<store, trees, frames, repairs, inputs, silent>>

(* MUTANT of ApplyDiff: siblings that change nothing here are not sent back. *)
ApplyDiffOneWay(n) ==
  /\ exchange[n].st = "apply"
  /\ \A f \in frames : f.by # n
  /\ LET e == exchange[n]
         info == Head(e.infos)
         merged == MergeObjects(kv[n][info.key], info.objs)
     IN  IF merged = kv[n][info.key]
         THEN /\ exchange' = [exchange EXCEPT ![n] = Applying(e.peer, Tail(e.infos))]
              /\ UNCHANGED <<frames, repairs>>
         ELSE /\ frames' = frames \cup {[st |-> "install", by |-> n, at |-> n,
                                         key |-> info.key, merged |-> merged]}
              /\ UNCHANGED <<exchange, repairs>>
  /\ UNCHANGED <<store, trees, inputs, silent>>

(* ApplyDiff: mergeObjects for the next key.  Nothing comes of a key that   *)
(* was deleted meanwhile; siblings that change nothing are sent back as     *)
(* they are; else the merge is installed first.                             *)
ApplyDiff(n) ==
  /\ exchange[n].st = "apply"
  /\ \A f \in frames : f.by # n
  /\ LET e == exchange[n]
         info == Head(e.infos)
         merged == MergeObjects(kv[n][info.key], info.objs)
     IN  IF info.objs = {}
         THEN /\ exchange' = [exchange EXCEPT ![n] = Applying(e.peer, Tail(e.infos))]
              /\ UNCHANGED <<frames, repairs>>
         ELSE IF merged = kv[n][info.key]
         THEN SendBack(n, merged) /\ UNCHANGED frames
         ELSE /\ frames' = frames \cup {[st |-> "install", by |-> n, at |-> n,
                                         key |-> info.key, merged |-> merged]}
              /\ UNCHANGED <<exchange, repairs>>
  /\ UNCHANGED <<store, trees, inputs, silent>>

(* The goroutine of a stopped server ends between two exchanges. *)
StopAntiEntropy(n) ==
  /\ exchange[n] = Idle /\ ~Running(n)
  /\ exchange' = [exchange EXCEPT ![n] = [st |-> "over"]]
  /\ UNCHANGED <<store, trees, frames, repairs, inputs, silent>>

-----------------------------------------------------------------------------
CollectStep(n) == NextBucket(n) \/ CollectSiblings(n) \/ DiffReplied(n)

Next ==
  \/ \E i \in inputs : \/ ReplicaPut(i) \/ ReplicaPutRefused(i)
                       \/ ReadRepair(i) \/ RepairDelete(i) \/ Stop(i)
  \/ \E n \in Server : \/ DrainDirtySectors(n) \/ LastFlush(n) \/ RebuildMerkleTree(n)
                       \/ \E s \in Sector : SnapshotSector(n, s)
                       \/ \E s \in Sector, m \in Server : Reconcile(n, s, m)
                       \/ LoseDiff(n) \/ RepairGetDiff(n) \/ CollectStep(n)
                       \/ ApplyDiff(n) \/ StopAntiEntropy(n)
  \/ \E f \in frames : InstallObjects(f) \/ MarkSectorDirty(f)
  \/ \E r \in repairs : RepairPut(r) \/ LoseRepair(r)

Spec == Init /\ [][Next]_vars

(* Goroutines run, tickers tick, the random choices of StartAntiEntropy     *)
(* come out every way again and again, and a call that is repeated for ever *)
(* gets through for ever; no fairness for inputs or for losses.             *)
Fairness ==
  /\ \A n \in Server :
       WF_vars(\/ DrainDirtySectors(n) \/ LastFlush(n) \/ RebuildMerkleTree(n)
               \/ \E s \in Sector : SnapshotSector(n, s))
  /\ \A n \in {Owner[s] : s \in Sector} :
       /\ SF_vars(RepairGetDiff(n))
       /\ WF_vars(CollectStep(n) \/ ApplyDiff(n))
  /\ \A s \in Sector : \A m \in Neighbors[s] : SF_vars(Reconcile(Owner[s], s, m))
  /\ \A k \in Key : \A m \in Neighbors[SectorOf(k)] :
       SF_vars(\E r \in repairs : r.key = k /\ r.to = m /\ RepairPut(r))
  /\ WF_vars(\E f \in frames : InstallObjects(f) \/ MarkSectorDirty(f))

FairSpec == Spec /\ Fairness

-----------------------------------------------------------------------------
(* Every key a server has is listed once, in the bucket the ring gives it,  *)
(* and no other key is listed, whatever puts, merges and deletes overlap:   *)
(* the trees and the exchange see the store only through this index.        *)
IndexMatchesStore ==
  \A n \in Server, s \in Sector, b \in Bucket :
    /\ ToSet(index[n][s][b]) = {k \in Key : Location[k] = <<s, b>> /\ kv[n][k] # {}}
    /\ Len(index[n][s][b]) = Cardinality(ToSet(index[n][s][b]))

(* The tree of a sector that is in place or about to be. *)
LatestTree(n, s) ==
  IF refresher[n].built # <<>> /\ refresher[n].built[1] = s THEN refresher[n].built[2]
  ELSE roots[n][s]

(* No rebuild is forgotten: where the latest tree does not show what the    *)
(* store holds, the sector is marked or about to be marked or rebuilt       *)
(* (installObjects marks after it has left kv.mu; flushDirtyMerkle swaps    *)
(* the set out before it reads the store), or a ReplicaPut, which marks     *)
(* nothing, came after the sector was last read for a tree.                 *)
StaleTreeMarked ==
  \A n \in Server, s \in Sector :
    \/ LatestTree(n, s) = NoRoot /\ \A k \in Key : SectorOf(k) = s => kv[n][k] = {}
    \/ s \in dirty[n]
    \/ s \in refresher[n].todo /\ refresher[n].built = <<>>
    \/ s \in refresher[n].todo /\ refresher[n].built # <<>> /\ refresher[n].built[1] # s
    \/ \E f \in frames : f.st = "mark" /\ f.at = n /\ SectorOf(f.key) = s
    \/ <<n, s>> \in silent
    \/ LatestTree(n, s) = BuildMerkleTree(n, s)

(* The walk down two summaries finds the buckets in which the trees differ  *)
(* and the answering server has keys, and no other: findDiffBuckets works   *)
(* on array positions and on hashes alone.                                  *)
DiffBucketsExact ==
  \A n, m \in Server, s \in Sector :
    roots[n][s] # NoRoot /\ roots[m][s] # NoRoot =>
      FindDiffBuckets(roots[m][s], roots[n][s]) = DifferingBuckets(roots[m][s], roots[n][s])

(* Owner and neighbor agree on every key the neighbor has. *)
Agree(s, m) ==
  \A k \in Key : SectorOf(k) = s /\ kv[m][k] # {} => kv[Owner[s]][k] = kv[m][k]

(* Anti-entropy does its work: in the end the owner of a sector and its     *)
(* neighbor agree on every key the neighbor has, unless one of them has no  *)
(* tree of the sector, has a tree that misses a ReplicaPut, or was stopped. *)
(* (A key the neighbor lacks altogether is never sent to it.)               *)
AntiEntropyConverges ==
  <>[](\A s \in Sector : \A m \in Neighbors[s] :
         \/ Agree(s, m)
         \/ \E n \in {Owner[s], m} : roots[n][s] = NoRoot \/ <<n, s>> \in silent \/ ~Running(n))

=============================================================================
