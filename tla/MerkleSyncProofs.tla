-------------------------- MODULE MerkleSyncProofs --------------------------
(***************************************************************************)
(* Theorems about the bucket index and the Merkle trees of MerkleSync, for *)
(* any servers, keys, sectors and buckets, any way the ring spreads the    *)
(* keys, and any puts, reads, deletes and stops.                           *)
(***************************************************************************)
EXTENDS MerkleSync, SiblingsProofs, Induction

-----------------------------------------------------------------------------
(* The lists of the bucket index (appendUniqueKey and removeKey).           *)

NoneTwice(q) == \A i, j \in 1..Len(q) : q[i] = q[j] => i = j

LEMMA ToSetContains ==
  ASSUME NEW S, NEW q \in Seq(S), NEW x
  PROVE  x \in ToSet(q) <=> Contains(q, x)
  BY DEF ToSet, Contains

(* A list without repetitions is as long as the set of its elements. *)
LEMMA LenIsCardinality ==
  ASSUME NEW S, NEW q \in Seq(S), NoneTwice(q)
  PROVE  Len(q) = Cardinality(ToSet(q))
  <1>1. Len(q) \in Nat /\ DOMAIN q = 1..Len(q)
    OBVIOUS
  <1>2. q \in [1..Len(q) -> ToSet(q)]
    BY <1>1 DEF ToSet
  <1>3. q \in Surjection(1..Len(q), ToSet(q)) /\ q \in Injection(1..Len(q), ToSet(q))
    BY <1>1, <1>2 DEF Surjection, Injection, IsInjective, ToSet, NoneTwice
  <1>4. IsFiniteSet(1..Len(q)) /\ Cardinality(1..Len(q)) = Len(q)
    BY <1>1, FS_Interval
  <1> QED BY <1>3, <1>4, FS_Surjection

LEMMA AppendUniqueKeyLists ==
  ASSUME NEW S, NEW q \in Seq(S), NEW k \in S, NoneTwice(q)
  PROVE  /\ AppendUniqueKey(q, k) \in Seq(S)
         /\ NoneTwice(AppendUniqueKey(q, k))
         /\ \A x : Contains(AppendUniqueKey(q, k), x) <=> Contains(q, x) \/ x = k
  <1>1. CASE Contains(q, k)
    BY <1>1 DEF AppendUniqueKey, Contains
  <1>2. CASE ~Contains(q, k)
    <2> DEFINE r == Append(q, k)
    <2>1. AppendUniqueKey(q, k) = r
      BY <1>2 DEF AppendUniqueKey
    <2>2. /\ r \in Seq(S) /\ Len(r) = Len(q) + 1 /\ Len(q) \in Nat
          /\ r[Len(q) + 1] = k
          /\ \A i \in 1..Len(q) : r[i] = q[i]
      OBVIOUS
    <2> HIDE DEF r
    <2>3. NoneTwice(r)
      BY <1>2, <2>2 DEF NoneTwice, Contains
    <2>4. \A x : Contains(r, x) <=> Contains(q, x) \/ x = k
      BY <2>2 DEF Contains
    <2> QED BY <2>1, <2>2, <2>3, <2>4
  <1> QED BY <1>1, <1>2

LEMMA RemoveKeyLists ==
  ASSUME NEW S, NEW q \in Seq(S), NEW k, NoneTwice(q)
  PROVE  /\ RemoveKey(q, k) \in Seq(S)
         /\ NoneTwice(RemoveKey(q, k))
         /\ \A x : Contains(RemoveKey(q, k), x) <=> Contains(q, x) /\ x # k
  <1>1. CASE ~Contains(q, k)
    BY <1>1 DEF RemoveKey, RemoveFirst, Contains
  <1>2. CASE Contains(q, k)
    <2>1. PICK p \in 1..Len(q) : q[p] = k
      BY <1>2 DEF Contains
    <2>2. {i \in 1..Len(q) : q[i] = k} = {p}
      BY <2>1 DEF NoneTwice
    <2>3. Min({p}) = p
      BY DEF Min
    <2>4. SelectInSeq(q, LAMBDA v : v = k) = p
      BY <2>2, <2>3 DEF SelectInSeq
    <2> DEFINE r == SubSeq(q, 1, p - 1) \o SubSeq(q, p + 1, Len(q))
    <2>5. RemoveKey(q, k) = r
      BY <2>1, <2>4 DEF RemoveKey, RemoveFirst, RemoveAt
    <2>6. Len(q) \in Nat /\ p \in Nat /\ 1 <= p /\ p <= Len(q)
      BY <2>1
    <2>7. /\ r \in Seq(S) /\ Len(r) = Len(q) - 1
          /\ \A i \in 1..Len(r) : r[i] = IF i < p THEN q[i] ELSE q[i + 1]
      <3> DEFINE a == SubSeq(q, 1, p - 1)
                 b == SubSeq(q, p + 1, Len(q))
      <3>1. /\ a \in Seq(S) /\ Len(a) = p - 1
            /\ \A i \in 1..(p - 1) : a[i] = q[i]
        BY <2>6
      <3>2. /\ b \in Seq(S) /\ Len(b) = Len(q) - p
            /\ \A i \in 1..(Len(q) - p) : b[i] = q[i + p]
        BY <2>6
      <3>3. r = a \o b
        OBVIOUS
      <3> HIDE DEF r, a, b
      <3>4. /\ r \in Seq(S) /\ Len(r) = Len(q) - 1
            /\ \A i \in 1..Len(r) : r[i] = IF i <= Len(a) THEN a[i] ELSE b[i - Len(a)]
        <4>1. a \o b \in Seq(S) /\ Len(a \o b) = Len(a) + Len(b)
          <5>1. a \in Seq(S) /\ b \in Seq(S)
            BY <3>1, <3>2
          <5> QED BY <5>1
        <4>2. Len(r) = Len(q) - 1
          BY <2>6, <3>1, <3>2, <3>3, <4>1
        <4>3. \A i \in 1..(Len(a) + Len(b)) :
                (a \o b)[i] = IF i <= Len(a) THEN a[i] ELSE b[i - Len(a)]
          BY <3>1, <3>2
        <4> QED BY <3>3, <4>1, <4>2, <4>3
      <3>5. ASSUME NEW i \in 1..Len(r) PROVE r[i] = IF i < p THEN q[i] ELSE q[i + 1]
        <4>1. CASE i < p
          BY <2>6, <3>1, <3>4, <4>1
        <4>2. CASE ~(i < p)
          <5>1. i - Len(a) \in 1..(Len(q) - p) /\ (i - Len(a)) + p = i + 1 /\ ~(i <= Len(a))
            BY <2>6, <3>1, <3>4, <4>2
          <5> QED BY <3>2, <3>4, <4>2, <5>1
        <4> QED BY <4>1, <4>2
      <3> QED BY <3>4, <3>5
    <2> HIDE DEF r
    <2>8. NoneTwice(r)
      BY <2>6, <2>7 DEF NoneTwice
    <2>9. ASSUME NEW x, Contains(r, x) PROVE Contains(q, x) /\ x # k
      <3>1. PICK i \in 1..Len(r) : r[i] = x
        BY <2>9 DEF Contains
      <3> QED BY <2>1, <2>6, <2>7, <3>1 DEF Contains, NoneTwice
    <2>10. ASSUME NEW x, Contains(q, x), x # k PROVE Contains(r, x)
      <3>1. PICK i \in 1..Len(q) : q[i] = x
        BY <2>10 DEF Contains
      <3>2. CASE i < p
        <4>1. i \in 1..Len(r) /\ r[i] = x
          BY <2>6, <2>7, <3>1, <3>2
        <4> QED BY <4>1 DEF Contains
      <3>3. CASE i > p
        <4>1. i - 1 \in 1..Len(r) /\ ~(i - 1 < p) /\ (i - 1) + 1 = i
          BY <2>6, <2>7, <3>3
        <4>2. r[i - 1] = x
          BY <2>7, <3>1, <4>1
        <4> QED BY <4>1, <4>2 DEF Contains
      <3> QED BY <2>1, <2>6, <2>10, <3>1, <3>2, <3>3
    <2> QED BY <2>5, <2>7, <2>8, <2>9, <2>10
  <1> QED BY <1>1, <1>2

-----------------------------------------------------------------------------
(* The inductive invariant. *)

(* Siblings as a server keeps them: pairwise concurrent versions. *)
Object == [id : STRING, vc : VClocks]
SiblingSet == {S \in SUBSET Object : Antichain(S)}
Info == [key : Key, objs : SiblingSet]
Frame == [st : {"install", "mark"}, by : Server \cup {"RepairPut"}, at : Server,
          key : Key, merged : SiblingSet]
Repair == [to : Server, key : Key, objs : SiblingSet \ {{}}]

StoreTyped ==
  /\ kv \in [Server -> [Key -> SiblingSet]]
  /\ index \in [Server -> [Sector -> [Bucket -> Seq(Key)]]]

TreesTyped ==
  /\ dirty \in [Server -> SUBSET Sector]
  /\ roots = [n \in Server |-> [s \in Sector |-> roots[n][s]]]
  /\ refresher = [n \in Server |-> refresher[n]]

CallsTyped ==
  /\ frames \subseteq Frame
  /\ repairs \subseteq Repair
  /\ inputs \subseteq Input
  /\ exchange = [n \in Server |-> exchange[n]]

(* The refresher holds a tree only of a sector it still has to rebuild. *)
RefresherTyped(r) ==
  /\ r.todo \in SUBSET Sector
  /\ r.built # <<>> => r.built = <<r.built[1], r.built[2]>> /\ r.built[1] \in r.todo

RefresherInv == \A n \in Server : RefresherTyped(refresher[n])

(* What an exchange carries from server to server. *)
ExchangeTyped(e) ==
  /\ e.st \in {"asked", "collect"} => e.sector \in Sector /\ e.peer \in Server
  /\ e.st = "collect" => e.buckets \subseteq Bucket /\ e.keys \in Seq(Key) /\ e.infos \in Seq(Info)
  /\ e.st = "apply" => e.peer \in Server /\ e.infos \in Seq(Info) /\ e.infos # <<>>

ExchangeInv == \A n \in Server : ExchangeTyped(exchange[n])

(* An install never empties a key, and an exchange has at most one install  *)
(* under way, for which it waits.                                           *)
FramesInv ==
  \A f \in frames :
    /\ f.st = "install" => f.merged # {}
    /\ f.by # "RepairPut" =>
         /\ f.merged # {} /\ exchange[f.by].st = "apply"
         /\ \A g \in frames : g.by = f.by => g = f

(* IndexMatchesStore, by membership instead of by sets and cardinalities. *)
ListInv ==
  \A n \in Server, s \in Sector, b \in Bucket :
    /\ NoneTwice(index[n][s][b])
    /\ \A k \in Key : Contains(index[n][s][b], k) <=> Location[k] = <<s, b>> /\ kv[n][k] # {}

MerkleInv ==
  StoreTyped /\ TreesTyped /\ CallsTyped /\ RefresherInv /\ ExchangeInv /\ FramesInv /\ ListInv

LEMMA MerkleInvInit == Init => MerkleInv
  <1> SUFFICES ASSUME Init PROVE MerkleInv
    OBVIOUS
  <1>1. {} \in SiblingSet
    BY DEF SiblingSet, Antichain
  <1>2. StoreTyped
    <2>1. kv \in [Server -> [Key -> SiblingSet]]
      BY <1>1 DEF Init
    <2>2. index \in [Server -> [Sector -> [Bucket -> Seq(Key)]]]
      BY DEF Init
    <2> QED BY <2>1, <2>2 DEF StoreTyped
  <1>3. TreesTyped /\ RefresherInv
    BY DEF Init, TreesTyped, RefresherInv, RefresherTyped, Flush
  <1>4. CallsTyped /\ FramesInv
    BY DEF Init, CallsTyped, FramesInv
  <1>5. ExchangeInv
    BY DEF Init, ExchangeInv, ExchangeTyped, Idle
  <1>6. ListInv
    BY DEF Init, ListInv, NoneTwice, Contains
  <1> QED BY <1>2, <1>3, <1>4, <1>5, <1>6 DEF MerkleInv

-----------------------------------------------------------------------------
(* Inputs, siblings and merges. *)

LEMMA InputTyped ==
  ASSUME NEW i \in Input
  PROVE  /\ i.type # "stop" => i.at \in Server /\ i.key \in Key
         /\ i.type = "put" => /\ i.base \in VClocks /\ i.obj \in Object
                              /\ Leq(i.base, i.obj.vc)
  BY MerkleSyncAssumption DEF Object

LEMMA KeyLocated ==
  ASSUME NEW k \in Key
  PROVE  /\ SectorOf(k) \in Sector /\ BucketOf(k) \in Bucket
         /\ Location[k] = <<SectorOf(k), BucketOf(k)>>
  BY MerkleSyncAssumption DEF SectorOf, BucketOf

LEMMA SiblingsAreVersions ==
  ASSUME NEW S \in SiblingSet
  PROVE  S \in SUBSET Object /\ Versions(S) /\ Antichain(S)
  BY DEF SiblingSet, Object, Versions

LEMMA MergeSiblings ==
  ASSUME NEW S \in SiblingSet, NEW T \in SiblingSet
  PROVE  /\ MergeObjects(S, T) \in SiblingSet
         /\ T # {} => MergeObjects(S, T) # {}
  <1>1. MergeObjects(S, T) \in SUBSET Object
    BY SiblingsAreVersions DEF MergeObjects
  <1>2. Antichain(MergeObjects(S, T))
    BY SiblingsAreVersions, MergeKeepsAntichain
  <1>3. ASSUME NEW o \in T PROVE MergeObjects(S, T) # {}
    BY SiblingsAreVersions, MergeCovers DEF Covers
  <1> QED BY <1>1, <1>2, <1>3 DEF SiblingSet

LEMMA AddSiblings ==
  ASSUME NEW S \in SiblingSet, NEW o \in Object, NEW base \in VClocks,
         Leq(base, o.vc), CanBeAddedTo(base, S)
  PROVE  AddObject(S, o) \in SiblingSet /\ AddObject(S, o) # {}
  <1>1. AddObject(S, o) \in SUBSET Object /\ AddObject(S, o) # {}
    BY SiblingsAreVersions DEF AddObject
  <1>2. o.vc \in VClocks
    BY DEF Object
  <1>3. Antichain(AddObject(S, o))
    BY <1>2, SiblingsAreVersions, AddKeepsAntichain
  <1> QED BY <1>1, <1>3 DEF SiblingSet

-----------------------------------------------------------------------------
(* Which actions change what. *)

LEMMA StoreSteps ==
  ASSUME [Next]_vars
  PROVE  \/ UNCHANGED <<store, silent>>
         \/ \E i \in inputs : ReplicaPut(i) \/ RepairDelete(i)
         \/ \E f \in frames : InstallObjects(f)
         \/ \E n \in Server, s \in Sector : SnapshotSector(n, s)
  BY DEF Next, CollectStep, vars, store, ReplicaPutRefused, ReadRepair, Stop, DrainDirtySectors,
         LastFlush, RebuildMerkleTree, MarkSectorDirty, RepairPut, LoseRepair, Reconcile, LoseDiff,
         RepairGetDiff, NextBucket, CollectSiblings, DiffReplied, ApplyDiff, StopAntiEntropy

LEMMA TreeSteps ==
  ASSUME [Next]_vars
  PROVE  \/ UNCHANGED trees
         \/ \E n \in Server : DrainDirtySectors(n) \/ LastFlush(n) \/ RebuildMerkleTree(n)
         \/ \E n \in Server, s \in Sector : SnapshotSector(n, s)
         \/ \E f \in frames : MarkSectorDirty(f)
  BY DEF Next, CollectStep, vars, trees, ReplicaPut, ReplicaPutRefused, ReadRepair, RepairDelete,
         Stop, InstallObjects, RepairPut, LoseRepair, Reconcile, LoseDiff,
         RepairGetDiff, NextBucket, CollectSiblings, DiffReplied, ApplyDiff, StopAntiEntropy

LEMMA ExchangeSteps ==
  ASSUME [Next]_vars
  PROVE  \/ UNCHANGED exchange
         \/ \E n \in Server : \/ \E s \in Sector, m \in Server : Reconcile(n, s, m)
                              \/ LoseDiff(n) \/ RepairGetDiff(n) \/ NextBucket(n)
                              \/ CollectSiblings(n) \/ DiffReplied(n) \/ ApplyDiff(n)
                              \/ StopAntiEntropy(n)
         \/ \E f \in frames : MarkSectorDirty(f)
  BY DEF Next, CollectStep, vars, calls, ReplicaPut, ReplicaPutRefused, ReadRepair, RepairDelete,
         Stop, DrainDirtySectors, LastFlush, RebuildMerkleTree, SnapshotSector,
         InstallObjects, RepairPut, LoseRepair

LEMMA FrameSteps ==
  ASSUME [Next]_vars
  PROVE  \/ UNCHANGED <<frames, repairs>>
         \/ \E i \in inputs : ReadRepair(i) \/ RepairDelete(i)
         \/ \E n \in Server : ApplyDiff(n)
         \/ \E f \in frames : InstallObjects(f) \/ MarkSectorDirty(f)
         \/ \E r \in repairs : RepairPut(r) \/ LoseRepair(r)
  BY DEF Next, CollectStep, vars, calls, ReplicaPut, ReplicaPutRefused,
         Stop, DrainDirtySectors, LastFlush, RebuildMerkleTree, SnapshotSector, Reconcile,
         LoseDiff, RepairGetDiff, NextBucket, CollectSiblings, DiffReplied, StopAntiEntropy

-----------------------------------------------------------------------------
(* The store and its index.  The three actions that change them give a key  *)
(* new siblings and its bucket a new list.                                  *)

KeyStored(n, k, S, q) ==
  /\ kv' = [kv EXCEPT ![n][k] = S]
  /\ index' \in [Server -> [Sector -> [Bucket -> Seq(Key)]]]
  /\ index'[n][SectorOf(k)][BucketOf(k)] = q
  /\ \A m \in Server, s \in Sector, b \in Bucket :
       <<m, s, b>> # <<n, SectorOf(k), BucketOf(k)>> => index'[m][s][b] = index[m][s][b]

LEMMA KeyStoredKeepsList ==
  ASSUME StoreTyped, ListInv, NEW n \in Server, NEW k \in Key, NEW S \in SiblingSet, NEW q,
         KeyStored(n, k, S, q), NoneTwice(q),
         \A x \in Key : Contains(q, x) <=>
           IF x = k THEN S # {} ELSE Contains(index[n][SectorOf(k)][BucketOf(k)], x)
  PROVE  StoreTyped' /\ ListInv'
  <1>1. /\ kv' \in [Server -> [Key -> SiblingSet]]
        /\ kv'[n][k] = S
        /\ \A m \in Server, x \in Key : m # n \/ x # k => kv'[m][x] = kv[m][x]
    BY DEF StoreTyped, KeyStored
  <1>2. StoreTyped'
    BY <1>1 DEF StoreTyped, KeyStored
  <1>3. ASSUME NEW m \in Server, NEW s \in Sector, NEW b \in Bucket
        PROVE  /\ NoneTwice(index'[m][s][b])
               /\ \A x \in Key : Contains(index'[m][s][b], x) <=>
                                   Location[x] = <<s, b>> /\ kv'[m][x] # {}
    <2>1. SectorOf(k) \in Sector /\ BucketOf(k) \in Bucket
          /\ Location[k] = <<SectorOf(k), BucketOf(k)>>
      BY KeyLocated
    <2>2. CASE m = n /\ s = SectorOf(k) /\ b = BucketOf(k)
      <3>1. index'[m][s][b] = q
        BY <2>2 DEF KeyStored
      <3>2. \A x \in Key : Contains(index[m][s][b], x) <=> Location[x] = <<s, b>> /\ kv[m][x] # {}
        BY DEF ListInv
      <3> QED BY <1>1, <2>1, <2>2, <3>1, <3>2
    <2>3. CASE ~(m = n /\ s = SectorOf(k) /\ b = BucketOf(k))
      <3>1. index'[m][s][b] = index[m][s][b]
        BY <2>3 DEF KeyStored
      <3>2. /\ NoneTwice(index[m][s][b])
            /\ \A x \in Key : Contains(index[m][s][b], x) <=> Location[x] = <<s, b>> /\ kv[m][x] # {}
        BY DEF ListInv
      <3>3. \A x \in Key : Location[x] = <<s, b>> => kv'[m][x] = kv[m][x]
        BY <1>1, <2>1, <2>3
      <3> QED BY <3>1, <3>2, <3>3
    <2> QED BY <2>2, <2>3
  <1> QED BY <1>2, <1>3 DEF ListInv

(* Each of the three actions in these terms. *)
LEMMA StoreEffect ==
  ASSUME MerkleInv, NEW n \in Server, NEW k \in Key, NEW S \in SiblingSet,
         kv' = [kv EXCEPT ![n][k] = S],
         \/ /\ S # {}
            /\ index' = [index EXCEPT ![n][SectorOf(k)][BucketOf(k)] = AppendUniqueKey(@, k)]
         \/ /\ S = {}
            /\ index' = [index EXCEPT ![n][SectorOf(k)][BucketOf(k)] = RemoveKey(@, k)]
         \/ /\ S # {} /\ kv[n][k] # {}
            /\ index' = index
  PROVE  StoreTyped' /\ ListInv' /\ \E q : KeyStored(n, k, S, q)
  <1> DEFINE s == SectorOf(k)
             b == BucketOf(k)
             old == index[n][s][b]
  <1>1. s \in Sector /\ b \in Bucket /\ Location[k] = <<s, b>>
    BY KeyLocated
  <1>2. StoreTyped /\ ListInv
    BY DEF MerkleInv
  <1>3. /\ old \in Seq(Key) /\ NoneTwice(old)
        /\ Contains(old, k) <=> kv[n][k] # {}
    <2>1. old \in Seq(Key)
      BY <1>1, <1>2 DEF StoreTyped
    <2>2. ASSUME NEW t \in Sector, NEW c \in Bucket, Location[k] = <<t, c>>
          PROVE  NoneTwice(index[n][t][c]) /\ (Contains(index[n][t][c], k) <=> kv[n][k] # {})
      BY <1>2, <2>2 DEF ListInv
    <2> QED BY <1>1, <2>1, <2>2
  <1>4. ASSUME NEW q \in Seq(Key), index' = [index EXCEPT ![n][s][b] = q]
        PROVE  KeyStored(n, k, S, q)
    <2>1. index \in [Server -> [Sector -> [Bucket -> Seq(Key)]]]
      BY <1>2 DEF StoreTyped
    <2>2. /\ index' \in [Server -> [Sector -> [Bucket -> Seq(Key)]]]
          /\ index'[n][s][b] = q
          /\ \A m \in Server, t \in Sector, c \in Bucket :
               <<m, t, c>> # <<n, s, b>> => index'[m][t][c] = index[m][t][c]
      BY <1>1, <1>4, <2>1
    <2> QED BY <2>2 DEF KeyStored
  <1>5. CASE S # {} /\ index' = [index EXCEPT ![n][s][b] = AppendUniqueKey(@, k)]
    <2> DEFINE q == AppendUniqueKey(old, k)
    <2>1. index' = [index EXCEPT ![n][s][b] = q]
      BY <1>5
    <2>2. q \in Seq(Key) /\ NoneTwice(q) /\ \A x : Contains(q, x) <=> Contains(old, x) \/ x = k
      BY <1>3, AppendUniqueKeyLists
    <2> HIDE DEF q
    <2>3. KeyStored(n, k, S, q)
      BY <1>4, <2>1, <2>2
    <2> QED BY <1>2, <1>5, <2>2, <2>3, KeyStoredKeepsList
  <1>6. CASE S = {} /\ index' = [index EXCEPT ![n][s][b] = RemoveKey(@, k)]
    <2> DEFINE q == RemoveKey(old, k)
    <2>1. index' = [index EXCEPT ![n][s][b] = q]
      BY <1>6
    <2>2. q \in Seq(Key) /\ NoneTwice(q) /\ \A x : Contains(q, x) <=> Contains(old, x) /\ x # k
      BY <1>3, RemoveKeyLists
    <2> HIDE DEF q
    <2>3. KeyStored(n, k, S, q)
      BY <1>4, <2>1, <2>2
    <2> QED BY <1>2, <1>6, <2>2, <2>3, KeyStoredKeepsList
  <1>7. CASE S # {} /\ kv[n][k] # {} /\ index' = index
    <2>1. index \in [Server -> [Sector -> [Bucket -> Seq(Key)]]]
      BY <1>2 DEF StoreTyped
    <2>2. KeyStored(n, k, S, old)
      BY <1>7, <2>1 DEF KeyStored
    <2> QED BY <1>2, <1>3, <1>7, <2>2, KeyStoredKeepsList
  <1> QED BY <1>5, <1>6, <1>7

LEMMA ReplicaPutStores ==
  ASSUME MerkleInv, NEW i \in inputs, ReplicaPut(i)
  PROVE  /\ i.at \in Server /\ i.key \in Key
         /\ StoreTyped' /\ ListInv' /\ \E S, q : KeyStored(i.at, i.key, S, q)
  <1>1. i \in Input /\ i.type = "put" /\ kv \in [Server -> [Key -> SiblingSet]]
    BY DEF MerkleInv, CallsTyped, StoreTyped, ReplicaPut
  <1>2. /\ i.at \in Server /\ i.key \in Key /\ i.base \in VClocks /\ i.obj \in Object
        /\ Leq(i.base, i.obj.vc)
    BY <1>1, InputTyped
  <1> DEFINE S == AddObject(kv[i.at][i.key], i.obj)
  <1>3. kv[i.at][i.key] \in SiblingSet /\ CanBeAddedTo(i.base, kv[i.at][i.key])
    BY <1>1, <1>2 DEF ReplicaPut
  <1>4. S \in SiblingSet /\ S # {}
    BY <1>2, <1>3, AddSiblings
  <1>5. kv' = [kv EXCEPT ![i.at][i.key] = S]
    BY DEF ReplicaPut
  <1>6. \/ index' = [index EXCEPT ![i.at][SectorOf(i.key)][BucketOf(i.key)] = AppendUniqueKey(@, i.key)]
        \/ kv[i.at][i.key] # {} /\ index' = index
    BY DEF ReplicaPut
  <1> HIDE DEF S
  <1> QED BY <1>2, <1>4, <1>5, <1>6, StoreEffect

LEMMA RepairDeleteStores ==
  ASSUME MerkleInv, NEW i \in inputs, RepairDelete(i)
  PROVE  /\ i.at \in Server /\ i.key \in Key
         /\ StoreTyped' /\ ListInv' /\ \E S, q : KeyStored(i.at, i.key, S, q)
  <1>1. i \in Input /\ i.type = "delete"
    BY DEF MerkleInv, CallsTyped, RepairDelete
  <1>2. i.at \in Server /\ i.key \in Key
    BY <1>1, InputTyped
  <1>3. {} \in SiblingSet
    BY DEF SiblingSet, Antichain
  <1>4. /\ kv' = [kv EXCEPT ![i.at][i.key] = {}]
        /\ index' = [index EXCEPT ![i.at][SectorOf(i.key)][BucketOf(i.key)] = RemoveKey(@, i.key)]
    BY DEF RepairDelete
  <1> QED BY <1>2, <1>3, <1>4, StoreEffect

LEMMA InstallObjectsStores ==
  ASSUME MerkleInv, NEW f \in frames, InstallObjects(f)
  PROVE  /\ f.at \in Server /\ f.key \in Key
         /\ StoreTyped' /\ ListInv' /\ \E S, q : KeyStored(f.at, f.key, S, q)
  <1>1. f \in Frame /\ f.merged # {}
    BY DEF MerkleInv, CallsTyped, FramesInv, InstallObjects
  <1>2. f.at \in Server /\ f.key \in Key /\ f.merged \in SiblingSet
    BY <1>1 DEF Frame
  <1>3. kv' = [kv EXCEPT ![f.at][f.key] = f.merged]
    BY DEF InstallObjects
  <1>4. \/ index' = [index EXCEPT ![f.at][SectorOf(f.key)][BucketOf(f.key)] = AppendUniqueKey(@, f.key)]
        \/ kv[f.at][f.key] # {} /\ index' = index
    BY DEF InstallObjects
  <1> QED BY <1>1, <1>2, <1>3, <1>4, StoreEffect

LEMMA StoreKept ==
  ASSUME MerkleInv, [Next]_vars
  PROVE  StoreTyped' /\ ListInv'
  <1>1. CASE UNCHANGED store
    BY <1>1 DEF MerkleInv, StoreTyped, ListInv, store
  <1>2. ASSUME NEW i \in inputs, ReplicaPut(i) \/ RepairDelete(i) PROVE StoreTyped' /\ ListInv'
    BY <1>2, ReplicaPutStores, RepairDeleteStores
  <1>3. ASSUME NEW f \in frames, InstallObjects(f) PROVE StoreTyped' /\ ListInv'
    BY <1>3, InstallObjectsStores
  <1>4. ASSUME NEW n \in Server, NEW s \in Sector, SnapshotSector(n, s) PROVE StoreTyped' /\ ListInv'
    BY <1>1, <1>4 DEF SnapshotSector
  <1> QED BY <1>1, <1>2, <1>3, <1>4, StoreSteps

-----------------------------------------------------------------------------
(* The marks, the trees and the refresher. *)

LEMMA RefresherShape ==
  ASSUME NEW a, NEW T \in SUBSET Sector
  PROVE  /\ RefresherTyped(Flush(a, T, <<>>))
         /\ \A s \in T : \A t : RefresherTyped(Flush(a, T, <<s, t>>))
  BY DEF RefresherTyped, Flush

RootStored(n, s, v) == roots' = [roots EXCEPT ![n][s] = v]

LEMMA RootsStored ==
  ASSUME TreesTyped, NEW n \in Server, NEW s \in Sector, NEW v, RootStored(n, s, v)
  PROVE  /\ roots' = [m \in Server |-> [u \in Sector |-> roots'[m][u]]]
         /\ \A m \in Server, u \in Sector : roots'[m][u] = IF m = n /\ u = s THEN v ELSE roots[m][u]
  <1> DEFINE row == [u \in Sector |-> IF u = s THEN v ELSE roots[n][u]]
  <1>1. /\ roots = [m \in Server |-> roots[m]]
        /\ \A m \in Server : roots[m] = [u \in Sector |-> roots[m][u]]
    BY DEF TreesTyped
  <1>2. [roots[n] EXCEPT ![s] = v] = row
    BY <1>1
  <1>3. roots' = [roots EXCEPT ![n] = [roots[n] EXCEPT ![s] = v]]
    BY DEF RootStored
  <1>4. roots' = [m \in Server |-> IF m = n THEN row ELSE roots[m]]
    BY <1>1, <1>2, <1>3
  <1>5. \A m \in Server : roots'[m] = IF m = n THEN row ELSE roots[m]
    BY <1>4
  <1>6. \A m \in Server : roots'[m] = [u \in Sector |-> roots'[m][u]]
    BY <1>1, <1>5
  <1>7. \A m \in Server, u \in Sector :
          roots'[m][u] = IF m = n /\ u = s THEN v ELSE roots[m][u]
    <2>1. \A u \in Sector : row[u] = IF u = s THEN v ELSE roots[n][u]
      OBVIOUS
    <2> HIDE DEF row
    <2>2. ASSUME NEW m \in Server, NEW u \in Sector
          PROVE  roots'[m][u] = IF m = n /\ u = s THEN v ELSE roots[m][u]
      <3>1. CASE m = n
        <4>1. roots'[m] = row
          BY <1>5, <3>1
        <4> QED BY <2>1, <3>1, <4>1
      <3>2. CASE m # n
        <4>1. roots'[m] = roots[m]
          BY <1>5, <3>2
        <4> QED BY <3>2, <4>1
      <3> QED BY <3>1, <3>2
    <2> QED BY <2>2
  <1> HIDE DEF row
  <1>8. roots' = [m \in Server |-> roots'[m]]
    BY <1>4
  <1> QED BY <1>6, <1>7, <1>8

LEMMA TreesKept ==
  ASSUME MerkleInv, [Next]_vars
  PROVE  TreesTyped' /\ RefresherInv'
  <1>1. TreesTyped /\ \A n \in Server : RefresherTyped(refresher[n])
    BY DEF MerkleInv, RefresherInv
  <1>2. CASE UNCHANGED trees
    BY <1>1, <1>2 DEF TreesTyped, RefresherInv, trees
  <1>3. ASSUME NEW n \in Server, NEW x, RefresherTyped(x), refresher' = [refresher EXCEPT ![n] = x]
        PROVE  refresher' = [m \in Server |-> refresher'[m]] /\ RefresherInv'
    <2>1. /\ refresher' = [m \in Server |-> refresher'[m]]
          /\ \A m \in Server : refresher'[m] = IF m = n THEN x ELSE refresher[m]
      BY <1>1, <1>3 DEF TreesTyped
    <2>2. \A m \in Server : RefresherTyped(refresher'[m])
      BY <1>1, <1>3, <2>1
    <2> QED BY <2>1, <2>2 DEF RefresherInv
  <1>4. ASSUME NEW n \in Server, DrainDirtySectors(n) \/ LastFlush(n)
        PROVE  TreesTyped' /\ RefresherInv'
    <2>1. PICK a : /\ dirty' = [dirty EXCEPT ![n] = {}] /\ roots' = roots
                   /\ refresher' = [refresher EXCEPT ![n] = Flush(a, dirty[n], <<>>)]
      BY <1>4 DEF DrainDirtySectors, LastFlush
    <2>2. dirty[n] \in SUBSET Sector /\ dirty' \in [Server -> SUBSET Sector]
      BY <1>1, <2>1 DEF TreesTyped
    <2>3. refresher' = [m \in Server |-> refresher'[m]] /\ RefresherInv'
      BY <1>3, <2>1, <2>2, RefresherShape
    <2> QED BY <1>1, <2>1, <2>2, <2>3 DEF TreesTyped
  <1>5. ASSUME NEW n \in Server, NEW s \in Sector, SnapshotSector(n, s)
        PROVE  TreesTyped' /\ RefresherInv'
    <2> DEFINE r == refresher[n]
               x == Flush(r.st, r.todo, <<s, BuildMerkleTree(n, s)>>)
    <2>1. /\ dirty' = dirty /\ roots' = roots /\ s \in r.todo
          /\ refresher' = [refresher EXCEPT ![n] = x]
      BY <1>5 DEF SnapshotSector
    <2>2. RefresherTyped(x)
      BY <1>1, <2>1, RefresherShape DEF RefresherTyped
    <2> HIDE DEF x
    <2>3. refresher' = [m \in Server |-> refresher'[m]] /\ RefresherInv'
      BY <1>3, <2>1, <2>2
    <2> QED BY <1>1, <2>1, <2>3 DEF TreesTyped
  <1>6. ASSUME NEW n \in Server, RebuildMerkleTree(n)
        PROVE  TreesTyped' /\ RefresherInv'
    <2> DEFINE r == refresher[n]
               s == r.built[1]
               x == Flush(r.st, r.todo \ {s}, <<>>)
    <2>1. /\ dirty' = dirty /\ r.built # <<>>
          /\ roots' = [roots EXCEPT ![n][s] = r.built[2]]
          /\ refresher' = [refresher EXCEPT ![n] = x]
      BY <1>6 DEF RebuildMerkleTree
    <2>2. r.todo \in SUBSET Sector /\ s \in Sector
      BY <1>1, <2>1 DEF RefresherTyped
    <2>3. RefresherTyped(x)
      BY <2>2, RefresherShape
    <2> HIDE DEF r, s, x
    <2>4. refresher' = [m \in Server |-> refresher'[m]] /\ RefresherInv'
      BY <1>3, <2>1, <2>3
    <2>5. roots' = [m \in Server |-> [u \in Sector |-> roots'[m][u]]]
      <3>1. RootStored(n, s, r.built[2])
        BY <2>1 DEF RootStored
      <3> QED BY <1>1, <2>2, <3>1, RootsStored
    <2> QED BY <1>1, <2>1, <2>4, <2>5 DEF TreesTyped
  <1>7. ASSUME NEW f \in frames, MarkSectorDirty(f)
        PROVE  TreesTyped' /\ RefresherInv'
    <2>1. f.at \in Server /\ SectorOf(f.key) \in Sector
      BY KeyLocated DEF MerkleInv, CallsTyped, Frame
    <2>2. /\ dirty' = [dirty EXCEPT ![f.at] = @ \cup {SectorOf(f.key)}]
          /\ roots' = roots /\ refresher' = refresher
      BY <1>7 DEF MarkSectorDirty
    <2>3. dirty' \in [Server -> SUBSET Sector]
      BY <1>1, <2>1, <2>2 DEF TreesTyped
    <2> QED BY <1>1, <2>2, <2>3 DEF TreesTyped, RefresherInv
  <1> QED BY <1>2, <1>4, <1>5, <1>6, <1>7, TreeSteps

-----------------------------------------------------------------------------
(* The exchanges, the installs and the repairs. *)

LEMMA InputsShrink ==
  ASSUME [Next]_vars
  PROVE  inputs' \subseteq inputs
  BY DEF Next, CollectStep, vars, ReplicaPut, ReplicaPutRefused, ReadRepair, RepairDelete,
         Stop, DrainDirtySectors, LastFlush, RebuildMerkleTree, SnapshotSector,
         InstallObjects, MarkSectorDirty, RepairPut, LoseRepair, Reconcile, LoseDiff,
         RepairGetDiff, NextBucket, CollectSiblings, DiffReplied, ApplyDiff, StopAntiEntropy

LEMMA QuietTyped ==
  /\ ExchangeTyped(Idle) /\ ExchangeTyped([st |-> "over"])
  /\ Idle.st = "idle"
  BY DEF ExchangeTyped, Idle

LEMMA CollectingTyped ==
  ASSUME NEW s \in Sector, NEW m \in Server, NEW B \in SUBSET Bucket,
         NEW keys \in Seq(Key), NEW q \in Seq(Info)
  PROVE  ExchangeTyped(Collecting(s, m, B, keys, q))
  BY DEF ExchangeTyped, Collecting

LEMMA ApplyingTyped ==
  ASSUME NEW m \in Server, NEW q \in Seq(Info)
  PROVE  ExchangeTyped(Applying(m, q))
  <1>1. CASE q = <<>>
    BY <1>1, QuietTyped DEF Applying
  <1>2. CASE q # <<>>
    BY <1>2 DEF Applying, ExchangeTyped
  <1> QED BY <1>1, <1>2

(* An exchange that is not at a key of the reply moves on by itself. *)
ExchangeMoves(n, e) ==
  /\ exchange[n].st # "apply"
  /\ exchange' = [exchange EXCEPT ![n] = e]
  /\ ExchangeTyped(e)
  /\ UNCHANGED <<frames, repairs>>

LEMMA ExchangeMoveSteps ==
  ASSUME MerkleInv, NEW n \in Server,
         \/ \E s \in Sector, m \in Server : Reconcile(n, s, m)
         \/ LoseDiff(n) \/ RepairGetDiff(n) \/ NextBucket(n)
         \/ CollectSiblings(n) \/ DiffReplied(n) \/ StopAntiEntropy(n)
  PROVE  \E e : ExchangeMoves(n, e)
  <1> DEFINE e == exchange[n]
  <1>1. ExchangeTyped(e) /\ StoreTyped
    BY DEF MerkleInv, ExchangeInv
  <1>2. ASSUME NEW s \in Sector, NEW m \in Server, Reconcile(n, s, m)
        PROVE  \E x : ExchangeMoves(n, x)
    <2> DEFINE x == [st |-> "asked", sector |-> s, peer |-> m, tree |-> roots[n][s]]
    <2>1. ExchangeTyped(x)
      BY DEF ExchangeTyped
    <2>2. exchange[n] = Idle /\ exchange' = [exchange EXCEPT ![n] = x] /\ UNCHANGED <<frames, repairs>>
      BY <1>2 DEF Reconcile
    <2> HIDE DEF x
    <2> QED BY <2>1, <2>2, QuietTyped DEF ExchangeMoves
  <1>3. CASE LoseDiff(n) \/ StopAntiEntropy(n)
    BY <1>3, QuietTyped DEF LoseDiff, StopAntiEntropy, ExchangeMoves
  <1>4. CASE RepairGetDiff(n)
    <2> DEFINE root == roots[e.peer][e.sector]
               B == FindDiffBuckets(root, e.tree)
               x == IF root \in {NoRoot, e.tree} THEN Idle
                    ELSE Collecting(e.sector, e.peer, B, <<>>, <<>>)
    <2>1. e.st = "asked" /\ exchange' = [exchange EXCEPT ![n] = x] /\ UNCHANGED <<frames, repairs>>
      BY <1>4 DEF RepairGetDiff
    <2>2. B \in SUBSET Bucket
      BY DEF FindDiffBuckets
    <2> HIDE DEF B, root
    <2>3. ExchangeTyped(x)
      <3>1. e.sector \in Sector /\ e.peer \in Server
        BY <1>1, <2>1 DEF ExchangeTyped
      <3>2. ExchangeTyped(Collecting(e.sector, e.peer, B, <<>>, <<>>))
        <4>1. <<>> \in Seq(Key) /\ <<>> \in Seq(Info)
          OBVIOUS
        <4> HIDE DEF e
        <4> QED BY <2>2, <3>1, <4>1, CollectingTyped
      <3> QED BY <3>2, QuietTyped
    <2> HIDE DEF x
    <2> QED BY <2>1, <2>3 DEF ExchangeMoves
  <1>5. CASE NextBucket(n)
    <2>1. PICK b \in e.buckets : exchange' = [exchange EXCEPT ![n] =
            Collecting(e.sector, e.peer, e.buckets \ {b}, index[e.peer][e.sector][b], e.infos)]
      BY <1>5 DEF NextBucket, GetKeysFromBucket
    <2>2. /\ e.st = "collect" /\ UNCHANGED <<frames, repairs>>
          /\ e.sector \in Sector /\ e.peer \in Server /\ e.buckets \in SUBSET Bucket
          /\ e.infos \in Seq(Info)
      BY <1>1, <1>5 DEF NextBucket, ExchangeTyped
    <2>3. index[e.peer][e.sector][b] \in Seq(Key)
      BY <1>1, <2>1, <2>2 DEF StoreTyped
    <2> DEFINE x == Collecting(e.sector, e.peer, e.buckets \ {b}, index[e.peer][e.sector][b], e.infos)
    <2>4. ExchangeTyped(x)
      BY <2>2, <2>3, CollectingTyped
    <2> HIDE DEF x
    <2> QED BY <2>1, <2>2, <2>4 DEF ExchangeMoves, x
  <1>6. CASE CollectSiblings(n)
    <2> DEFINE k == Head(e.keys)
               info == [key |-> k, objs |-> kv[e.peer][k]]
               x == Collecting(e.sector, e.peer, e.buckets, Tail(e.keys), Append(e.infos, info))
    <2>1. /\ e.st = "collect" /\ e.keys # <<>> /\ UNCHANGED <<frames, repairs>>
          /\ exchange' = [exchange EXCEPT ![n] = x]
      BY <1>6 DEF CollectSiblings
    <2>2. /\ e.sector \in Sector /\ e.peer \in Server /\ e.buckets \in SUBSET Bucket
          /\ e.keys \in Seq(Key) /\ e.infos \in Seq(Info)
      BY <1>1, <2>1 DEF ExchangeTyped
    <2>3. k \in Key /\ Tail(e.keys) \in Seq(Key)
      BY <2>1, <2>2
    <2>4. kv[e.peer][k] \in SiblingSet
      BY <1>1, <2>2, <2>3 DEF StoreTyped
    <2>5. info \in Info
      BY <2>3, <2>4 DEF Info
    <2> HIDE DEF info, k
    <2>6. Append(e.infos, info) \in Seq(Info)
      BY <2>2, <2>5
    <2>7. ExchangeTyped(x)
      BY <2>2, <2>3, <2>6, CollectingTyped
    <2> HIDE DEF x
    <2> QED BY <2>1, <2>7 DEF ExchangeMoves
  <1>7. CASE DiffReplied(n)
    <2> DEFINE x == Applying(e.peer, e.infos)
    <2>1. /\ e.st = "collect" /\ UNCHANGED <<frames, repairs>>
          /\ exchange' = [exchange EXCEPT ![n] = x]
      BY <1>7 DEF DiffReplied
    <2>2. ExchangeTyped(x)
      BY <1>1, <2>1, ApplyingTyped DEF ExchangeTyped
    <2> HIDE DEF x
    <2> QED BY <2>1, <2>2 DEF ExchangeMoves
  <1> QED BY <1>2, <1>3, <1>4, <1>5, <1>6, <1>7

(* An exchange at a key of the reply sends the merged siblings back. *)
LEMMA SendBackTyped ==
  ASSUME MerkleInv, NEW n \in Server, exchange[n].st = "apply"
  PROVE  LET e == exchange[n] IN
         /\ ExchangeTyped(Applying(e.peer, Tail(e.infos)))
         /\ Head(e.infos) \in Info
         /\ \A objs \in SiblingSet \ {{}} :
              [to |-> e.peer, key |-> Head(e.infos).key, objs |-> objs] \in Repair
  <1> DEFINE e == exchange[n]
  <1>1. e.peer \in Server /\ e.infos \in Seq(Info) /\ e.infos # <<>>
    BY DEF MerkleInv, ExchangeInv, ExchangeTyped
  <1>2. Tail(e.infos) \in Seq(Info) /\ Head(e.infos) \in Info
    BY <1>1
  <1>3. Head(e.infos).key \in Key
    BY <1>2 DEF Info
  <1> HIDE DEF e
  <1>4. ExchangeTyped(Applying(e.peer, Tail(e.infos)))
    BY <1>1, <1>2, ApplyingTyped
  <1>5. \A objs \in SiblingSet \ {{}} :
          [to |-> e.peer, key |-> Head(e.infos).key, objs |-> objs] \in Repair
    BY <1>1, <1>3 DEF Repair
  <1> QED BY <1>2, <1>4, <1>5 DEF e

LEMMA ExchangeUpdated ==
  ASSUME MerkleInv, NEW n \in Server, NEW x, ExchangeTyped(x), exchange' = [exchange EXCEPT ![n] = x]
  PROVE  /\ exchange' = [m \in Server |-> exchange'[m]]
         /\ ExchangeInv'
         /\ \A m \in Server : m # n => exchange'[m] = exchange[m]
  <1>1. exchange = [m \in Server |-> exchange[m]] /\ ExchangeInv
    BY DEF MerkleInv, CallsTyped
  <1>2. /\ exchange' = [m \in Server |-> exchange'[m]]
        /\ \A m \in Server : exchange'[m] = IF m = n THEN x ELSE exchange[m]
    BY <1>1
  <1>3. ExchangeInv'
    BY <1>1, <1>2 DEF ExchangeInv
  <1> QED BY <1>2, <1>3

CallsKeep == CallsTyped' /\ ExchangeInv' /\ FramesInv'

LEMMA ExchangeMovesKeeps ==
  ASSUME MerkleInv, inputs' \subseteq inputs, NEW n \in Server, NEW e, ExchangeMoves(n, e)
  PROVE  CallsKeep
  <1>1. /\ exchange' = [m \in Server |-> exchange'[m]] /\ ExchangeInv'
        /\ \A m \in Server : m # n => exchange'[m] = exchange[m]
    BY ExchangeUpdated DEF ExchangeMoves
  <1>2. CallsTyped'
    BY <1>1 DEF ExchangeMoves, MerkleInv, CallsTyped
  <1>3. FramesInv'
    <2> SUFFICES ASSUME NEW f \in frames, f.by # "RepairPut" PROVE exchange'[f.by].st = "apply"
      BY DEF FramesInv, MerkleInv, ExchangeMoves
    <2>1. f.by \in Server /\ exchange[f.by].st = "apply"
      BY DEF FramesInv, MerkleInv, CallsTyped, Frame
    <2> QED BY <1>1, <2>1 DEF ExchangeMoves
  <1> QED BY <1>1, <1>2, <1>3 DEF CallsKeep

(* Frames and repairs when no exchange moves. *)
LEMMA FramesUpdated ==
  ASSUME MerkleInv, inputs' \subseteq inputs, exchange' = exchange,
         frames' \subseteq Frame, repairs' \subseteq Repair,
         \A f \in frames' : f.st = "install" => f.merged # {},
         \A f \in frames' : f.by # "RepairPut" =>
           /\ f.merged # {} /\ exchange[f.by].st = "apply"
           /\ \A g \in frames' : g.by = f.by => g = f
  PROVE  CallsKeep
  BY DEF MerkleInv, CallsTyped, ExchangeInv, FramesInv, CallsKeep

LEMMA ApplyDiffKeeps ==
  ASSUME MerkleInv, inputs' \subseteq inputs, NEW n \in Server, ApplyDiff(n)
  PROVE  CallsKeep
  <1> DEFINE e == exchange[n]
             info == Head(e.infos)
             S == kv[n][info.key]
             M == MergeObjects(S, info.objs)
             x == Applying(e.peer, Tail(e.infos))
             f == [st |-> "install", by |-> n, at |-> n, key |-> info.key, merged |-> M]
  <1>1. e.st = "apply" /\ \A g \in frames : g.by # n
    BY DEF ApplyDiff
  <1>2. /\ ExchangeTyped(x) /\ info \in Info
        /\ \A objs \in SiblingSet \ {{}} : [to |-> e.peer, key |-> info.key, objs |-> objs] \in Repair
    BY <1>1, SendBackTyped
  <1>3. info.key \in Key /\ info.objs \in SiblingSet /\ S \in SiblingSet
    BY <1>2 DEF Info, MerkleInv, StoreTyped
  <1>4. M \in SiblingSet /\ (info.objs # {} => M # {})
    BY <1>3, MergeSiblings
  <1>5. \/ /\ exchange' = [exchange EXCEPT ![n] = x]
           /\ frames' = frames
           /\ repairs' = repairs \/ /\ info.objs # {}
                                    /\ repairs' = repairs \cup {[to |-> e.peer, key |-> info.key, objs |-> M]}
        \/ /\ info.objs # {} /\ frames' = frames \cup {f}
           /\ UNCHANGED <<exchange, repairs>>
    <2>1. CASE info.objs = {}
      BY <2>1 DEF ApplyDiff
    <2>2. CASE info.objs # {} /\ M = S
      BY <2>2 DEF ApplyDiff, SendBack
    <2>3. CASE info.objs # {} /\ M # S
      BY <2>3 DEF ApplyDiff
    <2> QED BY <2>1, <2>2, <2>3
  <1> HIDE DEF M, S, x
  <1>6. f \in Frame
    BY <1>3, <1>4 DEF Frame
  <1> HIDE DEF info, e
  <1>7. CASE exchange' = [exchange EXCEPT ![n] = x] /\ frames' = frames /\ repairs' \subseteq Repair
    <2>1. /\ exchange' = [m \in Server |-> exchange'[m]] /\ ExchangeInv'
          /\ \A m \in Server : m # n => exchange'[m] = exchange[m]
      BY <1>2, <1>7, ExchangeUpdated
    <2>2. CallsTyped'
      BY <1>7, <2>1 DEF MerkleInv, CallsTyped
    <2>3. FramesInv'
      <3> SUFFICES ASSUME NEW g \in frames, g.by # "RepairPut" PROVE exchange'[g.by].st = "apply"
        BY <1>7 DEF FramesInv, MerkleInv
      <3>1. g.by \in Server /\ exchange[g.by].st = "apply"
        BY DEF FramesInv, MerkleInv, CallsTyped, Frame
      <3> QED BY <1>1, <2>1, <3>1
    <2> QED BY <2>1, <2>2, <2>3 DEF CallsKeep
  <1>8. CASE info.objs # {} /\ frames' = frames \cup {f} /\ UNCHANGED <<exchange, repairs>>
    <2>1. f.st = "install" /\ f.by = n /\ f.merged = M /\ M # {}
      BY <1>4, <1>8
    <2>2. frames \subseteq Frame /\ repairs \subseteq Repair /\ FramesInv
      BY DEF MerkleInv, CallsTyped
    <2> HIDE DEF f
    <2>3. \A g \in frames' : g.by = n => g = f
      BY <1>1, <1>8
    <2>4. exchange[n].st = "apply"
      BY <1>1 DEF e
    <2>5. \A g \in frames' : g.st = "install" => g.merged # {}
      BY <1>8, <2>1, <2>2 DEF FramesInv
    <2>6. ASSUME NEW g \in frames', g.by # "RepairPut"
          PROVE  /\ g.merged # {} /\ exchange[g.by].st = "apply"
                 /\ \A h \in frames' : h.by = g.by => h = g
      <3>1. CASE g = f
        BY <2>1, <2>3, <2>4, <3>1
      <3>2. CASE g # f
        <4>1. g \in frames /\ g.by # n
          BY <1>1, <1>8, <3>2
        <4> QED BY <1>8, <2>1, <2>2, <2>6, <4>1 DEF FramesInv
      <3> QED BY <3>1, <3>2
    <2> QED BY <1>6, <1>8, <2>2, <2>5, <2>6, FramesUpdated
  <1>9. repairs \subseteq Repair
    BY DEF MerkleInv, CallsTyped
  <1>10. M # {} => [to |-> e.peer, key |-> info.key, objs |-> M] \in Repair
    BY <1>2, <1>4
  <1> QED BY <1>4, <1>5, <1>7, <1>8, <1>9, <1>10

LEMMA MarkSectorDirtyKeeps ==
  ASSUME MerkleInv, inputs' \subseteq inputs, NEW f \in frames, MarkSectorDirty(f)
  PROVE  CallsKeep
  <1>1. frames' = frames \ {f} /\ frames \subseteq Frame /\ repairs \subseteq Repair /\ FramesInv
    BY DEF MarkSectorDirty, MerkleInv, CallsTyped
  <1>2. CASE f.by = "RepairPut"
    <2>1. UNCHANGED <<exchange, repairs>>
      BY <1>2 DEF MarkSectorDirty
    <2> QED BY <1>1, <2>1, FramesUpdated DEF FramesInv
  <1>3. CASE f.by # "RepairPut"
    <2> DEFINE n == f.by
               e == exchange[n]
               x == Applying(e.peer, Tail(e.infos))
    <2>1. /\ n \in Server /\ f.merged \in SiblingSet \ {{}} /\ e.st = "apply"
          /\ \A g \in frames' : g.by # n
      BY <1>1, <1>3 DEF FramesInv, Frame
    <2>2. /\ exchange' = [exchange EXCEPT ![n] = x]
          /\ repairs' = repairs \cup {[to |-> e.peer, key |-> Head(e.infos).key, objs |-> f.merged]}
      BY <1>3 DEF MarkSectorDirty, SendBack
    <2>3. ExchangeTyped(x) /\ repairs' \subseteq Repair
      BY <1>1, <2>1, <2>2, SendBackTyped
    <2> HIDE DEF x
    <2>4. /\ exchange' = [m \in Server |-> exchange'[m]] /\ ExchangeInv'
          /\ \A m \in Server : m # n => exchange'[m] = exchange[m]
      BY <2>1, <2>2, <2>3, ExchangeUpdated
    <2>5. CallsTyped'
      BY <1>1, <2>3, <2>4 DEF MerkleInv, CallsTyped
    <2>6. FramesInv'
      <3> SUFFICES ASSUME NEW g \in frames', g.by # "RepairPut" PROVE exchange'[g.by].st = "apply"
        BY <1>1 DEF FramesInv
      <3>1. g.by \in Server /\ exchange[g.by].st = "apply"
        BY <1>1 DEF FramesInv, Frame
      <3> QED BY <2>1, <2>4, <3>1
    <2> QED BY <2>4, <2>5, <2>6 DEF CallsKeep
  <1> QED BY <1>2, <1>3

LEMMA InstallObjectsKeeps ==
  ASSUME MerkleInv, inputs' \subseteq inputs, NEW f \in frames, InstallObjects(f)
  PROVE  CallsKeep
  <1> DEFINE g == [f EXCEPT !.st = "mark"]
  <1>1. /\ f.st = "install" /\ frames' = (frames \ {f}) \cup {g}
        /\ UNCHANGED <<exchange, repairs>>
    BY DEF InstallObjects
  <1>2. frames \subseteq Frame /\ repairs \subseteq Repair /\ FramesInv /\ f \in Frame
    BY DEF MerkleInv, CallsTyped
  <1>3. g \in Frame /\ g.st = "mark" /\ g.by = f.by /\ g.merged = f.merged
    BY <1>2 DEF Frame
  <1> HIDE DEF g
  <1>4. \A h \in frames' : h.st = "install" => h.merged # {}
    BY <1>1, <1>2, <1>3 DEF FramesInv
  <1>5. ASSUME NEW h \in frames', h.by # "RepairPut"
        PROVE  /\ h.merged # {} /\ exchange[h.by].st = "apply"
               /\ \A i \in frames' : i.by = h.by => i = h
    <2>1. CASE h = g
      <3>1. \A i \in frames : i.by = f.by => i = f
        BY <1>2, <1>3, <1>5, <2>1 DEF FramesInv
      <3> QED BY <1>1, <1>2, <1>3, <1>5, <2>1, <3>1 DEF FramesInv
    <2>2. CASE h # g
      <3>1. h \in frames /\ h # f
        BY <1>1, <2>2
      <3>2. \A i \in frames : i.by = h.by => i = h
        BY <1>2, <1>5, <3>1 DEF FramesInv
      <3> QED BY <1>1, <1>2, <1>3, <1>5, <3>1, <3>2 DEF FramesInv
    <2> QED BY <2>1, <2>2
  <1> QED BY <1>1, <1>2, <1>3, <1>4, <1>5, FramesUpdated

(* A new frame of RepairPut. *)
LEMMA FrameAdded ==
  ASSUME MerkleInv, inputs' \subseteq inputs, exchange' = exchange, repairs' \subseteq repairs,
         NEW f \in Frame, f.by = "RepairPut", f.st = "install" => f.merged # {},
         frames' = frames \cup {f}
  PROVE  CallsKeep
  <1>1. frames \subseteq Frame /\ repairs \subseteq Repair /\ FramesInv
    BY DEF MerkleInv, CallsTyped
  <1>2. \A g \in frames' : g.st = "install" => g.merged # {}
    BY <1>1 DEF FramesInv
  <1>3. ASSUME NEW g \in frames', g.by # "RepairPut"
        PROVE  /\ g.merged # {} /\ exchange[g.by].st = "apply"
               /\ \A h \in frames' : h.by = g.by => h = g
    BY <1>1, <1>3 DEF FramesInv
  <1> QED BY <1>1, <1>2, <1>3, FramesUpdated

LEMMA RepairPutKeeps ==
  ASSUME MerkleInv, inputs' \subseteq inputs, NEW r \in repairs, RepairPut(r)
  PROVE  CallsKeep
  <1> DEFINE S == kv[r.to][r.key]
             M == MergeObjects(S, r.objs)
             f == [st |-> "install", by |-> "RepairPut", at |-> r.to, key |-> r.key, merged |-> M]
  <1>1. r.to \in Server /\ r.key \in Key /\ r.objs \in SiblingSet /\ r.objs # {}
    BY DEF MerkleInv, CallsTyped, Repair
  <1>2. S \in SiblingSet
    BY <1>1 DEF MerkleInv, StoreTyped
  <1>3. M \in SiblingSet /\ M # {}
    BY <1>1, <1>2, MergeSiblings
  <1>4. /\ frames' = frames \/ frames' = frames \cup {f}
        /\ repairs' = repairs \ {r} /\ exchange' = exchange
    BY DEF RepairPut
  <1> HIDE DEF M
  <1>5. f \in Frame /\ f.by = "RepairPut" /\ f.merged # {}
    BY <1>1, <1>3 DEF Frame
  <1> HIDE DEF f
  <1>6. CASE frames' = frames
    BY <1>4, <1>6, FramesUpdated DEF MerkleInv, CallsTyped, FramesInv
  <1>7. CASE frames' = frames \cup {f}
    BY <1>4, <1>5, <1>7, FrameAdded
  <1> QED BY <1>4, <1>6, <1>7

LEMMA InputsKeep ==
  ASSUME MerkleInv, inputs' \subseteq inputs, NEW i \in inputs, ReadRepair(i) \/ RepairDelete(i)
  PROVE  CallsKeep
  <1>1. i \in Input
    BY DEF MerkleInv, CallsTyped
  <1>2. CASE ReadRepair(i)
    <2>1. i.at \in Server /\ i.key \in Key /\ UNCHANGED <<exchange, frames>>
      BY <1>1, <1>2, InputTyped DEF ReadRepair
    <2>2. PICK n \in Server :
            LET canonical == MergeObjects(kv[i.at][i.key], kv[n][i.key])
            IN  /\ canonical # {}
                /\ repairs' = repairs \cup {[to |-> i.at, key |-> i.key, objs |-> canonical]}
      BY <1>2 DEF ReadRepair
    <2> DEFINE M == MergeObjects(kv[i.at][i.key], kv[n][i.key])
    <2>3. M \in SiblingSet /\ M # {}
      BY <2>1, <2>2, MergeSiblings DEF MerkleInv, StoreTyped
    <2>4. repairs' = repairs \cup {[to |-> i.at, key |-> i.key, objs |-> M]}
      BY <2>2
    <2> HIDE DEF M
    <2>5. repairs' \subseteq Repair
      BY <2>1, <2>3, <2>4 DEF MerkleInv, CallsTyped, Repair
    <2> QED BY <2>1, <2>5, FramesUpdated DEF MerkleInv, CallsTyped, FramesInv
  <1>3. CASE RepairDelete(i)
    <2> DEFINE f == [st |-> "mark", by |-> "RepairPut", at |-> i.at, key |-> i.key, merged |-> {}]
    <2>1. i.at \in Server /\ i.key \in Key
      BY <1>1, <1>3, InputTyped DEF RepairDelete
    <2>2. {} \in SiblingSet
      BY DEF SiblingSet, Antichain
    <2>3. f \in Frame /\ f.by = "RepairPut" /\ f.st = "mark"
      BY <2>1, <2>2 DEF Frame
    <2>4. frames' = frames \cup {f} /\ UNCHANGED <<exchange, repairs>>
      BY <1>3 DEF RepairDelete
    <2> HIDE DEF f
    <2> QED BY <2>3, <2>4, FrameAdded
  <1> QED BY <1>2, <1>3

LEMMA CallsKept ==
  ASSUME MerkleInv, [Next]_vars
  PROVE  CallsKeep
  <1>1. inputs' \subseteq inputs
    BY InputsShrink
  <1>2. CASE UNCHANGED <<exchange, frames, repairs>>
    BY <1>1, <1>2, FramesUpdated DEF MerkleInv, CallsTyped, FramesInv
  <1>3. ASSUME NEW r \in repairs, LoseRepair(r) PROVE CallsKeep
    <2>1. repairs' \subseteq repairs /\ UNCHANGED <<exchange, frames>>
      BY <1>3 DEF LoseRepair
    <2> QED BY <1>1, <2>1, FramesUpdated DEF MerkleInv, CallsTyped, FramesInv
  <1>4. ASSUME NEW n \in Server,
               \/ \E s \in Sector, m \in Server : Reconcile(n, s, m)
               \/ LoseDiff(n) \/ RepairGetDiff(n) \/ NextBucket(n)
               \/ CollectSiblings(n) \/ DiffReplied(n) \/ StopAntiEntropy(n)
        PROVE  CallsKeep
    BY <1>1, <1>4, ExchangeMoveSteps, ExchangeMovesKeeps
  <1>5. ASSUME NEW i \in inputs, ReadRepair(i) \/ RepairDelete(i) PROVE CallsKeep
    BY <1>1, <1>5, InputsKeep
  <1>6. ASSUME NEW n \in Server, ApplyDiff(n) PROVE CallsKeep
    BY <1>1, <1>6, ApplyDiffKeeps
  <1>7. ASSUME NEW f \in frames, InstallObjects(f) \/ MarkSectorDirty(f) PROVE CallsKeep
    BY <1>1, <1>7, InstallObjectsKeeps, MarkSectorDirtyKeeps
  <1>8. ASSUME NEW r \in repairs, RepairPut(r) PROVE CallsKeep
    BY <1>1, <1>8, RepairPutKeeps
  <1> QED BY <1>2, <1>3, <1>4, <1>5, <1>6, <1>7, <1>8, ExchangeSteps, FrameSteps

LEMMA MerkleInvNext == MerkleInv /\ [Next]_vars => MerkleInv'
  BY StoreKept, TreesKept, CallsKept DEF MerkleInv, CallsKeep

LEMMA MerkleInvariant == Spec => []MerkleInv
  BY MerkleInvInit, MerkleInvNext, PTL DEF Spec

LEMMA ListsMatchStore == MerkleInv => IndexMatchesStore
  <1> SUFFICES ASSUME MerkleInv, NEW n \in Server, NEW s \in Sector, NEW b \in Bucket
               PROVE  /\ ToSet(index[n][s][b]) = {k \in Key : Location[k] = <<s, b>> /\ kv[n][k] # {}}
                      /\ Len(index[n][s][b]) = Cardinality(ToSet(index[n][s][b]))
    BY DEF IndexMatchesStore
  <1> DEFINE q == index[n][s][b]
  <1>1. q \in Seq(Key)
    BY DEF MerkleInv, StoreTyped
  <1>2. /\ NoneTwice(q)
        /\ \A k \in Key : Contains(q, k) <=> Location[k] = <<s, b>> /\ kv[n][k] # {}
    BY DEF MerkleInv, ListInv
  <1> HIDE DEF q
  <1>3. \A x : x \in ToSet(q) <=> Contains(q, x)
    BY <1>1, ToSetContains
  <1>4. \A x : Contains(q, x) => x \in Key
    BY <1>1 DEF Contains
  <1>5. ToSet(q) = {k \in Key : Location[k] = <<s, b>> /\ kv[n][k] # {}}
    BY <1>2, <1>3, <1>4
  <1> QED BY <1>1, <1>2, <1>5, LenIsCardinality DEF q

(* Every key a server has is listed once, in the bucket the ring gives it,  *)
(* and no other key is listed (appendUniqueKey in ReplicaPut and in         *)
(* installObjects, removeKey in installObjects), whatever puts, repairs,    *)
(* deletes and exchanges overlap.                                           *)
THEOREM IndexAlwaysMatchesStore == Spec => []IndexMatchesStore
  BY MerkleInvariant, ListsMatchStore, PTL

-----------------------------------------------------------------------------
(* The shape of the summaries, and the walk of findDiffBuckets down two.    *)

(* The shape of the tree.  Its width doubles from level to level. *)
WidthBy(f) == f = [d \in 0..Depth |-> IF d = 0 THEN 1 ELSE 2 * f[d - 1]]

LEMMA WidthDef == WidthBy(Width)
  <1> DEFINE D == [d \in 1..Depth |-> [x \in Nat |-> 2 * x]]
  <1>1. Depth \in Nat /\ 1 \in Nat
    BY DepthAssumption
  <1>2. Steps(D, Depth, Nat)
    BY DEF Steps
  <1>3. PICK f : Follows(f, 1, D, Depth, Nat)
    <2> HIDE DEF D
    <2> QED BY <1>1, <1>2, Recursion
  <1>4. WidthBy(f)
    <2> SUFFICES ASSUME NEW d \in 0..Depth PROVE f[d] = IF d = 0 THEN 1 ELSE 2 * f[d - 1]
      BY <1>3 DEF WidthBy, Follows
    <2>1. CASE d = 0
      BY <2>1, <1>3 DEF Follows
    <2>2. CASE d # 0
      <3>1. d \in 1..Depth /\ d - 1 \in 0..Depth
        BY <2>2, <1>1
      <3>2. f[d] = D[d][f[d - 1]] /\ f[d - 1] \in Nat
        BY <3>1, <1>3 DEF Follows
      <3> QED BY <2>2, <3>1, <3>2
    <2> QED BY <2>1, <2>2
  <1>5. Width = CHOOSE g : WidthBy(g)
    BY DEF Width, WidthBy
  <1> QED BY <1>4, <1>5

LEMMA Widths ==
  /\ Depth \in Nat \ {0}
  /\ Width[0] = 1
  /\ \A d \in 1..Depth : Width[d] = 2 * Width[d - 1]
  /\ \A d \in 0..Depth : Width[d] \in Nat \ {0} /\ Width[d] <= NumBuckets
  /\ NumBuckets = Width[Depth] /\ NumBuckets \in Nat \ {0, 1}
  <1>1. Depth \in Nat \ {0}
    BY DepthAssumption
  <1>2. Width[0] = 1 /\ \A d \in 1..Depth : Width[d] = 2 * Width[d - 1]
    BY <1>1, WidthDef DEF WidthBy
  <1> DEFINE P == {d \in 0..Depth :
                     /\ Width[d] \in Nat \ {0}
                     /\ \A e \in 0..d : Width[e] \in Nat /\ Width[e] <= Width[d]}
  <1>3. 0 \in P
    BY <1>1, <1>2
  <1>4. ASSUME NEW d \in 1..Depth, d - 1 \in P PROVE d \in P
    <2>1. /\ Width[d - 1] \in Nat \ {0}
          /\ \A e \in 0..(d - 1) : Width[e] \in Nat /\ Width[e] <= Width[d - 1]
      BY <1>4
    <2>2. Width[d] = 2 * Width[d - 1] /\ Width[d] \in Nat \ {0}
      BY <1>2, <2>1
    <2>3. \A e \in 0..(d - 1) : Width[e] \in Nat /\ Width[e] <= Width[d]
      BY <2>1, <2>2
    <2>4. \A e \in 0..d : e \in 0..(d - 1) \/ e = d
      BY <1>1
    <2>5. \A e \in 0..d : Width[e] \in Nat /\ Width[e] <= Width[d]
      BY <2>2, <2>3, <2>4
    <2> QED BY <2>2, <2>5, <1>1
  <1>5. \A d \in 0..Depth : d \in P
    <2> HIDE DEF P
    <2> QED BY <1>1, <1>3, <1>4, BoundedInduction
  <1>6. \A d \in 0..Depth : Width[d] \in Nat \ {0} /\ Width[d] <= Width[Depth]
    BY <1>1, <1>5
  <1>7. Width[Depth] \in Nat \ {0, 1}
    BY <1>1, <1>2, <1>6
  <1> QED BY <1>1, <1>2, <1>6, <1>7 DEF NumBuckets

LEMMA ListMade ==
  ASSUME NEW S, NEW n \in Nat, NEW f \in [1..n -> S]
  PROVE  f \in Seq(S) /\ Len(f) = n /\ DOMAIN f = 1..n
  OBVIOUS

LEMMA PairUpIs ==
  ASSUME NEW T, NEW q \in Seq(Seq(T))
  PROVE  /\ PairUp(q) \in Seq(Seq(T))
         /\ Len(PairUp(q)) = Len(q) \div 2
         /\ \A j \in 1..(Len(q) \div 2) :
              /\ 2 * j - 1 \in 1..Len(q) /\ 2 * j \in 1..Len(q)
              /\ PairUp(q)[j] = q[2 * j - 1] \o q[2 * j]
  <1> DEFINE n == Len(q) \div 2
             f == [j \in 1..n |-> q[2 * j - 1] \o q[2 * j]]
  <1>1. n \in Nat
    OBVIOUS
  <1>2. \A j \in 1..n : 2 * j - 1 \in 1..Len(q) /\ 2 * j \in 1..Len(q)
    OBVIOUS
  <1> HIDE DEF n
  <1>3. \A i \in 1..Len(q) : q[i] \in Seq(T)
    OBVIOUS
  <1>4. ASSUME NEW j \in 1..n PROVE q[2 * j - 1] \o q[2 * j] \in Seq(T)
    <2>1. q[2 * j - 1] \in Seq(T) /\ q[2 * j] \in Seq(T)
      BY <1>2, <1>3
    <2> QED BY <2>1
  <1>5. f \in [1..n -> Seq(T)]
    BY <1>4
  <1>6. f \in Seq(Seq(T)) /\ Len(f) = n
    <2> HIDE DEF f
    <2> QED BY <1>1, <1>5, ListMade
  <1>7. PairUp(q) = f
    BY DEF PairUp, n
  <1> QED BY <1>2, <1>6, <1>7 DEF n

(* The leaves of a tree are lists of one element. *)
Bottom(leaves) == [j \in 1..NumBuckets |-> <<leaves[j]>>]
LeavesOf(leaves) == {leaves[j] : j \in 1..NumBuckets}

LEMMA BottomIs ==
  ASSUME NEW leaves
  PROVE  /\ Bottom(leaves) \in Seq(Seq(LeavesOf(leaves))) /\ Len(Bottom(leaves)) = NumBuckets
         /\ \A j \in 1..NumBuckets : Bottom(leaves)[j] = <<leaves[j]>>
  <1> DEFINE T == LeavesOf(leaves)
  <1>1. \A j \in 1..NumBuckets : leaves[j] \in T
    BY DEF LeavesOf
  <1> HIDE DEF T
  <1>2. \A j \in 1..NumBuckets : <<leaves[j]>> \in Seq(T)
    BY <1>1
  <1>3. Bottom(leaves) \in [1..NumBuckets -> Seq(T)]
    BY <1>2 DEF Bottom
  <1>4. \A j \in 1..NumBuckets : Bottom(leaves)[j] = <<leaves[j]>>
    BY DEF Bottom
  <1>5. NumBuckets \in Nat
    BY Widths
  <1> HIDE DEF Bottom
  <1> QED BY <1>3, <1>4, <1>5, ListMade DEF T

LevelsBy(f, leaves) ==
  f = [l \in 0..Depth |-> IF l = 0 THEN Bottom(leaves) ELSE PairUp(f[l - 1])]

LEMMA LevelsDef ==
  ASSUME NEW leaves
  PROVE  /\ Levels(leaves) \in [0..Depth -> Seq(Seq(LeavesOf(leaves)))]
         /\ Levels(leaves)[0] = Bottom(leaves)
         /\ \A l \in 1..Depth : Levels(leaves)[l] = PairUp(Levels(leaves)[l - 1])
  <1> DEFINE S == Seq(Seq(LeavesOf(leaves)))
             c == Bottom(leaves)
             D == [l \in 1..Depth |-> [x \in S |-> PairUp(x)]]
  <1>1. Depth \in Nat /\ c \in S
    BY Widths, BottomIs
  <1>2. Steps(D, Depth, S)
    BY PairUpIs DEF Steps
  <1>3. PICK f : Follows(f, c, D, Depth, S)
    <2> HIDE DEF S, c, D
    <2> QED BY <1>1, <1>2, Recursion
  <1>4. LevelsBy(f, leaves)
    <2> SUFFICES ASSUME NEW l \in 0..Depth PROVE f[l] = IF l = 0 THEN c ELSE PairUp(f[l - 1])
      BY <1>3 DEF LevelsBy, Follows
    <2> HIDE DEF S, c
    <2>1. CASE l = 0
      BY <2>1, <1>3 DEF Follows
    <2>2. CASE l # 0
      <3>1. l \in 1..Depth /\ l - 1 \in 0..Depth
        BY <2>2, <1>1
      <3>2. f[l] = D[l][f[l - 1]] /\ f[l - 1] \in S
        BY <3>1, <1>3 DEF Follows
      <3> QED BY <2>2, <3>1, <3>2
    <2> QED BY <2>1, <2>2
  <1> DEFINE g == Levels(leaves)
  <1>5. g = CHOOSE h : LevelsBy(h, leaves)
    BY DEF Levels, LevelsBy, Bottom
  <1> HIDE DEF g, S, c
  <1>6. LevelsBy(g, leaves)
    BY <1>4, <1>5
  <1>7. /\ g = [l \in 0..Depth |-> g[l]] /\ g[0] = c
        /\ \A l \in 1..Depth : g[l] = PairUp(g[l - 1])
    <2>1. \A l \in 1..Depth : l \in 0..Depth /\ l # 0
      BY <1>1
    <2>2. 0 \in 0..Depth
      BY <1>1
    <2> QED BY <1>6, <2>1, <2>2 DEF LevelsBy, c
  <1> DEFINE P == {l \in 0..Depth : g[l] \in S}
  <1>8. 0 \in P
    BY <1>1, <1>7
  <1>9. ASSUME NEW l \in 1..Depth, l - 1 \in P PROVE l \in P
    <2>1. g[l - 1] \in S
      BY <1>9
    <2>2. PairUp(g[l - 1]) \in S
      BY <2>1, PairUpIs DEF S
    <2> QED BY <2>2, <1>1, <1>7
  <1>10. \A l \in 0..Depth : l \in P
    <2> HIDE DEF P
    <2> QED BY <1>1, <1>8, <1>9, BoundedInduction
  <1>11. g \in [0..Depth -> S]
    BY <1>7, <1>10
  <1> QED BY <1>7, <1>11 DEF g, S, c

(* The lists of q are all of length v, and there are w of them. *)
Regular(q, w, v) == Len(q) = w /\ \A j \in 1..w : Len(q[j]) = v

LEMMA Single == \A x : Len(<<x>>) = 1
  OBVIOUS

LEMMA ConcatLength ==
  ASSUME NEW T, NEW p \in Seq(T), NEW q \in Seq(T)
  PROVE  Len(p \o q) = Len(p) + Len(q)
  OBVIOUS

LEMMA PairRegular ==
  ASSUME NEW T, NEW q \in Seq(Seq(T)), NEW w \in Nat, NEW v \in Nat, Regular(q, 2 * w, v)
  PROVE  Regular(PairUp(q), w, 2 * v)
  <1>1. Len(q) = 2 * w /\ \A j \in 1..Len(q) : Len(q[j]) = v /\ q[j] \in Seq(T)
    BY DEF Regular
  <1>2. Len(q) \div 2 = w
    BY <1>1
  <1>3. Len(PairUp(q)) = w
    BY <1>2, PairUpIs
  <1>4. ASSUME NEW j \in 1..w PROVE Len(PairUp(q)[j]) = 2 * v
    <2>1. j \in 1..(Len(q) \div 2)
      BY <1>2
    <2>2. /\ 2 * j - 1 \in 1..Len(q) /\ 2 * j \in 1..Len(q)
          /\ PairUp(q)[j] = q[2 * j - 1] \o q[2 * j]
      BY <2>1, PairUpIs
    <2> DEFINE a == q[2 * j - 1]
               b == q[2 * j]
    <2>3. a \in Seq(T) /\ b \in Seq(T) /\ Len(a) = v /\ Len(b) = v
      BY <1>1, <2>2
    <2>4. PairUp(q)[j] = a \o b
      BY <2>2
    <2> HIDE DEF a, b
    <2>5. Len(a \o b) = Len(a) + Len(b)
      BY <2>3, ConcatLength
    <2>6. v + v = 2 * v
      OBVIOUS
    <2>7. Len(a) + Len(b) = v + v
      BY <2>3
    <2> QED BY <2>4, <2>5, <2>6, <2>7
  <1> QED BY <1>3, <1>4 DEF Regular

(* Level l has the width of its distance from the root; each of its nodes  *)
(* stands for as many leaves as a tree of height l has.                    *)
LEMMA LevelShape ==
  ASSUME NEW leaves, NEW l \in 0..Depth
  PROVE  /\ Levels(leaves)[l] \in Seq(Seq(LeavesOf(leaves)))
         /\ Regular(Levels(leaves)[l], Width[Depth - l], Width[l])
  <1> DEFINE g == Levels(leaves)
             T == LeavesOf(leaves)
  <1>1. /\ g \in [0..Depth -> Seq(Seq(T))] /\ g[0] = Bottom(leaves)
        /\ \A i \in 1..Depth : g[i] = PairUp(g[i - 1])
    BY LevelsDef
  <1>2. Depth \in Nat
    BY Widths
  <1>3. \A i \in 0..Depth : g[i] \in Seq(Seq(T))
    BY <1>1
  <1> HIDE DEF g, T
  <1> DEFINE P == {i \in 0..Depth : Regular(g[i], Width[Depth - i], Width[i])}
  <1>4. 0 \in P
    <2>1. Len(g[0]) = NumBuckets /\ \A j \in 1..NumBuckets : g[0][j] = <<leaves[j]>>
      BY <1>1, BottomIs
    <2>2. Depth - 0 = Depth /\ NumBuckets = Width[Depth] /\ Width[0] = 1
      BY Widths
    <2>3. \A j \in 1..NumBuckets : Len(g[0][j]) = 1
      BY <2>1, Single
    <2>4. Regular(g[0], NumBuckets, 1)
      BY <2>1, <2>3 DEF Regular
    <2>5. Regular(g[0], Width[Depth - 0], Width[0])
      BY <2>2, <2>4
    <2> QED BY <2>5, <1>2
  <1>5. ASSUME NEW i \in 1..Depth, i - 1 \in P PROVE i \in P
    <2>1. PICK w : w = Width[Depth - i]
      OBVIOUS
    <2>2. PICK v : v = Width[i - 1]
      OBVIOUS
    <2>3. Depth - i \in 0..Depth /\ Depth - (i - 1) \in 1..Depth /\ (Depth - (i - 1)) - 1 = Depth - i
      BY <1>2
    <2>4. Width[Depth - (i - 1)] = 2 * w /\ w \in Nat
      BY <2>1, <2>3, Widths
    <2>5. Width[i] = 2 * v /\ v \in Nat
      BY <2>2, <1>2, Widths
    <2>6. Regular(g[i - 1], 2 * w, v)
      BY <1>5, <2>2, <2>4
    <2>7. g[i - 1] \in Seq(Seq(T)) /\ g[i] = PairUp(g[i - 1])
      BY <1>1, <1>2, <1>3
    <2>8. Regular(PairUp(g[i - 1]), w, 2 * v)
      BY <2>4, <2>5, <2>6, <2>7, PairRegular
    <2>9. Regular(g[i], Width[Depth - i], Width[i])
      BY <2>1, <2>5, <2>7, <2>8
    <2> QED BY <2>9, <1>2
  <1>6. \A i \in 0..Depth : i \in P
    <2> HIDE DEF P
    <2> QED BY <1>2, <1>4, <1>5, BoundedInduction
  <1> QED BY <1>3, <1>6 DEF g, T


(* The levels one after the other, from level l down. *)
FromBy(f, leaves) ==
  f = [l \in 0..Depth |-> IF l = 0 THEN Levels(leaves)[0] ELSE Levels(leaves)[l] \o f[l - 1]]

LEMMA SummaryDef ==
  ASSUME NEW leaves
  PROVE  \E f : /\ f[0] = Levels(leaves)[0]
                /\ \A l \in 1..Depth : f[l] = Levels(leaves)[l] \o f[l - 1]
                /\ \A l \in 0..Depth : f[l] \in Seq(Seq(LeavesOf(leaves)))
                /\ ToSummary(leaves) = [i \in 0..(2 * NumBuckets - 2) |-> f[Depth][i + 1]]
  <1> DEFINE S == Seq(Seq(LeavesOf(leaves)))
             c == Levels(leaves)[0]
             D == [l \in 1..Depth |-> [x \in S |-> Levels(leaves)[l] \o x]]
  <1>1. Depth \in Nat /\ 0 \in 0..Depth /\ \A l \in 1..Depth : l \in 0..Depth
    BY Widths
  <1>2. c \in S /\ \A l \in 0..Depth : Levels(leaves)[l] \in S
    BY <1>1, LevelShape
  <1>3. ASSUME NEW x \in S, NEW y \in S PROVE x \o y \in S
    OBVIOUS
  <1>4. Steps(D, Depth, S)
    <2> HIDE DEF S
    <2> QED BY <1>1, <1>2, <1>3 DEF Steps
  <1> HIDE DEF S, c
  <1>5. PICK f : Follows(f, c, D, Depth, S)
    <2> HIDE DEF D
    <2> QED BY <1>1, <1>2, <1>4, Recursion
  <1>6. FromBy(f, leaves)
    <2> SUFFICES ASSUME NEW l \in 0..Depth
                 PROVE  f[l] = IF l = 0 THEN c ELSE Levels(leaves)[l] \o f[l - 1]
      BY <1>5 DEF FromBy, Follows, c
    <2>1. CASE l = 0
      BY <2>1, <1>5 DEF Follows
    <2>2. CASE l # 0
      <3>1. l \in 1..Depth /\ l - 1 \in 0..Depth
        BY <2>2, <1>1
      <3>2. f[l] = D[l][f[l - 1]] /\ f[l - 1] \in S
        BY <3>1, <1>5 DEF Follows
      <3>3. D[l] = [x \in S |-> Levels(leaves)[l] \o x]
        BY <3>1
      <3> HIDE DEF D
      <3> QED BY <2>2, <3>2, <3>3
    <2> QED BY <2>1, <2>2
  <1> DEFINE g == CHOOSE h : FromBy(h, leaves)
  <1>7. FromBy(g, leaves)
    BY <1>6
  <1>8. ToSummary(leaves) = [i \in 0..(2 * NumBuckets - 2) |-> g[Depth][i + 1]]
    BY DEF ToSummary, FromBy
  <1> HIDE DEF g
  <1>9. g[0] = c /\ \A l \in 1..Depth : g[l] = Levels(leaves)[l] \o g[l - 1]
    <2>1. \A l \in 1..Depth : l \in 0..Depth /\ l # 0
      BY <1>1
    <2> QED BY <1>1, <1>7, <2>1 DEF FromBy, c
  <1> DEFINE P == {l \in 0..Depth : g[l] \in S}
  <1>10. 0 \in P
    BY <1>1, <1>2, <1>9
  <1>11. ASSUME NEW l \in 1..Depth, l - 1 \in P PROVE l \in P
    <2>1. g[l - 1] \in S /\ Levels(leaves)[l] \in S
      BY <1>1, <1>2, <1>11
    <2>2. Levels(leaves)[l] \o g[l - 1] \in S
      BY <1>3, <2>1
    <2> QED BY <2>2, <1>1, <1>9
  <1>12. \A l \in 0..Depth : l \in P
    <2> HIDE DEF P
    <2> QED BY <1>1, <1>10, <1>11, BoundedInduction
  <1> QED BY <1>8, <1>9, <1>12 DEF c, S

(* The j-th node at distance d from the root, in a summary. *)
At(d, j) == Width[d] - 2 + j

LEMMA SummaryNodes ==
  ASSUME NEW leaves, NEW d \in 0..Depth, NEW j \in 1..Width[d]
  PROVE  /\ At(d, j) \in 0..(2 * NumBuckets - 2)
         /\ ToSummary(leaves)[At(d, j)] = Levels(leaves)[Depth - d][j]
  <1> DEFINE T == LeavesOf(leaves)
             L(l) == Levels(leaves)[l]
  <1>1. PICK f : /\ f[0] = L(0)
                 /\ \A l \in 1..Depth : f[l] = L(l) \o f[l - 1]
                 /\ \A l \in 0..Depth : f[l] \in Seq(Seq(T))
                 /\ ToSummary(leaves) = [i \in 0..(2 * NumBuckets - 2) |-> f[Depth][i + 1]]
    BY SummaryDef
  <1>2. Depth \in Nat /\ Depth - d \in 0..Depth
    BY Widths
  <1>3. \A l \in 0..Depth : L(l) \in Seq(Seq(T)) /\ Len(L(l)) = Width[Depth - l]
    BY LevelShape DEF Regular
  <1> HIDE DEF T, L
  <1> DEFINE P == {e \in 0..Depth : \A i \in 1..Len(f[Depth - e]) :
                                      f[Depth][Width[e] - 1 + i] = f[Depth - e][i]}
  <1>4. 0 \in P
    <2>1. Depth - 0 = Depth /\ Width[0] = 1
      BY Widths
    <2>2. f[Depth] \in Seq(Seq(T)) /\ Len(f[Depth]) \in Nat
      BY <1>1, <1>2
    <2>3. \A i \in 1..Len(f[Depth]) : 1 - 1 + i = i
      BY <2>2
    <2> QED BY <2>1, <2>3, <1>2
  <1>5. ASSUME NEW e \in 1..Depth, e - 1 \in P PROVE e \in P
    <2>1. PICK l : l = Depth - (e - 1)
      OBVIOUS
    <2>2. l \in 1..Depth /\ l \in 0..Depth /\ l - 1 = Depth - e /\ l - 1 \in 0..Depth /\ Depth - l = e - 1
      BY <2>1, <1>2
    <2>3. PICK w : w = Width[e - 1]
      OBVIOUS
    <2>4. Width[e] = 2 * w /\ w \in Nat
      BY <2>3, <1>2, Widths
    <2>5. /\ L(l) \in Seq(Seq(T)) /\ Len(L(l)) = w
          /\ f[l - 1] \in Seq(Seq(T)) /\ f[l] = L(l) \o f[l - 1]
      BY <1>1, <1>3, <2>2, <2>3
    <2>6. /\ Len(f[l]) = w + Len(f[l - 1]) /\ Len(f[l - 1]) \in Nat
          /\ \A i \in 1..Len(f[l - 1]) : f[l][w + i] = f[l - 1][i]
      <3>1. PICK p, q, r : p = L(l) /\ q = f[l - 1] /\ r = f[l]
        OBVIOUS
      <3>2. p \in Seq(Seq(T)) /\ q \in Seq(Seq(T)) /\ r = p \o q /\ Len(p) = w
        BY <2>5, <3>1
      <3>3. /\ Len(r) = Len(p) + Len(q) /\ Len(q) \in Nat
            /\ \A i \in 1..Len(q) : r[Len(p) + i] = q[i]
        <4>1. p \in Seq(Seq(T)) /\ q \in Seq(Seq(T)) /\ r = p \o q
          BY <3>2
        <4> QED BY <4>1
      <3> QED BY <3>1, <3>2, <3>3
    <2>7. \A i \in 1..Len(f[l]) : f[Depth][w - 1 + i] = f[l][i]
      BY <1>5, <2>1, <2>3
    <2>8. ASSUME NEW i \in 1..Len(f[l - 1]) PROVE f[Depth][Width[e] - 1 + i] = f[l - 1][i]
      <3>1. w + i \in 1..Len(f[l]) /\ w - 1 + (w + i) = Width[e] - 1 + i
        BY <2>4, <2>6
      <3>2. f[Depth][w - 1 + (w + i)] = f[l][w + i]
        BY <3>1, <2>7
      <3> QED BY <3>1, <3>2, <2>6
    <2> QED BY <2>2, <2>8, <1>2
  <1>6. \A e \in 0..Depth : e \in P
    <2> HIDE DEF P
    <2> QED BY <1>2, <1>4, <1>5, BoundedInduction
  <1>7. \A i \in 1..Len(f[Depth - d]) : f[Depth][Width[d] - 1 + i] = f[Depth - d][i]
    BY <1>6
  <1> HIDE DEF P
  <1>8. j \in 1..Len(f[Depth - d]) /\ f[Depth - d][j] = L(Depth - d)[j]
    <2>1. PICK l : l = Depth - d
      OBVIOUS
    <2>2. l \in 0..Depth /\ Depth - l = d
      BY <2>1, <1>2
    <2>3. L(l) \in Seq(Seq(T)) /\ Len(L(l)) = Width[d]
      BY <1>3, <2>2
    <2>4. CASE l = 0
      BY <2>1, <2>3, <2>4, <1>1
    <2>5. CASE l # 0
      <3>1. f[l] = L(l) \o f[l - 1] /\ f[l - 1] \in Seq(Seq(T))
        BY <1>1, <1>2, <2>2, <2>5
      <3>2. /\ Len(f[l]) = Len(L(l)) + Len(f[l - 1]) /\ Len(f[l - 1]) \in Nat /\ Len(L(l)) \in Nat
            /\ \A i \in 1..Len(L(l)) : f[l][i] = L(l)[i]
        <4>1. PICK p, q, r : p = L(l) /\ q = f[l - 1] /\ r = f[l]
          OBVIOUS
        <4>2. p \in Seq(Seq(T)) /\ q \in Seq(Seq(T)) /\ r = p \o q
          BY <2>3, <3>1, <4>1
        <4>3. /\ Len(r) = Len(p) + Len(q) /\ Len(q) \in Nat /\ Len(p) \in Nat
              /\ \A i \in 1..Len(p) : r[i] = p[i]
          BY <4>2
        <4> QED BY <4>1, <4>3
      <3>3. j \in 1..Len(L(l))
        BY <2>3
      <3>4. j \in 1..Len(f[l])
        BY <3>2, <3>3
      <3> QED BY <3>2, <3>3, <3>4, <2>1
    <2> QED BY <2>4, <2>5
  <1>9. f[Depth][Width[d] - 1 + j] = L(Depth - d)[j]
    BY <1>7, <1>8
  <1>10. PICK w : w = Width[d]
    OBVIOUS
  <1>11. w \in Nat \ {0} /\ w <= NumBuckets /\ NumBuckets \in Nat /\ j \in 1..w
    BY <1>10, Widths
  <1>12. w - 2 + j \in 0..(2 * NumBuckets - 2) /\ (w - 2 + j) + 1 = w - 1 + j
    BY <1>11
  <1>13. ToSummary(leaves)[w - 2 + j] = f[Depth][w - 1 + j]
    BY <1>1, <1>12
  <1> QED BY <1>9, <1>10, <1>12, <1>13 DEF At, L

(* What the comparison needs to know of a summary: where the children of a *)
(* node are, and how long its hash is.                                     *)
Tree(t, T) ==
  /\ DOMAIN t = 0..(2 * NumBuckets - 2)
  /\ \A d \in 0..Depth : \A j \in 1..Width[d] :
       t[At(d, j)] \in Seq(T) /\ Len(t[At(d, j)]) = Width[Depth - d]
  /\ \A d \in 1..Depth : \A j \in 1..Width[d - 1] :
       t[At(d - 1, j)] = t[At(d, 2 * j - 1)] \o t[At(d, 2 * j)]

LEMMA SummaryIsTree == \A leaves : \E T : Tree(ToSummary(leaves), T)
  <1> SUFFICES ASSUME NEW leaves PROVE Tree(ToSummary(leaves), LeavesOf(leaves))
    OBVIOUS
  <1> DEFINE t == ToSummary(leaves)
             T == LeavesOf(leaves)
             L(l) == Levels(leaves)[l]
  <1>1. DOMAIN t = 0..(2 * NumBuckets - 2)
    BY DEF ToSummary
  <1>2. \A d \in 0..Depth : \A j \in 1..Width[d] : t[At(d, j)] = L(Depth - d)[j]
    BY SummaryNodes
  <1>3. \A l \in 0..Depth : L(l) \in Seq(Seq(T)) /\ Regular(L(l), Width[Depth - l], Width[l])
    BY LevelShape
  <1>4. \A l \in 1..Depth : L(l) = PairUp(L(l - 1))
    BY LevelsDef
  <1> HIDE DEF t, T, L
  <1>5. Depth \in Nat
    BY Widths
  <1>6. ASSUME NEW d \in 0..Depth, NEW j \in 1..Width[d]
        PROVE  t[At(d, j)] \in Seq(T) /\ Len(t[At(d, j)]) = Width[Depth - d]
    <2>1. PICK l : l = Depth - d
      OBVIOUS
    <2>2. l \in 0..Depth /\ Depth - l = d
      BY <1>5, <2>1
    <2>3. L(l) \in Seq(Seq(T)) /\ Len(L(l)) = Width[d] /\ Len(L(l)[j]) = Width[l]
      BY <1>3, <2>2 DEF Regular
    <2>4. L(l)[j] \in Seq(T)
      BY <2>3
    <2> QED BY <1>2, <2>1, <2>3, <2>4
  <1>7. ASSUME NEW d \in 1..Depth, NEW j \in 1..Width[d - 1]
        PROVE  t[At(d - 1, j)] = t[At(d, 2 * j - 1)] \o t[At(d, 2 * j)]
    <2>1. PICK l : l = Depth - (d - 1)
      OBVIOUS
    <2>2. /\ l \in 1..Depth /\ l - 1 = Depth - d /\ l - 1 \in 0..Depth /\ Depth - (l - 1) = d
          /\ d \in 0..Depth /\ d - 1 \in 0..Depth
      BY <1>5, <2>1
    <2>3. PICK w : w = Width[d - 1]
      OBVIOUS
    <2>4. Width[d] = 2 * w /\ w \in Nat /\ j \in 1..w
      BY <2>2, <2>3, Widths
    <2>5. 2 * j - 1 \in 1..Width[d] /\ 2 * j \in 1..Width[d]
      BY <2>4
    <2>6. L(l - 1) \in Seq(Seq(T)) /\ Len(L(l - 1)) = 2 * w
      BY <1>3, <2>2, <2>4 DEF Regular
    <2>7. j \in 1..(Len(L(l - 1)) \div 2)
      <3>1. (2 * w) \div 2 = w
        BY <2>4
      <3> QED BY <3>1, <2>4, <2>6
    <2>8. PairUp(L(l - 1))[j] = L(l - 1)[2 * j - 1] \o L(l - 1)[2 * j]
      BY <2>6, <2>7, PairUpIs
    <2>9. L(l)[j] = L(l - 1)[2 * j - 1] \o L(l - 1)[2 * j]
      BY <1>4, <2>2, <2>8
    <2>10. t[At(d - 1, j)] = L(l)[j]
      BY <1>2, <2>1, <2>2
    <2>11. t[At(d, 2 * j - 1)] = L(l - 1)[2 * j - 1] /\ t[At(d, 2 * j)] = L(l - 1)[2 * j]
      BY <1>2, <2>2, <2>5
    <2> QED BY <2>9, <2>10, <2>11
  <1>8. Tree(t, T)
    BY <1>1, <1>6, <1>7 DEF Tree
  <1> QED BY <1>8 DEF t, T

(* Where findDiffBuckets looks for the parent. *)
LEMMA ParentAt ==
  ASSUME NEW d \in 1..Depth, NEW j \in 1..Width[d - 1]
  PROVE  /\ 2 * j - 1 \in 1..Width[d] /\ 2 * j \in 1..Width[d]
         /\ Parent(At(d, 2 * j - 1)) = At(d - 1, j) /\ Parent(At(d, 2 * j)) = At(d - 1, j)
         /\ At(d, 2 * j - 1) > 0 /\ At(d, 2 * j) > 0
  <1>1. PICK w : w = Width[d - 1]
    OBVIOUS
  <1>2. Width[d] = 2 * w /\ w \in Nat \ {0} /\ j \in 1..w
    BY <1>1, Widths
  <1>3. PICK a, b, c : a = At(d, 2 * j - 1) /\ b = At(d, 2 * j) /\ c = At(d - 1, j)
    OBVIOUS
  <1>4. a = 2 * w - 2 + (2 * j - 1) /\ b = 2 * w - 2 + 2 * j /\ c = w - 2 + j
    BY <1>1, <1>2, <1>3 DEF At
  <1>5. a > 0 /\ b > 0 /\ (a - 1) \div 2 = c /\ (b - 1) \div 2 = c
    BY <1>2, <1>4
  <1>6. 2 * j - 1 \in 1..Width[d] /\ 2 * j \in 1..Width[d]
    BY <1>2
  <1> QED BY <1>3, <1>5, <1>6 DEF Parent

(* Every node but the root is a left or a right child. *)
LEMMA IsChild ==
  ASSUME NEW d \in 1..Depth, NEW i \in 1..Width[d]
  PROVE  \E j \in 1..Width[d - 1] : i = 2 * j - 1 \/ i = 2 * j
  <1>1. PICK w : w = Width[d - 1]
    OBVIOUS
  <1>2. Width[d] = 2 * w /\ w \in Nat \ {0}
    BY <1>1, Widths
  <1>3. PICK j : j = (i + 1) \div 2
    OBVIOUS
  <1>4. i \in 1..(2 * w)
    BY <1>2
  <1>5. j \in 1..w /\ (i = 2 * j - 1 \/ i = 2 * j)
    BY <1>2, <1>3, <1>4
  <1> QED BY <1>1, <1>5

LEMMA ConcatAt ==
  ASSUME NEW T, NEW p \in Seq(T), NEW q \in Seq(T)
  PROVE  /\ \A i \in 1..Len(p) : (p \o q)[i] = p[i]
         /\ \A k : k - Len(p) \in 1..Len(q) /\ k \in Int => (p \o q)[k] = q[k - Len(p)]
  OBVIOUS

LEMMA SameList ==
  ASSUME NEW A, NEW B, NEW p \in Seq(A), NEW q \in Seq(B), Len(p) = Len(q),
         \A i \in 1..Len(p) : p[i] = q[i]
  PROVE  p = q
  OBVIOUS

Joined(u, p, q) == u = p \o q

LEMMA ConcatInjective ==
  ASSUME NEW A, NEW B, NEW p \in Seq(A), NEW q \in Seq(A), NEW r \in Seq(B), NEW s \in Seq(B),
         Len(p) = Len(r), Len(q) = Len(s), NEW u, Joined(u, p, q), Joined(u, r, s)
  PROVE  p = r /\ q = s
  <1>0. p \o q = r \o s
    BY DEF Joined
  <1>1. p = r
    <2>1. ASSUME NEW i \in 1..Len(p) PROVE p[i] = r[i]
      <3>1. (p \o q)[i] = p[i]
        BY ConcatAt
      <3>2. (r \o s)[i] = r[i]
        BY ConcatAt
      <3> QED BY <3>1, <3>2, <1>0
    <2> QED BY <2>1, SameList
  <1>2. q = s
    <2>1. ASSUME NEW i \in 1..Len(q) PROVE q[i] = s[i]
      <3>1. PICK k : k = Len(p) + i
        OBVIOUS
      <3>2. k \in Int /\ k - Len(p) = i /\ k - Len(r) = i
        BY <3>1
      <3>3. (p \o q)[k] = q[i]
        BY <3>2, ConcatAt
      <3>4. (r \o s)[k] = s[i]
        BY <3>2, ConcatAt
      <3> QED BY <3>3, <3>4, <1>0
    <2> QED BY <2>1, SameList
  <1> QED BY <1>1, <1>2

(* The queue of findDiffBuckets, level by level. *)
QueueBy(f, my, neighbor) ==
  f = [d \in 0..Depth |-> IF d = 0 THEN {0} ELSE Enqueue(my, neighbor, f[d - 1])]

Reported(f, my, neighbor, half) ==
  {b \in Bucket : (\E d \in 0..Depth : b + half \in f[d]) /\ my[b + half] # neighbor[b + half]}

QueueRuns(f, my, neighbor) ==
  /\ f[0] = {0} /\ \A d \in 1..Depth : f[d] = Enqueue(my, neighbor, f[d - 1])
  /\ FindDiffBuckets(my, neighbor) = Reported(f, my, neighbor, Cardinality(DOMAIN my) \div 2)

LEMMA QueueDef ==
  ASSUME NEW my, NEW neighbor, 0 \in DOMAIN my
  PROVE  \E f : QueueRuns(f, my, neighbor)
  <1> DEFINE S == SUBSET DOMAIN my
             D == [d \in 1..Depth |-> [x \in S |-> Enqueue(my, neighbor, x)]]
  <1>1. Depth \in Nat /\ {0} \in S
    BY Widths
  <1>2. \A x : Enqueue(my, neighbor, x) \in S
    BY DEF Enqueue
  <1>3. Steps(D, Depth, S)
    BY <1>2 DEF Steps
  <1> HIDE DEF S
  <1>4. PICK f : Follows(f, {0}, D, Depth, S)
    <2> HIDE DEF D
    <2> QED BY <1>1, <1>3, Recursion
  <1>5. QueueBy(f, my, neighbor)
    <2> SUFFICES ASSUME NEW d \in 0..Depth
                 PROVE  f[d] = IF d = 0 THEN {0} ELSE Enqueue(my, neighbor, f[d - 1])
      BY <1>4 DEF QueueBy, Follows
    <2>1. CASE d = 0
      BY <2>1, <1>4 DEF Follows
    <2>2. CASE d # 0
      <3>1. d \in 1..Depth /\ d - 1 \in 0..Depth
        BY <2>2, <1>1
      <3>2. f[d] = D[d][f[d - 1]] /\ f[d - 1] \in S
        BY <3>1, <1>4 DEF Follows
      <3> QED BY <2>2, <3>1, <3>2
    <2> QED BY <2>1, <2>2
  <1> DEFINE g == CHOOSE h : QueueBy(h, my, neighbor)
  <1>6. QueueBy(g, my, neighbor)
    BY <1>5
  <1>7. FindDiffBuckets(my, neighbor) = Reported(g, my, neighbor, Cardinality(DOMAIN my) \div 2)
    BY DEF FindDiffBuckets, QueueBy, Reported
  <1> HIDE DEF g
  <1>8. g[0] = {0} /\ \A d \in 1..Depth : g[d] = Enqueue(my, neighbor, g[d - 1])
    <2>1. 0 \in 0..Depth /\ \A d \in 1..Depth : d \in 0..Depth /\ d # 0
      BY <1>1
    <2> QED BY <1>6, <2>1 DEF QueueBy
  <1> QED BY <1>7, <1>8 DEF QueueRuns

(* A difference shows all the way up, and only leaves can look empty. *)
LEMMA DifferenceShows ==
  ASSUME NEW my, NEW A, Tree(my, A), NEW neighbor, NEW B, Tree(neighbor, B),
         NEW d \in 1..Depth, NEW j \in 1..Width[d - 1], NEW i \in {2 * j - 1, 2 * j},
         my[At(d, i)] # neighbor[At(d, i)]
  PROVE  my[At(d - 1, j)] # neighbor[At(d - 1, j)]
  <1>1. Depth \in Nat /\ d \in 0..Depth
    BY Widths
  <1>2. 2 * j - 1 \in 1..Width[d] /\ 2 * j \in 1..Width[d]
    BY ParentAt
  <1>3. PICK p, q, r, s : /\ p = my[At(d, 2 * j - 1)] /\ q = my[At(d, 2 * j)]
                          /\ r = neighbor[At(d, 2 * j - 1)] /\ s = neighbor[At(d, 2 * j)]
    OBVIOUS
  <1>4. /\ p \in Seq(A) /\ q \in Seq(A) /\ r \in Seq(B) /\ s \in Seq(B)
        /\ Len(p) = Len(r) /\ Len(q) = Len(s)
    BY <1>1, <1>2, <1>3 DEF Tree
  <1>5. my[At(d - 1, j)] = p \o q /\ neighbor[At(d - 1, j)] = r \o s
    BY <1>3 DEF Tree
  <1>6. p # r \/ q # s
    BY <1>3
  <1>7. ASSUME p \o q = r \o s PROVE FALSE
    <2>1. PICK u : Joined(u, p, q) /\ Joined(u, r, s)
      BY <1>7 DEF Joined
    <2>2. p = r /\ q = s
      BY <1>4, <2>1, ConcatInjective
    <2> QED BY <2>2, <1>6
  <1> QED BY <1>5, <1>7

LEMMA InnerNotEmpty ==
  ASSUME NEW my, NEW A, Tree(my, A), NEW d \in 0..(Depth - 1), NEW j \in 1..Width[d]
  PROVE  ~IsEmptyHash(my[At(d, j)])
  <1>1. Depth \in Nat /\ d \in 0..Depth /\ Depth - d \in 1..Depth /\ (Depth - d) - 1 \in 0..Depth
    BY Widths
  <1>2. Width[Depth - d] = 2 * Width[(Depth - d) - 1] /\ Width[(Depth - d) - 1] \in Nat \ {0}
    BY <1>1, Widths
  <1>3. Len(my[At(d, j)]) = Width[Depth - d]
    BY <1>1 DEF Tree
  <1>4. Len(my[At(d, j)]) # 1
    BY <1>2, <1>3
  <1> QED BY <1>4, Single DEF IsEmptyHash

(* findDiffBuckets (anti_entropy.go) finds what it is for. *)
LEMMA FindDiffExact ==
  ASSUME NEW my, NEW A, Tree(my, A), NEW neighbor, NEW B, Tree(neighbor, B)
  PROVE  FindDiffBuckets(my, neighbor) = DifferingBuckets(my, neighbor)
  <1>1. Depth \in Nat \ {0} /\ NumBuckets \in Nat \ {0, 1} /\ NumBuckets = Width[Depth]
    BY Widths
  <1>2. DOMAIN my = 0..(2 * NumBuckets - 2)
    BY DEF Tree
  <1>3. Cardinality(DOMAIN my) \div 2 = NumBuckets - 1
    <2>1. PICK m : m = 2 * NumBuckets - 2
      OBVIOUS
    <2>2. m \in Int /\ m >= 0 /\ m - 0 + 1 = 2 * NumBuckets - 1
      BY <1>1, <2>1
    <2>3. Cardinality(0..m) = m - 0 + 1
      BY <2>2, FS_Interval
    <2>4. (2 * NumBuckets - 1) \div 2 = NumBuckets - 1
      BY <1>1
    <2> QED BY <1>2, <2>1, <2>2, <2>3, <2>4
  <1>4. 0 \in DOMAIN my
    BY <1>1, <1>2
  <1>0. PICK f : QueueRuns(f, my, neighbor)
    BY <1>4, QueueDef
  <1>5. f[0] = {0} /\ \A d \in 1..Depth : f[d] = Enqueue(my, neighbor, f[d - 1])
    BY <1>0 DEF QueueRuns
  <1> DEFINE half == NumBuckets - 1
  <1>6. FindDiffBuckets(my, neighbor) =
          {b \in Bucket : (\E d \in 0..Depth : b + half \in f[d]) /\ my[b + half] # neighbor[b + half]}
    BY <1>0, <1>3 DEF QueueRuns, Reported
  <1>7. DifferingBuckets(my, neighbor) =
          {b \in Bucket : my[b + half] # neighbor[b + half] /\ ~IsEmptyHash(my[b + half])}
    <2>1. \A b \in Bucket : b + NumBuckets - 1 = b + half
      BY <1>1 DEF Bucket
    <2> QED BY <2>1 DEF DifferingBuckets
  <1> DEFINE Reached(d, i) ==
               my[At(d, i)] # neighbor[At(d, i)] /\ (d = Depth => ~IsEmptyHash(my[At(d, i)]))
                 => At(d, i) \in f[d]
             P == {d \in 0..Depth : \A i \in 1..Width[d] : Reached(d, i)}
  <1>8. 0 \in P
    <2>1. Width[0] = 1
      BY Widths
    <2>2. \A i \in 1..1 : At(0, i) = 0
      BY <2>1 DEF At
    <2> QED BY <2>1, <2>2, <1>1, <1>5
  <1>9. ASSUME NEW d \in 1..Depth, d - 1 \in P PROVE d \in P
    <2> SUFFICES ASSUME NEW i \in 1..Width[d], my[At(d, i)] # neighbor[At(d, i)],
                        d = Depth => ~IsEmptyHash(my[At(d, i)])
                 PROVE  At(d, i) \in f[d]
      BY <1>1
    <2>1. PICK j \in 1..Width[d - 1] : i = 2 * j - 1 \/ i = 2 * j
      BY IsChild
    <2>2. Parent(At(d, i)) = At(d - 1, j) /\ At(d, i) > 0
      BY <2>1, ParentAt
    <2>3. my[At(d - 1, j)] # neighbor[At(d - 1, j)]
      BY <2>1, DifferenceShows
    <2>4. At(d - 1, j) \in f[d - 1]
      <3>1. Reached(d - 1, j)
        BY <1>9
      <3>2. d - 1 # Depth
        BY <1>1
      <3> QED BY <3>1, <3>2, <2>3
    <2>5. ~IsEmptyHash(my[At(d, i)])
      <3>1. d = Depth \/ d \in 0..(Depth - 1)
        BY <1>1
      <3> QED BY <3>1, InnerNotEmpty
    <2>6. At(d, i) \in DOMAIN my
      <3>1. d \in 0..Depth
        BY <1>1
      <3> QED BY <3>1, <1>2, SummaryNodes
    <2> QED BY <2>2, <2>3, <2>4, <2>5, <2>6, <1>5 DEF Enqueue
  <1>10. \A d \in 0..Depth : d \in P
    <2> HIDE DEF P
    <2> QED BY <1>1, <1>8, <1>9, BoundedInduction
  <1>11. ASSUME NEW b \in Bucket, my[b + half] # neighbor[b + half], ~IsEmptyHash(my[b + half])
         PROVE  \E d \in 0..Depth : b + half \in f[d]
    <2>1. b + 1 \in 1..Width[Depth] /\ At(Depth, b + 1) = b + half
      BY <1>1 DEF Bucket, At
    <2>2. Reached(Depth, b + 1)
      BY <1>1, <1>10, <2>1
    <2>3. b + half \in f[Depth]
      BY <2>1, <2>2, <1>11
    <2> QED BY <2>3, <1>1
  <1>12. ASSUME NEW b \in Bucket, NEW d \in 0..Depth, b + half \in f[d]
         PROVE  ~IsEmptyHash(my[b + half])
    <2>1. b + half # 0
      BY <1>1 DEF Bucket
    <2>2. CASE d = 0
      BY <2>1, <2>2, <1>5, <1>12
    <2>3. CASE d # 0
      <3>1. d \in 1..Depth
        BY <2>3, <1>1
      <3>2. b + half \in Enqueue(my, neighbor, f[d - 1])
        BY <3>1, <1>5, <1>12
      <3> QED BY <3>2 DEF Enqueue
    <2> QED BY <2>2, <2>3
  <1> HIDE DEF half, P
  <1> QED BY <1>6, <1>7, <1>11, <1>12

-----------------------------------------------------------------------------
(* The trees. *)

(* StaleTreeMarked for one server and one sector. *)
Tracked(n, s) ==
  \/ LatestTree(n, s) = NoRoot /\ \A k \in Key : SectorOf(k) = s => kv[n][k] = {}
  \/ s \in dirty[n]
  \/ s \in refresher[n].todo /\ refresher[n].built = <<>>
  \/ s \in refresher[n].todo /\ refresher[n].built # <<>> /\ refresher[n].built[1] # s
  \/ \E f \in frames : f.st = "mark" /\ f.at = n /\ SectorOf(f.key) = s
  \/ <<n, s>> \in silent
  \/ LatestTree(n, s) = BuildMerkleTree(n, s)

LEMMA StaleTreeMarkedMeaning ==
  /\ StaleTreeMarked <=> \A n \in Server, s \in Sector : Tracked(n, s)
  /\ (StaleTreeMarked <=> \A n \in Server, s \in Sector : Tracked(n, s))'
  BY DEF StaleTreeMarked, Tracked

LEMMA TrackedInit == Init => StaleTreeMarked
  BY DEF Init, StaleTreeMarked, LatestTree, Flush

(* A tree shows the keys its sector's buckets list, which lie in the sector: *)
(* what is stored elsewhere does not change it.                              *)
LEMMA TreeUnaffected ==
  ASSUME MerkleInv, NEW n \in Server, NEW k \in Key, NEW S, NEW q, KeyStored(n, k, S, q),
         NEW m \in Server, NEW s \in Sector, m # n \/ s # SectorOf(k)
  PROVE  /\ BuildMerkleTree(m, s)' = BuildMerkleTree(m, s)
         /\ \A x \in Key : SectorOf(x) = s => kv'[m][x] = kv[m][x]
  <1>1. \A x \in Key : SectorOf(x) = s => kv'[m][x] = kv[m][x]
    BY DEF MerkleInv, StoreTyped, KeyStored
  <1>2. ASSUME NEW i \in 1..NumBuckets
        PROVE  Leaf(index'[m][s][i - 1], kv'[m]) = Leaf(index[m][s][i - 1], kv[m])
    <2> DEFINE b == i - 1
               keys == index[m][s][b]
    <2>1. NumBuckets \in Int
      BY Widths
    <2>2. b \in Bucket
      BY <2>1 DEF Bucket
    <2> HIDE DEF b
    <2>3. index'[m][s][b] = keys
      BY <2>2 DEF KeyStored
    <2>4. keys \in Seq(Key)
      BY <2>2 DEF MerkleInv, StoreTyped
    <2>5. \A x \in Key : Contains(keys, x) => Location[x] = <<s, b>>
      BY <2>2 DEF MerkleInv, ListInv
    <2> HIDE DEF keys
    <2>6. ASSUME NEW x \in ToSet(keys) PROVE kv'[m][x] = kv[m][x]
      <3>1. x \in Key /\ Contains(keys, x)
        BY <2>4, <2>6, ToSetContains DEF ToSet
      <3>2. SectorOf(x) = s
        BY <2>5, <3>1 DEF SectorOf
      <3> QED BY <1>1, <3>1, <3>2
    <2>7. Leaf(keys, kv'[m]) = Leaf(keys, kv[m])
      BY <2>6 DEF Leaf, WriteKVPair
    <2> QED BY <2>3, <2>7 DEF keys, b
  <1>3. [i \in 1..NumBuckets |-> Leaf(index'[m][s][i - 1], kv'[m])]
          = [i \in 1..NumBuckets |-> Leaf(index[m][s][i - 1], kv[m])]
    BY <1>2
  <1>4. BuildMerkleTree(m, s)' = BuildMerkleTree(m, s)
    BY <1>3 DEF BuildMerkleTree, GetKeysFromBucket
  <1> QED BY <1>1, <1>4

(* A store step: the sector it touches is marked or silent afterwards. *)
LEMMA StoreStepTracks ==
  ASSUME MerkleInv, StaleTreeMarked, NEW n \in Server, NEW k \in Key, NEW S, NEW q,
         KeyStored(n, k, S, q), UNCHANGED trees,
         \A f \in frames : f.st = "mark" => f \in frames',
         silent \subseteq silent',
         \/ <<n, SectorOf(k)>> \in silent'
         \/ \E f \in frames' : f.st = "mark" /\ f.at = n /\ SectorOf(f.key) = SectorOf(k)
  PROVE  StaleTreeMarked'
  <1> SUFFICES ASSUME NEW m \in Server, NEW s \in Sector PROVE Tracked(m, s)'
    BY StaleTreeMarkedMeaning
  <1>1. CASE m = n /\ s = SectorOf(k)
    BY <1>1 DEF Tracked
  <1>2. CASE m # n \/ s # SectorOf(k)
    <2>1. /\ BuildMerkleTree(m, s)' = BuildMerkleTree(m, s)
          /\ \A x \in Key : SectorOf(x) = s => kv'[m][x] = kv[m][x]
      BY <1>2, TreeUnaffected
    <2>2. LatestTree(m, s)' = LatestTree(m, s)
      BY DEF LatestTree, trees
    <2>3. Tracked(m, s)
      BY StaleTreeMarkedMeaning
    <2> QED BY <2>1, <2>2, <2>3 DEF Tracked, trees
  <1> QED BY <1>1, <1>2

LEMMA OtherSteps ==
  ASSUME [Next]_vars
  PROVE  \/ UNCHANGED <<store, trees, silent>> /\ frames \subseteq frames'
         \/ \E i \in inputs : ReplicaPut(i) \/ RepairDelete(i)
         \/ \E f \in frames : InstallObjects(f) \/ MarkSectorDirty(f)
         \/ \E n \in Server : DrainDirtySectors(n) \/ LastFlush(n) \/ RebuildMerkleTree(n)
         \/ \E n \in Server, s \in Sector : SnapshotSector(n, s)
  <1> DEFINE Other == UNCHANGED <<store, trees, silent>> /\ frames \subseteq frames'
  <1>1. ASSUME NEW r \in repairs, RepairPut(r) PROVE Other
    <2>1. frames \subseteq frames'
      BY <1>1 DEF RepairPut
    <2> QED BY <1>1, <2>1 DEF RepairPut
  <1>2. ASSUME NEW n \in Server, ApplyDiff(n) PROVE Other
    <2>1. frames \subseteq frames'
      BY <1>2 DEF ApplyDiff
    <2> QED BY <1>2, <2>1 DEF ApplyDiff
  <1>3. ASSUME NEW i \in inputs, ReplicaPutRefused(i) \/ ReadRepair(i) \/ Stop(i) PROVE Other
    BY <1>3 DEF ReplicaPutRefused, ReadRepair, Stop, calls
  <1>4. ASSUME NEW n \in Server,
               \/ \E s \in Sector, m \in Server : Reconcile(n, s, m)
               \/ LoseDiff(n) \/ RepairGetDiff(n) \/ CollectStep(n) \/ StopAntiEntropy(n)
        PROVE  Other
    BY <1>4 DEF Reconcile, LoseDiff, RepairGetDiff, CollectStep, NextBucket, CollectSiblings,
                DiffReplied, StopAntiEntropy
  <1>5. ASSUME NEW r \in repairs, LoseRepair(r) PROVE Other
    BY <1>5 DEF LoseRepair
  <1>6. CASE UNCHANGED vars
    BY <1>6 DEF vars, store, trees
  <1> HIDE DEF Other
  <1> QED BY <1>1, <1>2, <1>3, <1>4, <1>5, <1>6 DEF Next, Other

LEMMA TrackedNext == MerkleInv /\ StaleTreeMarked /\ [Next]_vars => StaleTreeMarked'
  <1> SUFFICES ASSUME MerkleInv, StaleTreeMarked, [Next]_vars PROVE StaleTreeMarked'
    OBVIOUS
  <1>1. CASE UNCHANGED <<store, trees, silent>> /\ frames \subseteq frames'
    <2> SUFFICES ASSUME NEW m \in Server, NEW s \in Sector PROVE Tracked(m, s)'
      BY StaleTreeMarkedMeaning
    <2>1. LatestTree(m, s)' = LatestTree(m, s) /\ BuildMerkleTree(m, s)' = BuildMerkleTree(m, s)
      BY <1>1 DEF LatestTree, BuildMerkleTree, GetKeysFromBucket, store, trees
    <2>2. Tracked(m, s)
      BY StaleTreeMarkedMeaning
    <2> QED BY <1>1, <2>1, <2>2 DEF Tracked, store, trees
  <1>2. ASSUME NEW i \in inputs, ReplicaPut(i) PROVE StaleTreeMarked'
    <2>1. PICK S, q : KeyStored(i.at, i.key, S, q)
      BY <1>2, ReplicaPutStores
    <2>2. i.at \in Server /\ i.key \in Key
      BY <1>2, ReplicaPutStores
    <2>3. silent' = silent \cup {<<i.at, SectorOf(i.key)>>} /\ UNCHANGED <<trees, frames>>
      BY <1>2 DEF ReplicaPut, calls
    <2> QED BY <2>1, <2>2, <2>3, StoreStepTracks
  <1>3. ASSUME NEW i \in inputs, RepairDelete(i) PROVE StaleTreeMarked'
    <2> DEFINE f == [st |-> "mark", by |-> "RepairPut", at |-> i.at, key |-> i.key, merged |-> {}]
    <2>1. PICK S, q : KeyStored(i.at, i.key, S, q)
      BY <1>3, RepairDeleteStores
    <2>2. i.at \in Server /\ i.key \in Key
      BY <1>3, RepairDeleteStores
    <2>3. frames' = frames \cup {f} /\ UNCHANGED <<trees, silent>>
      BY <1>3 DEF RepairDelete
    <2>4. f.st = "mark" /\ f.at = i.at /\ f.key = i.key
      OBVIOUS
    <2> HIDE DEF f
    <2> QED BY <2>1, <2>2, <2>3, <2>4, StoreStepTracks
  <1>4. ASSUME NEW f \in frames, InstallObjects(f) PROVE StaleTreeMarked'
    <2> DEFINE g == [f EXCEPT !.st = "mark"]
    <2>1. PICK S, q : KeyStored(f.at, f.key, S, q)
      BY <1>4, InstallObjectsStores
    <2>2. f.at \in Server /\ f.key \in Key
      BY <1>4, InstallObjectsStores
    <2>3. f.st = "install" /\ frames' = (frames \ {f}) \cup {g} /\ UNCHANGED <<trees, silent>>
      BY <1>4 DEF InstallObjects
    <2>4. g.st = "mark" /\ g.at = f.at /\ g.key = f.key
      BY DEF MerkleInv, CallsTyped, Frame
    <2> HIDE DEF g
    <2> QED BY <2>1, <2>2, <2>3, <2>4, StoreStepTracks
  <1>5. ASSUME NEW f \in frames, MarkSectorDirty(f) PROVE StaleTreeMarked'
    <2>1. /\ dirty' = [dirty EXCEPT ![f.at] = @ \cup {SectorOf(f.key)}]
          /\ frames' = frames \ {f} /\ UNCHANGED <<store, roots, refresher, silent>>
      BY <1>5 DEF MarkSectorDirty
    <2>2. \A m \in Server : /\ dirty[m] \subseteq dirty'[m]
                            /\ m = f.at => SectorOf(f.key) \in dirty'[m]
      BY <2>1 DEF MerkleInv, TreesTyped
    <2> SUFFICES ASSUME NEW m \in Server, NEW s \in Sector PROVE Tracked(m, s)'
      BY StaleTreeMarkedMeaning
    <2>3. LatestTree(m, s)' = LatestTree(m, s) /\ BuildMerkleTree(m, s)' = BuildMerkleTree(m, s)
      BY <2>1 DEF LatestTree, BuildMerkleTree, GetKeysFromBucket, store
    <2>4. Tracked(m, s)
      BY StaleTreeMarkedMeaning
    <2> QED BY <2>1, <2>2, <2>3, <2>4 DEF Tracked, store
  <1>6. ASSUME NEW n \in Server, DrainDirtySectors(n) \/ LastFlush(n) PROVE StaleTreeMarked'
    <2>1. PICK a : /\ dirty' = [dirty EXCEPT ![n] = {}] /\ refresher[n].todo = {}
                   /\ refresher' = [refresher EXCEPT ![n] = Flush(a, dirty[n], <<>>)]
                   /\ UNCHANGED <<store, roots, silent, frames>>
      BY <1>6 DEF DrainDirtySectors, LastFlush, calls
    <2>2. /\ \A m \in Server : m # n => dirty'[m] = dirty[m] /\ refresher'[m] = refresher[m]
          /\ refresher'[n].todo = dirty[n] /\ refresher'[n].built = <<>>
      BY <2>1 DEF MerkleInv, TreesTyped, Flush
    <2>3. refresher[n].built = <<>>
      BY <2>1 DEF MerkleInv, RefresherInv, RefresherTyped
    <2> SUFFICES ASSUME NEW m \in Server, NEW s \in Sector PROVE Tracked(m, s)'
      BY StaleTreeMarkedMeaning
    <2>4. LatestTree(m, s)' = LatestTree(m, s) /\ BuildMerkleTree(m, s)' = BuildMerkleTree(m, s)
      BY <2>1, <2>2, <2>3 DEF LatestTree, BuildMerkleTree, GetKeysFromBucket, store
    <2>5. Tracked(m, s)
      BY StaleTreeMarkedMeaning
    <2> QED BY <2>1, <2>2, <2>3, <2>4, <2>5 DEF Tracked, store
  <1>7. ASSUME NEW n \in Server, NEW u \in Sector, SnapshotSector(n, u) PROVE StaleTreeMarked'
    <2> DEFINE t == BuildMerkleTree(n, u)
    <2>1. /\ u \in refresher[n].todo /\ refresher[n].built = <<>>
          /\ refresher' = [refresher EXCEPT ![n] = Flush(refresher[n].st, refresher[n].todo, <<u, t>>)]
          /\ silent' = silent \ {<<n, u>>}
          /\ UNCHANGED <<store, dirty, roots, frames>>
      BY <1>7 DEF SnapshotSector, calls
    <2>2. BuildMerkleTree(n, u)' = t
      BY <2>1 DEF BuildMerkleTree, GetKeysFromBucket, store
    <2> HIDE DEF t
    <2>3. /\ \A m \in Server : m # n => refresher'[m] = refresher[m]
          /\ refresher'[n].todo = refresher[n].todo
          /\ refresher'[n].built # <<>> /\ refresher'[n].built[1] = u /\ refresher'[n].built[2] = t
      BY <2>1 DEF MerkleInv, TreesTyped, Flush
    <2> SUFFICES ASSUME NEW m \in Server, NEW s \in Sector PROVE Tracked(m, s)'
      BY StaleTreeMarkedMeaning
    <2>4. CASE m = n /\ s = u
      <3>1. LatestTree(m, s)' = t
        BY <2>3, <2>4 DEF LatestTree
      <3> QED BY <2>2, <2>4, <3>1 DEF Tracked
    <2>5. CASE ~(m = n /\ s = u)
      <3>1. LatestTree(m, s)' = LatestTree(m, s) /\ BuildMerkleTree(m, s)' = BuildMerkleTree(m, s)
        BY <2>1, <2>3, <2>5 DEF LatestTree, BuildMerkleTree, GetKeysFromBucket, store
      <3>2. Tracked(m, s)
        BY StaleTreeMarkedMeaning
      <3> QED BY <2>1, <2>3, <2>5, <3>1, <3>2 DEF Tracked, store
    <2> QED BY <2>4, <2>5
  <1>8. ASSUME NEW n \in Server, RebuildMerkleTree(n) PROVE StaleTreeMarked'
    <2> DEFINE r == refresher[n]
               u == r.built[1]
    <2>1. /\ r.built # <<>>
          /\ roots' = [roots EXCEPT ![n][u] = r.built[2]]
          /\ refresher' = [refresher EXCEPT ![n] = Flush(r.st, r.todo \ {u}, <<>>)]
          /\ UNCHANGED <<store, dirty, frames, silent>>
      BY <1>8 DEF RebuildMerkleTree, calls
    <2>2. u \in Sector
      BY <2>1 DEF MerkleInv, RefresherInv, RefresherTyped
    <2>3. /\ \A m \in Server : m # n => refresher'[m] = refresher[m]
          /\ refresher'[n].todo = r.todo \ {u} /\ refresher'[n].built = <<>>
      BY <2>1 DEF MerkleInv, TreesTyped, Flush
    <2>4. \A m \in Server, s \in Sector :
            roots'[m][s] = IF m = n /\ s = u THEN r.built[2] ELSE roots[m][s]
      <3>1. TreesTyped /\ RootStored(n, u, r.built[2])
        BY <2>1 DEF MerkleInv, RootStored
      <3> HIDE DEF r, u
      <3> QED BY <2>2, <3>1, RootsStored
    <2> SUFFICES ASSUME NEW m \in Server, NEW s \in Sector PROVE Tracked(m, s)'
      BY StaleTreeMarkedMeaning
    <2>5. LatestTree(m, s)' = LatestTree(m, s)
      <3>1. CASE m = n
        BY <2>1, <2>3, <2>4, <3>1 DEF LatestTree
      <3>2. CASE m # n
        BY <2>3, <2>4, <3>2 DEF LatestTree
      <3> QED BY <3>1, <3>2
    <2>6. BuildMerkleTree(m, s)' = BuildMerkleTree(m, s)
      BY <2>1 DEF BuildMerkleTree, GetKeysFromBucket, store
    <2>7. Tracked(m, s)
      BY StaleTreeMarkedMeaning
    <2> QED BY <2>1, <2>3, <2>5, <2>6, <2>7 DEF Tracked, store
  <1> QED BY <1>1, <1>2, <1>3, <1>4, <1>5, <1>6, <1>7, <1>8, OtherSteps

(* No rebuild is forgotten: where the latest tree does not show the store,  *)
(* the sector is marked, about to be marked (installObjects) or rebuilt     *)
(* (flushDirtyMerkle), or a ReplicaPut, which marks nothing, came after the *)
(* sector was last read.                                                    *)
THEOREM StaleTreesAreMarked == Spec => []StaleTreeMarked
  BY MerkleInvariant, TrackedInit, TrackedNext, PTL DEF Spec

-----------------------------------------------------------------------------
(* Every tree in place, or about to be, was built from the leaves of its    *)
(* sector, so a comparison of two of them is exact.                         *)

Built(t) == \E leaves : t = ToSummary(leaves)

RootsInv ==
  /\ \A n \in Server, s \in Sector : roots[n][s] = NoRoot \/ Built(roots[n][s])
  /\ \A n \in Server : refresher[n].built # <<>> => Built(refresher[n].built[2])

LEMMA RootsInvInit == Init => RootsInv
  BY DEF Init, RootsInv, Flush

LEMMA RootsInvNext == MerkleInv /\ RootsInv /\ [Next]_vars => RootsInv'
  <1> SUFFICES ASSUME MerkleInv, RootsInv, [Next]_vars PROVE RootsInv'
    OBVIOUS
  <1>1. TreesTyped
    BY DEF MerkleInv
  <1>2. CASE UNCHANGED trees
    BY <1>2 DEF RootsInv, trees
  <1>3. ASSUME NEW n \in Server, DrainDirtySectors(n) \/ LastFlush(n) PROVE RootsInv'
    <2>1. PICK a : /\ roots' = roots
                   /\ refresher' = [refresher EXCEPT ![n] = Flush(a, dirty[n], <<>>)]
      BY <1>3 DEF DrainDirtySectors, LastFlush
    <2>2. \A m \in Server : refresher'[m].built # <<>> => refresher'[m] = refresher[m]
      BY <1>1, <2>1 DEF TreesTyped, Flush
    <2> QED BY <2>1, <2>2 DEF RootsInv
  <1>4. ASSUME NEW n \in Server, NEW s \in Sector, SnapshotSector(n, s) PROVE RootsInv'
    <2>1. PICK t : t = BuildMerkleTree(n, s)
      OBVIOUS
    <2>2. Built(t)
      BY <2>1 DEF Built, BuildMerkleTree
    <2>3. /\ roots' = roots
          /\ refresher' = [refresher EXCEPT ![n] = Flush(refresher[n].st, refresher[n].todo, <<s, t>>)]
      BY <1>4, <2>1 DEF SnapshotSector
    <2>4. \A m \in Server : IF m = n THEN refresher'[m].built[2] = t ELSE refresher'[m] = refresher[m]
      BY <1>1, <2>3 DEF TreesTyped, Flush
    <2> QED BY <2>2, <2>3, <2>4 DEF RootsInv
  <1>5. ASSUME NEW n \in Server, RebuildMerkleTree(n) PROVE RootsInv'
    <2>1. PICK r, u, t : r = refresher[n] /\ u = r.built[1] /\ t = r.built[2]
      OBVIOUS
    <2>2. /\ r.built # <<>> /\ RootStored(n, u, t)
          /\ refresher' = [refresher EXCEPT ![n] = Flush(r.st, r.todo \ {u}, <<>>)]
      BY <1>5, <2>1 DEF RebuildMerkleTree, RootStored
    <2>3. u \in Sector
      BY <2>1, <2>2 DEF MerkleInv, RefresherInv, RefresherTyped
    <2>4. Built(t)
      BY <2>1, <2>2 DEF RootsInv
    <2>5. \A m \in Server, s \in Sector : roots'[m][s] = IF m = n /\ s = u THEN t ELSE roots[m][s]
      BY <1>1, <2>2, <2>3, RootsStored
    <2>6. \A m \in Server : refresher'[m].built # <<>> => refresher'[m] = refresher[m]
      BY <1>1, <2>2 DEF TreesTyped, Flush
    <2> QED BY <2>4, <2>5, <2>6 DEF RootsInv
  <1>6. ASSUME NEW f \in frames, MarkSectorDirty(f) PROVE RootsInv'
    BY <1>6 DEF MarkSectorDirty, RootsInv
  <1> QED BY <1>2, <1>3, <1>4, <1>5, <1>6, TreeSteps

LEMMA BuiltTreesCompare ==
  ASSUME NEW t, NEW u, Built(t), Built(u)
  PROVE  FindDiffBuckets(t, u) = DifferingBuckets(t, u)
  <1>1. PICK A : Tree(t, A)
    BY SummaryIsTree DEF Built
  <1>2. PICK B : Tree(u, B)
    BY SummaryIsTree DEF Built
  <1> QED BY <1>1, <1>2, FindDiffExact

LEMMA RootsCompare == RootsInv => DiffBucketsExact
  BY BuiltTreesCompare DEF RootsInv, DiffBucketsExact

(* The walk of findDiffBuckets down two summaries finds the buckets in      *)
(* which two trees in place differ and the answering server has keys, and   *)
(* no other, for trees of every depth: the array positions and the pruning  *)
(* of equal and of empty hashes lose no bucket.                             *)
THEOREM DiffBucketsAlwaysExact == Spec => []DiffBucketsExact
  BY MerkleInvariant, RootsInvInit, RootsInvNext, RootsCompare, PTL DEF Spec

=============================================================================
