---------------------------- MODULE SiblingList ----------------------------
(***************************************************************************)
(* The list of siblings a replica really keeps (kvsrv/rpc/object.go) and   *)
(* the ways the server and the clerk read it, over replicas that receive   *)
(* objects in different orders and merge each other's lists.               *)
(*                                                                         *)
(* This module justifies the set abstraction of Siblings, which every      *)
(* other module uses.  An object is [vc, ts]: its clock and timestamp.     *)
(***************************************************************************)
EXTENDS VClock, SequencesExt

CONSTANTS
  Replica,  \* the replicas of the key
  Object    \* the objects written, with pairwise different clocks and timestamps

VSet == INSTANCE Siblings

ASSUME ObjectAssumption ==
  /\ Object \subseteq [vc : VClocks, ts : Nat]
  /\ \A a, b \in Object : a # b => a.ts # b.ts /\ Compare(a.vc, b.vc) # "Equal"

VARIABLES
  list,       \* list[r]: kv.kv[key] at replica r, <<>> when the key is absent
  delivered   \* history: the objects offered to replica r so far

vars == <<list, delivered>>

-----------------------------------------------------------------------------
Cmp(a, b) == Compare(a.vc, b.vc)

SortByTimestamp(a, b) == a.ts < b.ts

(* MUTANT of CanBeAddedTo: only the same version is refused. *)
CanBeAddedToUnlessEqual(obj, others) ==
  \A i \in DOMAIN others : Cmp(obj, others[i]) # "Equal"

CanBeAddedTo(obj, others) ==
  \A i \in DOMAIN others : Cmp(obj, others[i]) \notin {"Before", "Equal"}

(* MUTANT of AddObject: superseded siblings are kept. *)
AddObjectKeepingAll(siblings, candidate) == Append(siblings, candidate)

(* MUTANT of AddObject: the new object is put last, whatever its timestamp. *)
AddObjectAtEnd(siblings, candidate) ==
  Append(SelectSeq(siblings, LAMBDA s : Cmp(candidate, s) # "After"), candidate)

(* One turn of AddObject's loop: a superseded sibling goes; the candidate   *)
(* goes in front of the first one that is after it, or concurrent with and  *)
(* younger than it; an equal one absorbs it.                                *)
AddTurn(done, candidate, sibling) ==
  LET cmp == Cmp(candidate, sibling)
      first == /\ ~done.added
               /\ cmp = "Before" \/ (cmp = "Concurrent" /\ SortByTimestamp(candidate, sibling))
  IN  IF cmp = "After" THEN done
      ELSE [kept |-> Append(IF first THEN Append(done.kept, candidate) ELSE done.kept, sibling),
            added |-> done.added \/ first \/ cmp = "Equal"]

AddObject(siblings, candidate) ==
  LET turn[i \in 0..Len(siblings)] ==
        IF i = 0 THEN [kept |-> <<>>, added |-> FALSE]
        ELSE AddTurn(turn[i - 1], candidate, siblings[i])
      last == turn[Len(siblings)]
  IN  IF last.added THEN last.kept ELSE Append(last.kept, candidate)

(* The merge loop of mergeObjectsCore over the incoming list. *)
MergeTurn(merged, obj) == IF CanBeAddedTo(obj, merged) THEN AddObject(merged, obj) ELSE merged
MergeList(siblings, incoming) ==
  LET merged[i \in 0..Len(incoming)] ==
        IF i = 0 THEN siblings ELSE MergeTurn(merged[i - 1], incoming[i])
  IN  merged[Len(incoming)]

IsOrdered(siblings) ==
  \A i \in 2..Len(siblings) :
    /\ Cmp(siblings[i - 1], siblings[i]) # "After"
    /\ SortByTimestamp(siblings[i - 1], siblings[i])

(* The exchange sort: every pair i < j, in order, swapped when out of order. *)
Exchange(s, i, j) ==
  LET cmp == Cmp(s[j], s[i])
  IN  IF \/ cmp = "Before"
         \/ cmp \in {"Equal", "Concurrent"} /\ SortByTimestamp(s[j], s[i])
      THEN [s EXCEPT ![i] = s[j], ![j] = s[i]]
      ELSE s

(* The inner loop, over the j behind i. *)
ExchangeBehind(s, i) ==
  LET inner[d \in 0..(Len(s) - i)] == IF d = 0 THEN s ELSE Exchange(inner[d - 1], i, i + d)
  IN  inner[Len(s) - i]

SortObjects(siblings) ==
  LET outer[i \in 0..Len(siblings)] ==
        IF i = 0 THEN siblings ELSE ExchangeBehind(outer[i - 1], i)
  IN  outer[Len(siblings)]

(* MUTANT of IsYounger: concurrent siblings are not ranked by timestamp. *)
IsAfter(s, latest) == Cmp(s, latest) = "After"

IsYounger(s, latest) ==
  \/ Cmp(s, latest) = "After"
  \/ Cmp(s, latest) \in {"Concurrent", "Equal"} /\ s.ts > latest.ts

(* The clerk's choice among the siblings of a read (kvsrv/client.go). *)
PickLatestObject(siblings) ==
  LET latest[d \in 0..(Len(siblings) - 1)] ==
        IF d = 0 THEN siblings[1]
        ELSE IF IsYounger(siblings[d + 1], latest[d - 1]) THEN siblings[d + 1] ELSE latest[d - 1]
  IN  latest[Len(siblings) - 1]

-----------------------------------------------------------------------------
Init ==
  /\ list = [r \in Replica |-> <<>>]
  /\ delivered = [r \in Replica |-> {}]

(* A replica takes in one object, as a put or a one-object merge does. *)
Receive(r, obj) ==
  /\ obj \notin delivered[r]
  /\ list' = [list EXCEPT ![r] = MergeList(@, <<obj>>)]
  /\ delivered' = [delivered EXCEPT ![r] = @ \cup {obj}]

(* A replica merges the whole list of another one (RepairPut, ApplyDiff). *)
MergeFrom(r, q) ==
  /\ r # q
  /\ list' = [list EXCEPT ![r] = MergeList(@, list[q])]
  /\ delivered' = [delivered EXCEPT ![r] = @ \cup delivered[q]]

Next ==
  \E r \in Replica :
    \/ \E obj \in Object : Receive(r, obj)
    \/ \E q \in Replica : MergeFrom(r, q)

Spec == Init /\ [][Next]_vars

-----------------------------------------------------------------------------
(* Whatever the order of puts and merges, a replica holds exactly the      *)
(* maximal objects among those offered to it: AddObject forgets nothing    *)
(* concurrent and keeps nothing superseded (object.go CanBeAddedTo and     *)
(* AddObject, server.go mergeObjectsCore).                                 *)
KeepsMaximal ==
  \A r \in Replica :
    ToSet(list[r]) =
      {o \in delivered[r] : \A p \in delivered[r] : Cmp(o, p) # "Before"}

(* The list stays sorted by timestamp, so writeKVPair (merkle.go) hashes   *)
(* it as it is and two replicas offered the same objects in different      *)
(* orders hold the same list and the same Merkle hash.                     *)
SameObjectsSameList ==
  /\ \A r \in Replica : IsOrdered(list[r])
  /\ \A r, q \in Replica : delivered[r] = delivered[q] => list[r] = list[q]

(* The one-step set merge used by the other modules is what the code's     *)
(* object-by-object loop computes on the lists the replicas can have, in   *)
(* whatever order the incoming objects come.                               *)
SetMergeAgrees ==
  \A r, q \in Replica :
    \A incoming \in SetToSeqs(ToSet(list[q])) :
      ToSet(MergeList(list[r], incoming)) =
        VSet!MergeObjects(ToSet(list[r]), ToSet(list[q]))

(* SortObjects (object.go), the fallback of writeKVPair, restores the      *)
(* replica's own order from any order the objects arrive in, and the       *)
(* clerk's pickLatestObject (client.go) returns the youngest sibling from  *)
(* any of these orders.                                                    *)
ReadersIgnoreOrder ==
  \A r \in Replica : list[r] # <<>> =>
    \A arrived \in SetToSeqs(ToSet(list[r])) :
      /\ SortObjects(arrived) = list[r]
      /\ PickLatestObject(arrived) = list[r][Len(list[r])]

=============================================================================
