----------------------------- MODULE Regularity -----------------------------
(***************************************************************************)
(* The evaluation of a run (kvsrv_eval): the collector keeps the completed *)
(* writes and reads sorted by the time they ended (pbsCollector.go), and   *)
(* the observer decides from the lists whether a read was delta-regular    *)
(* and whether it was k-regular (observer.go).                             *)
(*                                                                         *)
(* Coordinators take the time before they enter the collector's lock, so   *)
(* records come in any order.  Both tests skip the writes of other keys,   *)
(* which are left out.                                                     *)
(***************************************************************************)
EXTENDS VClock, Integers, SequencesExt

CONSTANTS
  Write,    \* bound: the writes of the key
  Vc,       \* Vc[w]: the clock of the object of w
  Writer,   \* Writer[w]: the client, which writes one object after the other
  Read,     \* bound: the reads
  MaxTime,  \* bound: the instants
  MaxK      \* bound: the k of k-regularity

ASSUME RegularityAssumption ==
  /\ IsFiniteSet(Write) /\ Vc \in [Write -> VClocks]
  /\ MaxTime \in Nat /\ MaxK \in Nat

VARIABLES
  writes,  \* c.writes
  reads    \* c.reads

collector == <<writes, reads>>

Time == 1..MaxTime
CollectorInit == writes = <<>> /\ reads = <<>>

-----------------------------------------------------------------------------
(* The collector. *)

(* MUTANT of SearchAfter: the record goes to the end of the list. *)
SearchAfterNone(list, t) == Len(list) + 1

(* sort.Search for the first record of the list that ended after t. *)
SearchAfter(list, t) ==
  LET after == {i \in DOMAIN list : list[i].end > t}
  IN  IF after = {} THEN Len(list) + 1 ELSE Min(after)

Insert(list, record) == InsertAt(list, SearchAfter(list, record.end), record)

(* A client starts a write when its earlier ones are committed. *)
InTurn(w, start, end) ==
  \A o \in ToSet(writes) : Writer[o.id] = Writer[w] =>
    IF Compare(Vc[o.id], Vc[w]) = "Before" THEN o.end <= start ELSE end <= o.start

(* A read returns no object whose write starts later. *)
Returnable(objs, end, w, start) == Contains(objs, w) => start <= end

(* CoordPut has its W-th answer. *)
ObserveCompletedWrite(w, start, end) ==
  /\ start <= end
  /\ \A o \in ToSet(writes) : o.id # w
  /\ InTurn(w, start, end)
  /\ \A r \in ToSet(reads) : Returnable(r.objs, r.end, w, start)
  /\ writes' = Insert(writes, [id |-> w, start |-> start, end |-> end])
  /\ UNCHANGED reads

(* CoordGet has its R-th answer; objs are the siblings it has merged, in    *)
(* the order the answers came in.                                           *)
ObserveCompletedRead(r, start, end, objs) ==
  /\ start <= end
  /\ \A o \in ToSet(reads) : o.id # r
  /\ \A o \in ToSet(writes) : Returnable(objs, end, o.id, o.start)
  /\ reads' = Insert(reads, [id |-> r, start |-> start, end |-> end, objs |-> objs])
  /\ UNCHANGED writes

SiblingLists ==
  UNION {SetToSeqs(S) : S \in {T \in (SUBSET Write) \ {{}} :
           \A v, w \in T : v # w => Compare(Vc[v], Vc[w]) = "Concurrent"}}

CollectorNext ==
  \E start, end \in Time :
    \/ \E w \in Write : ObserveCompletedWrite(w, start, end)
    \/ \E r \in Read, objs \in SiblingLists : ObserveCompletedRead(r, start, end, objs)

CollectorSpec == CollectorInit /\ [][CollectorNext]_collector

-----------------------------------------------------------------------------
(* The observer. *)

(* IsConsistent looks no further than the first object that is not          *)
(* concurrent with the write.                                               *)
IsConsistent(vc, objs) ==
  LET decisive == {i \in DOMAIN objs : Compare(vc, Vc[objs[i]]) # "Concurrent"}
  IN  decisive # {} /\ Compare(vc, Vc[objs[Min(decisive)]]) \in {"Before", "Equal"}

Overlaps(r, w) == w.start < r.end /\ w.end > r.start

(* MUTANT of BeforeDelta: a write committed at the cutoff is before it. *)
BeforeDeltaOrAt(r, w, delta) == w.end <= r.start - delta

BeforeDelta(r, w, delta) == w.end < r.start - delta

(* The writes the read may have seen: under way with it or inside delta. *)
Recent(r, w, delta) ==
  \/ Overlaps(r, w)
  \/ ~(w.end > r.start /\ w.start >= r.end) /\ ~BeforeDelta(r, w, delta)

(* latestWriteBeforeDelta after the loop; before it, an empty object. *)
LatestBefore(r, ws, delta) ==
  LET latest[i \in 0..Len(ws)] ==
        IF i = 0 THEN [end |-> 0, vc |-> NewVClock]
        ELSE IF BeforeDelta(r, ws[i], delta) /\ ws[i].end > latest[i - 1].end
        THEN [end |-> ws[i].end, vc |-> Vc[ws[i].id]]
        ELSE latest[i - 1]
  IN  latest[Len(ws)]

IsDeltaRegular(r, ws, delta) ==
  \/ \E w \in ToSet(ws) : Recent(r, w, delta) /\ IsConsistent(Vc[w.id], r.objs)
  \/ IsConsistent(LatestBefore(r, ws, delta).vc, r.objs)

(* The first of the candidates with the smallest commit time. *)
Stalest(candidates) ==
  Min({i \in DOMAIN candidates : \A j \in DOMAIN candidates : candidates[i].end <= candidates[j].end})

(* A candidate too many takes the place of the stalest one. *)
Keep(c, r, w, k) ==
  IF Overlaps(r, w) \/ w.end > r.start THEN c
  ELSE IF Len(c) < k THEN Append(c, w)
  ELSE [c EXCEPT ![Stalest(c)] = w]

(* kCandidate after the loop. *)
Candidates(r, ws, k) ==
  LET kept[i \in 0..Len(ws)] == IF i = 0 THEN <<>> ELSE Keep(kept[i - 1], r, ws[i], k)
  IN  kept[Len(ws)]

IsKRegular(r, ws, k) ==
  \E w \in ToSet(Candidates(r, ws, k)) \cup {v \in ToSet(ws) : Overlaps(r, v)} :
    IsConsistent(Vc[w.id], r.objs)

(* ObserveDeltaP and ObserveKP: how many of how many reads pass. *)
ObserveDeltaP(delta) ==
  <<Cardinality({i \in DOMAIN reads : IsDeltaRegular(reads[i], writes, delta)}), Len(reads)>>
ObserveKP(k) ==
  <<Cardinality({i \in DOMAIN reads : IsKRegular(reads[i], writes, k)}), Len(reads)>>

(* MUTANT of E2E: also when no attempt was counted. *)
E2EAlways(p, attempts) == <<p[1], attempts>>

(* The E2E sweeps divide by the attempts to read when there were any. *)
E2E(p, attempts) == IF attempts > 0 THEN <<p[1], attempts>> ELSE p
ObserveDeltaPSweepE2E(deltas, attempts) ==
  [i \in DOMAIN deltas |-> E2E(ObserveDeltaP(deltas[i]), attempts)]
ObserveKPSweepE2E(ks, attempts) == [i \in DOMAIN ks |-> E2E(ObserveKP(ks[i]), attempts)]

-----------------------------------------------------------------------------
(* What the two tests are for, over the set of the writes.  Writes that are *)
(* committed at the same instant may be taken in either order: S are the    *)
(* writes at least, or more, as late as w.                                  *)

(* Some object returned is as new as the object of w. *)
AsNew(r, w) == \E v \in ToSet(r.objs) : Leq(Vc[w.id], Vc[v])

Later(w, strict) ==
  {v \in ToSet(writes) : v # w /\ IF strict THEN v.end > w.end ELSE v.end >= w.end}

Started(r, w) == w.start < r.end \/ w.end <= r.start

DeltaAllowed(r, w, delta, strict) ==
  Started(r, w) /\ \A v \in Later(w, strict) : v.end >= r.start - delta

KAllowed(r, w, k, strict) ==
  \/ Overlaps(r, w)
  \/ /\ w.end <= r.start
     /\ Cardinality({v \in Later(w, strict) : v.end <= r.start}) < k

(* isDeltaRegular decides delta-regularity: the read returned a version as  *)
(* new as some write that started before it ended and was the last one, or  *)
(* came later than the last one, committed more than delta before the read. *)
(* With no such last write every read passes.  IsConsistent may stop at the *)
(* first object that is not concurrent because the objects are siblings.    *)
DeltaRegularExact ==
  \A r \in ToSet(reads), delta \in 0..MaxTime :
    LET regular == IsDeltaRegular(r, writes, delta)
        free == \A w \in ToSet(writes) : w.end >= r.start - delta
        fresh(strict) == \E w \in ToSet(writes) : DeltaAllowed(r, w, delta, strict) /\ AsNew(r, w)
    IN  /\ regular => free \/ fresh(TRUE)
        /\ free \/ fresh(FALSE) => regular

(* isKRegular decides k-regularity: the read returned a version as new as   *)
(* one of the k last writes committed before it, or as one that overlaps    *)
(* it.  Its list of k candidates is right only because the collector keeps  *)
(* the writes sorted however late their records come.                       *)
KRegularExact ==
  \A r \in ToSet(reads), k \in 1..MaxK :
    LET regular == IsKRegular(r, writes, k)
        fresh(strict) == \E w \in ToSet(writes) : KAllowed(r, w, k, strict) /\ AsNew(r, w)
    IN  /\ regular => fresh(TRUE)
        /\ fresh(FALSE) => regular

(* The curves of a plot rise: over longer deltas no point lies below an     *)
(* earlier one (a read that passes for a delta could fail for a longer one, *)
(* when the write it saw is no longer the last one before the cutoff), nor  *)
(* over more k when no two writes are committed at the same instant.  (The  *)
(* stalest of candidates with one commit time is the first in the list, so  *)
(* among four of them k = 3 may drop one that k = 2 keeps.)  And no point   *)
(* is above 1 when attempts cover the reads, whether there are attempts     *)
(* (E2E) or the sweep falls back on the reads.                              *)
SweepsRise ==
  LET atMostOne(p) == \A i \in DOMAIN p : p[i][1] <= p[i][2]
      rises(p) == \A i \in DOMAIN p : \A j \in 1..i : p[j][1] <= p[i][1]
      apart == \A i, j \in DOMAIN writes : writes[i].end = writes[j].end => i = j
  IN  \A attempts \in {0, Len(reads), Len(reads) + 1} :
        LET deltaP == ObserveDeltaPSweepE2E([i \in 1..(MaxTime + 1) |-> i - 1], attempts)
            kP == ObserveKPSweepE2E([i \in 1..MaxK |-> i], attempts)
        IN  /\ atMostOne(deltaP) /\ rises(deltaP)
            /\ atMostOne(kP) /\ (apart => rises(kP))

=============================================================================
