----------------------------- MODULE DemoProofs -----------------------------
(***************************************************************************)
(* Theorems about the four parts of the PBS demo: the counters and errors  *)
(* of its workload (DemoWorkload), for any number of readers, writers,     *)
(* keys and calls; the way of the read repair jobs (RepairQueue), for any  *)
(* number of jobs, keys, workers and places in the queue; the failures it  *)
(* injects (DemoFailure), for any servers, preference list and options;    *)
(* and the evaluation (Regularity), for any writes, reads and instants.    *)
(***************************************************************************)
EXTENDS DemoWorkload, RepairQueue, DemoFailure, Regularity, SiblingsProofs, Induction,
        SequenceTheorems

Label == {"read", "get", "next", "try", "put", "refresh", "refresh unmet", "done", "failed"}
Reading == {"get", "refresh", "refresh unmet"}

WorkTyped ==
  /\ phase \in {"initial", "running", "readers", "done"}
  /\ initial \in [keys : Nat, attempts : Nat]
  /\ pc \in [Workers -> Label]
  /\ stop \in BOOLEAN
  /\ errCh \subseteq Workers
  /\ count \in [Counter -> Nat]
  /\ recorded \in Nat
  /\ result \in {"none", "ok", "error"}

SomeoneFailed == \E w \in Workers : pc[w] = "failed"

(* A fatal error is in the channel as soon as a worker has given up. *)
ErrorKept == errCh # {} <=> SomeoneFailed

(* How far the scenario is tells which keys have their value, and the      *)
(* result that was returned why.                                           *)
PhaseTells ==
  /\ phase = "initial" => initial.keys < NumKeys /\ ~SomeoneFailed
  /\ phase \in {"running", "readers"} => initial.keys = NumKeys
  /\ phase # "done" => result = "none"
  /\ phase = "done" => (result = "error" <=> initial.keys < NumKeys \/ SomeoneFailed)
  /\ result = "ok" => ~SomeoneFailed

(* The reads under way are counted as attempts and not yet recorded. *)
InFlight == {w \in Workers : pc[w] \in Reading}
AttemptsCount == recorded + Cardinality(InFlight) <= count["readAttemptTotal"]

(* Only a read that ends the scenario is recorded and not counted as OK. *)
RecordedAreOK == ~SomeoneFailed => recorded = count["readOK"] + count["refreshOK"]

WorkInv == WorkTyped /\ ErrorKept /\ PhaseTells /\ AttemptsCount /\ RecordedAreOK

LEMMA WorkInvInit == WorkInit => WorkInv
  <1> SUFFICES ASSUME WorkInit PROVE WorkInv
    OBVIOUS
  <1>1. WorkTyped
    BY DEF WorkInit, WorkTyped, Label
  <1>2. InFlight = {} /\ ~SomeoneFailed
    BY DEF WorkInit, InFlight, Reading, SomeoneFailed, Workers
  <1>3. Cardinality(InFlight) = 0
    BY <1>2, FS_EmptySet
  <1>4. NumKeys \in Nat /\ 0 < NumKeys
    BY DemoWorkloadAssumption
  <1> QED BY <1>1, <1>2, <1>3, <1>4
          DEF WorkInit, WorkInv, ErrorKept, PhaseTells, AttemptsCount, RecordedAreOK, Counter

(* What a step of a worker does, its reply left open: it moves to l and     *)
(* adds one to the counters of C.                                           *)
Effect(w, l, C) ==
  /\ pc[w] # "failed" /\ Goto(w, l) /\ Add(C)
  /\ pc[w] \in Reading => l \notin Reading
  /\ l \in Reading => "readAttemptTotal" \in C
  /\ \/ recorded' = recorded /\ "readOK" \notin C /\ "refreshOK" \notin C
     \/ /\ pc[w] \in Reading /\ recorded' = recorded + 1
        /\ l = "failed" \/ ("readOK" \in C <=> "refreshOK" \notin C)
  /\ \/ l # "failed" /\ errCh' = errCh
     \/ l = "failed" /\ errCh' # {} /\ errCh' \subseteq Workers
  /\ stop' \in BOOLEAN

LEMMA GoOnEffect ==
  ASSUME WorkTyped, NEW w \in Workers, NEW l \in Label, GoOn(w, l), NEW C, Add(C),
         l # "failed", pc[w] # "failed",
         pc[w] \in Reading => l \notin Reading,
         l \in Reading => "readAttemptTotal" \in C,
         \/ recorded' = recorded /\ "readOK" \notin C /\ "refreshOK" \notin C
         \/ /\ pc[w] \in Reading /\ recorded' = recorded + 1
            /\ "readOK" \in C <=> "refreshOK" \notin C
  PROVE  Effect(w, l, C)
  BY DEF GoOn, Effect, WorkTyped

LEMMA FatalEffect ==
  ASSUME WorkTyped, NEW w \in Workers, ReportFatalErr(w), NEW C, Add(C),
         pc[w] # "failed",
         \/ recorded' = recorded /\ "readOK" \notin C /\ "refreshOK" \notin C
         \/ pc[w] \in Reading /\ recorded' = recorded + 1
  PROVE  Effect(w, "failed", C)
  BY DEF ReportFatalErr, Effect, WorkTyped, Reading

LEMMA AddNothing ==
  ASSUME WorkTyped, UNCHANGED count
  PROVE  Add({})
  <1>1. \A c \in Counter : count[c] + (IF c \in {} THEN 1 ELSE 0) = count[c]
    BY DEF WorkTyped
  <1>2. count = [c \in Counter |-> count[c]]
    BY DEF WorkTyped
  <1> QED BY <1>1, <1>2 DEF Add

LEMMA WorkerEffect ==
  ASSUME WorkTyped, NEW w \in Workers, WorkloadStep(w)
  PROVE  /\ \E l \in Label : \E C \in SUBSET Counter : Effect(w, l, C)
         /\ UNCHANGED <<phase, initial, result>>
  <1> USE DEF Label, Reading
  <1>0. /\ UNCHANGED <<phase, initial, result>> /\ recorded \in Nat
        /\ ReaderStep(w) \/ WriterStep(w)
    BY DEF WorkloadStep, WorkTyped
  <1> SUFFICES \E l \in Label : \E C \in SUBSET Counter : Effect(w, l, C)
    BY <1>0
  <1>1. CASE ReaderLoop(w)
    <2>1. CASE GoOn(w, "done") /\ UNCHANGED count
      <3>1. Effect(w, "done", {})
        BY <1>1, <2>1, AddNothing, GoOnEffect DEF ReaderLoop
      <3> QED BY <3>1
    <2>2. CASE GoOn(w, "get") /\ Add({"readAttemptTotal"})
      <3>1. Effect(w, "get", {"readAttemptTotal"})
        BY <1>1, <2>2, GoOnEffect DEF ReaderLoop
      <3> QED BY <3>1 DEF Counter
    <2> QED BY <1>1, <2>1, <2>2 DEF ReaderLoop
  <1>2. ASSUME NEW reply \in GetReply, ReaderGet(w, reply)
        PROVE  \E l \in Label : \E C \in SUBSET Counter : Effect(w, l, C)
    <2>0. pc[w] = "get" /\ recorded' = recorded + IF reply \in {"OK", "Empty"} THEN 1 ELSE 0
      BY <1>2 DEF ReaderGet
    <2>1. CASE reply = "OK" /\ Add({"readOK"}) /\ GoOn(w, "read")
      <3>1. Effect(w, "read", {"readOK"})
        BY <2>0, <2>1, GoOnEffect
      <3> QED BY <3>1 DEF Counter
    <2>2. ASSUME NEW c \in {"readNoKey", "readQuorumRetry"}, Add({c}), GoOn(w, "read"),
                 reply \notin {"OK", "Empty"}
          PROVE  \E l \in Label : \E C \in SUBSET Counter : Effect(w, l, C)
      <3>1. recorded' = recorded
        BY <1>0, <2>0, <2>2
      <3>2. Effect(w, "read", {c})
        BY <2>0, <2>2, <3>1, GoOnEffect
      <3> QED BY <3>2 DEF Counter
    <2>3. CASE Add({"readErr"}) /\ ReportFatalErr(w)
      <3>1. recorded' \in {recorded, recorded + 1}
        BY <1>0, <2>0
      <3>2. Effect(w, "failed", {"readErr"})
        BY <2>0, <2>3, <3>1, FatalEffect
      <3> QED BY <3>2 DEF Counter
    <2> QED BY <1>2, <2>1, <2>2, <2>3 DEF ReaderGet
  <1>3. CASE WriterLoop(w)
    <2>1. PICK l \in {"done", "try"} : GoOn(w, l)
      BY <1>3 DEF WriterLoop
    <2>2. Effect(w, l, {})
      BY <1>3, <2>1, AddNothing, GoOnEffect DEF WriterLoop
    <2> QED BY <2>2
  <1>4. CASE WriterTry(w)
    <2>1. CASE GoOn(w, "next") /\ UNCHANGED count
      <3>1. Effect(w, "next", {})
        BY <1>4, <2>1, AddNothing, GoOnEffect DEF WriterTry
      <3> QED BY <3>1
    <2>2. CASE GoOn(w, "put") /\ Add({"puts"})
      <3>1. Effect(w, "put", {"puts"})
        BY <1>4, <2>2, GoOnEffect DEF WriterTry
      <3> QED BY <3>1 DEF Counter
    <2> QED BY <1>4, <2>1, <2>2 DEF WriterTry
  <1>5. ASSUME NEW reply \in PutReply, WriterPut(w, reply)
        PROVE  \E l \in Label : \E C \in SUBSET Counter : Effect(w, l, C)
    <2>0. pc[w] = "put" /\ recorded' = recorded
      BY <1>5 DEF WriterPut
    <2>1. CASE Add({"writeOK"}) /\ GoOn(w, "next")
      <3>1. Effect(w, "next", {"writeOK"})
        BY <2>0, <2>1, GoOnEffect
      <3> QED BY <3>1 DEF Counter
    <2>2. ASSUME NEW c \in {"writeErrVersion", "writeQuorumRetry", "writeNoKeyRetry"},
                 NEW l \in {"refresh", "refresh unmet"},
                 Add({c, "readAttemptTotal"}), GoOn(w, l)
          PROVE  \E m \in Label : \E C \in SUBSET Counter : Effect(w, m, C)
      <3>1. Effect(w, l, {c, "readAttemptTotal"})
        BY <2>0, <2>2, GoOnEffect
      <3> QED BY <3>1 DEF Counter
    <2>3. CASE Add({"writeOtherErr"}) /\ ReportFatalErr(w)
      <3>1. Effect(w, "failed", {"writeOtherErr"})
        BY <2>0, <2>3, FatalEffect
      <3> QED BY <3>1 DEF Counter
    <2> QED BY <1>5, <2>1, <2>2, <2>3 DEF WriterPut
  <1>6. ASSUME NEW reply \in GetReply, WriterRefresh(w, reply)
        PROVE  \E l \in Label : \E C \in SUBSET Counter : Effect(w, l, C)
    <2>0. pc[w] \in {"refresh", "refresh unmet"}
      BY <1>6 DEF WriterRefresh
    <2>4. recorded' = recorded + IF reply \in {"OK", "Empty"} THEN 1 ELSE 0
      BY <1>6 DEF WriterRefresh
    <2>5. /\ recorded' \in {recorded, recorded + 1}
          /\ reply = "OK" => recorded' = recorded + 1
          /\ reply \notin {"OK", "Empty"} => recorded' = recorded
      BY <1>0, <2>4
    <2>1. CASE reply = "OK" /\ Add({"refreshOK"}) /\ GoOn(w, "try")
      <3>1. Effect(w, "try", {"refreshOK"})
        BY <2>0, <2>1, <2>5, GoOnEffect
      <3> QED BY <3>1 DEF Counter
    <2>2. CASE Add({"refreshErr"}) /\ ReportFatalErr(w)
      <3>1. Effect(w, "failed", {"refreshErr"})
        BY <2>0, <2>2, <2>5, FatalEffect
      <3> QED BY <3>1 DEF Counter
    <2>3. ASSUME NEW C \in {{}, {"refreshErr"}}, Add(C), GoOn(w, "try"), reply \notin {"OK", "Empty"}
          PROVE  \E l \in Label : \E D \in SUBSET Counter : Effect(w, l, D)
      <3>1. Effect(w, "try", C)
        BY <2>0, <2>3, <2>5, GoOnEffect
      <3> QED BY <3>1 DEF Counter
    <2> QED BY <1>6, <2>1, <2>2, <2>3 DEF WriterRefresh
  <1> QED BY <1>0, <1>1, <1>2, <1>3, <1>4, <1>5, <1>6 DEF ReaderStep, WriterStep

LEMMA WorkerInv ==
  ASSUME WorkInv, NEW w \in Workers, WorkloadStep(w)
  PROVE  WorkInv'
  <1>0. WorkTyped /\ phase \in {"running", "readers"}
    BY DEF WorkInv, WorkloadStep
  <1>1. PICK l \in Label : \E C \in SUBSET Counter : Effect(w, l, C)
    BY <1>0, WorkerEffect
  <1>2. PICK C \in SUBSET Counter : Effect(w, l, C)
    BY <1>1
  <1>3. UNCHANGED <<phase, initial, result>>
    BY <1>0, WorkerEffect
  <1>4. /\ pc' \in [Workers -> Label] /\ pc'[w] = l /\ pc[w] # "failed"
        /\ \A v \in Workers : v # w => pc'[v] = pc[v]
    BY <1>0, <1>2 DEF Effect, Goto, WorkTyped
  <1>5. /\ count' \in [Counter -> Nat]
        /\ \A c \in Counter : count'[c] = count[c] + IF c \in C THEN 1 ELSE 0
    BY <1>0, <1>2 DEF Effect, Add, WorkTyped
  <1>6. SomeoneFailed' <=> SomeoneFailed \/ l = "failed"
    BY <1>4 DEF SomeoneFailed
  <1>7. WorkTyped'
    BY <1>0, <1>2, <1>3, <1>4, <1>5 DEF WorkTyped, Effect
  <1>8. ErrorKept'
    BY <1>2, <1>6 DEF ErrorKept, WorkInv, Effect
  <1>9. PhaseTells'
    BY <1>0, <1>3, <1>6 DEF PhaseTells, WorkInv
  <1>10. {"readOK", "refreshOK", "readAttemptTotal"} \subseteq Counter
    BY DEF Counter
  <1>11. RecordedAreOK'
    <2>1. SUFFICES ASSUME ~SomeoneFailed, l # "failed"
                   PROVE  recorded' = count'["readOK"] + count'["refreshOK"]
      BY <1>6 DEF RecordedAreOK
    <2>2. recorded = count["readOK"] + count["refreshOK"]
      BY <2>1 DEF RecordedAreOK, WorkInv
    <2>3. \/ recorded' = recorded /\ "readOK" \notin C /\ "refreshOK" \notin C
          \/ recorded' = recorded + 1 /\ ("readOK" \in C <=> "refreshOK" \notin C)
      BY <1>2, <2>1 DEF Effect
    <2>4. count["readOK"] \in Nat /\ count["refreshOK"] \in Nat
      BY <1>0, <1>10 DEF WorkTyped
    <2>5. /\ count'["readOK"] = count["readOK"] + IF "readOK" \in C THEN 1 ELSE 0
          /\ count'["refreshOK"] = count["refreshOK"] + IF "refreshOK" \in C THEN 1 ELSE 0
      BY <1>5, <1>10
    <2> QED BY <2>2, <2>3, <2>4, <2>5
  <1>12. AttemptsCount'
    <2>1. IsFiniteSet(InFlight) /\ Cardinality(InFlight) \in Nat
      BY FS_Subset, FS_CardinalityType, DemoWorkloadAssumption DEF InFlight, Workers
    <2>2. recorded + Cardinality(InFlight) <= count["readAttemptTotal"]
      BY DEF WorkInv, AttemptsCount
    <2>3. recorded \in Nat /\ count["readAttemptTotal"] \in Nat
      BY <1>0, <1>10 DEF WorkTyped
    <2>4. count'["readAttemptTotal"]
            = count["readAttemptTotal"] + IF "readAttemptTotal" \in C THEN 1 ELSE 0
      BY <1>5, <1>10
    <2>5. /\ recorded' \in {recorded, recorded + 1}
          /\ recorded' = recorded + 1 => pc[w] \in Reading
          /\ pc[w] \in Reading => l \notin Reading
          /\ l \in Reading => "readAttemptTotal" \in C
      BY <1>2, <2>3 DEF Effect
    <2>6. CASE pc[w] \in Reading
      <3>1. InFlight' = InFlight \ {w} /\ w \in InFlight
        BY <1>4, <2>5, <2>6 DEF InFlight
      <3>2. Cardinality(InFlight') = Cardinality(InFlight) - 1
        BY <2>1, <3>1, FS_RemoveElement
      <3> QED BY <2>1, <2>2, <2>3, <2>4, <2>5, <3>2 DEF AttemptsCount
    <2>7. CASE pc[w] \notin Reading /\ l \in Reading
      <3>1. InFlight' = InFlight \cup {w} /\ w \notin InFlight
        BY <1>4, <2>5, <2>7 DEF InFlight
      <3>2. Cardinality(InFlight') = Cardinality(InFlight) + 1
        BY <2>1, <3>1, FS_AddElement
      <3> QED BY <2>1, <2>2, <2>3, <2>4, <2>5, <2>7, <3>2 DEF AttemptsCount
    <2>8. CASE pc[w] \notin Reading /\ l \notin Reading
      <3>1. InFlight' = InFlight
        BY <1>4, <2>5, <2>8 DEF InFlight
      <3> QED BY <2>1, <2>2, <2>3, <2>4, <2>5, <2>8, <3>1 DEF AttemptsCount
    <2> QED BY <2>6, <2>7, <2>8
  <1> QED BY <1>7, <1>8, <1>9, <1>11, <1>12 DEF WorkInv

LEMMA WorkInvNext == WorkInv /\ [WorkNext]_workVars => WorkInv'
  <1> SUFFICES ASSUME WorkInv, [WorkNext]_workVars PROVE WorkInv'
    OBVIOUS
  <1>0. WorkTyped /\ NumKeys \in Nat /\ initial.keys \in Nat /\ initial.attempts \in Nat
    BY DemoWorkloadAssumption DEF WorkInv, WorkTyped
  <1>1. ASSUME UNCHANGED <<pc, errCh, count, recorded>>, WorkTyped', PhaseTells'
        PROVE  WorkInv'
    BY <1>1 DEF WorkInv, ErrorKept, SomeoneFailed, AttemptsCount, InFlight, RecordedAreOK
  <1>2. ASSUME NEW reply \in PutReply, InitialValue(reply) PROVE WorkInv'
    <2>1. UNCHANGED <<pc, stop, errCh, count, recorded>> /\ phase = "initial"
      BY <1>2 DEF InitialValue
    <2>2. initial.keys < NumKeys /\ ~SomeoneFailed /\ result = "none"
      BY <2>1 DEF WorkInv, PhaseTells
    <2>3. SomeoneFailed' = SomeoneFailed
      BY <2>1 DEF SomeoneFailed
    <2>4. CASE reply = "OK"
      <3>1. /\ initial' = [keys |-> initial.keys + 1, attempts |-> 0]
            /\ phase' = IF initial.keys + 1 = NumKeys THEN "running" ELSE phase
            /\ result' = result
        BY <1>2, <2>4 DEF InitialValue, Unexpected
      <3>2. WorkTyped'
        BY <1>0, <2>1, <3>1 DEF WorkTyped
      <3>3. PhaseTells'
        BY <1>0, <2>1, <2>2, <2>3, <3>1 DEF PhaseTells
      <3> QED BY <1>1, <2>1, <3>2, <3>3
    <2>5. CASE reply # "OK"
      <3>1. /\ initial' \in [keys : Nat, attempts : Nat] /\ initial'.keys = initial.keys
            /\ \/ phase' = "done" /\ result' = "error"
               \/ UNCHANGED <<phase, result>>
        BY <1>0, <1>2, <2>5 DEF InitialValue, Return, WorkTyped
      <3>2. WorkTyped'
        BY <1>0, <2>1, <3>1 DEF WorkTyped
      <3>3. PhaseTells'
        BY <1>0, <2>1, <2>2, <2>3, <3>1 DEF PhaseTells
      <3> QED BY <1>1, <2>1, <3>2, <3>3
    <2> QED BY <2>4, <2>5
  <1>3. CASE StopTimer
    <2>1. WorkTyped' /\ PhaseTells'
      BY <1>0, <1>3 DEF StopTimer, WorkTyped, PhaseTells, SomeoneFailed, WorkInv
    <2> QED BY <1>1, <1>3, <2>1 DEF StopTimer
  <1>4. CASE WritersDone
    <2>1. WorkTyped' /\ PhaseTells'
      BY <1>0, <1>4 DEF WritersDone, WorkTyped, PhaseTells, SomeoneFailed, WorkInv
    <2> QED BY <1>1, <1>4, <2>1 DEF WritersDone
  <1>5. CASE ReadersDone
    <2>1. /\ phase' = "done" /\ result' = (IF errCh = {} THEN "ok" ELSE "error")
          /\ UNCHANGED <<initial, pc, stop, errCh, count, recorded>> /\ phase = "readers"
      BY <1>5 DEF ReadersDone, Return
    <2>2. WorkTyped'
      BY <1>0, <2>1 DEF WorkTyped
    <2>3. initial.keys = NumKeys /\ (errCh # {} <=> SomeoneFailed)
      BY <2>1 DEF WorkInv, PhaseTells, ErrorKept
    <2>4. SomeoneFailed' = SomeoneFailed
      BY <2>1 DEF SomeoneFailed
    <2>5. PhaseTells'
      BY <1>0, <2>1, <2>3, <2>4 DEF PhaseTells
    <2> QED BY <1>1, <2>1, <2>2, <2>5
  <1>6. CASE UNCHANGED workVars
    <2>1. WorkTyped' /\ PhaseTells'
      BY <1>6 DEF workVars, WorkInv, WorkTyped, PhaseTells, SomeoneFailed
    <2> QED BY <1>1, <1>6, <2>1 DEF workVars
  <1> QED BY <1>2, <1>3, <1>4, <1>5, <1>6, WorkerInv DEF WorkNext, ScenarioStep

LEMMA WorkInvHolds == WorkSpec => []WorkInv
  BY WorkInvInit, WorkInvNext, PTL DEF WorkSpec

(* A run of runPBSDemoScenario (pbs_demo.go) returns an error exactly when  *)
(* a worker gave up or a key got no initial value, for any number of        *)
(* workers that fail at once and race for the one place in workerErrCh.     *)
THEOREM FatalErrorsReturned == WorkSpec => []FatalErrorReturned
  <1>1. WorkInv => FatalErrorReturned
    BY DEF WorkInv, PhaseTells, SomeoneFailed, FatalErrorReturned
  <1> QED BY <1>1, WorkInvHolds, PTL

(* ReadAttemptTotal (pbs_demo.go) is never behind the reads the collector   *)
(* holds, and after a run that succeeds the collector holds the reads       *)
(* counted as OK.                                                           *)
THEOREM AttemptsAlwaysCoverReads == WorkSpec => []AttemptsCoverReads
  <1>1. ASSUME WorkInv PROVE AttemptsCoverReads
    <2>1. Cardinality(InFlight) \in Nat
      BY FS_Subset, FS_CardinalityType, DemoWorkloadAssumption DEF InFlight, Workers
    <2>2. recorded + Cardinality(InFlight) <= count["readAttemptTotal"]
      BY <1>1 DEF WorkInv, AttemptsCount
    <2>3. recorded \in Nat /\ count["readAttemptTotal"] \in Nat
      BY <1>1 DEF WorkInv, WorkTyped, Counter
    <2>4. result = "ok" => recorded = count["readOK"] + count["refreshOK"]
      BY <1>1 DEF WorkInv, PhaseTells, RecordedAreOK
    <2> QED BY <2>1, <2>2, <2>3, <2>4 DEF AttemptsCoverReads
  <1> QED BY <1>1, WorkInvHolds, PTL

-----------------------------------------------------------------------------
(* The read repair jobs.  A job that was scheduled is in the map, in the    *)
(* queue or taken, and in one of these only.                                *)
TimerState == {"new", "armed", "fired", "off"}
Waiting(j) == coalesce[KeyOf[j]] = j
Queued(j) == \E i \in 1..Len(queue) : queue[i] = j

QueueTyped ==
  /\ coalesce \in [Key -> Job \cup {NoJob}]
  /\ timer \in [Job -> TimerState]
  /\ queue \in Seq(Job)
  /\ taken \in [Job -> Nat]

(* The map has a job under its own key. *)
MapByKey == \A k \in Key : coalesce[k] \in Job => KeyOf[coalesce[k]] = k

NoneTwice ==
  /\ \A i, k \in 1..Len(queue) : queue[i] = queue[k] => i = k
  /\ \A j \in Job : /\ taken[j] <= 1
                    /\ Waiting(j) => ~Queued(j) /\ taken[j] = 0
                    /\ Queued(j) => taken[j] = 0
                    /\ timer[j] = "new" => ~Waiting(j) /\ ~Queued(j) /\ taken[j] = 0

QueueInv == QueueTyped /\ MapByKey /\ NoneTwice

LEMMA QueueInvInit == QueueInit => QueueInv
  BY RepairQueueAssumption
     DEF QueueInit, QueueInv, QueueTyped, MapByKey, NoneTwice, Waiting, Queued, TimerState

(* Adding to the queue and taking from its head. *)
LEMMA AppendMeaning ==
  ASSUME QueueTyped, NEW j \in Job, queue' = Append(queue, j)
  PROVE  /\ queue' \in Seq(Job)
         /\ \A i \in Job : Queued(i)' <=> Queued(i) \/ i = j
         /\ (~Queued(j) /\ \A i, k \in 1..Len(queue) : queue[i] = queue[k] => i = k)
              => (\A i, k \in 1..Len(queue) : queue[i] = queue[k] => i = k)'
  <1>1. /\ queue' \in Seq(Job) /\ Len(queue') = Len(queue) + 1 /\ Len(queue) \in Nat
        /\ queue'[Len(queue) + 1] = j
        /\ \A i \in 1..Len(queue) : queue'[i] = queue[i]
    BY DEF QueueTyped
  <1>2. ASSUME NEW i \in Job PROVE Queued(i)' <=> Queued(i) \/ i = j
    BY <1>1 DEF Queued
  <1> QED BY <1>1, <1>2 DEF Queued

LEMMA TailMeaning ==
  ASSUME QueueTyped, queue # <<>>, queue' = Tail(queue),
         \A i, k \in 1..Len(queue) : queue[i] = queue[k] => i = k
  PROVE  /\ queue' \in Seq(Job) /\ Head(queue) \in Job /\ Queued(Head(queue))
         /\ \A i \in Job : Queued(i)' <=> Queued(i) /\ i # Head(queue)
         /\ (\A i, k \in 1..Len(queue) : queue[i] = queue[k] => i = k)'
  <1>1. /\ queue' \in Seq(Job) /\ Len(queue') = Len(queue) - 1 /\ Len(queue) \in Nat \ {0}
        /\ Head(queue) = queue[1]
        /\ \A i \in 1..(Len(queue) - 1) : queue'[i] = queue[i + 1]
    BY DEF QueueTyped
  <1>2. Head(queue) \in Job /\ Queued(Head(queue))
    BY <1>1 DEF QueueTyped, Queued
  <1>3. ASSUME NEW i \in Job PROVE Queued(i)' <=> Queued(i) /\ i # Head(queue)
    <2>1. ASSUME Queued(i)' PROVE Queued(i) /\ i # Head(queue)
      <3>1. PICK k \in 1..(Len(queue) - 1) : queue[k + 1] = i
        BY <1>1, <2>1 DEF Queued
      <3>2. k + 1 \in 1..Len(queue) /\ 1 \in 1..Len(queue) /\ k + 1 # 1
        BY <1>1
      <3> QED BY <1>1, <3>1, <3>2 DEF Queued
    <2>2. ASSUME Queued(i), i # Head(queue) PROVE Queued(i)'
      <3>1. PICK k \in 1..Len(queue) : queue[k] = i
        BY <2>2 DEF Queued
      <3>2. k - 1 \in 1..(Len(queue) - 1) /\ (k - 1) + 1 = k
        BY <1>1, <2>2, <3>1
      <3>3. queue'[k - 1] = i
        BY <1>1, <3>1, <3>2
      <3> QED BY <1>1, <3>2, <3>3 DEF Queued
    <2> QED BY <2>1, <2>2
  <1>4. ASSUME NEW i \in 1..Len(queue'), NEW k \in 1..Len(queue'), queue'[i] = queue'[k]
        PROVE  i = k
    <2>1. i + 1 \in 1..Len(queue) /\ k + 1 \in 1..Len(queue) /\ queue[i + 1] = queue[k + 1]
      BY <1>1, <1>4
    <2>2. i + 1 = k + 1
      BY <2>1
    <2> QED BY <1>1, <2>2
  <1> QED BY <1>1, <1>2, <1>3, <1>4

(* Taking a set of jobs. *)
LEMMA TakeMeaning ==
  ASSUME QueueTyped, NEW S, Take(S)
  PROVE  /\ taken' \in [Job -> Nat]
         /\ \A j \in Job : taken'[j] = IF j \in S THEN taken[j] + 1 ELSE taken[j]
  BY DEF QueueTyped, Take

LEMMA QueueInvNext == QueueInv /\ [QueueNext]_queueVars => QueueInv'
  <1> SUFFICES ASSUME QueueInv, [QueueNext]_queueVars PROVE QueueInv'
    OBVIOUS
  <1> USE RepairQueueAssumption
  <1>0. QueueTyped /\ MapByKey /\ NoneTwice
    BY DEF QueueInv
  <1>1. ASSUME UNCHANGED <<coalesce, queue, taken>>, timer' \in [Job -> TimerState],
               \A j \in Job : timer'[j] = "new" => timer[j] = "new"
        PROVE  QueueInv'
    BY <1>0, <1>1 DEF QueueInv, QueueTyped, MapByKey, NoneTwice, Waiting, Queued
  <1>2. ASSUME NEW j \in Job, ScheduleReadRepair(j) PROVE QueueInv'
    <2> DEFINE old == {i \in Job : coalesce[KeyOf[j]] = i}
    <2>1. /\ Take(old) /\ coalesce' = [coalesce EXCEPT ![KeyOf[j]] = j]
          /\ timer[j] = "new" /\ UNCHANGED queue
          /\ timer' = [i \in Job |-> IF i = j THEN "armed"
                                     ELSE IF i \in old /\ timer[i] = "armed" THEN "off"
                                     ELSE timer[i]]
      BY <1>2 DEF ScheduleReadRepair
    <2>2. \A i \in old : i \in Job /\ Waiting(i) /\ KeyOf[i] = KeyOf[j]
      BY <1>0 DEF MapByKey, Waiting
    <2>3. \A i \in Job : Waiting(i) /\ KeyOf[i] = KeyOf[j] => i \in old
      BY DEF Waiting
    <2> HIDE DEF old
    <2>4. /\ taken' \in [Job -> Nat]
          /\ \A i \in Job : taken'[i] = IF i \in old THEN taken[i] + 1 ELSE taken[i]
      BY <1>0, <2>1, TakeMeaning
    <2>5. timer' \in [Job -> TimerState]
      BY <1>0, <2>1 DEF QueueTyped, TimerState
    <2>6. \A i \in Job : timer'[i] = "new" => timer[i] = "new" /\ i # j
      BY <2>1
    <2>7. QueueTyped' /\ MapByKey'
      BY <1>0, <2>1, <2>4, <2>5 DEF QueueTyped, MapByKey
    <2>8. \A i \in Job : Waiting(i)' <=> i = j \/ (Waiting(i) /\ i \notin old)
      <3>1. \A i \in Job : KeyOf[i] # KeyOf[j] => i \notin old
        BY <2>2
      <3>2. \A i \in Job : KeyOf[i] # KeyOf[j] => (Waiting(i)' <=> Waiting(i))
        BY <1>0, <2>1 DEF QueueTyped, Waiting
      <3>3. \A i \in Job : KeyOf[i] = KeyOf[j] => (Waiting(i)' <=> i = j)
        BY <1>0, <2>1 DEF QueueTyped, Waiting
      <3> QED BY <2>3, <3>1, <3>2, <3>3
    <2>9. \A i \in Job : Queued(i)' <=> Queued(i)
      BY <2>1 DEF Queued
    <2>10. j \notin old
      BY <1>0, <2>1, <2>2 DEF NoneTwice
    <2>11. NoneTwice'
      <3>1. (\A i, k \in 1..Len(queue) : queue[i] = queue[k] => i = k)'
        BY <1>0, <2>1 DEF NoneTwice
      <3>2. ASSUME NEW i \in Job
            PROVE  (/\ taken[i] <= 1
                    /\ Waiting(i) => ~Queued(i) /\ taken[i] = 0
                    /\ Queued(i) => taken[i] = 0
                    /\ timer[i] = "new" => ~Waiting(i) /\ ~Queued(i) /\ taken[i] = 0)'
        BY <1>0, <2>1, <2>2, <2>4, <2>6, <2>8, <2>9, <2>10 DEF NoneTwice, QueueTyped
      <3> QED BY <3>1, <3>2 DEF NoneTwice
    <2> QED BY <2>7, <2>11 DEF QueueInv
  <1>3. ASSUME NEW j \in Job, TimerFires(j) \/ FlushSuperseded(j) \/ FlushFull(j)
        PROVE  QueueInv'
    <2>1. /\ UNCHANGED <<coalesce, queue, taken>>
          /\ \E t \in TimerState \ {"new"} : timer' = [timer EXCEPT ![j] = t]
      BY <1>3 DEF TimerFires, FlushSuperseded, FlushFull, TimerState
    <2>2. timer' \in [Job -> TimerState] /\ \A i \in Job : timer'[i] = "new" => timer[i] = "new"
      BY <1>0, <2>1 DEF QueueTyped
    <2> QED BY <1>1, <2>1, <2>2
  <1>4. ASSUME NEW j \in Job, Flush(j) PROVE QueueInv'
    <2>1. /\ Waiting(j) /\ queue' = Append(queue, j)
          /\ coalesce' = [coalesce EXCEPT ![KeyOf[j]] = NoJob]
          /\ timer' = [timer EXCEPT ![j] = "off"] /\ UNCHANGED taken
      BY <1>4 DEF Flush, Waiting
    <2>2. /\ queue' \in Seq(Job) /\ \A i \in Job : Queued(i)' <=> Queued(i) \/ i = j
          /\ (\A i, k \in 1..Len(queue) : queue[i] = queue[k] => i = k)'
      BY <1>0, <2>1, AppendMeaning DEF NoneTwice
    <2>3. timer' \in [Job -> TimerState] /\ \A i \in Job : timer'[i] = "new" => timer[i] = "new" /\ i # j
      BY <1>0, <2>1 DEF QueueTyped, TimerState
    <2>4. QueueTyped' /\ MapByKey'
      BY <1>0, <2>1, <2>2, <2>3 DEF QueueTyped, MapByKey
    <2>5. \A i \in Job : Waiting(i)' <=> Waiting(i) /\ i # j
      <3>1. \A i \in Job : Waiting(i) /\ KeyOf[i] = KeyOf[j] => i = j
        BY <2>1 DEF Waiting
      <3>2. \A i \in Job : KeyOf[i] # KeyOf[j] => (Waiting(i)' <=> Waiting(i)) /\ i # j
        BY <1>0, <2>1 DEF QueueTyped, Waiting
      <3>3. \A i \in Job : KeyOf[i] = KeyOf[j] => ~Waiting(i)'
        BY <1>0, <2>1 DEF QueueTyped, Waiting
      <3> QED BY <3>1, <3>2, <3>3
    <2>6. NoneTwice'
      BY <1>0, <2>1, <2>2, <2>3, <2>5 DEF NoneTwice
    <2> QED BY <2>4, <2>6 DEF QueueInv
  <1>5. ASSUME queue # <<>>, queue' = Tail(queue), Take({Head(queue)}), UNCHANGED <<coalesce, timer>>
        PROVE  QueueInv'
    <2> DEFINE h == Head(queue)
    <2>1. /\ queue' \in Seq(Job) /\ h \in Job /\ Queued(h)
          /\ \A i \in Job : Queued(i)' <=> Queued(i) /\ i # h
          /\ (\A i, k \in 1..Len(queue) : queue[i] = queue[k] => i = k)'
      BY <1>0, <1>5, TailMeaning DEF NoneTwice
    <2>2. /\ taken' \in [Job -> Nat]
          /\ \A i \in Job : taken'[i] = IF i = h THEN taken[i] + 1 ELSE taken[i]
      BY <1>0, <1>5, TakeMeaning
    <2> HIDE DEF h
    <2>3. QueueTyped' /\ MapByKey'
      BY <1>0, <1>5, <2>1, <2>2 DEF QueueTyped, MapByKey
    <2>4. \A i \in Job : Waiting(i)' <=> Waiting(i)
      BY <1>5 DEF Waiting
    <2>5. NoneTwice'
      BY <1>0, <1>5, <2>1, <2>2, <2>4 DEF NoneTwice
    <2> QED BY <2>3, <2>5 DEF QueueInv
  <1>6. ASSUME NEW w \in Worker, DrainMap(w) PROVE QueueInv'
    <2> DEFINE waiting == {j \in Job : coalesce[KeyOf[j]] = j}
    <2>1. /\ Take(waiting) /\ coalesce' = [k \in Key |-> NoJob] /\ UNCHANGED queue
          /\ timer' = [j \in Job |-> IF j \in waiting /\ timer[j] = "armed" THEN "off" ELSE timer[j]]
      BY <1>6 DEF DrainMap
    <2>2. \A i \in Job : i \in waiting <=> Waiting(i)
      BY DEF Waiting
    <2> HIDE DEF waiting
    <2>3. /\ taken' \in [Job -> Nat]
          /\ \A i \in Job : taken'[i] = IF i \in waiting THEN taken[i] + 1 ELSE taken[i]
      BY <1>0, <2>1, TakeMeaning
    <2>4. timer' \in [Job -> TimerState] /\ \A i \in Job : timer'[i] = "new" => timer[i] = "new"
      BY <1>0, <2>1 DEF QueueTyped, TimerState
    <2>5. QueueTyped' /\ MapByKey'
      BY <1>0, <2>1, <2>3, <2>4 DEF QueueTyped, MapByKey
    <2>6. \A i \in Job : ~Waiting(i)' /\ (Queued(i)' <=> Queued(i))
      BY <2>1 DEF Waiting, Queued
    <2>7. NoneTwice'
      BY <1>0, <2>1, <2>2, <2>3, <2>4, <2>6 DEF NoneTwice
    <2> QED BY <2>5, <2>7 DEF QueueInv
  <1>7. ASSUME UNCHANGED <<coalesce, timer, queue, taken>> PROVE QueueInv'
    BY <1>0, <1>1, <1>7 DEF QueueTyped
  <1>8. ASSUME NEW w \in Worker, WorkerStep(w) PROVE QueueInv'
    BY <1>5, <1>6, <1>7, <1>8
       DEF WorkerStep, StartJob, FinishJob, EnterDrain, DrainQueue, LeaveAfterDrain
  <1> QED BY <1>2, <1>3, <1>4, <1>7, <1>8 DEF QueueNext, queueVars, TimerStep, Stop

(* Whatever timers, workers and the drain at the stop do to a read repair   *)
(* job (readrepair.go), at most one goroutine takes the late results out of *)
(* its channel.                                                             *)
THEOREM JobsTakenOnce == QueueSpec => []TakenOnce
  <1>1. QueueInv => TakenOnce
    BY DEF QueueInv, NoneTwice, TakenOnce
  <1> QED BY <1>1, QueueInvInit, QueueInvNext, PTL DEF QueueSpec

-----------------------------------------------------------------------------
(* The failures.  First what the lists are that a script is put together    *)
(* from.                                                                    *)

LEMMA ElementType ==
  ASSUME NEW S, NEW s \in Seq(S), NEW i \in 1..Len(s)
  PROVE  s[i] \in S
  OBVIOUS

(* Flattening a list of lists joins them one after another. *)
FlattenBy(f, seqs) ==
  f = [i \in 1..Len(seqs) |-> IF i = 1 THEN seqs[i] ELSE f[i - 1] \o seqs[i]]

LEMMA FlattenDef ==
  ASSUME NEW T, NEW seqs \in Seq(Seq(T)), Len(seqs) # 0
  PROVE  \E f : FlattenBy(f, seqs) /\ FlattenSeq(seqs) = f[Len(seqs)]
  <1> DEFINE N == Len(seqs)
             S == Seq(T)
             D == [i \in 1..N |-> [x \in S |-> IF i = 1 THEN seqs[i] ELSE x \o seqs[i]]]
  <1>1. N \in Nat /\ <<>> \in S
    OBVIOUS
  <1>2. Steps(D, N, S)
    <2> SUFFICES ASSUME NEW i \in 1..N, NEW x \in S
                 PROVE  (IF i = 1 THEN seqs[i] ELSE x \o seqs[i]) \in S
      BY DEF Steps
    <2>1. seqs[i] \in Seq(T)
      OBVIOUS
    <2> QED BY <2>1
  <1>3. PICK h : Follows(h, <<>>, D, N, S)
    <2> HIDE DEF S, D, N
    <2> QED BY <1>1, <1>2, Recursion
  <1> DEFINE f == [i \in 1..N |-> h[i]]
  <1>4. ASSUME NEW i \in 1..N
        PROVE  f[i] = IF i = 1 THEN seqs[i] ELSE f[i - 1] \o seqs[i]
    <2>1. h[i - 1] \in S /\ h[i] = D[i][h[i - 1]]
      <3>1. i - 1 \in 0..N
        BY <1>1
      <3> QED BY <1>3, <3>1 DEF Follows
    <2> HIDE DEF S
    <2>2. h[i] = IF i = 1 THEN seqs[i] ELSE h[i - 1] \o seqs[i]
      BY <2>1
    <2>3. i # 1 => i - 1 \in 1..N
      BY <1>1
    <2> QED BY <2>2, <2>3
  <1>5. FlattenBy(f, seqs)
    <2> HIDE DEF f
    <2>1. f = [i \in 1..N |-> f[i]]
      BY DEF f
    <2>2. f = [i \in 1..N |-> IF i = 1 THEN seqs[i] ELSE f[i - 1] \o seqs[i]]
      BY <1>4, <2>1
    <2> QED BY <2>2 DEF FlattenBy
  <1>6. FlattenSeq(seqs) = (CHOOSE g : FlattenBy(g, seqs))[Len(seqs)]
    BY DEF FlattenSeq, FlattenBy
  <1> QED BY <1>5, <1>6

(* What holds of the empty list, of every list, and of two lists joined if  *)
(* of each, holds of them all flattened.                                    *)
LEMMA FlattenClosed ==
  ASSUME NEW T, NEW S \in SUBSET Seq(T), <<>> \in S,
         \A p, q \in S : p \o q \in S,
         NEW seqs \in Seq(S)
  PROVE  FlattenSeq(seqs) \in S
  <1>0. seqs \in Seq(Seq(T)) /\ Len(seqs) \in Nat
    OBVIOUS
  <1>1. CASE Len(seqs) = 0
    <2>1. seqs = <<>>
      BY <1>1
    <2> QED BY <1>1, <2>1 DEF FlattenSeq
  <1>2. CASE Len(seqs) # 0
    <2> DEFINE N == Len(seqs)
    <2>1. PICK f : FlattenBy(f, seqs) /\ FlattenSeq(seqs) = f[N]
      BY <1>0, <1>2, FlattenDef
    <2>2. \A i \in 1..N : f[i] = IF i = 1 THEN seqs[i] ELSE f[i - 1] \o seqs[i]
      BY <2>1 DEF FlattenBy
    <2> DEFINE P == {i \in 0..N : i = 0 \/ f[i] \in S}
    <2>3. 0 \in P
      BY <1>0
    <2>4. ASSUME NEW i \in 1..N, i - 1 \in P PROVE i \in P
      <3>0. i \in 0..N
        BY <1>0
      <3>1. seqs[i] \in S
        BY ElementType
      <3>2. i - 1 = 0 \/ f[i - 1] \in S
        BY <2>4
      <3>3. f[i] \in S
        BY <2>2, <3>1, <3>2
      <3> QED BY <3>0, <3>3
    <2>5. \A i \in 0..N : i \in P
      <3> HIDE DEF P
      <3> QED BY <1>0, <2>3, <2>4, BoundedInduction
    <2> QED BY <1>0, <1>2, <2>1, <2>5
  <1> QED BY <1>1, <1>2

(* What is in one of the lists is in them all flattened. *)
LEMMA FlattenHas ==
  ASSUME NEW T, NEW seqs \in Seq(Seq(T)), NEW a \in DOMAIN seqs, NEW k \in DOMAIN seqs[a]
  PROVE  \E j \in DOMAIN FlattenSeq(seqs) : FlattenSeq(seqs)[j] = seqs[a][k]
  <1> DEFINE N == Len(seqs)
             x == seqs[a][k]
  <1>0. Len(seqs) \in Nat /\ Len(seqs) # 0 /\ a \in 1..N
    OBVIOUS
  <1>1. PICK f : FlattenBy(f, seqs) /\ FlattenSeq(seqs) = f[N]
    BY <1>0, FlattenDef
  <1>2. \A i \in 1..N : f[i] = IF i = 1 THEN seqs[i] ELSE f[i - 1] \o seqs[i]
    BY <1>1 DEF FlattenBy
  <1> DEFINE P == {i \in 0..N : i = 0 \/ (f[i] \in Seq(T) /\ (a <= i => \E j \in DOMAIN f[i] : f[i][j] = x))}
  <1>3. 0 \in P
    BY <1>0
  <1>4. \A i \in 1..N : i - 1 \in P => i \in P
    <2> SUFFICES ASSUME NEW i \in 1..N, i - 1 \in P
                 PROVE  f[i] \in Seq(T) /\ (a <= i => \E j \in DOMAIN f[i] : f[i][j] = x)
      OBVIOUS
    <2>1. seqs[i] \in Seq(T)
      OBVIOUS
    <2>2. i - 1 # 0 => f[i - 1] \in Seq(T) /\ (a <= i - 1 => \E j \in DOMAIN f[i - 1] : f[i - 1][j] = x)
      OBVIOUS
    <2>3. CASE i = 1
      <3>1. f[i] = seqs[i]
        BY <1>2, <2>3
      <3>2. a <= i => a = i
        BY <1>0, <2>3
      <3> QED BY <2>1, <3>1, <3>2
    <2>4. CASE i # 1
      <3> DEFINE p == f[i - 1]
                 q == seqs[i]
      <3>1. f[i] = p \o q /\ p \in Seq(T) /\ q \in Seq(T)
        <4>1. i - 1 # 0
          BY <2>4
        <4> QED BY <1>2, <2>1, <2>2, <2>4, <4>1
      <3>2. CASE a = i
        <4>1. k \in 1..Len(q) /\ q[k] = x
          BY <3>2, <3>1
        <4> HIDE DEF p, q, x
        <4>2. Len(p) + k \in DOMAIN (p \o q) /\ (p \o q)[Len(p) + k] = q[k]
          BY <3>1, <4>1
        <4> QED BY <3>1, <4>1, <4>2
      <3>3. CASE a <= i - 1
        <4>1. PICK j \in DOMAIN p : p[j] = x
          BY <2>2, <2>4, <3>3
        <4> HIDE DEF p, q, x
        <4>2. j \in DOMAIN (p \o q) /\ (p \o q)[j] = p[j]
          BY <3>1, <4>1
        <4> QED BY <3>1, <4>1, <4>2
      <3>4. CASE i < a
        <4>1. ~(a <= i)
          BY <3>4, <1>0
        <4>2. f[i] \in Seq(T)
          <5> HIDE DEF p, q
          <5> QED BY <3>1
        <4> QED BY <4>1, <4>2
      <3> QED BY <3>2, <3>3, <3>4, <1>0
    <2> QED BY <2>3, <2>4
  <1>5. \A i \in 0..N : i \in P
    <2> HIDE DEF P
    <2> QED BY <1>0, <1>3, <1>4, BoundedInduction
  <1> QED BY <1>0, <1>1, <1>5

-----------------------------------------------------------------------------
(* The victims of a run, and what can be in its script. *)
Victims(o) == ToSet(VictimSequence(o))

OpName == {"pause", "resume", "dead", "alive", "isolate in", "isolate out", "join in", "join out"}
Item(V) == {<<"sleep">>, <<"check">>, <<"wait">>} \cup (OpName \X V)

LEMMA PhasesType == \A o \in Options : Phases(o) \in Nat
  <1> SUFFICES ASSUME NEW o \in Options PROVE Phases(o) \in Nat
    OBVIOUS
  <1>1. o.run \in Nat
    BY DemoFailureAssumption
  <1> DEFINE S == {n \in 0..o.run : o.start + n * (o.down + o.up) < o.run}
  <1>2. IsFiniteSet(S)
    <2>1. IsFiniteSet(0..o.run)
      BY <1>1, FS_Interval
    <2>2. S \subseteq 0..o.run
      OBVIOUS
    <2> QED BY <2>1, <2>2, FS_Subset
  <1>3. Cardinality(S) \in Nat
    BY <1>2, FS_CardinalityType
  <1> HIDE DEF S
  <1>4. Phases(o) = Cardinality(S) \/ Phases(o) \in {0, 1}
    BY DEF Phases, S
  <1> QED BY <1>3, <1>4

LEMMA VictimsAreServers ==
  ASSUME NEW o \in Options
  PROVE  /\ VictimSequence(o) \in Seq(Victims(o))
         /\ Victims(o) \subseteq Server
  <1>1. Phases(o) \in Nat
    BY PhasesType
  <1>2. PrefList \in Seq(Server) /\ Len(PrefList) \in Nat /\ Len(PrefList) > 0
    BY DemoFailureAssumption
  <1>3. ASSUME NEW i \in 1..Phases(o)
        PROVE  PrefList[((i - 1) % Len(PrefList)) + 1] \in Server
    <2>1. (i - 1) % Len(PrefList) \in 0..(Len(PrefList) - 1)
      BY <1>1, <1>2
    <2>2. ((i - 1) % Len(PrefList)) + 1 \in 1..Len(PrefList)
      BY <2>1, <1>2
    <2> QED BY <2>2, <1>2, ElementType
  <1>4. VictimSequence(o) \in [1..Phases(o) -> Victims(o)]
    <2>1. DOMAIN VictimSequence(o) = 1..Phases(o)
      BY DEF VictimSequence
    <2> QED BY <2>1 DEF Victims, ToSet, VictimSequence
  <1>5. VictimSequence(o) \in Seq(Victims(o))
    BY <1>1, <1>4
  <1>6. Victims(o) \subseteq Server
    BY <1>3 DEF Victims, ToSet, VictimSequence
  <1> QED BY <1>5, <1>6

-----------------------------------------------------------------------------
(* uniqueStringIDs keeps every victim. *)
SeenBy(f, ids) ==
  f = [i \in 0..Len(ids) |->
         IF i = 0 THEN <<>>
         ELSE IF Contains(f[i - 1], ids[i]) THEN f[i - 1] ELSE Append(f[i - 1], ids[i])]

LEMMA UniqueDef ==
  ASSUME NEW T, NEW ids \in Seq(T)
  PROVE  \E f : SeenBy(f, ids) /\ Unique(ids) = f[Len(ids)]
  <1> DEFINE N == Len(ids)
             S == Seq(T)
             D == [i \in 1..N |-> [x \in S |-> IF Contains(x, ids[i]) THEN x ELSE Append(x, ids[i])]]
  <1>1. N \in Nat /\ <<>> \in S
    OBVIOUS
  <1>2. Steps(D, N, S)
    <2> SUFFICES ASSUME NEW i \in 1..N, NEW x \in S
                 PROVE  (IF Contains(x, ids[i]) THEN x ELSE Append(x, ids[i])) \in S
      BY DEF Steps
    <2>1. ids[i] \in T
      BY ElementType
    <2> QED BY <2>1
  <1>3. PICK f : Follows(f, <<>>, D, N, S)
    <2> HIDE DEF S, D, N
    <2> QED BY <1>1, <1>2, Recursion
  <1>4. SeenBy(f, ids)
    <2> SUFFICES ASSUME NEW i \in 0..N
                 PROVE  f[i] = IF i = 0 THEN <<>>
                               ELSE IF Contains(f[i - 1], ids[i]) THEN f[i - 1]
                               ELSE Append(f[i - 1], ids[i])
      BY <1>3 DEF SeenBy, Follows
    <2>1. CASE i = 0
      BY <2>1, <1>3 DEF Follows
    <2>2. CASE i # 0
      <3>1. i \in 1..N /\ i - 1 \in 0..N
        BY <2>2, <1>1
      <3>2. f[i - 1] \in S /\ f[i] = D[i][f[i - 1]]
        BY <3>1, <1>3 DEF Follows
      <3> HIDE DEF S
      <3> QED BY <2>2, <3>1, <3>2
    <2> QED BY <2>1, <2>2
  <1>5. Unique(ids) = (CHOOSE g : SeenBy(g, ids))[Len(ids)]
    BY DEF Unique, SeenBy
  <1> QED BY <1>4, <1>5

LEMMA UniqueKeeps ==
  ASSUME NEW T, NEW ids \in Seq(T)
  PROVE  /\ Unique(ids) \in Seq(T)
         /\ \A x \in ToSet(ids) : \E k \in DOMAIN Unique(ids) : Unique(ids)[k] = x
  <1> DEFINE N == Len(ids)
  <1>0. N \in Nat
    OBVIOUS
  <1>1. PICK f : SeenBy(f, ids) /\ Unique(ids) = f[N]
    BY UniqueDef
  <1>2. ASSUME NEW i \in 0..N
        PROVE  f[i] = IF i = 0 THEN <<>>
                      ELSE IF Contains(f[i - 1], ids[i]) THEN f[i - 1] ELSE Append(f[i - 1], ids[i])
    BY <1>1 DEF SeenBy
  <1> DEFINE Kept(i) == f[i] \in Seq(T) /\ \A l \in 1..i : \E k \in DOMAIN f[i] : f[i][k] = ids[l]
             P == {i \in 0..N : Kept(i)}
  <1>3. 0 \in P
    <2>1. 0 \in 0..N
      BY <1>0
    <2>2. f[0] = <<>>
      BY <1>2, <2>1
    <2>3. f[0] \in Seq(T) /\ 1..0 = {}
      BY <2>2
    <2>4. Kept(0)
      BY <2>3
    <2> QED BY <2>1, <2>4
  <1>4. ASSUME NEW i \in 1..N, i - 1 \in P PROVE i \in P
    <2> DEFINE p == f[i - 1]
               x == ids[i]
    <2>1. i \in 0..N /\ i # 0 /\ x \in T
      BY <1>0, ElementType
    <2>2. p \in Seq(T) /\ \A l \in 1..(i - 1) : \E k \in DOMAIN p : p[k] = ids[l]
      BY <1>4
    <2>3. f[i] = IF Contains(p, x) THEN p ELSE Append(p, x)
      BY <1>2, <2>1
    <2> HIDE DEF p, x
    <2>4. f[i] \in Seq(T) /\ \E k \in DOMAIN f[i] : f[i][k] = x
      <3>1. CASE Contains(p, x)
        <4>1. DOMAIN p = 1..Len(p)
          BY <2>2
        <4> QED BY <2>2, <2>3, <3>1, <4>1 DEF Contains
      <3>2. CASE ~Contains(p, x)
        <4>1. f[i] = Append(p, x)
          BY <2>3, <3>2
        <4>2. Append(p, x) \in Seq(T) /\ Len(p) + 1 \in DOMAIN Append(p, x)
          BY <2>1, <2>2
        <4>3. Append(p, x)[Len(p) + 1] = x
          BY <2>1, <2>2
        <4> QED BY <4>1, <4>2, <4>3
      <3> QED BY <3>1, <3>2
    <2>5. ASSUME NEW l \in 1..(i - 1) PROVE \E k \in DOMAIN f[i] : f[i][k] = ids[l]
      BY <2>1, <2>2, <2>3
    <2>6. Kept(i)
      <3>1. \A l \in 1..i : l = i \/ l \in 1..(i - 1)
        BY <1>0
      <3> QED BY <2>4, <2>5, <3>1 DEF x
    <2> QED BY <2>1, <2>6
  <1>5. \A i \in 0..N : i \in P
    <2> HIDE DEF P
    <2> QED BY <1>0, <1>3, <1>4, BoundedInduction
  <1>6. Kept(N)
    BY <1>0, <1>5
  <1>7. \A x \in ToSet(ids) : \E l \in 1..N : x = ids[l]
    BY DEF ToSet
  <1> QED BY <1>1, <1>6, <1>7

-----------------------------------------------------------------------------
(* A victim is marked alive just before its links to it are enabled; its    *)
(* links are disabled after it was marked dead, those to it first.          *)
Block(q) ==
  \A i \in DOMAIN q : \A v \in Server :
    /\ q[i] = <<"alive", v>> => i + 1 \in DOMAIN q /\ q[i + 1] = <<"join in", v>>
    /\ q[i] = <<"isolate in", v>> => i - 1 \in DOMAIN q /\ q[i - 1] = <<"dead", v>>
    /\ q[i] = <<"isolate out", v>> => i - 1 \in DOMAIN q /\ q[i - 1] = <<"isolate in", v>>

Blocks(V) == {q \in Seq(Item(V)) : Block(q)}

LEMMA JoinedAt ==
  ASSUME NEW T, NEW p \in Seq(T), NEW q \in Seq(T)
  PROVE  /\ p \o q \in Seq(T)
         /\ \A i \in DOMAIN p : i \in DOMAIN (p \o q) /\ (p \o q)[i] = p[i]
         /\ \A i \in DOMAIN q : /\ i + Len(p) \in DOMAIN (p \o q)
                                /\ (p \o q)[i + Len(p)] = q[i]
         /\ \A i \in DOMAIN (p \o q) : i \in DOMAIN p \/ i - Len(p) \in DOMAIN q
  OBVIOUS

LEMMA BlocksJoin ==
  ASSUME NEW V, NEW p \in Blocks(V), NEW q \in Blocks(V)
  PROVE  p \o q \in Blocks(V)
  <1> DEFINE r == p \o q
  <1>1. p \in Seq(Item(V)) /\ q \in Seq(Item(V)) /\ Block(p) /\ Block(q)
    BY DEF Blocks
  <1>2. /\ r \in Seq(Item(V))
        /\ \A i \in DOMAIN p : i \in DOMAIN r /\ r[i] = p[i]
        /\ \A i \in DOMAIN q : i + Len(p) \in DOMAIN r /\ r[i + Len(p)] = q[i]
        /\ \A i \in DOMAIN r : i \in DOMAIN p \/ i - Len(p) \in DOMAIN q
    BY <1>1, JoinedAt
  <1> HIDE DEF r
  <1>3. ASSUME NEW i \in DOMAIN r, NEW v \in Server
        PROVE  /\ r[i] = <<"alive", v>> => i + 1 \in DOMAIN r /\ r[i + 1] = <<"join in", v>>
               /\ r[i] = <<"isolate in", v>> => i - 1 \in DOMAIN r /\ r[i - 1] = <<"dead", v>>
               /\ r[i] = <<"isolate out", v>> =>
                    i - 1 \in DOMAIN r /\ r[i - 1] = <<"isolate in", v>>
    <2>0. Len(p) \in Nat /\ i \in Int
      BY <1>1, <1>2
    <2>1. CASE i \in DOMAIN p
      <3>1. /\ r[i] = p[i]
            /\ i + 1 \in DOMAIN p => i + 1 \in DOMAIN r /\ r[i + 1] = p[i + 1]
            /\ i - 1 \in DOMAIN p => i - 1 \in DOMAIN r /\ r[i - 1] = p[i - 1]
        BY <1>2, <2>1
      <3>2. /\ p[i] = <<"alive", v>> => i + 1 \in DOMAIN p /\ p[i + 1] = <<"join in", v>>
            /\ p[i] = <<"isolate in", v>> => i - 1 \in DOMAIN p /\ p[i - 1] = <<"dead", v>>
            /\ p[i] = <<"isolate out", v>> => i - 1 \in DOMAIN p /\ p[i - 1] = <<"isolate in", v>>
        BY <1>1, <2>1 DEF Block
      <3> QED BY <3>1, <3>2
    <2>2. CASE i - Len(p) \in DOMAIN q
      <3> DEFINE j == i - Len(p)
      <3>1. j \in DOMAIN q /\ j + Len(p) = i /\ (j + 1) + Len(p) = i + 1 /\ (j - 1) + Len(p) = i - 1
        BY <2>0, <2>2
      <3> HIDE DEF j
      <3>2. r[i] = q[j]
        BY <1>2, <3>1
      <3>3. /\ q[j] = <<"alive", v>> => j + 1 \in DOMAIN q /\ q[j + 1] = <<"join in", v>>
            /\ q[j] = <<"isolate in", v>> => j - 1 \in DOMAIN q /\ q[j - 1] = <<"dead", v>>
            /\ q[j] = <<"isolate out", v>> => j - 1 \in DOMAIN q /\ q[j - 1] = <<"isolate in", v>>
        BY <1>1, <3>1 DEF Block
      <3>4. /\ j + 1 \in DOMAIN q => i + 1 \in DOMAIN r /\ r[i + 1] = q[j + 1]
            /\ j - 1 \in DOMAIN q => i - 1 \in DOMAIN r /\ r[i - 1] = q[j - 1]
        BY <1>2, <3>1
      <3> QED BY <3>2, <3>3, <3>4
    <2> QED BY <1>2, <2>1, <2>2
  <1>4. Block(r)
    BY <1>3 DEF Block
  <1> QED BY <1>2, <1>4 DEF Blocks, r

LEMMA EmptyBlock == ASSUME NEW V PROVE <<>> \in Blocks(V)
  <1>1. DOMAIN <<>> = {}
    OBVIOUS
  <1>2. Block(<<>>)
    BY <1>1 DEF Block
  <1> QED BY <1>2 DEF Blocks

LEMMA BlocksFlatten ==
  ASSUME NEW V, NEW seqs \in Seq(Blocks(V))
  PROVE  FlattenSeq(seqs) \in Blocks(V)
  <1>1. Blocks(V) \in SUBSET Seq(Item(V))
    BY DEF Blocks
  <1>2. <<>> \in Blocks(V)
    BY EmptyBlock
  <1>3. \A p, q \in Blocks(V) : p \o q \in Blocks(V)
    BY BlocksJoin
  <1> QED BY <1>1, <1>2, <1>3, FlattenClosed

(* The pieces a script is made of: what is done to one server, if it is     *)
(* done in a good order, and the pauses.                                    *)
GoodOrder(ops) ==
  /\ ops \in Seq(OpName)
  /\ \A k \in DOMAIN ops :
       /\ ops[k] = "alive" => k + 1 \in DOMAIN ops /\ ops[k + 1] = "join in"
       /\ ops[k] = "isolate in" => k - 1 \in DOMAIN ops /\ ops[k - 1] = "dead"
       /\ ops[k] = "isolate out" => k - 1 \in DOMAIN ops /\ ops[k - 1] = "isolate in"

LEMMA EachBlock ==
  ASSUME NEW V, NEW v \in V, NEW ops, GoodOrder(ops)
  PROVE  /\ Each(ops, v) \in Blocks(V)
         /\ DOMAIN Each(ops, v) = DOMAIN ops
         /\ \A k \in DOMAIN ops : Each(ops, v)[k] = <<ops[k], v>>
  <1> DEFINE e == Each(ops, v)
  <1>1. /\ DOMAIN e = DOMAIN ops
        /\ \A k \in DOMAIN ops : e[k] = <<ops[k], v>> /\ e[k] \in Item(V)
    <2>0. ops \in Seq(OpName)
      BY DEF GoodOrder
    <2>1. \A k \in DOMAIN ops : ops[k] \in OpName
      <3> HIDE DEF e
      <3> QED BY <2>0
    <2>2. \A k \in DOMAIN ops : <<ops[k], v>> \in OpName \X V
      BY <2>1
    <2>3. \A k \in DOMAIN ops : <<ops[k], v>> \in Item(V)
      BY <2>2 DEF Item
    <2> QED BY <2>3 DEF Each
  <1>2. e \in Seq(Item(V))
    <2>1. ops \in Seq(OpName)
      BY DEF GoodOrder
    <2>2. DOMAIN ops = 1..Len(ops) /\ Len(ops) \in Nat
      BY <2>1
    <2>3. e = [k \in 1..Len(ops) |-> e[k]]
      BY <2>2 DEF Each
    <2> HIDE DEF e
    <2>4. \A k \in 1..Len(ops) : e[k] \in Item(V)
      BY <1>1, <2>2
    <2> QED BY <2>2, <2>3, <2>4
  <1> HIDE DEF e
  <1>3. ASSUME NEW i \in DOMAIN e, NEW u \in Server
        PROVE  /\ e[i] = <<"alive", u>> => i + 1 \in DOMAIN e /\ e[i + 1] = <<"join in", u>>
               /\ e[i] = <<"isolate in", u>> => i - 1 \in DOMAIN e /\ e[i - 1] = <<"dead", u>>
               /\ e[i] = <<"isolate out", u>> => i - 1 \in DOMAIN e /\ e[i - 1] = <<"isolate in", u>>
    <2>1. /\ i \in DOMAIN ops
          /\ ops[i] = "alive" => i + 1 \in DOMAIN ops /\ ops[i + 1] = "join in"
          /\ ops[i] = "isolate in" => i - 1 \in DOMAIN ops /\ ops[i - 1] = "dead"
          /\ ops[i] = "isolate out" => i - 1 \in DOMAIN ops /\ ops[i - 1] = "isolate in"
      BY <1>1 DEF GoodOrder
    <2>2. e[i] = <<ops[i], v>>
      BY <1>1, <2>1
    <2>3. /\ i + 1 \in DOMAIN ops => i + 1 \in DOMAIN e /\ e[i + 1] = <<ops[i + 1], v>>
          /\ i - 1 \in DOMAIN ops => i - 1 \in DOMAIN e /\ e[i - 1] = <<ops[i - 1], v>>
      BY <1>1
    <2>4. \A op : e[i] = <<op, u>> => ops[i] = op /\ v = u
      BY <2>2
    <2> QED BY <2>1, <2>3, <2>4
  <1>4. Block(e)
    BY <1>3 DEF Block
  <1> QED BY <1>1, <1>2, <1>4 DEF Blocks, e

DownOps == <<"pause", "dead", "isolate in", "isolate out">>
UpOps == <<"alive", "join in", "join out", "resume">>
RestoreOps == <<"resume", "alive", "join in", "join out">>
JoinOps == <<"join in", "join out">>

LEMMA GoodOrders ==
  GoodOrder(DownOps) /\ GoodOrder(UpOps) /\ GoodOrder(RestoreOps) /\ GoodOrder(JoinOps)
  <1>1. GoodOrder(DownOps)
    <2>1. DownOps \in Seq(OpName)
      BY DEF DownOps, OpName
    <2>2. /\ DOMAIN DownOps = {1, 2, 3, 4}
          /\ DownOps[1] = "pause"
          /\ DownOps[2] = "dead"
          /\ DownOps[3] = "isolate in"
          /\ DownOps[4] = "isolate out"
      BY DEF DownOps
    <2>3. ASSUME NEW k \in DOMAIN DownOps
          PROVE  /\ DownOps[k] = "alive" => k + 1 \in DOMAIN DownOps /\ DownOps[k + 1] = "join in"
                 /\ DownOps[k] = "isolate in" => k - 1 \in DOMAIN DownOps /\ DownOps[k - 1] = "dead"
                 /\ DownOps[k] = "isolate out" => k - 1 \in DOMAIN DownOps /\ DownOps[k - 1] = "isolate in"
      <3>0. k = 1 \/ k = 2 \/ k = 3 \/ k = 4
        BY <2>2
      <3>1. \/ k = 1 /\ k + 1 = 2
            \/ k = 2 /\ k - 1 = 1 /\ k + 1 = 3
            \/ k = 3 /\ k - 1 = 2 /\ k + 1 = 4
            \/ k = 4 /\ k - 1 = 3
        BY <3>0
      <3> QED BY <2>2, <3>1
    <2> QED BY <2>1, <2>3 DEF GoodOrder
  <1>2. GoodOrder(UpOps)
    <2>1. UpOps \in Seq(OpName)
      BY DEF UpOps, OpName
    <2>2. /\ DOMAIN UpOps = {1, 2, 3, 4}
          /\ UpOps[1] = "alive"
          /\ UpOps[2] = "join in"
          /\ UpOps[3] = "join out"
          /\ UpOps[4] = "resume"
      BY DEF UpOps
    <2>3. ASSUME NEW k \in DOMAIN UpOps
          PROVE  /\ UpOps[k] = "alive" => k + 1 \in DOMAIN UpOps /\ UpOps[k + 1] = "join in"
                 /\ UpOps[k] = "isolate in" => k - 1 \in DOMAIN UpOps /\ UpOps[k - 1] = "dead"
                 /\ UpOps[k] = "isolate out" => k - 1 \in DOMAIN UpOps /\ UpOps[k - 1] = "isolate in"
      <3>0. k = 1 \/ k = 2 \/ k = 3 \/ k = 4
        BY <2>2
      <3>1. \/ k = 1 /\ k + 1 = 2
            \/ k = 2 /\ k - 1 = 1 /\ k + 1 = 3
            \/ k = 3 /\ k - 1 = 2 /\ k + 1 = 4
            \/ k = 4 /\ k - 1 = 3
        BY <3>0
      <3> QED BY <2>2, <3>1
    <2> QED BY <2>1, <2>3 DEF GoodOrder
  <1>3. GoodOrder(RestoreOps)
    <2>1. RestoreOps \in Seq(OpName)
      BY DEF RestoreOps, OpName
    <2>2. /\ DOMAIN RestoreOps = {1, 2, 3, 4}
          /\ RestoreOps[1] = "resume"
          /\ RestoreOps[2] = "alive"
          /\ RestoreOps[3] = "join in"
          /\ RestoreOps[4] = "join out"
      BY DEF RestoreOps
    <2>3. ASSUME NEW k \in DOMAIN RestoreOps
          PROVE  /\ RestoreOps[k] = "alive" => k + 1 \in DOMAIN RestoreOps /\ RestoreOps[k + 1] = "join in"
                 /\ RestoreOps[k] = "isolate in" => k - 1 \in DOMAIN RestoreOps /\ RestoreOps[k - 1] = "dead"
                 /\ RestoreOps[k] = "isolate out" => k - 1 \in DOMAIN RestoreOps /\ RestoreOps[k - 1] = "isolate in"
      <3>0. k = 1 \/ k = 2 \/ k = 3 \/ k = 4
        BY <2>2
      <3>1. \/ k = 1 /\ k + 1 = 2
            \/ k = 2 /\ k - 1 = 1 /\ k + 1 = 3
            \/ k = 3 /\ k - 1 = 2 /\ k + 1 = 4
            \/ k = 4 /\ k - 1 = 3
        BY <3>0
      <3> QED BY <2>2, <3>1
    <2> QED BY <2>1, <2>3 DEF GoodOrder
  <1>4. GoodOrder(JoinOps)
    <2>1. JoinOps \in Seq(OpName)
      BY DEF JoinOps, OpName
    <2>2. /\ DOMAIN JoinOps = {1, 2}
          /\ JoinOps[1] = "join in"
          /\ JoinOps[2] = "join out"
      BY DEF JoinOps
    <2>3. ASSUME NEW k \in DOMAIN JoinOps
          PROVE  /\ JoinOps[k] = "alive" => k + 1 \in DOMAIN JoinOps /\ JoinOps[k + 1] = "join in"
                 /\ JoinOps[k] = "isolate in" => k - 1 \in DOMAIN JoinOps /\ JoinOps[k - 1] = "dead"
                 /\ JoinOps[k] = "isolate out" => k - 1 \in DOMAIN JoinOps /\ JoinOps[k - 1] = "isolate in"
      <3>1. k = 1 \/ k = 2
        BY <2>2
      <3> QED BY <2>2, <3>1
    <2> QED BY <2>1, <2>3 DEF GoodOrder
  <1> QED BY <1>1, <1>2, <1>3, <1>4

LEMMA PauseBlock ==
  ASSUME NEW V, NEW x \in {<<"sleep">>, <<"check">>, <<"wait">>}
  PROVE  <<x>> \in Blocks(V)
  <1>1. /\ <<x>> \in Seq(Item(V)) /\ DOMAIN <<x>> = {1} /\ <<x>>[1] = x
    BY DEF Item
  <1>2. x[1] \in {"sleep", "check", "wait"}
    OBVIOUS
  <1>3. \A v : /\ <<"alive", v>>[1] = "alive"
               /\ <<"isolate in", v>>[1] = "isolate in"
               /\ <<"isolate out", v>>[1] = "isolate out"
    OBVIOUS
  <1>4. Block(<<x>>)
    <2> DEFINE q == <<x>>
    <2>1. DOMAIN q = {1} /\ q[1] = x
      BY <1>1
    <2> HIDE DEF q
    <2>2. \A v : x # <<"alive", v>> /\ x # <<"isolate in", v>> /\ x # <<"isolate out", v>>
      BY <1>2, <1>3
    <2>3. Block(q)
      BY <2>1, <2>2 DEF Block
    <2> QED BY <2>3 DEF q
  <1> QED BY <1>1, <1>4 DEF Blocks

LEMMA PiecesAreBlocks ==
  ASSUME NEW V
  PROVE  /\ \A d : Sleep(d) \in Blocks(V)
         /\ \A v \in V : Down(v) \in Blocks(V) /\ Up(v) \in Blocks(V)
  <1>1. \A d : Sleep(d) \in Blocks(V)
    BY EmptyBlock, PauseBlock DEF Sleep
  <1>2. ASSUME NEW v \in V PROVE Down(v) \in Blocks(V) /\ Up(v) \in Blocks(V)
    BY EachBlock, GoodOrders DEF Down, DownOps, Up, UpOps
  <1> QED BY <1>1, <1>2

LEMMA ForEachIsBlock ==
  ASSUME NEW V, NEW ids \in Seq(V), NEW ops, GoodOrder(ops)
  PROVE  /\ ForEach(ids, ops) \in Blocks(V)
         /\ \A a \in DOMAIN ids : \A k \in DOMAIN ops :
              \E j \in DOMAIN ForEach(ids, ops) : ForEach(ids, ops)[j] = <<ops[k], ids[a]>>
         /\ \A j \in DOMAIN ForEach(ids, ops) : ForEach(ids, ops)[j] \in ToSet(ops) \X V
  <1> DEFINE seqs == [i \in DOMAIN ids |-> Each(ops, ids[i])]
             Q == ToSet(ops) \X V
  <1>1. DOMAIN ids = 1..Len(ids) /\ Len(ids) \in Nat /\ \A a \in DOMAIN ids : ids[a] \in V
    BY ElementType
  <1>2. \A a \in DOMAIN ids : /\ seqs[a] \in Blocks(V)
                              /\ DOMAIN seqs[a] = DOMAIN ops
                              /\ \A k \in DOMAIN ops : seqs[a][k] = <<ops[k], ids[a]>>
    BY <1>1, EachBlock
  <1>3. seqs = [i \in 1..Len(ids) |-> seqs[i]]
    BY <1>1
  <1>4. ForEach(ids, ops) = FlattenSeq(seqs)
    BY DEF ForEach
  <1> HIDE DEF seqs
  <1>5. seqs \in Seq(Blocks(V)) /\ DOMAIN seqs = DOMAIN ids
    BY <1>1, <1>2, <1>3
  <1>6. ForEach(ids, ops) \in Blocks(V)
    BY <1>4, <1>5, BlocksFlatten
  <1>7. ASSUME NEW a \in DOMAIN ids, NEW k \in DOMAIN ops
        PROVE  \E j \in DOMAIN ForEach(ids, ops) : ForEach(ids, ops)[j] = <<ops[k], ids[a]>>
    <2>1. seqs \in Seq(Seq(Item(V)))
      <3>1. Blocks(V) \subseteq Seq(Item(V))
        BY DEF Blocks
      <3> QED BY <1>5, <3>1
    <2>2. a \in DOMAIN seqs /\ k \in DOMAIN seqs[a]
      BY <1>2, <1>5
    <2>3. \E j \in DOMAIN FlattenSeq(seqs) : FlattenSeq(seqs)[j] = seqs[a][k]
      BY <2>1, <2>2, FlattenHas
    <2>4. seqs[a][k] = <<ops[k], ids[a]>>
      BY <1>2
    <2> QED BY <1>4, <2>3, <2>4
  <1>8. FlattenSeq(seqs) \in Seq(Q)
    <2>1. ASSUME NEW a \in DOMAIN ids PROVE seqs[a] \in Seq(Q)
      <3>1. seqs[a] \in Seq(Item(V))
        BY <1>2 DEF Blocks
      <3>2. \A k \in DOMAIN seqs[a] : seqs[a][k] \in Q
        <4>1. \A k \in DOMAIN ops : ops[k] \in ToSet(ops)
          BY DEF ToSet
        <4>2. \A k \in DOMAIN ops : <<ops[k], ids[a]>> \in Q
          BY <1>1, <4>1
        <4> HIDE DEF Q
        <4> QED BY <1>2, <4>2
      <3> HIDE DEF Q
      <3> QED BY <3>1, <3>2
    <2> HIDE DEF Q
    <2>2. seqs \in Seq(Seq(Q))
      BY <1>1, <1>3, <2>1
    <2>3. Seq(Q) \in SUBSET Seq(Q) /\ <<>> \in Seq(Q) /\ \A p, q \in Seq(Q) : p \o q \in Seq(Q)
      OBVIOUS
    <2> QED BY <2>2, <2>3, FlattenClosed
  <1>9. \A j \in DOMAIN ForEach(ids, ops) : ForEach(ids, ops)[j] \in Q
    <2> HIDE DEF Q
    <2> QED BY <1>4, <1>8, ElementType
  <1> QED BY <1>6, <1>7, <1>9

(* What the options of a run make of it consists of blocks. *)
LEMMA TurnIsBlock ==
  ASSUME NEW o \in Options, NEW i \in 1..Len(VictimSequence(o))
  PROVE  Turn(o, i) \in Blocks(Victims(o))
  <1> DEFINE V == Victims(o)
             victims == VictimSequence(o)
             n == Len(victims)
             v == victims[i]
             w == victims[i + 1]
             x == Sleep(IF i + 2 <= n THEN o.up ELSE 0)
             y == Sleep(IF i + 1 <= n THEN o.up ELSE 0)
             a == Sleep(o.down - o.overlap)
             b == Sleep(o.overlap)
             c == Sleep(o.down)
             t == <<<<"check">>>>
             both == a \o Down(w) \o b \o Up(v) \o a \o Up(w) \o x
             one == c \o Up(v) \o y
  <1>1. victims \in Seq(V) /\ n \in Nat
    BY VictimsAreServers
  <1>2. v \in V /\ (i < n => w \in V)
    BY <1>1, ElementType
  <1>3. Turn(o, i) = t \o Down(v) \o (IF o.overlap > 0 /\ i < n THEN both ELSE one)
    BY DEF Turn
  <1>4. x \in Blocks(V) /\ y \in Blocks(V) /\ a \in Blocks(V) /\ b \in Blocks(V) /\ c \in Blocks(V)
    BY PiecesAreBlocks
  <1>5. t \in Blocks(V)
    BY PauseBlock
  <1>6. Down(v) \in Blocks(V) /\ Up(v) \in Blocks(V)
    BY <1>2, PiecesAreBlocks
  <1> HIDE DEF x, y, a, b, c, t, V, v, w
  <1>7. t \o Down(v) \in Blocks(V)
    BY <1>5, <1>6, BlocksJoin
  <1>8. one \in Blocks(V)
    BY <1>4, <1>6, BlocksJoin
  <1>9. ASSUME i < n PROVE both \in Blocks(V)
    <2>1. Down(w) \in Blocks(V) /\ Up(w) \in Blocks(V)
      BY <1>2, <1>9, PiecesAreBlocks
    <2>2. a \o Down(w) \o b \in Blocks(V)
      BY <1>4, <2>1, BlocksJoin
    <2>3. a \o Down(w) \o b \o Up(v) \o a \in Blocks(V)
      BY <1>4, <1>6, <2>2, BlocksJoin
    <2> QED BY <1>4, <2>1, <2>3, BlocksJoin
  <1> HIDE DEF both, one, n
  <1>10. (IF o.overlap > 0 /\ i < n THEN both ELSE one) \in Blocks(V)
    BY <1>8, <1>9
  <1>11. Turn(o, i) \in Blocks(V)
    BY <1>3, <1>7, <1>10, BlocksJoin
  <1> QED BY <1>11 DEF V

LEMMA RoundsAreBlocks ==
  ASSUME NEW o \in Options
  PROVE  Rounds(o) \in Blocks(Victims(o))
  <1> DEFINE n == Len(VictimSequence(o))
             V == Victims(o)
             pairs == [r \in 1 .. (n + 1) \div 2 |-> Turn(o, 2 * r - 1)]
             singles == [r \in 1 .. n |-> Turn(o, r)]
  <1>1. n \in Nat
    BY VictimsAreServers
  <1>2. \A i \in 1..n : Turn(o, i) \in Blocks(V)
    BY TurnIsBlock
  <1>3. Rounds(o) = FlattenSeq(IF o.overlap > 0 THEN pairs ELSE singles)
    BY DEF Rounds
  <1> HIDE DEF n, V
  <1>4. singles \in Seq(Blocks(V))
    BY <1>1, <1>2
  <1>5. pairs \in Seq(Blocks(V))
    <2> DEFINE h == (n + 1) \div 2
    <2>1. h \in Nat /\ \A r \in 1 .. h : 2 * r - 1 \in 1..n
      BY <1>1
    <2>2. \A r \in 1 .. h : pairs[r] \in Blocks(V)
      BY <1>2, <2>1
    <2>3. pairs = [r \in 1 .. h |-> pairs[r]]
      OBVIOUS
    <2> HIDE DEF pairs, h
    <2> QED BY <2>1, <2>2, <2>3
  <1> HIDE DEF pairs, singles
  <1>6. FlattenSeq(IF o.overlap > 0 THEN pairs ELSE singles) \in Blocks(V)
    BY <1>4, <1>5, BlocksFlatten
  <1> QED BY <1>3, <1>6 DEF V

LEMMA OneShotIsBlock ==
  ASSUME NEW o \in Options, VictimSequence(o) # <<>>
  PROVE  /\ OneShot(o) \in Blocks(Victims(o))
         /\ Down(VictimSequence(o)[1]) \in Blocks(Victims(o))
  <1> DEFINE V == Victims(o)
             v == VictimSequence(o)[1]
             a == Sleep(o.down)
             b == Sleep(o.recover - o.start)
             t == <<<<"wait">>>>
             rest == IF o.down > 0 THEN a \o Up(v) ELSE IF o.recover > 0 THEN b \o Up(v) ELSE t
  <1>1. v \in V
    <2>1. VictimSequence(o) \in Seq(V)
      BY VictimsAreServers
    <2>2. 1 \in 1..Len(VictimSequence(o))
      BY <2>1
    <2> QED BY <2>1, <2>2, ElementType
  <1>2. OneShot(o) = Down(v) \o rest
    BY DEF OneShot
  <1>3. a \in Blocks(V) /\ b \in Blocks(V) /\ t \in Blocks(V) /\ Down(v) \in Blocks(V) /\ Up(v) \in Blocks(V)
    BY <1>1, PiecesAreBlocks, PauseBlock
  <1> HIDE DEF V, v, a, b, t
  <1>4. rest \in Blocks(V)
    BY <1>3, BlocksJoin
  <1> HIDE DEF rest
  <1>5. Down(v) \o rest \in Blocks(V)
    BY <1>3, <1>4, BlocksJoin
  <1> QED BY <1>2, <1>3, <1>5 DEF V, v

-----------------------------------------------------------------------------
(* What comes last, however the run ends: everything is undone. *)
Ending(o) == IF AlwaysDead(o) THEN JoinAll(o) ELSE Restore(o) \o JoinAll(o)

InList(x, q) == \E j \in DOMAIN q : q[j] = x
UndoName == {"resume", "alive", "join in", "join out"}

LEMMA InJoined ==
  ASSUME NEW T, NEW p \in Seq(T), NEW q \in Seq(T), NEW x
  PROVE  InList(x, p) \/ InList(x, q) => InList(x, p \o q)
  <1>1. ASSUME InList(x, p) PROVE InList(x, p \o q)
    <2>1. PICK j \in DOMAIN p : p[j] = x
      BY <1>1 DEF InList
    <2>2. j \in DOMAIN (p \o q) /\ (p \o q)[j] = x
      BY <2>1, JoinedAt
    <2> QED BY <2>2 DEF InList
  <1>2. ASSUME InList(x, q) PROVE InList(x, p \o q)
    <2>1. PICK j \in DOMAIN q : q[j] = x
      BY <1>2 DEF InList
    <2>2. j + Len(p) \in DOMAIN (p \o q) /\ (p \o q)[j + Len(p)] = x
      BY <2>1, JoinedAt
    <2> QED BY <2>2 DEF InList
  <1> QED BY <1>1, <1>2

LEMMA UndoOps == ToSet(JoinOps) \subseteq UndoName /\ ToSet(RestoreOps) \subseteq UndoName
  <1>1. JoinOps \in Seq(UndoName)
    BY DEF JoinOps, UndoName
  <1>2. RestoreOps \in Seq(UndoName)
    BY DEF RestoreOps, UndoName
  <1>3. ASSUME NEW S, NEW s \in Seq(S) PROVE ToSet(s) \subseteq S
    BY ElementType DEF ToSet
  <1> QED BY <1>1, <1>2, <1>3

LEMMA ForAllVictims ==
  ASSUME NEW o \in Options, NEW ops, GoodOrder(ops), ToSet(ops) \subseteq UndoName
  PROVE  LET q == ForEach(Unique(VictimSequence(o)), ops)
         IN  /\ q \in Blocks(Victims(o))
             /\ \A v \in Victims(o) : \A k \in DOMAIN ops : InList(<<ops[k], v>>, q)
             /\ \A j \in DOMAIN q : q[j] \in UndoName \X Victims(o)
  <1> DEFINE V == Victims(o)
             ids == Unique(VictimSequence(o))
             q == ForEach(ids, ops)
  <1>1. VictimSequence(o) \in Seq(V)
    BY VictimsAreServers
  <1>2. ids \in Seq(V) /\ \A v \in V : \E a \in DOMAIN ids : ids[a] = v
    BY <1>1, UniqueKeeps DEF Victims
  <1> HIDE DEF ids, V
  <1>3. /\ q \in Blocks(V)
        /\ \A a \in DOMAIN ids : \A k \in DOMAIN ops : \E j \in DOMAIN q : q[j] = <<ops[k], ids[a]>>
        /\ \A j \in DOMAIN q : q[j] \in ToSet(ops) \X V
    BY <1>2, ForEachIsBlock
  <1> HIDE DEF q
  <1>4. ASSUME NEW v \in V, NEW k \in DOMAIN ops PROVE InList(<<ops[k], v>>, q)
    <2>1. PICK a \in DOMAIN ids : ids[a] = v
      BY <1>2
    <2> QED BY <1>3, <2>1 DEF InList
  <1>5. \A j \in DOMAIN q : q[j] \in UndoName \X V
    BY <1>3
  <1> QED BY <1>3, <1>4, <1>5 DEF q, ids, V

LEMMA EndingUndoes ==
  ASSUME NEW o \in Options
  PROVE  /\ Ending(o) \in Blocks(Victims(o))
         /\ \A j \in DOMAIN Ending(o) : Ending(o)[j] \in UndoName \X Victims(o)
         /\ \A v \in Victims(o) : /\ InList(<<"join in", v>>, Ending(o))
                                  /\ InList(<<"join out", v>>, Ending(o))
         /\ ~AlwaysDead(o) => \A v \in Victims(o) : /\ InList(<<"resume", v>>, Ending(o))
                                                    /\ InList(<<"alive", v>>, Ending(o))
  <1> DEFINE V == Victims(o)
             r == Restore(o)
             s == JoinAll(o)
             Q == UndoName \X V
  <1>1. /\ s \in Blocks(V)
        /\ \A v \in V : InList(<<"join in", v>>, s) /\ InList(<<"join out", v>>, s)
        /\ \A j \in DOMAIN s : s[j] \in Q
    <2>1. ToSet(JoinOps) \subseteq UndoName
      BY UndoOps
    <2>2. 1 \in DOMAIN JoinOps /\ JoinOps[1] = "join in" /\ 2 \in DOMAIN JoinOps /\ JoinOps[2] = "join out"
      BY DEF JoinOps
    <2>3. s = ForEach(Unique(VictimSequence(o)), JoinOps)
      BY DEF JoinAll, JoinOps
    <2>4. /\ s \in Blocks(V)
          /\ \A v \in V : \A k \in DOMAIN JoinOps : InList(<<JoinOps[k], v>>, s)
          /\ \A j \in DOMAIN s : s[j] \in Q
      BY <2>1, <2>3, GoodOrders, ForAllVictims
    <2> QED BY <2>2, <2>4
  <1>2. /\ r \in Blocks(V)
        /\ \A v \in V : InList(<<"resume", v>>, r) /\ InList(<<"alive", v>>, r)
        /\ \A j \in DOMAIN r : r[j] \in Q
    <2>1. ToSet(RestoreOps) \subseteq UndoName
      BY UndoOps
    <2>2. 1 \in DOMAIN RestoreOps /\ RestoreOps[1] = "resume" /\ 2 \in DOMAIN RestoreOps /\ RestoreOps[2] = "alive"
      BY DEF RestoreOps
    <2>3. r = ForEach(Unique(VictimSequence(o)), RestoreOps)
      BY DEF Restore, RestoreOps
    <2>4. /\ r \in Blocks(V)
          /\ \A v \in V : \A k \in DOMAIN RestoreOps : InList(<<RestoreOps[k], v>>, r)
          /\ \A j \in DOMAIN r : r[j] \in Q
      BY <2>1, <2>3, GoodOrders, ForAllVictims
    <2> QED BY <2>2, <2>4
  <1>3. CASE AlwaysDead(o)
    BY <1>1, <1>3 DEF Ending
  <1>4. CASE ~AlwaysDead(o)
    <2> DEFINE e == r \o s
    <2>1. Ending(o) = e
      BY <1>4 DEF Ending
    <2> HIDE DEF r, s, V, Q
    <2>2. r \in Seq(Item(V)) /\ s \in Seq(Item(V))
      BY <1>1, <1>2 DEF Blocks
    <2>3. e \in Blocks(V)
      BY <1>1, <1>2, BlocksJoin
    <2>4. \A x : InList(x, r) \/ InList(x, s) => InList(x, e)
      BY <2>2, InJoined
    <2>5. ASSUME NEW j \in DOMAIN e PROVE e[j] \in Q
      <3>1. j \in DOMAIN r \/ j - Len(r) \in DOMAIN s
        BY <2>2, JoinedAt
      <3>2. CASE j \in DOMAIN r
        BY <1>2, <2>2, <3>2, JoinedAt
      <3>3. CASE j - Len(r) \in DOMAIN s
        <4>1. (j - Len(r)) + Len(r) = j
          BY <2>2, <2>3 DEF Blocks
        <4>2. e[(j - Len(r)) + Len(r)] = s[j - Len(r)]
          BY <2>2, <3>3, JoinedAt
        <4> QED BY <1>1, <3>3, <4>1, <4>2
      <3> QED BY <3>1, <3>2, <3>3
    <2> HIDE DEF e
    <2> QED BY <1>1, <1>2, <2>1, <2>3, <2>4, <2>5 DEF V, Q
  <1> QED BY <1>3, <1>4

LEMMA ScriptEnds ==
  ASSUME NEW o \in Options, VictimSequence(o) # <<>>
  PROVE  \E p \in Blocks(Victims(o)) : Script(o) = p \o Ending(o)
  <1> DEFINE V == Victims(o)
             d == Down(VictimSequence(o)[1])
             a == Sleep(o.start)
             b == IF o.up > 0 THEN Rounds(o) ELSE OneShot(o)
             t == <<<<"wait">>>>
  <1>1. d \in Blocks(V) /\ a \in Blocks(V) /\ b \in Blocks(V) /\ t \in Blocks(V)
    BY OneShotIsBlock, RoundsAreBlocks, PiecesAreBlocks, PauseBlock
  <1>2. CASE AlwaysDead(o)
    <2>1. Script(o) = d \o t \o Ending(o)
      BY <1>2 DEF Script, Ending
    <2>2. d \o t \in Blocks(V)
      <3> HIDE DEF d, t, V
      <3> QED BY <1>1, BlocksJoin
    <2> QED BY <2>1, <2>2
  <1>3. CASE ~AlwaysDead(o)
    <2> DEFINE r == Restore(o)
               s == JoinAll(o)
    <2>1. Script(o) = a \o b \o r \o s
      BY <1>3 DEF Script
    <2>2. Ending(o) = r \o s
      BY <1>3 DEF Ending
    <2>3. r \in Blocks(V) /\ s \in Blocks(V)
      <3>1. ToSet(JoinOps) \subseteq UndoName /\ ToSet(RestoreOps) \subseteq UndoName
        BY UndoOps
      <3>2. /\ s = ForEach(Unique(VictimSequence(o)), JoinOps)
            /\ r = ForEach(Unique(VictimSequence(o)), RestoreOps)
        BY DEF JoinAll, JoinOps, Restore, RestoreOps
      <3> QED BY <3>1, <3>2, GoodOrders, ForAllVictims
    <2> HIDE DEF a, b, r, s, V
    <2>4. a \o b \in Blocks(V)
      BY <1>1, BlocksJoin
    <2>5. a \o b \in Seq(Item(V)) /\ r \in Seq(Item(V)) /\ s \in Seq(Item(V))
      BY <2>3, <2>4 DEF Blocks
    <2> DEFINE p == a \o b
    <2> HIDE DEF p
    <2>6. (p \o r) \o s = p \o (r \o s)
      BY <2>5, ConcatAssociative DEF p
    <2> QED BY <2>1, <2>2, <2>4, <2>6 DEF p, V
  <1> QED BY <1>2, <1>3

-----------------------------------------------------------------------------
(* What holds of the rest of a script at any time: it is in order, and      *)
(* whatever it still breaks it undoes later.                                *)
Ordered(q) ==
  \A i \in DOMAIN q : \A v \in Server :
    /\ q[i] = <<"alive", v>> => i + 1 \in DOMAIN q /\ q[i + 1] = <<"join in", v>>
    /\ i > 1 /\ q[i] = <<"isolate in", v>> => q[i - 1] = <<"dead", v>>
    /\ i > 1 /\ q[i] = <<"isolate out", v>> => q[i - 1] = <<"isolate in", v>>

Heals(q, a, b) ==
  \A i \in DOMAIN q : \A v \in Server :
    q[i] = <<a, v>> => \E j \in DOMAIN q : i < j /\ q[j] = <<b, v>>

Undone(o, q) ==
  /\ Heals(q, "isolate in", "join in") /\ Heals(q, "isolate out", "join out")
  /\ ~AlwaysDead(o) => Heals(q, "pause", "resume") /\ Heals(q, "dead", "alive")

Prepared(o, q) == q \in Seq(Item(Victims(o))) /\ Ordered(q) /\ Undone(o, q)

LEMMA ItemOf ==
  ASSUME NEW V, NEW x \in Item(V), x[1] \in OpName
  PROVE  x = <<x[1], x[2]>> /\ x[2] \in V
  <1>1. x \in OpName \X V \/ x[1] \in {"sleep", "check", "wait"}
    BY DEF Item
  <1>2. x \in OpName \X V
    BY <1>1 DEF OpName
  <1> QED BY <1>2

LEMMA TailOf ==
  ASSUME NEW T, NEW q \in Seq(T), q # <<>>
  PROVE  /\ Tail(q) \in Seq(T) /\ Head(q) = q[1] /\ Head(q) \in T
         /\ 1 \in DOMAIN q
         /\ \A i \in DOMAIN Tail(q) : i \in Nat /\ i > 0 /\ i + 1 \in DOMAIN q /\ Tail(q)[i] = q[i + 1]
         /\ \A i \in DOMAIN q : i \in Nat /\ (i > 1 => i - 1 \in DOMAIN Tail(q) /\ Tail(q)[i - 1] = q[i])
         /\ \A i \in DOMAIN q : i = 1 \/ i > 1
  <1>1. Len(q) \in Nat /\ Len(q) > 0 /\ DOMAIN q = 1..Len(q)
    OBVIOUS
  <1>2. DOMAIN Tail(q) = 1..(Len(q) - 1)
    OBVIOUS
  <1>3. \A i \in 1..(Len(q) - 1) : Tail(q)[i] = q[i + 1]
    OBVIOUS
  <1>4. Tail(q) \in Seq(T) /\ Head(q) = q[1] /\ Head(q) \in T
    OBVIOUS
  <1> QED BY <1>1, <1>2, <1>3, <1>4

LEMMA TailHas ==
  ASSUME NEW T, NEW q \in Seq(T), q # <<>>, NEW x, InList(x, q), x # Head(q)
  PROVE  InList(x, Tail(q))
  <1>1. PICK j \in DOMAIN q : q[j] = x
    BY DEF InList
  <1>2. j # 1
    BY <1>1, TailOf
  <1>3. j - 1 \in DOMAIN Tail(q) /\ Tail(q)[j - 1] = x
    BY <1>1, <1>2, TailOf
  <1> QED BY <1>3 DEF InList

LEMMA HealsTail ==
  ASSUME NEW T, NEW q \in Seq(T), q # <<>>, NEW a, NEW b, Heals(q, a, b)
  PROVE  /\ Heals(Tail(q), a, b)
         /\ \A v \in Server : Head(q) = <<a, v>> => InList(<<b, v>>, Tail(q))
  <1> DEFINE t == Tail(q)
  <1>1. ASSUME NEW i \in DOMAIN q, NEW v \in Server, q[i] = <<a, v>>
        PROVE  \E j \in DOMAIN t : i < j + 1 /\ t[j] = <<b, v>>
    <2>1. PICK j \in DOMAIN q : i < j /\ q[j] = <<b, v>>
      BY <1>1 DEF Heals
    <2>2. i \in Nat /\ j \in Nat /\ (i = 1 \/ i > 1)
      BY TailOf
    <2>3. j > 1 /\ i < (j - 1) + 1
      BY <2>1, <2>2
    <2>4. j - 1 \in DOMAIN t /\ t[j - 1] = <<b, v>>
      BY <2>1, <2>3, TailOf
    <2> QED BY <2>3, <2>4
  <1>2. ASSUME NEW i \in DOMAIN t, NEW v \in Server, t[i] = <<a, v>>
        PROVE  \E j \in DOMAIN t : i < j /\ t[j] = <<b, v>>
    <2>1. i + 1 \in DOMAIN q /\ q[i + 1] = <<a, v>> /\ i \in Nat
      BY <1>2, TailOf
    <2>2. PICK j \in DOMAIN t : i + 1 < j + 1 /\ t[j] = <<b, v>>
      BY <1>1, <2>1
    <2>3. j \in Nat
      BY TailOf
    <2>4. i < j
      BY <2>1, <2>2, <2>3
    <2> QED BY <2>2, <2>4
  <1>3. ASSUME NEW v \in Server, Head(q) = <<a, v>> PROVE InList(<<b, v>>, t)
    <2>1. 1 \in DOMAIN q /\ q[1] = <<a, v>>
      BY <1>3, TailOf
    <2> QED BY <1>1, <2>1 DEF InList
  <1>4. Heals(t, a, b)
    BY <1>2 DEF Heals
  <1> QED BY <1>3, <1>4

LEMMA OrderedTail ==
  ASSUME NEW T, NEW q \in Seq(T), q # <<>>, Ordered(q)
  PROVE  /\ Ordered(Tail(q))
         /\ \A v \in Server :
              /\ Head(q) = <<"alive", v>> => Tail(q) # <<>> /\ Head(Tail(q)) = <<"join in", v>>
              /\ Tail(q) # <<>> /\ Head(Tail(q)) = <<"isolate in", v>> => Head(q) = <<"dead", v>>
              /\ Tail(q) # <<>> /\ Head(Tail(q)) = <<"isolate out", v>> => Head(q) = <<"isolate in", v>>
  <1> DEFINE t == Tail(q)
  <1>0. /\ t \in Seq(T) /\ Head(q) = q[1] /\ 1 \in DOMAIN q
        /\ \A i \in DOMAIN t : i \in Nat /\ i > 0 /\ i + 1 \in DOMAIN q /\ t[i] = q[i + 1]
        /\ \A i \in DOMAIN q : i \in Nat /\ (i > 1 => i - 1 \in DOMAIN t /\ t[i - 1] = q[i])
    BY TailOf
  <1>1. t # <<>> => 1 \in DOMAIN t /\ Head(t) = t[1]
    BY <1>0, TailOf
  <1> HIDE DEF t
  <1>2. ASSUME NEW i \in DOMAIN t, NEW v \in Server
        PROVE  /\ t[i] = <<"alive", v>> => i + 1 \in DOMAIN t /\ t[i + 1] = <<"join in", v>>
               /\ i > 1 /\ t[i] = <<"isolate in", v>> => t[i - 1] = <<"dead", v>>
               /\ i > 1 /\ t[i] = <<"isolate out", v>> => t[i - 1] = <<"isolate in", v>>
    <2>1. i \in Nat /\ i > 0 /\ i + 1 \in DOMAIN q /\ t[i] = q[i + 1]
      BY <1>0
    <2>2. i + 1 > 1 /\ (i + 1) - 1 = i /\ (i + 1) + 1 > 1 /\ ((i + 1) + 1) - 1 = i + 1
      BY <2>1
    <2>3. (i + 1) + 1 \in DOMAIN q => i + 1 \in DOMAIN t /\ t[i + 1] = q[(i + 1) + 1]
      BY <1>0, <2>2
    <2>4. i > 1 => t[i - 1] = q[i]
      <3>1. ASSUME i > 1 PROVE i \in DOMAIN q
        <4>1. DOMAIN q = 1..Len(q) /\ Len(q) \in Nat
          OBVIOUS
        <4> QED BY <2>1, <3>1, <4>1
      <3> QED BY <1>0, <3>1
    <2>5. /\ q[i + 1] = <<"alive", v>> => (i + 1) + 1 \in DOMAIN q /\ q[(i + 1) + 1] = <<"join in", v>>
          /\ q[i + 1] = <<"isolate in", v>> => q[i] = <<"dead", v>>
          /\ q[i + 1] = <<"isolate out", v>> => q[i] = <<"isolate in", v>>
      BY <2>1, <2>2 DEF Ordered
    <2> QED BY <2>1, <2>3, <2>4, <2>5
  <1>3. ASSUME NEW v \in Server, q[1] = <<"alive", v>>
        PROVE  t # <<>> /\ Head(t) = <<"join in", v>>
    <2>1. 1 + 1 \in DOMAIN q /\ q[1 + 1] = <<"join in", v>>
      BY <1>0, <1>3 DEF Ordered
    <2>2. 1 \in DOMAIN t /\ t[1] = <<"join in", v>>
      <3>1. 1 + 1 > 1 /\ (1 + 1) - 1 = 1
        OBVIOUS
      <3>2. (1 + 1) - 1 \in DOMAIN t /\ t[(1 + 1) - 1] = q[1 + 1]
        BY <1>0, <2>1, <3>1
      <3> QED BY <2>1, <3>1, <3>2
    <2>3. t # <<>>
      <3>1. DOMAIN <<>> = {}
        OBVIOUS
      <3> QED BY <2>2, <3>1
    <2> QED BY <1>1, <2>2, <2>3
  <1>4. ASSUME NEW v \in Server, t # <<>>
        PROVE  /\ Head(t) = <<"isolate in", v>> => q[1] = <<"dead", v>>
               /\ Head(t) = <<"isolate out", v>> => q[1] = <<"isolate in", v>>
    <2>1. 2 \in DOMAIN q /\ Head(t) = q[2]
      BY <1>0, <1>1, <1>4
    <2>2. 2 > 1 /\ 2 - 1 = 1
      OBVIOUS
    <2>3. /\ q[2] = <<"isolate in", v>> => q[2 - 1] = <<"dead", v>>
          /\ q[2] = <<"isolate out", v>> => q[2 - 1] = <<"isolate in", v>>
      BY <2>1, <2>2 DEF Ordered
    <2> QED BY <2>1, <2>2, <2>3
  <1>5. Ordered(t)
    BY <1>2 DEF Ordered
  <1> QED BY <1>0, <1>3, <1>4, <1>5 DEF t

LEMMA PreparedTail ==
  ASSUME NEW o, NEW q, Prepared(o, q), q # <<>>
  PROVE  Prepared(o, Tail(q))
  <1>1. q \in Seq(Item(Victims(o))) /\ Ordered(q) /\ Undone(o, q)
    BY DEF Prepared
  <1>2. Tail(q) \in Seq(Item(Victims(o))) /\ Ordered(Tail(q))
    BY <1>1, TailOf, OrderedTail
  <1>3. Undone(o, Tail(q))
    BY <1>1, HealsTail DEF Undone
  <1> QED BY <1>2, <1>3 DEF Prepared

BreakName == {"pause", "dead", "isolate in", "isolate out"}

LEMMA EndingHeals ==
  ASSUME NEW V, NEW p \in Seq(Item(V)), NEW e \in Seq(Item(V)), NEW a \in BreakName, NEW b,
         \A j \in DOMAIN e : e[j] \in UndoName \X V,
         \A v \in V : InList(<<b, v>>, e)
  PROVE  Heals(p \o e, a, b) /\ Heals(e, a, b)
  <1> DEFINE r == p \o e
  <1>0. /\ \A i \in DOMAIN p : i \in DOMAIN r /\ r[i] = p[i]
        /\ \A i \in DOMAIN e : i + Len(p) \in DOMAIN r /\ r[i + Len(p)] = e[i]
        /\ \A i \in DOMAIN r : i \in DOMAIN p \/ i - Len(p) \in DOMAIN e
    BY JoinedAt
  <1>1. Len(p) \in Nat /\ DOMAIN p = 1..Len(p) /\ DOMAIN e = 1..Len(e) /\ Len(e) \in Nat
    OBVIOUS
  <1>2. ASSUME NEW j \in DOMAIN e, NEW v PROVE e[j] # <<a, v>>
    <2>1. e[j] \in UndoName \X V
      OBVIOUS
    <2>2. e[j][1] \in UndoName /\ <<a, v>>[1] = a
      BY <2>1
    <2> QED BY <2>2 DEF UndoName, BreakName
  <1>3. DOMAIN r \subseteq Int
    OBVIOUS
  <1> HIDE DEF r
  <1>4. ASSUME NEW i \in DOMAIN r, NEW v \in Server, r[i] = <<a, v>>
        PROVE  \E j \in DOMAIN r : i < j /\ r[j] = <<b, v>>
    <2>1. i \in DOMAIN p
      <3> SUFFICES ASSUME i - Len(p) \in DOMAIN e PROVE FALSE
        BY <1>0
      <3>1. (i - Len(p)) + Len(p) = i
        BY <1>1, <1>3
      <3>2. r[(i - Len(p)) + Len(p)] = e[i - Len(p)]
        BY <1>0
      <3> QED BY <1>2, <1>4, <3>1, <3>2
    <2>2. v \in V
      <3>1. p[i] = <<a, v>> /\ p[i] \in Item(V)
        BY <1>0, <1>4, <2>1, ElementType
      <3>2. <<a, v>>[1] \in OpName /\ <<a, v>>[2] = v
        BY DEF BreakName, OpName
      <3> QED BY <3>1, <3>2, ItemOf
    <2>3. PICK k \in DOMAIN e : e[k] = <<b, v>>
      BY <2>2 DEF InList
    <2>4. k + Len(p) \in DOMAIN r /\ r[k + Len(p)] = <<b, v>>
      BY <1>0, <2>3
    <2>5. i < k + Len(p)
      BY <1>1, <2>1
    <2> QED BY <2>4, <2>5
  <1>5. Heals(r, a, b)
    BY <1>4 DEF Heals
  <1>6. Heals(e, a, b)
    BY <1>2 DEF Heals
  <1> QED BY <1>5, <1>6 DEF r

LEMMA BlocksAreOrdered == ASSUME NEW q, Block(q) PROVE Ordered(q)
  BY DEF Block, Ordered

LEMMA PreparedStart ==
  ASSUME NEW o \in Options
  PROVE  Prepared(o, Script(o)) /\ Prepared(o, Ending(o))
  <1> DEFINE V == Victims(o)
             e == Ending(o)
  <1>1. /\ e \in Blocks(V)
        /\ \A j \in DOMAIN e : e[j] \in UndoName \X V
        /\ \A v \in V : InList(<<"join in", v>>, e) /\ InList(<<"join out", v>>, e)
        /\ ~AlwaysDead(o) => \A v \in V : InList(<<"resume", v>>, e) /\ InList(<<"alive", v>>, e)
    BY EndingUndoes
  <1>2. e \in Seq(Item(V)) /\ Ordered(e)
    BY <1>1, BlocksAreOrdered DEF Blocks
  <1>3. "pause" \in BreakName /\ "dead" \in BreakName /\ "isolate in" \in BreakName /\ "isolate out" \in BreakName
    BY DEF BreakName
  <1>4. ASSUME NEW p \in Seq(Item(V)) PROVE Undone(o, p \o e) /\ Undone(o, e)
    <2> HIDE DEF e, V
    <2>1. Heals(p \o e, "isolate in", "join in") /\ Heals(e, "isolate in", "join in")
      BY <1>1, <1>2, <1>3, EndingHeals
    <2>2. Heals(p \o e, "isolate out", "join out") /\ Heals(e, "isolate out", "join out")
      BY <1>1, <1>2, <1>3, EndingHeals
    <2>3. ASSUME ~AlwaysDead(o)
          PROVE  Heals(p \o e, "pause", "resume") /\ Heals(e, "pause", "resume")
      BY <1>1, <1>2, <1>3, <2>3, EndingHeals
    <2>4. ASSUME ~AlwaysDead(o)
          PROVE  Heals(p \o e, "dead", "alive") /\ Heals(e, "dead", "alive")
      BY <1>1, <1>2, <1>3, <2>4, EndingHeals
    <2> QED BY <2>1, <2>2, <2>3, <2>4 DEF Undone
  <1>5. Prepared(o, e)
    <2>1. <<>> \in Seq(Item(V))
      OBVIOUS
    <2> QED BY <1>2, <1>4, <2>1 DEF Prepared
  <1>6. CASE VictimSequence(o) = <<>>
    <2>1. Script(o) = <<>>
      BY <1>6 DEF Script
    <2>2. DOMAIN <<>> = {}
      OBVIOUS
    <2>3. Ordered(<<>>) /\ Undone(o, <<>>)
      BY <2>2 DEF Ordered, Undone, Heals
    <2>4. Prepared(o, <<>>)
      BY <2>3 DEF Prepared
    <2> QED BY <1>5, <2>1, <2>4
  <1>7. CASE VictimSequence(o) # <<>>
    <2>1. PICK p \in Blocks(V) : Script(o) = p \o e
      BY <1>7, ScriptEnds
    <2>2. p \in Seq(Item(V))
      BY DEF Blocks
    <2>3. p \o e \in Blocks(V)
      BY <1>1, BlocksJoin
    <2>4. p \o e \in Seq(Item(V)) /\ Ordered(p \o e)
      BY <2>3, BlocksAreOrdered DEF Blocks
    <2>5. Prepared(o, p \o e)
      BY <1>4, <2>2, <2>4 DEF Prepared
    <2> QED BY <1>5, <2>1, <2>5
  <1> QED BY <1>6, <1>7

-----------------------------------------------------------------------------
(* The state of the loop.  Whatever is broken now is undone by something    *)
(* the script has still to do.                                              *)
LoopTyped ==
  /\ opts \in Options
  /\ Prepared(opts, script)
  /\ marked \subseteq Server
  /\ paused \subseteq Victims(opts)
  /\ dead \subseteq Server \X Victims(opts)
  /\ cut \subseteq Server \X Server
  /\ \A a, b \in Server : <<a, b>> \in cut => a \in Victims(opts) \/ b \in Victims(opts)

LinksComeBack ==
  \A a, b \in Server :
    <<a, b>> \in cut => InList(<<"join in", b>>, script) \/ InList(<<"join out", a>>, script)

VictimsComeBack ==
  ~AlwaysDead(opts) =>
    /\ \A v \in paused : InList(<<"resume", v>>, script)
    /\ \A n, v \in Server : <<n, v>> \in dead => InList(<<"alive", v>>, script)

(* How far markMemberStatus is. *)
MarkedSoFar ==
  /\ At("alive") => \A n \in marked : <<n, Victim>> \notin dead
  /\ At("dead") => \A n \in marked : <<n, Victim>> \in dead
  /\ ~At("alive") /\ ~At("dead") => marked = {}

(* A server is cut off only while the first candidate takes it for dead. *)
CutAreDead ==
  /\ At("isolate in") \/ At("isolate out") => \A n \in Server : <<n, Victim>> \in dead
  /\ \A v \in Server : <<v, v>> \in cut => <<PrefList[1], v>> \in dead \/ Returning(v)

LoopInv == LoopTyped /\ LinksComeBack /\ VictimsComeBack /\ MarkedSoFar /\ CutAreDead

LEMMA NothingBefore == ASSUME NEW T, NEW s \in Seq(T) PROVE 1 - 1 \notin DOMAIN s
  OBVIOUS

LEMMA LoopInvInit == LoopInit => LoopInv
  <1> SUFFICES ASSUME LoopInit PROVE LoopInv
    OBVIOUS
  <1>1. opts \in Options /\ Prepared(opts, script) /\ marked = {} /\ dead = {} /\ paused = {} /\ cut = {}
    BY PreparedStart DEF LoopInit
  <1>2. At("isolate in") \/ At("isolate out") => FALSE
    <2> SUFFICES ASSUME At("isolate in") \/ At("isolate out") PROVE FALSE
      OBVIOUS
    <2>1. script # <<>> /\ Head(script)[1] \in {"isolate in", "isolate out"}
      BY DEF At
    <2>2. script = Script(opts)
      BY DEF LoopInit
    <2>3. VictimSequence(opts) # <<>>
      BY <2>1, <2>2 DEF Script
    <2>4. script \in Blocks(Victims(opts))
      <3>1. PICK p \in Blocks(Victims(opts)) : Script(opts) = p \o Ending(opts)
        BY <1>1, <2>3, ScriptEnds
      <3>2. Ending(opts) \in Blocks(Victims(opts))
        BY <1>1, EndingUndoes
      <3> QED BY <2>2, <3>1, <3>2, BlocksJoin
    <2>5. script \in Seq(Item(Victims(opts))) /\ Block(script)
      BY <2>4 DEF Blocks
    <2>6. Head(script) = script[1] /\ 1 \in DOMAIN script /\ Head(script) \in Item(Victims(opts))
      BY <2>1, <2>5, TailOf
    <2>7. Head(script) = <<Head(script)[1], Head(script)[2]>> /\ Head(script)[2] \in Server
      <3>1. Head(script)[1] \in OpName
        BY <2>1 DEF OpName
      <3>2. Victims(opts) \subseteq Server
        BY <1>1, VictimsAreServers
      <3> QED BY <2>6, <3>1, <3>2, ItemOf
    <2>8. PICK v \in Server : script[1] = <<"isolate in", v>> \/ script[1] = <<"isolate out", v>>
      BY <2>1, <2>6, <2>7
    <2>9. 1 - 1 \in DOMAIN script
      BY <2>5, <2>6, <2>8 DEF Block
    <2> QED BY <2>5, <2>9, NothingBefore
  <1>3. LoopTyped
    BY <1>1 DEF LoopTyped
  <1> QED BY <1>1, <1>2, <1>3 DEF LoopInv, LinksComeBack, VictimsComeBack, MarkedSoFar, CutAreDead

(* What is at the head of a script. *)
LEMMA HeadMeans ==
  ASSUME NEW o \in Options, NEW q, Prepared(o, q), q # <<>>, Head(q)[1] \in OpName
  PROVE  /\ Head(q) = <<Head(q)[1], Head(q)[2]>>
         /\ Head(q)[2] \in Victims(o) /\ Head(q)[2] \in Server
  <1>1. Head(q) \in Item(Victims(o))
    <2>1. q \in Seq(Item(Victims(o)))
      BY DEF Prepared
    <2> QED BY <2>1, TailOf
  <1>2. Victims(o) \subseteq Server
    BY VictimsAreServers
  <1> QED BY <1>1, <1>2, ItemOf

LEMMA AtMeans ==
  ASSUME LoopTyped, NEW op \in OpName, At(op)
  PROVE  /\ script # <<>> /\ Head(script) = <<op, Victim>>
         /\ Victim \in Victims(opts) /\ Victim \in Server
  BY HeadMeans DEF LoopTyped, At, Victim

(* What a step that ends with the first thing to do leaves. *)
LEMMA ScriptAdvances ==
  ASSUME LoopTyped, script # <<>>, script' = Tail(script), opts' = opts
  PROVE  /\ Prepared(opts, script)' 
         /\ \A x : InList(x, script) /\ x # Head(script) => InList(x, script')
         /\ \A v \in Server :
              /\ Head(script) = <<"isolate in", v>> => InList(<<"join in", v>>, script')
              /\ Head(script) = <<"isolate out", v>> => InList(<<"join out", v>>, script')
              /\ ~AlwaysDead(opts) /\ Head(script) = <<"pause", v>> => InList(<<"resume", v>>, script')
              /\ ~AlwaysDead(opts) /\ Head(script) = <<"dead", v>> => InList(<<"alive", v>>, script')
              /\ Head(script) = <<"alive", v>> => script' # <<>> /\ Head(script') = <<"join in", v>>
              /\ script' # <<>> /\ Head(script') = <<"isolate in", v>> => Head(script) = <<"dead", v>>
              /\ script' # <<>> /\ Head(script') = <<"isolate out", v>> => Head(script) = <<"isolate in", v>>
  <1>1. Prepared(opts, script) /\ script \in Seq(Item(Victims(opts))) /\ Ordered(script) /\ Undone(opts, script)
    BY DEF LoopTyped, Prepared
  <1>2. Prepared(opts, script)'
    BY <1>1, PreparedTail
  <1>3. \A x : InList(x, script) /\ x # Head(script) => InList(x, script')
    BY <1>1, TailHas
  <1>4. ASSUME NEW v \in Server
        PROVE  /\ Head(script) = <<"isolate in", v>> => InList(<<"join in", v>>, script')
               /\ Head(script) = <<"isolate out", v>> => InList(<<"join out", v>>, script')
               /\ ~AlwaysDead(opts) /\ Head(script) = <<"pause", v>> => InList(<<"resume", v>>, script')
               /\ ~AlwaysDead(opts) /\ Head(script) = <<"dead", v>> => InList(<<"alive", v>>, script')
    BY <1>1, HealsTail DEF Undone
  <1>5. ASSUME NEW v \in Server
        PROVE  /\ Head(script) = <<"alive", v>> => script' # <<>> /\ Head(script') = <<"join in", v>>
               /\ script' # <<>> /\ Head(script') = <<"isolate in", v>> => Head(script) = <<"dead", v>>
               /\ script' # <<>> /\ Head(script') = <<"isolate out", v>> => Head(script) = <<"isolate in", v>>
    BY <1>1, OrderedTail
  <1> QED BY <1>2, <1>3, <1>4, <1>5

(* Steps that leave the member tables alone. *)
LEMMA TablesStay ==
  ASSUME LoopInv, LoopTyped', script # <<>>, script' = Tail(script), opts' = opts,
         dead' = dead, marked' = marked, ~At("alive"), ~At("dead"),
         \A v \in Server : <<v, v>> \in cut' => <<PrefList[1], v>> \in dead
  PROVE  MarkedSoFar' /\ CutAreDead'
  <1>0. LoopTyped /\ MarkedSoFar /\ CutAreDead
    BY DEF LoopInv
  <1>1. marked' = {}
    BY <1>0 DEF MarkedSoFar
  <1>2. MarkedSoFar'
    BY <1>1 DEF MarkedSoFar
  <1>3. ASSUME At("isolate in")' \/ At("isolate out")'
        PROVE  \A n \in Server : <<n, Victim'>> \in dead'
    <2>0. "isolate in" \in OpName /\ "isolate out" \in OpName /\ "dead" \in OpName
      BY DEF OpName
    <2>1. PICK op \in {"isolate in", "isolate out"} : At(op)'
      BY <1>3
    <2>2. script' # <<>> /\ Head(script') = <<op, Victim'>> /\ Victim' \in Server
      <3>1. op \in OpName
        BY <2>0
      <3>2. script' # <<>> /\ Head(script')[1] = op
        BY <2>1 DEF At
      <3>3. opts' \in Options /\ Prepared(opts', script')
        BY DEF LoopTyped
      <3> QED BY <3>1, <3>2, <3>3, HeadMeans DEF Victim
    <2>3. Head(script) # <<"dead", Victim'>>
      <3>1. Head(script)[1] # "dead"
        BY DEF At
      <3>2. <<"dead", Victim'>>[1] = "dead"
        OBVIOUS
      <3> QED BY <3>1, <3>2
    <2>4. Head(script) = <<"isolate in", Victim'>>
      BY <1>0, <2>1, <2>2, <2>3, ScriptAdvances
    <2>5. At("isolate in") /\ Victim = Victim'
      <3>1. <<"isolate in", Victim'>>[1] = "isolate in" /\ <<"isolate in", Victim'>>[2] = Victim'
        OBVIOUS
      <3> QED BY <2>4, <3>1 DEF At, Victim
    <2> QED BY <1>0, <2>5 DEF CutAreDead
  <1>4. CutAreDead'
    BY <1>3 DEF CutAreDead
  <1> QED BY <1>2, <1>4

(* The end of the script brings back whatever is broken. *)
LEMMA EndBringsBack ==
  ASSUME LoopTyped, opts' = opts, paused' = paused, dead' = dead, cut' = cut,
         script' = Ending(opts)
  PROVE  LinksComeBack' /\ VictimsComeBack'
  <1>1. opts \in Options
    BY DEF LoopTyped
  <1>2. /\ \A v \in Victims(opts) : /\ InList(<<"join in", v>>, script')
                                    /\ InList(<<"join out", v>>, script')
        /\ ~AlwaysDead(opts) => \A v \in Victims(opts) : /\ InList(<<"resume", v>>, script')
                                                         /\ InList(<<"alive", v>>, script')
    BY <1>1, EndingUndoes
  <1>3. LinksComeBack'
    BY <1>2 DEF LinksComeBack, LoopTyped
  <1>4. VictimsComeBack'
    <2>1. \A n, v \in Server : <<n, v>> \in dead => v \in Victims(opts)
      BY DEF LoopTyped
    <2>2. paused \subseteq Victims(opts)
      BY DEF LoopTyped
    <2> QED BY <1>2, <2>1, <2>2 DEF VictimsComeBack
  <1> QED BY <1>3, <1>4

LEMMA LoopWaits ==
  ASSUME LoopInv, Elapse \/ Cancel
  PROVE  LoopInv'
  <1>0. LoopTyped /\ LinksComeBack /\ VictimsComeBack /\ MarkedSoFar /\ CutAreDead
    BY DEF LoopInv
  <1>1. /\ opts' = opts /\ marked' = marked /\ dead' = dead /\ paused' = paused /\ cut' = cut
        /\ script # <<>> /\ Head(script)[1] \in {"sleep", "check", "wait"}
        /\ script' = Tail(script) \/ (~AlwaysDead(opts) /\ script' = Restore(opts) \o JoinAll(opts))
    BY DEF Elapse, Cancel, At
  <1>2. marked = {} /\ ~At("alive") /\ ~At("dead")
    <2>1. ~At("alive") /\ ~At("dead")
      BY <1>1 DEF At
    <2> QED BY <1>0, <2>1 DEF MarkedSoFar
  <1>3. \A v \in Server : <<v, v>> \in cut => <<PrefList[1], v>> \in dead
    <2>1. \A v : ~Returning(v)
      BY <1>1 DEF Returning, At
    <2> QED BY <1>0, <2>1 DEF CutAreDead
  <1>4. CASE script' = Tail(script)
    <2>1. Prepared(opts, script)'
      BY <1>0, <1>1, <1>4, ScriptAdvances
    <2>2. LoopTyped'
      BY <1>0, <1>1, <2>1 DEF LoopTyped
    <2>3. \A op, v : op \in OpName /\ InList(<<op, v>>, script) => InList(<<op, v>>, script')
      <3> SUFFICES ASSUME NEW op \in OpName, NEW v, InList(<<op, v>>, script)
                   PROVE  InList(<<op, v>>, script')
        OBVIOUS
      <3>1. <<op, v>>[1] = op
        OBVIOUS
      <3>2. Head(script)[1] # op
        BY <1>1 DEF OpName
      <3> QED BY <1>0, <1>1, <1>4, <3>1, <3>2, ScriptAdvances
    <2>4. LinksComeBack' /\ VictimsComeBack'
      BY <1>0, <1>1, <2>3 DEF LinksComeBack, VictimsComeBack, OpName
    <2>5. MarkedSoFar' /\ CutAreDead'
      BY <1>1, <1>2, <1>3, <1>4, <2>2, TablesStay
    <2> QED BY <2>2, <2>4, <2>5 DEF LoopInv
  <1>5. CASE ~AlwaysDead(opts) /\ script' = Restore(opts) \o JoinAll(opts)
    <2>1. opts \in Options /\ script' = Ending(opts)
      BY <1>0, <1>5 DEF Ending, LoopTyped
    <2>2. Prepared(opts, script)'
      BY <1>1, <2>1, PreparedStart
    <2>3. LoopTyped'
      BY <1>0, <1>1, <2>2 DEF LoopTyped
    <2>4. LinksComeBack' /\ VictimsComeBack'
      BY <1>0, <1>1, <2>1, EndBringsBack
    <2>5. MarkedSoFar'
      BY <1>1, <1>2 DEF MarkedSoFar
    <2>6. ~At("isolate in")' /\ ~At("isolate out")'
      <3> SUFFICES ASSUME script' # <<>> PROVE Head(script')[1] \in UndoName
        BY DEF At, UndoName
      <3>1. script' \in Seq(Item(Victims(opts)))
        BY <1>1, <2>2 DEF Prepared
      <3>2. 1 \in DOMAIN script' /\ Head(script') = script'[1]
        BY <3>1, TailOf
      <3>3. script'[1] \in UndoName \X Victims(opts)
        BY <2>1, <3>2, EndingUndoes
      <3> QED BY <3>2, <3>3
    <2>7. CutAreDead'
      BY <1>1, <1>3, <2>6 DEF CutAreDead
    <2> QED BY <2>3, <2>4, <2>5, <2>7 DEF LoopInv
  <1> QED BY <1>1, <1>4, <1>5

(* What was in the script and is not the thing done now is still in it. *)
LEMMA OthersStay ==
  ASSUME LoopTyped, NEW op \in OpName, At(op), script' = Tail(script), opts' = opts
  PROVE  \A p, u : p # op \/ u # Victim => (InList(<<p, u>>, script) => InList(<<p, u>>, script'))
  <1> SUFFICES ASSUME NEW p, NEW u, p # op \/ u # Victim, InList(<<p, u>>, script)
               PROVE  InList(<<p, u>>, script')
    OBVIOUS
  <1>1. script # <<>> /\ Head(script) = <<op, Victim>>
    BY AtMeans
  <1>2. <<p, u>> # <<op, Victim>>
    OBVIOUS
  <1> QED BY <1>1, <1>2, ScriptAdvances

LEMMA LoopPauses ==
  ASSUME LoopInv, SetPause
  PROVE  LoopInv'
  <1>0. LoopTyped /\ LinksComeBack /\ VictimsComeBack /\ MarkedSoFar /\ CutAreDead
    BY DEF LoopInv
  <1>1. PICK op \in {"pause", "resume"} :
          At(op) /\ paused' = IF op = "pause" THEN paused \cup {Victim} ELSE paused \ {Victim}
    BY DEF SetPause
  <1>2. opts' = opts /\ marked' = marked /\ dead' = dead /\ cut' = cut /\ script' = Tail(script)
    BY DEF SetPause
  <1>3. op \in OpName
    BY DEF OpName
  <1>4. /\ script # <<>> /\ Head(script) = <<op, Victim>> /\ Head(script)[1] = op
        /\ Victim \in Victims(opts) /\ Victim \in Server
    BY <1>0, <1>1, <1>3, AtMeans DEF At
  <1>5. Prepared(opts, script)'
    BY <1>0, <1>2, <1>4, ScriptAdvances
  <1>6. LoopTyped'
    BY <1>0, <1>1, <1>2, <1>4, <1>5 DEF LoopTyped
  <1>7. \A p, u : p # op \/ u # Victim => (InList(<<p, u>>, script) => InList(<<p, u>>, script'))
    BY <1>0, <1>1, <1>2, <1>3, OthersStay
  <1>8. LinksComeBack'
    <2>1. op # "join in" /\ op # "join out"
      OBVIOUS
    <2> QED BY <1>0, <1>2, <1>7, <2>1 DEF LinksComeBack
  <1>9. VictimsComeBack'
    <2> SUFFICES ASSUME ~AlwaysDead(opts)
                 PROVE  /\ \A v \in paused' : InList(<<"resume", v>>, script')
                        /\ \A n, v \in Server : <<n, v>> \in dead => InList(<<"alive", v>>, script')
      BY <1>2 DEF VictimsComeBack
    <2>1. op # "alive"
      OBVIOUS
    <2>2. \A n, v \in Server : <<n, v>> \in dead => InList(<<"alive", v>>, script')
      BY <1>0, <1>7, <2>1 DEF VictimsComeBack
    <2>3. ASSUME NEW v \in paused' PROVE InList(<<"resume", v>>, script')
      <3>1. CASE op = "pause"
        <4>1. InList(<<"resume", Victim>>, script')
          BY <1>0, <1>2, <1>4, <3>1, ScriptAdvances
        <4>2. "resume" # op
          BY <3>1
        <4> QED BY <1>0, <1>1, <1>7, <2>3, <3>1, <4>1, <4>2 DEF VictimsComeBack
      <3>2. CASE op = "resume"
        BY <1>0, <1>1, <1>7, <2>3, <3>2 DEF VictimsComeBack
      <3> QED BY <3>1, <3>2
    <2> QED BY <2>2, <2>3
  <1>10. ~At("alive") /\ ~At("dead") /\ \A v : ~Returning(v)
    BY <1>4 DEF At, Returning
  <1>11. MarkedSoFar' /\ CutAreDead'
    <2>1. \A v \in Server : <<v, v>> \in cut' => <<PrefList[1], v>> \in dead
      BY <1>0, <1>2, <1>10 DEF CutAreDead
    <2> QED BY <1>2, <1>4, <1>6, <1>10, <2>1, TablesStay
  <1> QED BY <1>6, <1>8, <1>9, <1>11 DEF LoopInv

LEMMA FirstIsServer == PrefList[1] \in Server /\ 1 \in DOMAIN PrefList
  BY DemoFailureAssumption

LEMMA LoopIsolates ==
  ASSUME LoopInv, SetVictimIsolated
  PROVE  LoopInv'
  <1>0. LoopTyped /\ LinksComeBack /\ VictimsComeBack /\ MarkedSoFar /\ CutAreDead
    BY DEF LoopInv
  <1> DEFINE w == Victim
  <1>1. PICK op \in {"isolate in", "isolate out", "join in", "join out"} :
          /\ At(op)
          /\ op = "isolate in" => cut' = cut \cup LinksTo(w)
          /\ op = "isolate out" => cut' = cut \cup LinksFrom(w)
          /\ op = "join in" => cut' = cut \ LinksTo(w)
          /\ op = "join out" => cut' = cut \ LinksFrom(w)
    BY DEF SetVictimIsolated
  <1>2. opts' = opts /\ marked' = marked /\ dead' = dead /\ paused' = paused /\ script' = Tail(script)
    BY DEF SetVictimIsolated
  <1>3. op \in OpName
    BY DEF OpName
  <1>4. /\ script # <<>> /\ Head(script) = <<op, w>> /\ Head(script)[1] = op
        /\ w \in Victims(opts) /\ w \in Server
    BY <1>0, <1>1, <1>3, AtMeans DEF At
  <1>5. Prepared(opts, script)'
    BY <1>0, <1>2, <1>4, ScriptAdvances
  <1>6. \A p, u : p # op \/ u # w => (InList(<<p, u>>, script) => InList(<<p, u>>, script'))
    BY <1>0, <1>1, <1>2, <1>3, OthersStay
  <1>7. ~At("alive") /\ ~At("dead") /\ \A v : Returning(v) => op = "join in" /\ w = v
    BY <1>4 DEF At, Returning
  <1> HIDE DEF w
  <1>8. /\ cut' \subseteq Server \X Server
        /\ \A a, b \in Server : <<a, b>> \in cut' =>
             \/ <<a, b>> \in cut /\ (op = "join in" => b # w) /\ (op = "join out" => a # w)
             \/ op = "isolate in" /\ b = w
             \/ op = "isolate out" /\ a = w
    <2>1. /\ LinksTo(w) \subseteq Server \X Server /\ LinksFrom(w) \subseteq Server \X Server
          /\ \A a, b \in Server : /\ <<a, b>> \in LinksTo(w) <=> b = w
                                  /\ <<a, b>> \in LinksFrom(w) <=> a = w
      BY <1>4 DEF LinksTo, LinksFrom
    <2>2. cut \subseteq Server \X Server
      BY <1>0 DEF LoopTyped
    <2> QED BY <1>1, <2>1, <2>2
  <1>9. LoopTyped'
    <2>1. \A a, b \in Server : <<a, b>> \in cut' => a \in Victims(opts) \/ b \in Victims(opts)
      BY <1>0, <1>4, <1>8 DEF LoopTyped
    <2> QED BY <1>0, <1>2, <1>5, <1>8, <2>1 DEF LoopTyped
  <1>10. LinksComeBack'
    <2> SUFFICES ASSUME NEW a \in Server, NEW b \in Server, <<a, b>> \in cut'
                 PROVE  InList(<<"join in", b>>, script') \/ InList(<<"join out", a>>, script')
      BY DEF LinksComeBack
    <2>1. CASE <<a, b>> \in cut /\ (op = "join in" => b # w) /\ (op = "join out" => a # w)
      <3>1. InList(<<"join in", b>>, script) \/ InList(<<"join out", a>>, script)
        BY <1>0, <2>1 DEF LinksComeBack
      <3>2. ("join in" # op \/ b # w) /\ ("join out" # op \/ a # w)
        BY <2>1
      <3> QED BY <1>6, <3>1, <3>2
    <2>2. CASE op = "isolate in" /\ b = w
      BY <1>0, <1>2, <1>4, <2>2, ScriptAdvances
    <2>3. CASE op = "isolate out" /\ a = w
      BY <1>0, <1>2, <1>4, <2>3, ScriptAdvances
    <2> QED BY <1>8, <2>1, <2>2, <2>3
  <1>11. VictimsComeBack'
    <2>1. op # "alive" /\ op # "resume"
      OBVIOUS
    <2> QED BY <1>0, <1>2, <1>6, <2>1 DEF VictimsComeBack
  <1>12. MarkedSoFar' /\ CutAreDead'
    <2>1. ASSUME NEW v \in Server, <<v, v>> \in cut' PROVE <<PrefList[1], v>> \in dead
      <3>1. CASE <<v, v>> \in cut /\ (op = "join in" => v # w)
        BY <1>0, <1>7, <3>1 DEF CutAreDead
      <3>2. CASE (op = "isolate in" \/ op = "isolate out") /\ v = w
        BY <1>0, <1>1, <3>2, FirstIsServer DEF CutAreDead, w
      <3> QED BY <1>8, <2>1, <3>1, <3>2
    <2> QED BY <1>2, <1>4, <1>7, <1>9, <2>1, TablesStay
  <1> QED BY <1>9, <1>10, <1>11, <1>12 DEF LoopInv

LEMMA LoopMarks ==
  ASSUME LoopInv, NEW n \in Server, MarkMemberStatus(n)
  PROVE  LoopInv'
  <1>0. LoopTyped /\ LinksComeBack /\ VictimsComeBack /\ MarkedSoFar /\ CutAreDead
    BY DEF LoopInv
  <1>w. PICK w : w = Victim
    OBVIOUS
  <1>1. PICK op \in {"dead", "alive"} :
          /\ At(op)
          /\ op = "dead" => dead' = dead \cup {<<n, w>>}
          /\ op = "alive" => dead' = dead \ {<<n, w>>}
    BY <1>w DEF MarkMemberStatus
  <1>2. /\ opts' = opts /\ paused' = paused /\ cut' = cut
        /\ \/ marked \cup {n} = Server /\ marked' = {} /\ script' = Tail(script)
           \/ marked' = marked \cup {n} /\ script' = script
    BY DEF MarkMemberStatus
  <1>3. op \in OpName
    BY DEF OpName
  <1>4. /\ script # <<>> /\ Head(script) = <<op, w>> /\ Head(script)[1] = op
        /\ w \in Victims(opts) /\ w \in Server
    BY <1>0, <1>1, <1>3, <1>w, AtMeans DEF At
  <1>5. \A v : Returning(v) => op = "alive" /\ w = v
    BY <1>4, <1>w DEF At, Returning
  <1>6. dead' \subseteq Server \X Victims(opts)
    BY <1>0, <1>1, <1>4 DEF LoopTyped
  <1>7. \A m, v \in Server : <<m, v>> \in dead' =>
          \/ <<m, v>> \in dead /\ (op = "alive" => m # n \/ v # w)
          \/ op = "dead" /\ v = w
    BY <1>1
  <1>8. /\ \A m, v \in Server : <<m, v>> \in dead /\ (op = "alive" => v # w) => <<m, v>> \in dead'
        /\ op = "dead" => <<n, w>> \in dead'
    BY <1>1
  <1>9. /\ op = "alive" => \A m \in marked : <<m, w>> \notin dead
        /\ op = "dead" => \A m \in marked : <<m, w>> \in dead
    BY <1>0, <1>1, <1>w DEF MarkedSoFar
  <1>10. marked \subseteq Server
    BY <1>0 DEF LoopTyped
  <1>11. ASSUME NEW v \in Server, <<v, v>> \in cut, op = "alive" => v # w
         PROVE  <<PrefList[1], v>> \in dead'
    <2>1. <<PrefList[1], v>> \in dead
      BY <1>0, <1>5, <1>11 DEF CutAreDead
    <2> QED BY <1>8, <1>11, <2>1, FirstIsServer
  <1>12. CASE marked' = marked \cup {n} /\ script' = script
    <2>1. \A p : At(p)' <=> At(p)
      BY <1>12 DEF At
    <2>2. Victim' = w
      BY <1>12, <1>w DEF Victim
    <2>3. LoopTyped'
      BY <1>0, <1>2, <1>6, <1>10, <1>12 DEF LoopTyped
    <2>4. LinksComeBack'
      BY <1>0, <1>2, <1>12 DEF LinksComeBack
    <2>5. VictimsComeBack'
      <3> SUFFICES ASSUME ~AlwaysDead(opts)
                   PROVE  /\ \A v \in paused' : InList(<<"resume", v>>, script')
                          /\ \A m, v \in Server : <<m, v>> \in dead' => InList(<<"alive", v>>, script')
        BY <1>2 DEF VictimsComeBack
      <3>1. \A v \in paused' : InList(<<"resume", v>>, script')
        BY <1>0, <1>2, <1>12 DEF VictimsComeBack
      <3>2. op = "dead" => InList(<<"alive", w>>, script)
        <4>1. Heals(script, "dead", "alive") /\ script \in Seq(Item(Victims(opts)))
          BY <1>0 DEF LoopTyped, Prepared, Undone
        <4>2. 1 \in DOMAIN script /\ script[1] = Head(script)
          BY <1>4, <4>1, TailOf
        <4> QED BY <1>4, <4>1, <4>2 DEF Heals, InList
      <3> QED BY <1>0, <1>7, <1>12, <3>1, <3>2 DEF VictimsComeBack
    <2>6. MarkedSoFar'
      <3>1. op = "alive" => \A m \in marked' : <<m, w>> \notin dead'
        BY <1>1, <1>9, <1>12
      <3>2. op = "dead" => \A m \in marked' : <<m, w>> \in dead'
        BY <1>4, <1>8, <1>9, <1>10, <1>12
      <3>3. (At("alive") <=> op = "alive") /\ (At("dead") <=> op = "dead")
        BY <1>4 DEF At
      <3> QED BY <2>1, <2>2, <3>1, <3>2, <3>3 DEF MarkedSoFar
    <2>7. CutAreDead'
      <3>1. ~At("isolate in")' /\ ~At("isolate out")'
        BY <1>4, <2>1 DEF At
      <3>2. op = "alive" => Returning(w)'
        BY <1>1, <2>1, <2>2 DEF Returning
      <3> QED BY <1>2, <1>11, <3>1, <3>2 DEF CutAreDead
    <2> QED BY <2>3, <2>4, <2>5, <2>6, <2>7 DEF LoopInv
  <1>13. CASE marked \cup {n} = Server /\ marked' = {} /\ script' = Tail(script)
    <2>1. \A p, u : p # op \/ u # w => (InList(<<p, u>>, script) => InList(<<p, u>>, script'))
      BY <1>0, <1>1, <1>2, <1>3, <1>13, <1>w, OthersStay
    <2>2. Prepared(opts, script)'
      BY <1>0, <1>2, <1>4, <1>13, ScriptAdvances
    <2>3. LoopTyped'
      BY <1>0, <1>2, <1>6, <1>13, <2>2 DEF LoopTyped
    <2>4. LinksComeBack'
      <3>1. op # "join in" /\ op # "join out"
        OBVIOUS
      <3> QED BY <1>0, <1>2, <2>1, <3>1 DEF LinksComeBack
    <2>5. VictimsComeBack'
      <3> SUFFICES ASSUME ~AlwaysDead(opts)
                   PROVE  /\ \A v \in paused' : InList(<<"resume", v>>, script')
                          /\ \A m, v \in Server : <<m, v>> \in dead' => InList(<<"alive", v>>, script')
        BY <1>2 DEF VictimsComeBack
      <3>1. \A v \in paused' : InList(<<"resume", v>>, script')
        <4>1. op # "resume"
          OBVIOUS
        <4> QED BY <1>0, <1>2, <2>1, <4>1 DEF VictimsComeBack
      <3>2. ASSUME NEW m \in Server, NEW v \in Server, <<m, v>> \in dead'
            PROVE  InList(<<"alive", v>>, script')
        <4>1. CASE op = "dead" /\ v = w
          BY <1>0, <1>2, <1>4, <1>13, <4>1, ScriptAdvances
        <4>2. CASE <<m, v>> \in dead /\ (op = "alive" => m # n \/ v # w)
          <5>1. InList(<<"alive", v>>, script)
            BY <1>0, <4>2 DEF VictimsComeBack
          <5>2. op = "alive" => v # w
            BY <1>9, <1>13, <4>2
          <5> QED BY <2>1, <5>1, <5>2
        <4> QED BY <1>7, <3>2, <4>1, <4>2
      <3> QED BY <3>1, <3>2
    <2>6. MarkedSoFar'
      BY <1>13 DEF MarkedSoFar
    <2>7. ASSUME At("isolate in")' \/ At("isolate out")'
          PROVE  \A m \in Server : <<m, Victim'>> \in dead'
      <3>1. PICK p \in {"isolate in", "isolate out"} : At(p)'
        BY <2>7
      <3>2. script' # <<>> /\ Head(script') = <<p, Victim'>> /\ Victim' \in Server
        <4>1. p \in OpName
          BY DEF OpName
        <4>2. script' # <<>> /\ Head(script')[1] = p
          BY <3>1 DEF At
        <4>3. opts' \in Options /\ Prepared(opts', script')
          BY <2>3 DEF LoopTyped
        <4> QED BY <4>1, <4>2, <4>3, HeadMeans DEF Victim
      <3>3. Head(script) = <<"dead", Victim'>> \/ Head(script) = <<"isolate in", Victim'>>
        BY <1>0, <1>2, <1>4, <1>13, <3>1, <3>2, ScriptAdvances
      <3>4. op = "dead" /\ w = Victim'
        <4>1. /\ <<"dead", Victim'>>[1] = "dead" /\ <<"dead", Victim'>>[2] = Victim'
              /\ <<"isolate in", Victim'>>[1] = "isolate in"
              /\ <<op, w>>[2] = w
          OBVIOUS
        <4> QED BY <1>4, <3>3, <4>1
      <3>5. ASSUME NEW m \in Server PROVE <<m, w>> \in dead'
        <4>1. m = n \/ m \in marked
          BY <1>13
        <4>2. m \in marked => <<m, w>> \in dead
          BY <1>9, <3>4
        <4> QED BY <1>4, <1>8, <3>4, <4>1, <4>2
      <3> QED BY <3>4, <3>5
    <2>8. op = "alive" => Returning(w)'
      <3> SUFFICES ASSUME op = "alive" PROVE Returning(w)'
        OBVIOUS
      <3>1. script' # <<>> /\ Head(script') = <<"join in", w>>
        BY <1>0, <1>2, <1>4, <1>13, ScriptAdvances
      <3>2. <<"join in", w>>[1] = "join in" /\ <<"join in", w>>[2] = w
        OBVIOUS
      <3>3. At("join in")' /\ Victim' = w
        BY <3>1, <3>2 DEF At, Victim
      <3> QED BY <3>3 DEF Returning
    <2>9. CutAreDead'
      BY <1>2, <1>11, <2>7, <2>8 DEF CutAreDead
    <2> QED BY <2>3, <2>4, <2>5, <2>6, <2>9 DEF LoopInv
  <1> QED BY <1>2, <1>12, <1>13

LEMMA LoopInvNext == LoopInv /\ [LoopNext]_loopVars => LoopInv'
  <1> SUFFICES ASSUME LoopInv, [LoopNext]_loopVars PROVE LoopInv'
    OBVIOUS
  <1>1. CASE UNCHANGED loopVars
    BY <1>1 DEF loopVars, LoopInv, LoopTyped, LinksComeBack, VictimsComeBack, MarkedSoFar,
                CutAreDead, At, Victim, Returning
  <1>2. CASE LoopNext
    BY <1>2, LoopWaits, LoopPauses, LoopIsolates, LoopMarks DEF LoopNext
  <1> QED BY <1>1, <1>2

(* Whatever the failure options and wherever pbsSingleReplicaFailureLoop is *)
(* cancelled, when the scenario is over no link is disabled, no victim is   *)
(* silent and none is marked dead: every failure still open has its undoing *)
(* among what is left to do.                                                *)
THEOREM RunsAreRestored == LoopSpec => []RunRestored
  <1>1. LoopInv => RunRestored
    <2> SUFFICES ASSUME LoopInv, script = <<>>
                 PROVE  cut = {} /\ (AlwaysDead(opts) \/ paused \cup dead = {})
      BY DEF RunRestored
    <2>1. \A x : ~InList(x, script)
      <3>1. DOMAIN <<>> = {}
        OBVIOUS
      <3> QED BY <3>1 DEF InList
    <2>2. cut = {}
      <3>1. \A a, b \in Server : <<a, b>> \notin cut
        BY <2>1 DEF LoopInv, LinksComeBack
      <3>2. cut \subseteq Server \X Server
        BY DEF LoopInv, LoopTyped
      <3> QED BY <3>1, <3>2
    <2>3. ASSUME ~AlwaysDead(opts) PROVE paused = {} /\ dead = {}
      <3>1. Victims(opts) \subseteq Server
        BY VictimsAreServers DEF LoopInv, LoopTyped
      <3>2. paused = {}
        BY <2>1, <2>3 DEF LoopInv, VictimsComeBack
      <3>3. dead = {}
        <4>1. \A n, v \in Server : <<n, v>> \notin dead
          BY <2>1, <2>3 DEF LoopInv, VictimsComeBack
        <4>2. dead \subseteq Server \X Server
          BY <3>1 DEF LoopInv, LoopTyped
        <4> QED BY <4>1, <4>2
      <3> QED BY <3>2, <3>3
    <2> QED BY <2>2, <2>3
  <1> QED BY <1>1, LoopInvInit, LoopInvNext, PTL DEF LoopSpec

(* pbsLiveCoordinatorCandidates asks one member table only, while marks and *)
(* links change one by one: still no client is sent to a server that is cut *)
(* off, unless it is just coming back or every candidate is marked dead.    *)
THEOREM CutOffNeverPicked == LoopSpec => []CutOffNotPicked
  <1>1. LoopInv => CutOffNotPicked
    <2> SUFFICES ASSUME LoopInv, NEW v \in LiveCandidates, Isolated(v), ~Returning(v)
                 PROVE  \A u \in ToSet(PrefList) : <<PrefList[1], u>> \in dead
      BY DEF CutOffNotPicked
    <2>1. v \in ToSet(PrefList)
      BY DEF LiveCandidates
    <2>2. v \in Server
      <3>1. PrefList \in Seq(Server)
        BY DemoFailureAssumption
      <3> QED BY <2>1, <3>1, ElementType DEF ToSet
    <2>3. <<v, v>> \in cut
      BY <2>2 DEF Isolated
    <2>4. <<PrefList[1], v>> \in dead
      BY <2>2, <2>3 DEF LoopInv, CutAreDead
    <2> QED BY <2>1, <2>4 DEF LiveCandidates
  <1> QED BY <1>1, LoopInvInit, LoopInvNext, PTL DEF LoopSpec

-----------------------------------------------------------------------------
(***************************************************************************)
(* The collector and the observer (Regularity).  The writes are sorted by  *)
(* the time they were committed, and none is there twice.                  *)
(***************************************************************************)
WriteRecord == [id : Write, start : Time, end : Time]
ReadRecord == [id : Read, start : Time, end : Time, objs : SiblingLists]

ByEnd(q) == \A i, j \in 1..Len(q) : i < j => q[i].end <= q[j].end /\ q[i].id # q[j].id

CollectorInv ==
  /\ writes \in Seq(WriteRecord) /\ ByEnd(writes)
  /\ reads \in Seq(ReadRecord) /\ ByEnd(reads)

(* The smallest of some natural numbers. *)
LEMMA MinIsLeast ==
  ASSUME NEW S \in SUBSET Nat, S # {}
  PROVE  Min(S) \in S /\ \A y \in S : Min(S) <= y
  <1>1. \E x \in S : \A y \in S : x <= y
    <2> SUFFICES ASSUME \A x \in S : \E y \in S : y < x PROVE FALSE
      OBVIOUS
    <2> DEFINE P == {n \in Nat : \A x \in S : n <= x}
    <2>1. 0 \in P
      OBVIOUS
    <2>2. ASSUME NEW n \in Nat, n \in P PROVE n + 1 \in P
      <3>1. n \notin S
        BY <2>2
      <3> QED BY <2>2, <3>1
    <2>3. \A n \in Nat : n \in P
      <3> HIDE DEF P
      <3> QED BY <2>1, <2>2, SetInduction
    <2>4. PICK x \in S : TRUE
      OBVIOUS
    <2>5. x + 1 \in P
      BY <2>3, <2>4
    <2> QED BY <2>4, <2>5
  <1> QED BY <1>1 DEF Min

LEMMA InsertedAt ==
  ASSUME NEW T, NEW q \in Seq(T), NEW x \in T, NEW p \in 1..(Len(q) + 1)
  PROVE  /\ InsertAt(q, p, x) \in Seq(T)
         /\ Len(InsertAt(q, p, x)) = Len(q) + 1
         /\ \A i \in 1..(Len(q) + 1) :
              InsertAt(q, p, x)[i] = IF i < p THEN q[i] ELSE IF i = p THEN x ELSE q[i - 1]
  <1> DEFINE a == SubSeq(q, 1, p - 1)
             b == SubSeq(q, p, Len(q))
             c == a \o <<x>>
  <1>1. Len(q) \in Nat /\ p \in Int /\ \A i \in 1..Len(q) : q[i] \in T
    OBVIOUS
  <1>2. a \in Seq(T) /\ Len(a) = p - 1 /\ \A i \in 1..(p - 1) : a[i] = q[i]
    BY <1>1, SubSeqProperties
  <1>3. b \in Seq(T) /\ Len(b) = Len(q) - p + 1 /\ \A i \in 1..(Len(q) - p + 1) : b[i] = q[p + i - 1]
    BY <1>1, SubSeqProperties
  <1> HIDE DEF a, b
  <1>4. /\ c \in Seq(T) /\ Len(c) = Len(a) + 1
        /\ \A i \in 1..(Len(a) + 1) : c[i] = IF i <= Len(a) THEN a[i] ELSE x
    BY <1>2
  <1> HIDE DEF c
  <1>5. /\ c \o b \in Seq(T) /\ Len(c \o b) = Len(c) + Len(b)
        /\ \A i \in 1..(Len(c) + Len(b)) : (c \o b)[i] = IF i <= Len(c) THEN c[i] ELSE b[i - Len(c)]
    <2>1. c \in Seq(T) /\ b \in Seq(T)
      BY <1>3, <1>4
    <2> QED BY <2>1, ConcatProperties
  <1>6. InsertAt(q, p, x) = c \o b
    BY DEF InsertAt, a, b, c
  <1>7. PICK r : r = c \o b
    OBVIOUS
  <1>8. Len(r) = Len(q) + 1
    BY <1>1, <1>2, <1>3, <1>4, <1>5, <1>7
  <1>9. ASSUME NEW i \in 1..(Len(q) + 1)
        PROVE  r[i] = IF i < p THEN q[i] ELSE IF i = p THEN x ELSE q[i - 1]
    <2>1. r[i] = IF i <= Len(c) THEN c[i] ELSE b[i - Len(c)]
      BY <1>1, <1>2, <1>3, <1>4, <1>5, <1>7
    <2>2. Len(c) = p
      BY <1>1, <1>2, <1>4
    <2>3. CASE i < p
      <3>1. i \in 1..(Len(a) + 1) /\ i <= Len(a) /\ i \in 1..(p - 1)
        BY <1>1, <1>2, <2>3
      <3> QED BY <1>1, <1>2, <1>4, <2>1, <2>2, <2>3, <3>1
    <2>4. CASE i = p
      <3>1. i \in 1..(Len(a) + 1) /\ ~(i <= Len(a))
        BY <1>1, <1>2, <2>4
      <3> QED BY <1>1, <1>4, <2>1, <2>2, <2>4, <3>1
    <2>5. CASE i > p
      <3>1. i - p \in 1..(Len(q) - p + 1) /\ p + (i - p) - 1 = i - 1
        BY <1>1, <2>5
      <3>2. b[i - p] = q[i - 1]
        BY <1>3, <3>1
      <3> QED BY <1>1, <2>1, <2>2, <2>5, <3>2
    <2> QED BY <1>1, <2>3, <2>4, <2>5
  <1> QED BY <1>5, <1>6, <1>7, <1>8, <1>9

LEMMA SearchAfterFinds ==
  ASSUME NEW T, NEW q \in Seq(T), \A x \in T : x.end \in Nat, NEW t \in Nat,
         \A i, j \in 1..Len(q) : i < j => q[i].end <= q[j].end
  PROVE  /\ SearchAfter(q, t) \in 1..(Len(q) + 1)
         /\ \A i \in 1..Len(q) : IF i < SearchAfter(q, t) THEN q[i].end <= t ELSE t <= q[i].end
  <1> DEFINE after == {i \in DOMAIN q : q[i].end > t}
  <1>1. /\ Len(q) \in Nat /\ DOMAIN q = 1..Len(q)
        /\ \A i \in 1..Len(q) : q[i].end \in Nat
    OBVIOUS
  <1>2. SearchAfter(q, t) = IF after = {} THEN Len(q) + 1 ELSE Min(after)
    BY DEF SearchAfter
  <1>3. after \in SUBSET Nat
    BY <1>1
  <1>4. CASE after = {}
    BY <1>1, <1>2, <1>4
  <1>5. CASE after # {}
    <2>1. PICK p : p = SearchAfter(q, t)
      OBVIOUS
    <2>2. p \in after /\ \A i \in after : p <= i
      <3> HIDE DEF after
      <3>1. p = Min(after)
        BY <1>2, <1>5, <2>1
      <3> QED BY <1>3, <1>5, <3>1, MinIsLeast
    <2>3. p \in 1..Len(q) /\ q[p].end > t
      BY <1>1, <2>2
    <2>4. ASSUME NEW i \in 1..Len(q) PROVE IF i < p THEN q[i].end <= t ELSE t <= q[i].end
      <3>1. CASE i < p
        BY <1>1, <2>2, <2>3, <3>1
      <3>2. CASE i = p
        BY <1>1, <2>3, <3>2
      <3>3. CASE p < i
        <4>1. q[p].end <= q[i].end
          BY <2>3, <3>3
        <4> QED BY <1>1, <2>3, <3>3, <4>1
      <3> QED BY <2>3, <3>1, <3>2, <3>3
    <2> QED BY <1>1, <2>1, <2>3, <2>4
  <1> QED BY <1>4, <1>5

(* An insertion keeps the list sorted. *)
LEMMA InsertKeeps ==
  ASSUME NEW T, NEW q \in Seq(T), \A x \in T : x.end \in Nat, NEW x \in T, ByEnd(q),
         \A o \in ToSet(q) : o.id # x.id
  PROVE  Insert(q, x) \in Seq(T) /\ ByEnd(Insert(q, x))
  <1>1. Len(q) \in Nat /\ x.end \in Nat /\ \A i \in 1..Len(q) : q[i] \in T /\ q[i].end \in Nat
    OBVIOUS
  <1>2. PICK p : p = SearchAfter(q, x.end)
    OBVIOUS
  <1>3. /\ p \in 1..(Len(q) + 1)
        /\ \A i \in 1..Len(q) : IF i < p THEN q[i].end <= x.end ELSE x.end <= q[i].end
    BY <1>1, <1>2, SearchAfterFinds DEF ByEnd
  <1>4. PICK r : r = Insert(q, x)
    OBVIOUS
  <1>5. /\ r \in Seq(T) /\ Len(r) = Len(q) + 1
        /\ \A i \in 1..(Len(q) + 1) : r[i] = IF i < p THEN q[i] ELSE IF i = p THEN x ELSE q[i - 1]
    <2>1. r = InsertAt(q, p, x)
      BY <1>2, <1>4 DEF Insert
    <2>2. p \in 1..(Len(q) + 1)
      BY <1>3
    <2>3. /\ InsertAt(q, p, x) \in Seq(T) /\ Len(InsertAt(q, p, x)) = Len(q) + 1
          /\ \A i \in 1..(Len(q) + 1) :
               InsertAt(q, p, x)[i] = IF i < p THEN q[i] ELSE IF i = p THEN x ELSE q[i - 1]
      BY <2>2, InsertedAt
    <2> QED BY <2>1, <2>3, Zenon
  <1>6. \A i \in 1..Len(q) : q[i].id # x.id
    BY DEF ToSet
  <1>7. ASSUME NEW i \in 1..(Len(q) + 1), NEW j \in 1..(Len(q) + 1), i < j
        PROVE  r[i].end <= r[j].end /\ r[i].id # r[j].id
    <2> USE <1>1, <1>3
    <2>1. CASE j < p
      <3>1. r[i] = q[i] /\ r[j] = q[j] /\ i \in 1..Len(q) /\ j \in 1..Len(q)
        BY <1>5, <1>7, <2>1
      <3> QED BY <1>7, <3>1 DEF ByEnd
    <2>2. CASE j = p
      <3>1. r[i] = q[i] /\ r[j] = x /\ i \in 1..Len(q)
        BY <1>5, <1>7, <2>2
      <3> QED BY <1>6, <1>7, <2>2, <3>1
    <2>3. CASE p < j /\ i < p
      <3>1. r[i] = q[i] /\ r[j] = q[j - 1] /\ i \in 1..Len(q) /\ j - 1 \in 1..Len(q) /\ i < j - 1
        BY <1>5, <1>7, <2>3
      <3> QED BY <3>1 DEF ByEnd
    <2>4. CASE p < j /\ i = p
      <3>1. r[i] = x /\ r[j] = q[j - 1] /\ j - 1 \in 1..Len(q) /\ ~(j - 1 < p)
        BY <1>5, <1>7, <2>4
      <3> QED BY <1>6, <3>1
    <2>5. CASE p < j /\ p < i
      <3>1. r[i] = q[i - 1] /\ r[j] = q[j - 1] /\ i - 1 \in 1..Len(q) /\ j - 1 \in 1..Len(q) /\ i - 1 < j - 1
        BY <1>5, <1>7, <2>5
      <3> QED BY <3>1 DEF ByEnd
    <2> QED BY <1>7, <2>1, <2>2, <2>3, <2>4, <2>5
  <1>8. ByEnd(r)
    BY <1>5, <1>7 DEF ByEnd
  <1> QED BY <1>4, <1>5, <1>8

LEMMA CollectorInvInit == CollectorInit => CollectorInv
  BY DEF CollectorInit, CollectorInv, ByEnd

LEMMA CollectorInvNext == CollectorInv /\ [CollectorNext]_collector => CollectorInv'
  <1> SUFFICES ASSUME CollectorInv, [CollectorNext]_collector PROVE CollectorInv'
    OBVIOUS
  <1>1. (\A w \in WriteRecord : w.end \in Nat) /\ \A r \in ReadRecord : r.end \in Nat
    BY RegularityAssumption DEF WriteRecord, ReadRecord, Time
  <1>2. ASSUME NEW w \in Write, NEW start \in Time, NEW end \in Time,
               ObserveCompletedWrite(w, start, end)
        PROVE  CollectorInv'
    <2>1. PICK x : x = [id |-> w, start |-> start, end |-> end]
      OBVIOUS
    <2>2. x \in WriteRecord /\ x.id = w
      BY <2>1 DEF WriteRecord
    <2>3. writes' = Insert(writes, x) /\ reads' = reads /\ \A o \in ToSet(writes) : o.id # x.id
      BY <1>2, <2>1, <2>2 DEF ObserveCompletedWrite
    <2>4. Insert(writes, x) \in Seq(WriteRecord) /\ ByEnd(Insert(writes, x))
      BY <1>1, <2>2, <2>3, InsertKeeps DEF CollectorInv
    <2> QED BY <2>3, <2>4 DEF CollectorInv
  <1>3. ASSUME NEW r \in Read, NEW start \in Time, NEW end \in Time, NEW objs \in SiblingLists,
               ObserveCompletedRead(r, start, end, objs)
        PROVE  CollectorInv'
    <2>1. PICK x : x = [id |-> r, start |-> start, end |-> end, objs |-> objs]
      OBVIOUS
    <2>2. x \in ReadRecord /\ x.id = r
      BY <2>1 DEF ReadRecord
    <2>3. reads' = Insert(reads, x) /\ writes' = writes /\ \A o \in ToSet(reads) : o.id # x.id
      BY <1>3, <2>1, <2>2 DEF ObserveCompletedRead
    <2>4. Insert(reads, x) \in Seq(ReadRecord) /\ ByEnd(Insert(reads, x))
      BY <1>1, <2>2, <2>3, InsertKeeps DEF CollectorInv
    <2> QED BY <2>3, <2>4 DEF CollectorInv
  <1>4. CASE UNCHANGED collector
    BY <1>4 DEF CollectorInv, collector
  <1> QED BY <1>2, <1>3, <1>4 DEF CollectorNext

LEMMA CollectorInvHolds == CollectorSpec => []CollectorInv
  BY CollectorInvInit, CollectorInvNext, PTL DEF CollectorSpec

(* The objects a read returns are siblings, at least one. *)
LEMMA ReturnedObjects ==
  ASSUME NEW objs \in SiblingLists
  PROVE  /\ DOMAIN objs \in SUBSET Nat /\ DOMAIN objs # {}
         /\ \A i \in DOMAIN objs : objs[i] \in Write
         /\ \A i, j \in DOMAIN objs : i # j =>
              Compare(Vc[objs[i]], Vc[objs[j]]) = "Concurrent"
  <1>1. PICK T \in (SUBSET Write) \ {{}} :
          /\ objs \in SetToSeqs(T)
          /\ \A v, w \in T : v # w => Compare(Vc[v], Vc[w]) = "Concurrent"
    BY DEF SiblingLists
  <1>2. IsFiniteSet(T)
    BY FS_Subset, RegularityAssumption
  <1>3. Cardinality(T) \in Nat /\ Cardinality(T) # 0
    BY <1>2, FS_CardinalityType, FS_EmptySet
  <1>4. /\ objs \in [1..Cardinality(T) -> T]
        /\ \A i, j \in 1..Cardinality(T) : i # j => objs[i] # objs[j]
    BY <1>1 DEF SetToSeqs
  <1> QED BY <1>1, <1>3, <1>4

(* IsConsistent (observer.go) may stop at the first object that is not     *)
(* concurrent with the write, because the objects of a read are siblings.  *)
LEMMA IsConsistentMeans ==
  ASSUME NEW vc \in VClocks, NEW objs \in SiblingLists
  PROVE  IsConsistent(vc, objs) <=> \E v \in ToSet(objs) : Leq(vc, Vc[v])
  <1> DEFINE cmp(i) == Compare(vc, Vc[objs[i]])
             decisive == {i \in DOMAIN objs : cmp(i) # "Concurrent"}
             p == Min(decisive)
  <1>1. \A i \in DOMAIN objs : Vc[objs[i]] \in VClocks
    BY ReturnedObjects, RegularityAssumption
  <1>2. ASSUME NEW i \in DOMAIN objs
        PROVE  /\ cmp(i) \in {"Before", "Equal"} <=> Leq(vc, Vc[objs[i]])
               /\ cmp(i) # "Concurrent" <=> Leq(vc, Vc[objs[i]]) \/ Leq(Vc[objs[i]], vc)
    <2>1. Vc[objs[i]] \in VClocks
      BY <1>1
    <2> QED BY <2>1, CompareDecidesOrder
  <1>3. IsConsistent(vc, objs) <=> decisive # {} /\ cmp(p) \in {"Before", "Equal"}
    BY DEF IsConsistent
  <1>4. ASSUME decisive # {} PROVE p \in decisive
    <2>1. decisive \in SUBSET Nat
      BY ReturnedObjects
    <2> HIDE DEF decisive
    <2> QED BY <1>4, <2>1, MinIsLeast
  <1>5. ASSUME IsConsistent(vc, objs) PROVE \E v \in ToSet(objs) : Leq(vc, Vc[v])
    <2>1. p \in DOMAIN objs /\ cmp(p) \in {"Before", "Equal"}
      BY <1>3, <1>4, <1>5
    <2> HIDE DEF p
    <2>2. Leq(vc, Vc[objs[p]]) /\ objs[p] \in ToSet(objs)
      BY <1>2, <2>1 DEF ToSet
    <2> QED BY <2>2
  <1>6. ASSUME NEW i \in DOMAIN objs, Leq(vc, Vc[objs[i]]) PROVE IsConsistent(vc, objs)
    <2>1. i \in decisive
      BY <1>2, <1>6
    <2>2. p \in decisive
      BY <1>4, <2>1
    <2> HIDE DEF p
    <2>3. p \in DOMAIN objs /\ cmp(p) # "Concurrent"
      BY <2>2
    <2>4. Leq(vc, Vc[objs[p]])
      <3> SUFFICES ASSUME ~Leq(vc, Vc[objs[p]]) PROVE FALSE
        OBVIOUS
      <3>1. Leq(Vc[objs[p]], vc)
        BY <1>2, <2>3
      <3>2. Vc[objs[p]] \in VClocks /\ Vc[objs[i]] \in VClocks
        BY <1>1, <2>3
      <3>3. Leq(Vc[objs[p]], Vc[objs[i]])
        BY <1>6, <3>1, <3>2, LeqTransitive
      <3>4. p # i
        BY <1>6
      <3>5. Compare(Vc[objs[p]], Vc[objs[i]]) = "Concurrent"
        BY <2>3, <3>4, ReturnedObjects
      <3> QED BY <3>2, <3>3, <3>5, CompareDecidesOrder
    <2>5. cmp(p) \in {"Before", "Equal"}
      BY <1>2, <2>3, <2>4
    <2> QED BY <1>3, <2>1, <2>5 DEF p
  <1>7. ASSUME NEW v \in ToSet(objs), Leq(vc, Vc[v]) PROVE IsConsistent(vc, objs)
    <2>1. PICK i \in DOMAIN objs : v = objs[i]
      BY DEF ToSet
    <2> QED BY <1>6, <1>7, <2>1
  <1> QED BY <1>5, <1>7

-----------------------------------------------------------------------------
(* isDeltaRegular: what latestWriteBeforeDelta is after the loop. *)

NoneYet == [end |-> 0, vc |-> NewVClock]
Committed(w) == [end |-> w.end, vc |-> Vc[w.id]]
Best == [end : Nat, vc : VClocks]

LatestBy(f, r, ws, delta) ==
  f = [i \in 0..Len(ws) |->
         IF i = 0 THEN NoneYet
         ELSE IF BeforeDelta(r, ws[i], delta) /\ ws[i].end > f[i - 1].end
         THEN Committed(ws[i]) ELSE f[i - 1]]

LEMMA WriteRecords ==
  ASSUME NEW w \in WriteRecord
  PROVE  /\ w.start \in Nat \ {0} /\ w.end \in Nat \ {0} /\ w.id \in Write
         /\ Vc[w.id] \in VClocks /\ Committed(w) \in Best
  BY RegularityAssumption DEF WriteRecord, Time, Committed, Best

LEMMA LatestDef ==
  ASSUME NEW r, NEW ws \in Seq(WriteRecord), NEW delta
  PROVE  \E f : LatestBy(f, r, ws, delta) /\ LatestBefore(r, ws, delta) = f[Len(ws)]
  <1> DEFINE N == Len(ws)
             D == [i \in 1..N |-> [l \in Best |->
                     IF BeforeDelta(r, ws[i], delta) /\ ws[i].end > l.end
                     THEN Committed(ws[i]) ELSE l]]
  <1>1. N \in Nat /\ \A i \in 1..N : ws[i] \in WriteRecord
    OBVIOUS
  <1>2. Steps(D, N, Best)
    <2>1. \A i \in 1..N : Committed(ws[i]) \in Best
      BY <1>1, WriteRecords
    <2> QED BY <2>1 DEF Steps
  <1>3. NoneYet \in Best
    BY DEF NoneYet, Best, VClocks, NewVClock
  <1>4. PICK f : Follows(f, NoneYet, D, N, Best)
    <2> HIDE DEF N, D
    <2> QED BY <1>1, <1>2, <1>3, Recursion
  <1>5. LatestBy(f, r, ws, delta)
    <2>1. f = [i \in 0..N |-> f[i]]
      BY <1>4 DEF Follows
    <2>2. ASSUME NEW i \in 0..N
          PROVE  f[i] = IF i = 0 THEN NoneYet
                        ELSE IF BeforeDelta(r, ws[i], delta) /\ ws[i].end > f[i - 1].end
                        THEN Committed(ws[i]) ELSE f[i - 1]
      <3>1. CASE i = 0
        BY <3>1, <1>4 DEF Follows
      <3>2. CASE i # 0
        <4>1. i \in 1..N /\ i - 1 \in 0..N
          BY <3>2, <1>1
        <4>2. f[i] = D[i][f[i - 1]] /\ f[i - 1] \in Best
          BY <4>1, <1>4 DEF Follows
        <4> QED BY <3>2, <4>1, <4>2
      <3> QED BY <3>1, <3>2
    <2> QED BY <2>1, <2>2 DEF LatestBy
  <1>6. LatestBy(CHOOSE g : LatestBy(g, r, ws, delta), r, ws, delta)
    BY <1>5
  <1>7. LatestBefore(r, ws, delta) = (CHOOSE g : LatestBy(g, r, ws, delta))[Len(ws)]
    BY DEF LatestBefore, LatestBy, NoneYet, Committed
  <1> QED BY <1>6, <1>7

(* The p-th of the first n writes is the last one before the cutoff, and   *)
(* the first in the list of those committed at that instant.               *)
IsLast(r, ws, delta, n, p) ==
  /\ BeforeDelta(r, ws[p], delta)
  /\ \A j \in 1..n : BeforeDelta(r, ws[j], delta) =>
       ws[j].end <= ws[p].end /\ (j < p => ws[j].end < ws[p].end)

LatestIs(l, r, ws, delta, n) ==
  \/ l = NoneYet /\ \A j \in 1..n : ~BeforeDelta(r, ws[j], delta)
  \/ \E p \in 1..n : l = Committed(ws[p]) /\ IsLast(r, ws, delta, n, p)

LEMMA LatestFound ==
  ASSUME NEW r, NEW ws \in Seq(WriteRecord), NEW delta
  PROVE  LatestIs(LatestBefore(r, ws, delta), r, ws, delta, Len(ws))
  <1> DEFINE N == Len(ws)
             before(i) == BeforeDelta(r, ws[i], delta)
  <1>1. PICK f : LatestBy(f, r, ws, delta) /\ LatestBefore(r, ws, delta) = f[N]
    BY LatestDef
  <1>2. N \in Nat /\ \A i \in 1..N : ws[i] \in WriteRecord
    OBVIOUS
  <1>3. \A i \in 1..N : ws[i].end \in Nat \ {0}
    BY <1>2, WriteRecords
  <1>4. /\ f[0] = NoneYet
        /\ \A i \in 1..N : f[i] = IF before(i) /\ ws[i].end > f[i - 1].end
                                  THEN Committed(ws[i]) ELSE f[i - 1]
    BY <1>1, <1>2 DEF LatestBy
  <1> HIDE DEF before
  <1>5. NoneYet.end = 0 /\ \A i \in 1..N : Committed(ws[i]).end = ws[i].end
    BY DEF NoneYet, Committed
  <1> DEFINE P == {i \in 0..N : LatestIs(f[i], r, ws, delta, i)}
  <1>6. 0 \in P
    <2>1. \A j \in 1..0 : ~BeforeDelta(r, ws[j], delta)
      OBVIOUS
    <2> QED BY <1>2, <1>4, <2>1 DEF LatestIs
  <1>7. ASSUME NEW i \in 1..N, i - 1 \in P PROVE i \in P
    <2>1. i - 1 \in 0..N /\ i \in 0..N /\ \A j \in 1..i : j \in 1..N /\ (j = i \/ j \in 1..(i - 1))
      BY <1>2
    <2>2. LatestIs(f[i - 1], r, ws, delta, i - 1)
      BY <1>7
    <2>3. /\ f[i] = IF before(i) /\ ws[i].end > f[i - 1].end THEN Committed(ws[i]) ELSE f[i - 1]
          /\ ws[i].end \in Nat \ {0} /\ \A j \in 1..i : ws[j].end \in Nat \ {0}
      BY <1>3, <1>4, <2>1
    <2>4. CASE f[i - 1] = NoneYet /\ \A j \in 1..(i - 1) : ~before(j)
      <3>1. CASE before(i)
        <4>1. f[i] = Committed(ws[i])
          BY <1>5, <2>3, <2>4, <3>1
        <4>2. \A j \in 1..i : before(j) => ws[j].end <= ws[i].end /\ (j < i => ws[j].end < ws[i].end)
          BY <2>1, <2>3, <2>4, <3>1
        <4>3. IsLast(r, ws, delta, i, i)
          BY <3>1, <4>2 DEF IsLast, before
        <4>4. i \in 1..i
          OBVIOUS
        <4>5. LatestIs(f[i], r, ws, delta, i)
          BY <4>1, <4>3, <4>4 DEF LatestIs
        <4> QED BY <2>1, <4>5
      <3>2. CASE ~before(i)
        <4>1. f[i] = NoneYet /\ \A j \in 1..i : ~before(j)
          BY <2>1, <2>3, <2>4, <3>2
        <4>2. LatestIs(f[i], r, ws, delta, i)
          BY <4>1 DEF LatestIs, before
        <4> QED BY <2>1, <4>2
      <3> QED BY <3>1, <3>2
    <2>5. ASSUME NEW p \in 1..(i - 1), f[i - 1] = Committed(ws[p]), IsLast(r, ws, delta, i - 1, p)
          PROVE  i \in P
      <3>1. p \in 1..i /\ p \in 1..N /\ i \in 1..i /\ p < i
        BY <1>2
      <3>2. f[i - 1].end = ws[p].end /\ ws[p].end \in Nat
        BY <1>5, <2>3, <2>5, <3>1
      <3>3. /\ before(p)
            /\ \A j \in 1..(i - 1) : before(j) =>
                 ws[j].end <= ws[p].end /\ (j < p => ws[j].end < ws[p].end)
        BY <2>5 DEF IsLast, before
      <3>4. CASE before(i) /\ ws[i].end > ws[p].end
        <4>1. f[i] = Committed(ws[i])
          BY <2>3, <3>2, <3>4
        <4>2. ASSUME NEW j \in 1..i, before(j)
              PROVE  ws[j].end <= ws[i].end /\ (j < i => ws[j].end < ws[i].end)
          <5>1. CASE j = i
            BY <2>3, <5>1
          <5>2. CASE j \in 1..(i - 1)
            <6>1. ws[j].end <= ws[p].end
              BY <3>3, <4>2, <5>2
            <6> QED BY <2>3, <3>2, <3>4, <6>1
          <5> QED BY <2>1, <5>1, <5>2
        <4>3. IsLast(r, ws, delta, i, i)
          BY <3>4, <4>2 DEF IsLast, before
        <4>4. LatestIs(f[i], r, ws, delta, i)
          BY <3>1, <4>1, <4>3 DEF LatestIs
        <4> QED BY <2>1, <4>4
      <3>5. CASE ~(before(i) /\ ws[i].end > ws[p].end)
        <4>1. f[i] = Committed(ws[p])
          BY <2>3, <2>5, <3>2, <3>5
        <4>2. ASSUME NEW j \in 1..i, before(j)
              PROVE  ws[j].end <= ws[p].end /\ (j < p => ws[j].end < ws[p].end)
          <5>1. CASE j = i
            BY <2>3, <3>1, <3>2, <3>5, <4>2, <5>1
          <5>2. CASE j \in 1..(i - 1)
            BY <3>3, <4>2, <5>2
          <5> QED BY <2>1, <5>1, <5>2
        <4>3. IsLast(r, ws, delta, i, p)
          BY <3>3, <4>2 DEF IsLast, before
        <4>4. LatestIs(f[i], r, ws, delta, i)
          BY <3>1, <4>1, <4>3 DEF LatestIs
        <4> QED BY <2>1, <4>4
      <3> QED BY <3>4, <3>5
    <2> QED BY <2>2, <2>4, <2>5 DEF LatestIs, before
  <1>8. \A i \in 0..N : i \in P
    <2> HIDE DEF P, N
    <2> QED BY <1>2, <1>6, <1>7, BoundedInduction
  <1>9. N \in 0..N
    BY <1>2
  <1> QED BY <1>1, <1>8, <1>9

-----------------------------------------------------------------------------
(* What the two tests compare: the versions themselves. *)
LEMMA ConsistentWrite ==
  ASSUME NEW r \in ReadRecord, NEW w \in WriteRecord
  PROVE  IsConsistent(Vc[w.id], r.objs) <=> AsNew(r, w)
  <1>1. r.objs \in SiblingLists
    BY DEF ReadRecord
  <1> QED BY <1>1, WriteRecords, IsConsistentMeans DEF AsNew

LEMMA ConsistentInitial == ASSUME NEW r \in ReadRecord PROVE IsConsistent(NoneYet.vc, r.objs)
  <1>1. r.objs \in SiblingLists
    BY DEF ReadRecord
  <1>2. PICK i \in DOMAIN r.objs : r.objs[i] \in Write
    BY <1>1, ReturnedObjects
  <1>3. Vc[r.objs[i]] \in VClocks /\ NoneYet.vc = NewVClock /\ NewVClock \in VClocks
    BY <1>2, RegularityAssumption DEF NoneYet, VClocks, NewVClock
  <1>4. Leq(NewVClock, Vc[r.objs[i]])
    <2>1. PICK v \in VClocks : v = Vc[r.objs[i]]
      BY <1>3
    <2>2. ASSUME NEW n \in Name PROVE NewVClock[n] <= v[n]
      <3>1. NewVClock[n] = 0
        BY DEF NewVClock
      <3>2. v[n] \in Nat
        BY DEF VClocks
      <3>3. 0 <= v[n]
        BY <3>2
      <3> QED BY <3>1, <3>3
    <2>3. Leq(NewVClock, v)
      BY <2>2 DEF Leq
    <2> QED BY <2>1, <2>3
  <1>5. r.objs[i] \in ToSet(r.objs)
    BY <1>2 DEF ToSet
  <1> QED BY <1>1, <1>3, <1>4, <1>5, IsConsistentMeans

LEMMA DeltaRegularIs ==
  ASSUME NEW r \in ReadRecord, NEW ws \in Seq(WriteRecord), NEW delta \in Nat
  PROVE  IsDeltaRegular(r, ws, delta) <=>
           \/ \E i \in 1..Len(ws) : Recent(r, ws[i], delta) /\ AsNew(r, ws[i])
           \/ \A i \in 1..Len(ws) : ~BeforeDelta(r, ws[i], delta)
           \/ \E p \in 1..Len(ws) : IsLast(r, ws, delta, Len(ws), p) /\ AsNew(r, ws[p])
  <1>1. \A i \in 1..Len(ws) : ws[i] \in WriteRecord
    OBVIOUS
  <1>2. \A i \in 1..Len(ws) : IsConsistent(Vc[ws[i].id], r.objs) <=> AsNew(r, ws[i])
    BY <1>1, ConsistentWrite
  <1>3. PICK l : l = LatestBefore(r, ws, delta)
    OBVIOUS
  <1>4. IsDeltaRegular(r, ws, delta) <=>
          \/ \E i \in 1..Len(ws) : Recent(r, ws[i], delta) /\ AsNew(r, ws[i])
          \/ IsConsistent(l.vc, r.objs)
    BY <1>2, <1>3 DEF IsDeltaRegular, ToSet
  <1>5. LatestIs(l, r, ws, delta, Len(ws))
    BY <1>3, LatestFound
  <1>6. CASE l = NoneYet /\ \A j \in 1..Len(ws) : ~BeforeDelta(r, ws[j], delta)
    BY <1>4, <1>6, ConsistentInitial
  <1>7. ASSUME NEW p \in 1..Len(ws), l = Committed(ws[p]), IsLast(r, ws, delta, Len(ws), p)
        PROVE  IsConsistent(l.vc, r.objs) <=>
                 \/ \A i \in 1..Len(ws) : ~BeforeDelta(r, ws[i], delta)
                 \/ \E q \in 1..Len(ws) : IsLast(r, ws, delta, Len(ws), q) /\ AsNew(r, ws[q])
    <2>1. l.vc = Vc[ws[p].id]
      BY <1>7 DEF Committed
    <2>2. IsConsistent(l.vc, r.objs) <=> AsNew(r, ws[p])
      BY <1>2, <2>1
    <2>3. BeforeDelta(r, ws[p], delta)
      BY <1>7 DEF IsLast
    <2>4. ASSUME NEW q \in 1..Len(ws), IsLast(r, ws, delta, Len(ws), q) PROVE q = p
      <3>1. ws[p].end \in Nat /\ ws[q].end \in Nat
        BY <1>1, WriteRecords
      <3>2. BeforeDelta(r, ws[q], delta)
        BY <2>4 DEF IsLast
      <3>3. ws[p].end <= ws[q].end /\ (p < q => ws[p].end < ws[q].end)
        BY <2>3, <2>4 DEF IsLast
      <3>4. ws[q].end <= ws[p].end /\ (q < p => ws[q].end < ws[p].end)
        BY <1>7, <3>2 DEF IsLast
      <3> QED BY <3>1, <3>3, <3>4
    <2> QED BY <1>7, <2>2, <2>3, <2>4
  <1> QED BY <1>4, <1>5, <1>6, <1>7 DEF LatestIs

LEMMA DeltaExact == CollectorInv => DeltaRegularExact
  <1> SUFFICES ASSUME CollectorInv, NEW r \in ToSet(reads), NEW delta \in 0..MaxTime
               PROVE  LET regular == IsDeltaRegular(r, writes, delta)
                          free == \A w \in ToSet(writes) : w.end >= r.start - delta
                          fresh(strict) ==
                            \E w \in ToSet(writes) : DeltaAllowed(r, w, delta, strict) /\ AsNew(r, w)
                      IN  /\ regular => free \/ fresh(TRUE)
                          /\ free \/ fresh(FALSE) => regular
    BY DEF DeltaRegularExact
  <1> DEFINE N == Len(writes)
             free == \A w \in ToSet(writes) : w.end >= r.start - delta
             fresh(strict) ==
               \E w \in ToSet(writes) : DeltaAllowed(r, w, delta, strict) /\ AsNew(r, w)
             recent == \E i \in 1..N : Recent(r, writes[i], delta) /\ AsNew(r, writes[i])
             none == \A i \in 1..N : ~BeforeDelta(r, writes[i], delta)
             last == \E p \in 1..N : IsLast(r, writes, delta, N, p) /\ AsNew(r, writes[p])
  <1>1. r \in ReadRecord /\ writes \in Seq(WriteRecord) /\ delta \in Nat
    BY RegularityAssumption DEF CollectorInv, ToSet
  <1>2. r.start \in Nat /\ r.end \in Nat
    BY <1>1, RegularityAssumption DEF ReadRecord, Time
  <1>3. \A w \in ToSet(writes) : w.start \in Nat /\ w.end \in Nat
    BY <1>1, WriteRecords DEF ToSet
  <1>4. IsDeltaRegular(r, writes, delta) <=> recent \/ none \/ last
    BY <1>1, DeltaRegularIs
  <1>5. \A w : w \in ToSet(writes) <=> \E i \in 1..N : w = writes[i]
    BY <1>1 DEF ToSet
  <1>6. none <=> free
    BY <1>1, <1>2, <1>3, <1>5 DEF BeforeDelta
  <1>7. recent => fresh(TRUE)
    <2> SUFFICES ASSUME NEW i \in 1..N, Recent(r, writes[i], delta), AsNew(r, writes[i])
                 PROVE  fresh(TRUE)
      OBVIOUS
    <2>1. PICK w \in ToSet(writes) : w = writes[i]
      BY <1>5
    <2>2. Started(r, w)
      BY <1>2, <1>3, <2>1 DEF Recent, Started, Overlaps
    <2>3. w.end >= r.start - delta
      BY <1>1, <1>2, <1>3, <2>1 DEF Recent, Overlaps, BeforeDelta
    <2>4. \A v \in Later(w, TRUE) : v.end >= r.start - delta
      BY <1>1, <1>2, <1>3, <2>3 DEF Later
    <2> QED BY <2>1, <2>2, <2>4 DEF DeltaAllowed
  <1>8. last => fresh(TRUE)
    <2> SUFFICES ASSUME NEW p \in 1..N, IsLast(r, writes, delta, N, p), AsNew(r, writes[p])
                 PROVE  fresh(TRUE)
      OBVIOUS
    <2>1. PICK w \in ToSet(writes) : w = writes[p]
      BY <1>5
    <2>2. w.end < r.start - delta
      BY <2>1 DEF IsLast, BeforeDelta
    <2>3. Started(r, w)
      BY <1>1, <1>2, <1>3, <2>2 DEF Started
    <2>4. ASSUME NEW v \in Later(w, TRUE) PROVE v.end >= r.start - delta
      <3>1. v \in ToSet(writes) /\ v.end > w.end
        BY DEF Later
      <3>2. PICK j \in 1..N : v = writes[j]
        BY <1>5, <3>1
      <3>3. BeforeDelta(r, v, delta) => v.end <= w.end
        BY <2>1, <3>2 DEF IsLast
      <3> QED BY <1>1, <1>2, <1>3, <3>1, <3>3 DEF BeforeDelta
    <2> QED BY <2>1, <2>3, <2>4 DEF DeltaAllowed
  <1>9. fresh(FALSE) => recent \/ last
    <2> SUFFICES ASSUME NEW w \in ToSet(writes), DeltaAllowed(r, w, delta, FALSE), AsNew(r, w)
                 PROVE  recent \/ last
      OBVIOUS
    <2>1. PICK i \in 1..N : w = writes[i]
      BY <1>5
    <2>2. Started(r, w) /\ \A v \in Later(w, FALSE) : v.end >= r.start - delta
      BY DEF DeltaAllowed
    <2>3. CASE w.end >= r.start - delta
      <3>1. Recent(r, w, delta)
        BY <1>1, <1>2, <1>3, <2>2, <2>3 DEF Recent, Started, Overlaps, BeforeDelta
      <3> QED BY <2>1, <3>1
    <2>4. CASE w.end < r.start - delta
      <3>1. ASSUME NEW j \in 1..N, BeforeDelta(r, writes[j], delta), j # i
            PROVE  writes[j].end < w.end
        <4>1. PICK v \in ToSet(writes) : v = writes[j]
          BY <1>5
        <4>2. v.end < r.start - delta
          BY <3>1, <4>1 DEF BeforeDelta
        <4>3. v # w
          BY <2>1, <3>1, <4>1, <1>1 DEF CollectorInv, ByEnd
        <4>4. v \notin Later(w, FALSE)
          <5> SUFFICES ASSUME v \in Later(w, FALSE) PROVE FALSE
            OBVIOUS
          <5>1. v.end >= r.start - delta
            BY <2>2
          <5> QED BY <1>1, <1>2, <1>3, <4>2, <5>1
        <4>5. ~(v.end >= w.end)
          BY <4>3, <4>4 DEF Later
        <4> QED BY <1>3, <4>1, <4>5
      <3>2. \A j \in 1..N : BeforeDelta(r, writes[j], delta) =>
              writes[j].end <= writes[i].end /\ (j < i => writes[j].end < writes[i].end)
        <4>1. \A j \in 1..N : writes[j].end \in Nat
          BY <1>3, <1>5
        <4> QED BY <2>1, <3>1, <4>1
      <3>3. IsLast(r, writes, delta, N, i)
        BY <2>1, <2>4, <3>2 DEF IsLast, BeforeDelta
      <3> QED BY <2>1, <3>3
    <2> QED BY <1>1, <1>2, <1>3, <2>3, <2>4
  <1> QED BY <1>4, <1>6, <1>7, <1>8, <1>9

(* A read that passes for a delta passes for every longer one. *)
LEMMA DeltaRegularGrows ==
  ASSUME NEW r \in ReadRecord, NEW ws \in Seq(WriteRecord),
         NEW d \in Nat, NEW delta \in Nat, d <= delta, IsDeltaRegular(r, ws, d)
  PROVE  IsDeltaRegular(r, ws, delta)
  <1> DEFINE N == Len(ws)
  <1>1. r.start \in Nat /\ r.end \in Nat
    BY RegularityAssumption DEF ReadRecord, Time
  <1>2. \A i \in 1..N : ws[i].start \in Nat /\ ws[i].end \in Nat
    BY WriteRecords
  <1>3. \A i \in 1..N : BeforeDelta(r, ws[i], delta) => BeforeDelta(r, ws[i], d)
    BY <1>1, <1>2 DEF BeforeDelta
  <1>4. CASE \E i \in 1..N : Recent(r, ws[i], d) /\ AsNew(r, ws[i])
    <2>1. \E i \in 1..N : Recent(r, ws[i], delta) /\ AsNew(r, ws[i])
      BY <1>3, <1>4 DEF Recent
    <2> QED BY <2>1, DeltaRegularIs
  <1>5. CASE \A i \in 1..N : ~BeforeDelta(r, ws[i], d)
    <2>1. \A i \in 1..N : ~BeforeDelta(r, ws[i], delta)
      BY <1>3, <1>5
    <2> QED BY <2>1, DeltaRegularIs
  <1>6. ASSUME NEW p \in 1..N, IsLast(r, ws, d, N, p), AsNew(r, ws[p])
        PROVE  IsDeltaRegular(r, ws, delta)
    <2>1. CASE BeforeDelta(r, ws[p], delta)
      <3>1. IsLast(r, ws, delta, N, p)
        BY <1>3, <1>6, <2>1 DEF IsLast
      <3> QED BY <1>6, <3>1, DeltaRegularIs
    <2>2. CASE ~BeforeDelta(r, ws[p], delta)
      <3>1. ws[p].end < r.start - d
        BY <1>6 DEF IsLast, BeforeDelta
      <3>2. Recent(r, ws[p], delta)
        BY <1>1, <1>2, <2>2, <3>1 DEF Recent
      <3> QED BY <1>6, <3>2, DeltaRegularIs
    <2> QED BY <2>1, <2>2
  <1>7. \/ \E i \in 1..N : Recent(r, ws[i], d) /\ AsNew(r, ws[i])
        \/ \A i \in 1..N : ~BeforeDelta(r, ws[i], d)
        \/ \E p \in 1..N : IsLast(r, ws, d, N, p) /\ AsNew(r, ws[p])
    BY DeltaRegularIs
  <1> QED BY <1>4, <1>5, <1>6, <1>7

-----------------------------------------------------------------------------
(* isKRegular: what kCandidate is after the loop. *)

KeptBy(f, r, ws, k) ==
  f = [i \in 0..Len(ws) |-> IF i = 0 THEN <<>> ELSE Keep(f[i - 1], r, ws[i], k)]

LEMMA KeepType ==
  ASSUME NEW c \in Seq(WriteRecord), NEW r, NEW w \in WriteRecord, NEW k
  PROVE  Keep(c, r, w, k) \in Seq(WriteRecord)
  <1>1. ASSUME NEW s PROVE [c EXCEPT ![s] = w] \in Seq(WriteRecord)
    <2>1. PICK n \in Nat : c \in [1..n -> WriteRecord]
      BY SeqDef
    <2>2. [c EXCEPT ![s] = w] \in [1..n -> WriteRecord]
      BY <2>1
    <2> QED BY <2>2, SeqDef
  <1>2. Append(c, w) \in Seq(WriteRecord)
    OBVIOUS
  <1> QED BY <1>1, <1>2 DEF Keep

LEMMA KeptDef ==
  ASSUME NEW r, NEW ws \in Seq(WriteRecord), NEW k
  PROVE  \E f : KeptBy(f, r, ws, k) /\ Candidates(r, ws, k) = f[Len(ws)]
  <1> DEFINE N == Len(ws)
             S == Seq(WriteRecord)
             D == [i \in 1..N |-> [c \in S |-> Keep(c, r, ws[i], k)]]
  <1>1. N \in Nat /\ \A i \in 1..N : ws[i] \in WriteRecord
    OBVIOUS
  <1>2. Steps(D, N, S)
    BY <1>1, KeepType DEF Steps
  <1>3. <<>> \in S
    OBVIOUS
  <1>4. PICK f : Follows(f, <<>>, D, N, S)
    <2> HIDE DEF N, D, S
    <2> QED BY <1>1, <1>2, <1>3, Recursion
  <1>5. KeptBy(f, r, ws, k)
    <2>1. f = [i \in 0..N |-> f[i]]
      BY <1>4 DEF Follows
    <2>2. ASSUME NEW i \in 0..N
          PROVE  f[i] = IF i = 0 THEN <<>> ELSE Keep(f[i - 1], r, ws[i], k)
      <3>1. CASE i = 0
        BY <3>1, <1>4 DEF Follows
      <3>2. CASE i # 0
        <4>1. i \in 1..N /\ i - 1 \in 0..N
          BY <3>2, <1>1
        <4>2. f[i] = D[i][f[i - 1]] /\ f[i - 1] \in S
          BY <4>1, <1>4 DEF Follows
        <4> HIDE DEF S
        <4> QED BY <3>2, <4>1, <4>2
      <3> QED BY <3>1, <3>2
    <2> QED BY <2>1, <2>2 DEF KeptBy
  <1>6. KeptBy(CHOOSE g : KeptBy(g, r, ws, k), r, ws, k)
    BY <1>5
  <1>7. Candidates(r, ws, k) = (CHOOSE g : KeptBy(g, r, ws, k))[Len(ws)]
    BY DEF Candidates, KeptBy
  <1> QED BY <1>6, <1>7

LEMMA StalestIs ==
  ASSUME NEW c \in Seq(WriteRecord), Len(c) > 0
  PROVE  Stalest(c) \in 1..Len(c) /\ \A j \in 1..Len(c) : c[Stalest(c)].end <= c[j].end
  <1> DEFINE ends == {c[i].end : i \in 1..Len(c)}
             stale == {i \in DOMAIN c : \A j \in DOMAIN c : c[i].end <= c[j].end}
  <1>1. Len(c) \in Nat /\ DOMAIN c = 1..Len(c) /\ \A i \in 1..Len(c) : c[i].end \in Nat
    BY WriteRecords
  <1>2. ends \in SUBSET Nat /\ ends # {}
    BY <1>1
  <1>3. PICK m \in ends : \A e \in ends : m <= e
    <2> HIDE DEF ends
    <2> QED BY <1>2, MinIsLeast
  <1>4. stale \in SUBSET Nat /\ stale # {}
    <2>1. PICK i \in 1..Len(c) : m = c[i].end
      BY <1>3
    <2>2. \A j \in DOMAIN c : c[i].end <= c[j].end
      BY <1>1, <1>3, <2>1
    <2> QED BY <1>1, <2>1, <2>2
  <1>5. Stalest(c) \in stale
    <2>1. Stalest(c) = Min(stale)
      BY DEF Stalest
    <2> HIDE DEF stale
    <2> QED BY <1>4, <2>1, MinIsLeast
  <1> QED BY <1>1, <1>5

(* The candidates among the first n writes: k at most, committed before    *)
(* the read, none twice; and what was left out is as old as each of them.  *)
CandidatesAre(c, r, ws, k, n) ==
  /\ c \in Seq(WriteRecord) /\ Len(c) <= k
  /\ \A a, b \in 1..Len(c) : c[a] = c[b] => a = b
  /\ \A a \in 1..Len(c) : c[a].end <= r.start /\ \E j \in 1..n : c[a] = ws[j]
  /\ \A j \in 1..n : ws[j].end <= r.start =>
       \/ \E a \in 1..Len(c) : c[a] = ws[j]
       \/ Len(c) = k /\ \A a \in 1..Len(c) : ws[j].end <= c[a].end

LEMMA KeepKeeps ==
  ASSUME NEW r \in ReadRecord, NEW ws \in Seq(WriteRecord), ByEnd(ws), NEW k \in Nat \ {0},
         NEW i \in 1..Len(ws), NEW c, CandidatesAre(c, r, ws, k, i - 1)
  PROVE  CandidatesAre(Keep(c, r, ws[i], k), r, ws, k, i)
  <1>1. PICK w \in WriteRecord : w = ws[i]
    OBVIOUS
  <1>2. c \in Seq(WriteRecord) /\ Len(c) \in Nat /\ Len(c) <= k
    BY DEF CandidatesAre
  <1>3. \A a, b \in 1..Len(c) : c[a] = c[b] => a = b
    BY DEF CandidatesAre
  <1>4. \A a \in 1..Len(c) : c[a].end <= r.start /\ \E j \in 1..(i - 1) : c[a] = ws[j]
    BY DEF CandidatesAre
  <1>5. \A j \in 1..(i - 1) : ws[j].end <= r.start =>
          \/ \E a \in 1..Len(c) : c[a] = ws[j]
          \/ Len(c) = k /\ \A a \in 1..Len(c) : ws[j].end <= c[a].end
    BY DEF CandidatesAre
  <1>6. /\ r.start \in Nat /\ w.end \in Nat
        /\ \A a \in 1..Len(c) : c[a].end \in Nat
        /\ \A j \in 1..i : ws[j].end \in Nat
    <2>1. r.start \in Nat
      BY RegularityAssumption DEF ReadRecord, Time
    <2>2. \A a \in 1..Len(c) : c[a] \in WriteRecord
      BY <1>2
    <2>3. \A j \in 1..i : ws[j] \in WriteRecord
      OBVIOUS
    <2> QED BY <2>1, <2>2, <2>3, <1>1, WriteRecords
  <1>7. \A j \in 1..(i - 1) : j \in 1..i /\ ws[j].end <= w.end /\ ws[j].id # w.id
    <2>1. \A j \in 1..(i - 1) : j \in 1..Len(ws) /\ j \in 1..i /\ j < i
      OBVIOUS
    <2> QED BY <1>1, <2>1 DEF ByEnd
  <1>8. \A j \in 1..i : j = i \/ j \in 1..(i - 1)
    OBVIOUS
  <1>9. \A a \in 1..Len(c) : c[a] # w /\ c[a].end <= w.end /\ \E j \in 1..i : c[a] = ws[j]
    BY <1>4, <1>7
  <1>10. PICK d : d = Keep(c, r, w, k)
    OBVIOUS
  <1>11. Overlaps(r, w) => w.end > r.start
    BY DEF Overlaps
  <1>12. CASE w.end > r.start
    <2>1. d = c
      BY <1>10, <1>12 DEF Keep
    <2>2. \A j \in 1..i : ws[j].end <= r.start => j \in 1..(i - 1)
      BY <1>1, <1>6, <1>8, <1>12
    <2>3. \A j \in 1..i : ws[j].end <= r.start =>
            \/ \E a \in 1..Len(c) : c[a] = ws[j]
            \/ Len(c) = k /\ \A a \in 1..Len(c) : ws[j].end <= c[a].end
      BY <1>5, <2>2
    <2>4. \A a \in 1..Len(c) : c[a].end <= r.start /\ \E j \in 1..i : c[a] = ws[j]
      BY <1>4, <1>9
    <2>5. CandidatesAre(c, r, ws, k, i)
      BY <1>2, <1>3, <2>3, <2>4 DEF CandidatesAre
    <2> QED BY <1>1, <1>10, <2>1, <2>5
  <1>13. CASE w.end <= r.start /\ Len(c) < k
    <2>1. d = Append(c, w)
      BY <1>6, <1>10, <1>11, <1>13 DEF Keep
    <2>2. /\ d \in Seq(WriteRecord) /\ Len(d) = Len(c) + 1
          /\ \A a \in 1..Len(c) : d[a] = c[a]
          /\ d[Len(c) + 1] = w
      BY <1>2, <2>1
    <2>3. \A a \in 1..Len(d) : a = Len(c) + 1 \/ a \in 1..Len(c)
      BY <1>2, <2>2
    <2>4. Len(d) <= k
      BY <1>2, <1>13, <2>2
    <2>5. ASSUME NEW a \in 1..Len(d), NEW b \in 1..Len(d), d[a] = d[b] PROVE a = b
      <3>1. CASE a \in 1..Len(c) /\ b \in 1..Len(c)
        BY <1>3, <2>2, <2>5, <3>1
      <3>2. CASE a = Len(c) + 1 /\ b \in 1..Len(c)
        BY <1>9, <2>2, <2>5, <3>2
      <3>3. CASE b = Len(c) + 1 /\ a \in 1..Len(c)
        BY <1>9, <2>2, <2>5, <3>3
      <3> QED BY <2>3, <3>1, <3>2, <3>3
    <2>6. ASSUME NEW a \in 1..Len(d) PROVE d[a].end <= r.start /\ \E j \in 1..i : d[a] = ws[j]
      <3>1. CASE a \in 1..Len(c)
        BY <1>4, <1>9, <2>2, <3>1
      <3>2. CASE a = Len(c) + 1
        <4>1. i \in 1..i
          OBVIOUS
        <4> QED BY <1>1, <1>13, <2>2, <3>2, <4>1
      <3> QED BY <2>3, <3>1, <3>2
    <2>7. ASSUME NEW j \in 1..i, ws[j].end <= r.start PROVE \E a \in 1..Len(d) : d[a] = ws[j]
      <3>1. CASE j = i
        <4>1. Len(c) + 1 \in 1..Len(d)
          BY <1>2, <2>2
        <4> QED BY <1>1, <2>2, <3>1, <4>1
      <3>2. CASE j \in 1..(i - 1)
        <4>1. PICK a \in 1..Len(c) : c[a] = ws[j]
          BY <1>2, <1>5, <1>13, <2>7, <3>2
        <4>2. a \in 1..Len(d)
          BY <1>2, <2>2
        <4> QED BY <2>2, <4>1, <4>2
      <3> QED BY <1>8, <3>1, <3>2
    <2>8. CandidatesAre(d, r, ws, k, i)
      BY <2>2, <2>4, <2>5, <2>6, <2>7 DEF CandidatesAre
    <2> QED BY <1>1, <1>10, <2>8
  <1>14. CASE w.end <= r.start /\ Len(c) = k
    <2>1. PICK s : s = Stalest(c)
      OBVIOUS
    <2>2. s \in 1..Len(c) /\ \A a \in 1..Len(c) : c[s].end <= c[a].end
      BY <1>2, <1>14, <2>1, StalestIs
    <2>3. d = [c EXCEPT ![s] = w]
      BY <1>6, <1>10, <1>11, <1>14, <2>1 DEF Keep
    <2>4. /\ d \in Seq(WriteRecord) /\ Len(d) = Len(c)
          /\ \A a \in 1..Len(c) : d[a] = IF a = s THEN w ELSE c[a]
      BY <1>2, <2>2, <2>3
    <2>5. ASSUME NEW a \in 1..Len(c), NEW b \in 1..Len(c), d[a] = d[b] PROVE a = b
      BY <1>3, <1>9, <2>4, <2>5
    <2>6. ASSUME NEW a \in 1..Len(c) PROVE d[a].end <= r.start /\ \E j \in 1..i : d[a] = ws[j]
      <3>1. CASE a = s
        <4>1. i \in 1..i
          OBVIOUS
        <4> QED BY <1>1, <1>14, <2>4, <3>1, <4>1
      <3>2. CASE a # s
        BY <1>4, <1>9, <2>4, <3>2
      <3> QED BY <3>1, <3>2
    <2>7. ASSUME NEW j \in 1..i, ws[j].end <= r.start
          PROVE  \/ \E a \in 1..Len(c) : d[a] = ws[j]
                 \/ \A a \in 1..Len(c) : ws[j].end <= d[a].end
      <3>1. CASE j = i
        BY <1>1, <2>2, <2>4, <3>1
      <3>2. CASE j \in 1..(i - 1)
        <4>1. ws[j].end <= w.end
          BY <1>7, <3>2
        <4>2. ASSUME NEW a \in 1..Len(c), c[a] = ws[j], a # s PROVE d[a] = ws[j]
          BY <2>4, <4>2
        <4>3. ASSUME \A a \in 1..Len(c) : ws[j].end <= c[a].end
              PROVE  \A a \in 1..Len(c) : ws[j].end <= d[a].end
          BY <2>4, <4>1, <4>3
        <4>4. ASSUME c[s] = ws[j] PROVE \A a \in 1..Len(c) : ws[j].end <= c[a].end
          BY <2>2, <4>4
        <4> QED BY <1>5, <2>7, <3>2, <4>2, <4>3, <4>4
      <3> QED BY <1>8, <3>1, <3>2
    <2>8. CandidatesAre(d, r, ws, k, i)
      <3>1. Len(d) <= k /\ Len(d) = k
        BY <1>2, <1>14, <2>4
      <3> QED BY <2>4, <2>5, <2>6, <2>7, <3>1 DEF CandidatesAre
    <2> QED BY <1>1, <1>10, <2>8
  <1> QED BY <1>2, <1>6, <1>12, <1>13, <1>14

LEMMA CandidatesFound ==
  ASSUME NEW r \in ReadRecord, NEW ws \in Seq(WriteRecord), ByEnd(ws), NEW k \in Nat \ {0}
  PROVE  CandidatesAre(Candidates(r, ws, k), r, ws, k, Len(ws))
  <1> DEFINE N == Len(ws)
  <1>1. PICK f : KeptBy(f, r, ws, k) /\ Candidates(r, ws, k) = f[N]
    BY KeptDef
  <1>2. N \in Nat
    OBVIOUS
  <1>3. f[0] = <<>> /\ \A i \in 1..N : f[i] = Keep(f[i - 1], r, ws[i], k)
    BY <1>1, <1>2 DEF KeptBy
  <1> DEFINE P == {i \in 0..N : CandidatesAre(f[i], r, ws, k, i)}
  <1>4. 0 \in P
    <2>1. CandidatesAre(<<>>, r, ws, k, 0)
      BY DEF CandidatesAre
    <2> QED BY <1>2, <1>3, <2>1
  <1>5. ASSUME NEW i \in 1..N, i - 1 \in P PROVE i \in P
    <2>1. CandidatesAre(f[i - 1], r, ws, k, i - 1) /\ i \in 0..N
      BY <1>2, <1>5
    <2>2. CandidatesAre(f[i], r, ws, k, i)
      BY <1>3, <2>1, KeepKeeps
    <2> QED BY <2>1, <2>2
  <1>6. \A i \in 0..N : i \in P
    <2> HIDE DEF P, N
    <2> QED BY <1>2, <1>4, <1>5, BoundedInduction
  <1>7. N \in 0..N
    BY <1>2
  <1> QED BY <1>1, <1>6, <1>7

LEMMA ListSize ==
  ASSUME NEW T, NEW q \in Seq(T), \A a, b \in 1..Len(q) : q[a] = q[b] => a = b
  PROVE  IsFiniteSet(ToSet(q)) /\ Cardinality(ToSet(q)) = Len(q)
  <1>1. Len(q) \in Nat /\ DOMAIN q = 1..Len(q)
    OBVIOUS
  <1>2. q \in [1..Len(q) -> ToSet(q)]
    BY <1>1 DEF ToSet
  <1>3. q \in Surjection(1..Len(q), ToSet(q)) /\ q \in Injection(1..Len(q), ToSet(q))
    BY <1>1, <1>2 DEF Surjection, Injection, IsInjective, ToSet
  <1>4. IsFiniteSet(1..Len(q)) /\ Cardinality(1..Len(q)) = Len(q)
    BY <1>1, FS_Interval
  <1> QED BY <1>3, <1>4, FS_Surjection

(* The writes that push w out of the k last ones. *)
Newer(r, w, strict) == {v \in Later(w, strict) : v.end <= r.start}

LEMMA KRegularIs ==
  ASSUME CollectorInv, NEW r \in ReadRecord, NEW k \in Nat \ {0}
  PROVE  LET c == Candidates(r, writes, k)
         IN  IsKRegular(r, writes, k) <=>
               \/ \E w \in ToSet(writes) : Overlaps(r, w) /\ AsNew(r, w)
               \/ \E w \in ToSet(c) : AsNew(r, w)
  <1>1. PICK c : c = Candidates(r, writes, k)
    OBVIOUS
  <1>2. writes \in Seq(WriteRecord) /\ ByEnd(writes)
    BY DEF CollectorInv
  <1>3. CandidatesAre(c, r, writes, k, Len(writes))
    BY <1>1, <1>2, CandidatesFound
  <1>4. c \in Seq(WriteRecord)
    BY <1>3 DEF CandidatesAre
  <1>5. \A w \in ToSet(writes) \cup ToSet(c) : w \in WriteRecord
    BY <1>2, <1>4 DEF ToSet
  <1>6. \A w \in ToSet(writes) \cup ToSet(c) : IsConsistent(Vc[w.id], r.objs) <=> AsNew(r, w)
    BY <1>5, ConsistentWrite
  <1>7. IsKRegular(r, writes, k) <=>
          \E w \in ToSet(c) \cup {v \in ToSet(writes) : Overlaps(r, v)} : IsConsistent(Vc[w.id], r.objs)
    BY <1>1 DEF IsKRegular
  <1> QED BY <1>1, <1>6, <1>7

LEMMA KRegularMeans ==
  ASSUME CollectorInv, NEW r \in ReadRecord, NEW k \in Nat \ {0}
  PROVE  /\ IsKRegular(r, writes, k) =>
              \E w \in ToSet(writes) : KAllowed(r, w, k, TRUE) /\ AsNew(r, w)
         /\ (\E w \in ToSet(writes) : KAllowed(r, w, k, FALSE) /\ AsNew(r, w)) =>
              IsKRegular(r, writes, k)
         /\ \A w \in ToSet(writes) : \A strict \in BOOLEAN :
              IsFiniteSet(Newer(r, w, strict)) /\ Cardinality(Newer(r, w, strict)) \in Nat
  <1>1. PICK c : c = Candidates(r, writes, k)
    OBVIOUS
  <1>2. writes \in Seq(WriteRecord) /\ ByEnd(writes)
    BY DEF CollectorInv
  <1>3. CandidatesAre(c, r, writes, k, Len(writes))
    BY <1>1, <1>2, CandidatesFound
  <1>4. c \in Seq(WriteRecord) /\ Len(c) \in Nat /\ Len(c) <= k
    BY <1>3 DEF CandidatesAre
  <1>5. IsFiniteSet(ToSet(c)) /\ Cardinality(ToSet(c)) = Len(c)
    BY <1>3, <1>4, ListSize DEF CandidatesAre
  <1>6. ASSUME NEW w \in ToSet(c) PROVE w.end <= r.start /\ w \in ToSet(writes)
    <2>1. PICK a \in 1..Len(c) : w = c[a]
      BY <1>4 DEF ToSet
    <2>2. c[a].end <= r.start /\ \E j \in 1..Len(writes) : c[a] = writes[j]
      BY <1>3 DEF CandidatesAre
    <2>3. PICK j \in 1..Len(writes) : c[a] = writes[j]
      BY <2>2
    <2>4. writes[j] \in ToSet(writes)
      BY <1>2 DEF ToSet
    <2> QED BY <2>1, <2>2, <2>3, <2>4
  <1>7. ASSUME NEW w \in ToSet(writes), w.end <= r.start, w \notin ToSet(c)
        PROVE  Len(c) = k /\ \A v \in ToSet(c) : w.end <= v.end
    <2>1. PICK j \in 1..Len(writes) : w = writes[j]
      BY <1>2 DEF ToSet
    <2>2. \A a \in 1..Len(c) : c[a] # w
      BY <1>4, <1>7 DEF ToSet
    <2>3. Len(c) = k /\ \A a \in 1..Len(c) : w.end <= c[a].end
      BY <1>3, <1>7, <2>1, <2>2 DEF CandidatesAre
    <2> QED BY <1>4, <2>3 DEF ToSet
  <1>8. IsKRegular(r, writes, k) <=>
          \/ \E w \in ToSet(writes) : Overlaps(r, w) /\ AsNew(r, w)
          \/ \E w \in ToSet(c) : AsNew(r, w)
    BY <1>1, KRegularIs
  <1>9. \A w \in ToSet(writes) : w.end \in Nat
    BY <1>2, WriteRecords DEF ToSet
  <1>10. ASSUME NEW w \in ToSet(writes), NEW strict \in BOOLEAN
         PROVE  IsFiniteSet(Newer(r, w, strict)) /\ Cardinality(Newer(r, w, strict)) \in Nat
    <2>1. \A a, b \in 1..Len(writes) : writes[a] = writes[b] => a = b
      <3> SUFFICES ASSUME NEW a \in 1..Len(writes), NEW b \in 1..Len(writes), writes[a] = writes[b]
                   PROVE  a = b
        OBVIOUS
      <3>1. ~(a < b) /\ ~(b < a)
        BY <1>2 DEF ByEnd
      <3> QED BY <3>1
    <2>2. IsFiniteSet(ToSet(writes))
      BY <1>2, <2>1, ListSize
    <2>3. Newer(r, w, strict) \subseteq ToSet(writes)
      BY DEF Newer, Later
    <2>4. IsFiniteSet(Newer(r, w, strict))
      BY <2>2, <2>3, FS_Subset
    <2> QED BY <2>4, FS_CardinalityType
  <1>11. ASSUME NEW w \in ToSet(c), AsNew(r, w)
         PROVE  w \in ToSet(writes) /\ KAllowed(r, w, k, TRUE)
    <2>1. w \in ToSet(writes) /\ w.end <= r.start
      BY <1>6
    <2>2. Newer(r, w, TRUE) \subseteq ToSet(c) \ {w}
      <3> SUFFICES ASSUME NEW v \in Newer(r, w, TRUE) PROVE v \in ToSet(c) \ {w}
        OBVIOUS
      <3>1. v \in ToSet(writes) /\ v # w /\ v.end > w.end /\ v.end <= r.start
        BY DEF Newer, Later
      <3>2. CASE v \notin ToSet(c)
        <4>1. v.end <= w.end
          BY <1>7, <3>1, <3>2
        <4> QED BY <1>9, <2>1, <3>1, <4>1
      <3> QED BY <3>1, <3>2
    <2>3. IsFiniteSet(ToSet(c) \ {w}) /\ Cardinality(ToSet(c) \ {w}) = Len(c) - 1
      BY <1>5, FS_RemoveElement
    <2>4. PICK A : A = Newer(r, w, TRUE)
      OBVIOUS
    <2>5. A \subseteq ToSet(c) \ {w} /\ Cardinality(A) \in Nat
      BY <1>10, <2>1, <2>2, <2>4, Zenon
    <2>6. Cardinality(A) <= Cardinality(ToSet(c) \ {w})
      BY <2>3, <2>5, FS_Subset
    <2>7. Cardinality(A) < k
      BY <1>4, <2>3, <2>5, <2>6
    <2>8. Cardinality(Newer(r, w, TRUE)) < k
      BY <2>4, <2>7, Zenon
    <2> QED BY <2>1, <2>8 DEF KAllowed, Newer
  <1>12. ASSUME NEW w \in ToSet(writes), KAllowed(r, w, k, FALSE), AsNew(r, w)
         PROVE  IsKRegular(r, writes, k)
    <2>1. CASE Overlaps(r, w)
      BY <1>8, <1>12, <2>1
    <2>2. CASE w \in ToSet(c)
      BY <1>8, <1>12, <2>2
    <2>3. CASE ~Overlaps(r, w) /\ w \notin ToSet(c)
      <3>1. w.end <= r.start /\ Cardinality(Newer(r, w, FALSE)) < k
        BY <1>12, <2>3 DEF KAllowed, Newer
      <3>2. Len(c) = k /\ \A v \in ToSet(c) : w.end <= v.end
        BY <1>7, <2>3, <3>1
      <3>3. ToSet(c) \subseteq Newer(r, w, FALSE)
        <4> SUFFICES ASSUME NEW v \in ToSet(c) PROVE v \in Newer(r, w, FALSE)
          OBVIOUS
        <4>1. v \in ToSet(writes) /\ v.end <= r.start /\ v # w /\ w.end <= v.end
          BY <1>6, <2>3, <3>2
        <4>2. v.end >= w.end
          BY <1>9, <4>1
        <4> QED BY <4>1, <4>2 DEF Newer, Later
      <3>4. IsFiniteSet(Newer(r, w, FALSE)) /\ Cardinality(Newer(r, w, FALSE)) \in Nat
        BY <1>10
      <3>5. PICK A : A = Newer(r, w, FALSE)
        OBVIOUS
      <3>6. ToSet(c) \subseteq A /\ IsFiniteSet(A) /\ Cardinality(A) \in Nat /\ Cardinality(A) < k
        BY <3>1, <3>3, <3>4, <3>5, Zenon
      <3>7. Cardinality(ToSet(c)) <= Cardinality(A)
        BY <3>6, FS_Subset
      <3> QED BY <1>5, <3>2, <3>6, <3>7
    <2> QED BY <2>1, <2>2, <2>3
  <1>13. \A w \in ToSet(writes) : Overlaps(r, w) => KAllowed(r, w, k, TRUE)
    BY DEF KAllowed
  <1> QED BY <1>8, <1>10, <1>11, <1>12, <1>13

LEMMA KExact == CollectorInv => KRegularExact
  <1> SUFFICES ASSUME CollectorInv, NEW r \in ToSet(reads), NEW k \in 1..MaxK
               PROVE  LET regular == IsKRegular(r, writes, k)
                          fresh(strict) ==
                            \E w \in ToSet(writes) : KAllowed(r, w, k, strict) /\ AsNew(r, w)
                      IN  /\ regular => fresh(TRUE)
                          /\ fresh(FALSE) => regular
    BY DEF KRegularExact
  <1>1. r \in ReadRecord
    BY DEF CollectorInv, ToSet
  <1>2. k \in Nat \ {0}
    BY RegularityAssumption
  <1> QED BY <1>1, <1>2, KRegularMeans

(* A read that passes for a k passes for every greater one, when no two    *)
(* writes were committed at the same instant.                              *)
LEMMA KRegularGrows ==
  ASSUME CollectorInv, NEW r \in ReadRecord, NEW k \in Nat \ {0}, NEW m \in Nat \ {0}, k <= m,
         \A i, j \in DOMAIN writes : writes[i].end = writes[j].end => i = j,
         IsKRegular(r, writes, k)
  PROVE  IsKRegular(r, writes, m)
  <1>1. writes \in Seq(WriteRecord)
    BY DEF CollectorInv
  <1>2. \A v \in ToSet(writes) : v.end \in Nat
    BY <1>1, WriteRecords DEF ToSet
  <1>3. \A v, w \in ToSet(writes) : v # w => v.end # w.end
    BY <1>1 DEF ToSet
  <1>4. PICK w \in ToSet(writes) : KAllowed(r, w, k, TRUE) /\ AsNew(r, w)
    BY KRegularMeans
  <1>5. Newer(r, w, TRUE) = Newer(r, w, FALSE)
    BY <1>2, <1>3 DEF Newer, Later
  <1>6. Cardinality(Newer(r, w, FALSE)) \in Nat
    BY KRegularMeans
  <1>7. KAllowed(r, w, m, FALSE)
    <2>1. CASE Overlaps(r, w)
      BY <2>1 DEF KAllowed
    <2>2. CASE ~Overlaps(r, w)
      <3>1. w.end <= r.start /\ Cardinality(Newer(r, w, TRUE)) < k
        BY <1>4, <2>2 DEF KAllowed, Newer
      <3>2. PICK n : n = Cardinality(Newer(r, w, FALSE))
        OBVIOUS
      <3>3. n \in Nat /\ n < k
        BY <1>5, <1>6, <3>1, <3>2, Zenon
      <3>4. n < m
        BY <3>3
      <3>5. Cardinality(Newer(r, w, FALSE)) < m
        BY <3>2, <3>4, Zenon
      <3> QED BY <3>1, <3>5 DEF KAllowed, Newer
    <2> QED BY <2>1, <2>2
  <1> QED BY <1>4, <1>7, KRegularMeans

-----------------------------------------------------------------------------
(* The sweeps: reads that pass are counted, and more pass further right. *)

LEMMA E2EIs ==
  ASSUME NEW n, NEW all, NEW attempts
  PROVE  /\ E2E(<<n, all>>, attempts)[1] = n
         /\ E2E(<<n, all>>, attempts)[2] = IF attempts > 0 THEN attempts ELSE all
  BY DEF E2E

LEMMA CountsRise ==
  ASSUME NEW N \in Nat, NEW A \in SUBSET (1..N), NEW B \in SUBSET (1..N), A \subseteq B
  PROVE  Cardinality(A) \in Nat /\ Cardinality(A) <= N /\ Cardinality(A) <= Cardinality(B)
  <1>1. IsFiniteSet(1..N) /\ Cardinality(1..N) = N
    BY FS_Interval
  <1>2. IsFiniteSet(A) /\ IsFiniteSet(B) /\ Cardinality(A) <= Cardinality(1..N)
    BY <1>1, FS_Subset
  <1>3. Cardinality(A) <= Cardinality(B)
    BY <1>2, FS_Subset
  <1> QED BY <1>1, <1>2, <1>3, FS_CardinalityType

DeltaPassing(delta) == {i \in DOMAIN reads : IsDeltaRegular(reads[i], writes, delta)}
KPassing(k) == {i \in DOMAIN reads : IsKRegular(reads[i], writes, k)}

(* A sweep p whose i-th point counts the reads of pass[i]. *)
Sweep(p, pass, M, attempts) ==
  /\ DOMAIN p = 1..M
  /\ \A i \in 1..M : /\ p[i][1] = Cardinality(pass[i])
                     /\ p[i][2] = IF attempts > 0 THEN attempts ELSE Len(reads)

LEMMA SweepRises ==
  ASSUME CollectorInv, NEW M \in Nat, NEW pass, \A i \in 1..M : pass[i] \in SUBSET DOMAIN reads,
         NEW attempts \in {0, Len(reads), Len(reads) + 1}, NEW p, Sweep(p, pass, M, attempts)
  PROVE  /\ \A i \in DOMAIN p : p[i][1] <= p[i][2]
         /\ (\A i \in 1..M : \A j \in 1..i : pass[j] \subseteq pass[i]) =>
              \A i \in DOMAIN p : \A j \in 1..i : p[j][1] <= p[i][1]
  <1>1. Len(reads) \in Nat /\ DOMAIN reads = 1..Len(reads)
    BY DEF CollectorInv
  <1>2. ASSUME NEW i \in 1..M PROVE p[i][1] <= p[i][2]
    <2>1. p[i][1] = Cardinality(pass[i]) /\ p[i][2] = IF attempts > 0 THEN attempts ELSE Len(reads)
      BY DEF Sweep
    <2>2. Cardinality(pass[i]) \in Nat /\ Cardinality(pass[i]) <= Len(reads)
      BY <1>1, CountsRise
    <2>3. PICK a, b : a = p[i][1] /\ b = p[i][2]
      OBVIOUS
    <2>4. a \in Nat /\ a <= Len(reads) /\ b = IF attempts > 0 THEN attempts ELSE Len(reads)
      BY <2>1, <2>2, <2>3
    <2>5. a <= b
      <3>1. PICK all \in Nat : all = Len(reads)
        BY <1>1
      <3>2. CASE attempts = 0
        BY <2>4, <3>1, <3>2
      <3>3. CASE attempts = all /\ attempts # 0
        BY <2>4, <3>1, <3>3
      <3>4. CASE attempts = all + 1
        BY <2>4, <3>1, <3>4
      <3> QED BY <3>1, <3>2, <3>3, <3>4
    <2> QED BY <2>3, <2>5
  <1>3. ASSUME NEW i \in 1..M, NEW j \in 1..i, pass[j] \subseteq pass[i] PROVE p[j][1] <= p[i][1]
    <2>1. j \in 1..M
      OBVIOUS
    <2>2. p[i][1] = Cardinality(pass[i]) /\ p[j][1] = Cardinality(pass[j])
      BY <2>1 DEF Sweep
    <2>3. Cardinality(pass[j]) <= Cardinality(pass[i])
      BY <1>1, <1>3, <2>1, CountsRise
    <2> QED BY <2>2, <2>3
  <1> QED BY <1>2, <1>3 DEF Sweep

LEMMA SweepsDoRise == CollectorInv => SweepsRise
  <1> SUFFICES ASSUME CollectorInv, NEW attempts \in {0, Len(reads), Len(reads) + 1}
               PROVE  LET atMostOne(p) == \A i \in DOMAIN p : p[i][1] <= p[i][2]
                          rises(p) == \A i \in DOMAIN p : \A j \in 1..i : p[j][1] <= p[i][1]
                          apart == \A i, j \in DOMAIN writes :
                                     writes[i].end = writes[j].end => i = j
                          deltaP == ObserveDeltaPSweepE2E([i \in 1..(MaxTime + 1) |-> i - 1], attempts)
                          kP == ObserveKPSweepE2E([i \in 1..MaxK |-> i], attempts)
                      IN  /\ atMostOne(deltaP) /\ rises(deltaP)
                          /\ atMostOne(kP) /\ (apart => rises(kP))
    BY DEF SweepsRise
  <1>1. MaxTime \in Nat /\ MaxK \in Nat /\ MaxTime + 1 \in Nat
    BY RegularityAssumption
  <1>2. \A i \in DOMAIN reads : reads[i] \in ReadRecord
    BY DEF CollectorInv
  <1>3. writes \in Seq(WriteRecord)
    BY DEF CollectorInv
  <1>4. PICK p : p = ObserveDeltaPSweepE2E([i \in 1..(MaxTime + 1) |-> i - 1], attempts)
    OBVIOUS
  <1>5. PICK pass : pass = [i \in 1..(MaxTime + 1) |-> DeltaPassing(i - 1)]
    OBVIOUS
  <1>6. Sweep(p, pass, MaxTime + 1, attempts)
    <2>1. p = [i \in 1..(MaxTime + 1) |-> E2E(ObserveDeltaP(i - 1), attempts)]
      BY <1>4 DEF ObserveDeltaPSweepE2E
    <2>2. ASSUME NEW i \in 1..(MaxTime + 1)
          PROVE  /\ p[i][1] = Cardinality(pass[i])
                 /\ p[i][2] = IF attempts > 0 THEN attempts ELSE Len(reads)
      <3>1. p[i] = E2E(ObserveDeltaP(i - 1), attempts) /\ pass[i] = DeltaPassing(i - 1)
        BY <1>5, <2>1
      <3>2. ObserveDeltaP(i - 1) = <<Cardinality(DeltaPassing(i - 1)), Len(reads)>>
        BY DEF ObserveDeltaP, DeltaPassing
      <3> QED BY <3>1, <3>2, E2EIs
    <2> QED BY <2>1, <2>2 DEF Sweep
  <1>7. \A i \in 1..(MaxTime + 1) : pass[i] \in SUBSET DOMAIN reads
    BY <1>5 DEF DeltaPassing
  <1>8. ASSUME NEW i \in 1..(MaxTime + 1), NEW j \in 1..i PROVE pass[j] \subseteq pass[i]
    <2>1. j \in 1..(MaxTime + 1) /\ i - 1 \in Nat /\ j - 1 \in Nat /\ j - 1 <= i - 1
      BY <1>1
    <2>2. pass[i] = DeltaPassing(i - 1) /\ pass[j] = DeltaPassing(j - 1)
      BY <1>5, <2>1
    <2>3. DeltaPassing(j - 1) \subseteq DeltaPassing(i - 1)
      <3> SUFFICES ASSUME NEW x \in DOMAIN reads, IsDeltaRegular(reads[x], writes, j - 1)
                   PROVE  IsDeltaRegular(reads[x], writes, i - 1)
        BY DEF DeltaPassing
      <3> QED BY <1>2, <1>3, <2>1, DeltaRegularGrows
    <2> QED BY <2>2, <2>3
  <1>9. /\ \A i \in DOMAIN p : p[i][1] <= p[i][2]
        /\ \A i \in DOMAIN p : \A j \in 1..i : p[j][1] <= p[i][1]
    BY <1>1, <1>6, <1>7, <1>8, SweepRises
  <1>10. PICK q : q = ObserveKPSweepE2E([i \in 1..MaxK |-> i], attempts)
    OBVIOUS
  <1>11. PICK pas : pas = [i \in 1..MaxK |-> KPassing(i)]
    OBVIOUS
  <1>12. Sweep(q, pas, MaxK, attempts)
    <2>1. q = [i \in 1..MaxK |-> E2E(ObserveKP(i), attempts)]
      BY <1>10 DEF ObserveKPSweepE2E
    <2>2. ASSUME NEW i \in 1..MaxK
          PROVE  /\ q[i][1] = Cardinality(pas[i])
                 /\ q[i][2] = IF attempts > 0 THEN attempts ELSE Len(reads)
      <3>1. q[i] = E2E(ObserveKP(i), attempts) /\ pas[i] = KPassing(i)
        BY <1>11, <2>1
      <3>2. ObserveKP(i) = <<Cardinality(KPassing(i)), Len(reads)>>
        BY DEF ObserveKP, KPassing
      <3> QED BY <3>1, <3>2, E2EIs
    <2> QED BY <2>1, <2>2 DEF Sweep
  <1>13. \A i \in 1..MaxK : pas[i] \in SUBSET DOMAIN reads
    BY <1>11 DEF KPassing
  <1>14. ASSUME \A i, j \in DOMAIN writes : writes[i].end = writes[j].end => i = j,
                NEW i \in 1..MaxK, NEW j \in 1..i
         PROVE  pas[j] \subseteq pas[i]
    <2>1. j \in 1..MaxK /\ i \in Nat \ {0} /\ j \in Nat \ {0} /\ j <= i
      BY <1>1
    <2>2. pas[i] = KPassing(i) /\ pas[j] = KPassing(j)
      BY <1>11, <2>1
    <2>3. KPassing(j) \subseteq KPassing(i)
      <3> SUFFICES ASSUME NEW x \in DOMAIN reads, IsKRegular(reads[x], writes, j)
                   PROVE  IsKRegular(reads[x], writes, i)
        BY DEF KPassing
      <3> QED BY <1>2, <1>14, <2>1, KRegularGrows
    <2> QED BY <2>2, <2>3
  <1>15. /\ \A i \in DOMAIN q : q[i][1] <= q[i][2]
         /\ (\A i, j \in DOMAIN writes : writes[i].end = writes[j].end => i = j) =>
              \A i \in DOMAIN q : \A j \in 1..i : q[j][1] <= q[i][1]
    BY <1>1, <1>12, <1>13, <1>14, SweepRises
  <1> QED BY <1>4, <1>9, <1>10, <1>15

(* isDeltaRegular (observer.go) decides delta-regularity of every read:    *)
(* as new as some write that started before the read ended and was the     *)
(* last, or came later than the last, committed more than delta before it. *)
THEOREM DeltaRegularAlwaysExact == CollectorSpec => []DeltaRegularExact
  BY CollectorInvHolds, DeltaExact, PTL

(* isKRegular (observer.go) decides k-regularity of every read, with its   *)
(* list of k candidates, however late the records of the writes come:      *)
(* ObserveCompletedWrite (pbsCollector.go) keeps them sorted.              *)
THEOREM KRegularAlwaysExact == CollectorSpec => []KRegularExact
  BY CollectorInvHolds, KExact, PTL

(* The curves of ObserveDeltaPSweepE2E and ObserveKPSweepE2E (observer.go) *)
(* rise and stay at 1 or below, the second as long as no two writes are    *)
(* committed at the same instant.                                          *)
THEOREM SweepsAlwaysRise == CollectorSpec => []SweepsRise
  BY CollectorInvHolds, SweepsDoRise, PTL

=============================================================================
