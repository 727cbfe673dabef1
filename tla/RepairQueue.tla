---------------------------- MODULE RepairQueue -----------------------------
(***************************************************************************)
(* The way of a read repair job from the read that made it to a worker     *)
(* (kvsrv/readrepair.go): a map that keeps the newest job of every key for *)
(* a short while, a timer per job, a bounded queue, workers, and the drain *)
(* when the server stops.  What a job does once it runs is in Dynamo.      *)
(*                                                                         *)
(* The results of a read that come late wait in a channel; whoever ends up *)
(* with the job, a worker or a drain, must take them out, once.  taken[j]  *)
(* counts who does.                                                        *)
(***************************************************************************)
EXTENDS Naturals, Sequences, FiniteSets

CONSTANTS
  Key,
  Job,       \* bound: the reads that schedule a job
  KeyOf,     \* KeyOf[j]: the key that was read
  Worker,    \* readRepairWorkerCount goroutines
  Capacity,  \* readRepairQueueCapacity
  NoJob

ASSUME RepairQueueAssumption ==
  /\ KeyOf \in [Job -> Key] /\ NoJob \notin Job
  /\ Capacity \in Nat

VARIABLES
  coalesce,  \* coalesce[k]: the job of k in kv.readRepairCoalesce, or NoJob
  timer,     \* timer[j]: "new", "armed", "fired" (its callback is due) or "off"
  queue,     \* kv.readRepairJobCh
  worker,    \* worker[w]: "select", the job at hand, "drain map", "drain queue" or "over"
  stopped,   \* kv.stopCh is closed
  once,      \* kv.readRepairPipelineOnce: "unused", "busy" or "done"
  taken      \* taken[j]: how many goroutines have set out to read j's channel

queueVars == <<coalesce, timer, queue, worker, stopped, once, taken>>

QueueInit ==
  /\ coalesce = [k \in Key |-> NoJob]
  /\ timer = [j \in Job |-> "new"]
  /\ queue = <<>>
  /\ worker = [w \in Worker |-> "select"]
  /\ stopped = FALSE
  /\ once = "unused"
  /\ taken = [j \in Job |-> 0]

Take(S) == taken' = [j \in Job |-> IF j \in S THEN taken[j] + 1 ELSE taken[j]]

-----------------------------------------------------------------------------
(* scheduleReadRepair, under readRepairCoalesceMu: a job of the same key    *)
(* that still waits is dropped, its timer stopped (a callback that is       *)
(* already due stays due) and its channel drained.                          *)
ScheduleReadRepair(j) ==
  /\ timer[j] = "new"
  /\ LET old == {i \in Job : coalesce[KeyOf[j]] = i}
     IN  /\ timer' = [i \in Job |-> IF i = j THEN "armed"
                                    ELSE IF i \in old /\ timer[i] = "armed" THEN "off"
                                    ELSE timer[i]]
         /\ Take(old)
  /\ coalesce' = [coalesce EXCEPT ![KeyOf[j]] = j]
  /\ UNCHANGED <<queue, worker, stopped, once>>

(* The window of j is over; its callback starts in a goroutine. *)
TimerFires(j) ==
  /\ timer[j] = "armed"
  /\ timer' = [timer EXCEPT ![j] = "fired"]
  /\ UNCHANGED <<coalesce, queue, worker, stopped, once, taken>>

(* MUTANT of FlushSuperseded: the callback takes any job of its key. *)
FlushSupersededAnyway(j) ==
  /\ timer[j] = "fired" /\ coalesce[KeyOf[j]] # j
  /\ timer' = [timer EXCEPT ![j] = "off"]
  /\ IF coalesce[KeyOf[j]] # NoJob /\ Len(queue) < Capacity
     THEN /\ queue' = Append(queue, j)
          /\ coalesce' = [coalesce EXCEPT ![KeyOf[j]] = NoJob]
     ELSE UNCHANGED <<queue, coalesce>>
  /\ UNCHANGED <<worker, stopped, once, taken>>

(* tryFlushReadRepairCoalesceKey: the callback of a job that is no longer   *)
(* the one in the map does nothing ...                                      *)
FlushSuperseded(j) ==
  /\ timer[j] = "fired" /\ coalesce[KeyOf[j]] # j
  /\ timer' = [timer EXCEPT ![j] = "off"]
  /\ UNCHANGED <<coalesce, queue, worker, stopped, once, taken>>

(* ... else the job moves to the queue ... *)
Flush(j) ==
  /\ timer[j] = "fired" /\ coalesce[KeyOf[j]] = j
  /\ Len(queue) < Capacity
  /\ queue' = Append(queue, j)
  /\ coalesce' = [coalesce EXCEPT ![KeyOf[j]] = NoJob]
  /\ timer' = [timer EXCEPT ![j] = "off"]
  /\ UNCHANGED <<worker, stopped, once, taken>>

(* MUTANT of FlushFull: the timer is stopped and not armed again. *)
FlushFullGivesUp(j) ==
  /\ timer[j] = "fired" /\ coalesce[KeyOf[j]] = j
  /\ Len(queue) = Capacity
  /\ timer' = [timer EXCEPT ![j] = "off"]
  /\ UNCHANGED <<coalesce, queue, worker, stopped, once, taken>>

(* ... or, when that is full, waits for another two windows. *)
FlushFull(j) ==
  /\ timer[j] = "fired" /\ coalesce[KeyOf[j]] = j
  /\ Len(queue) = Capacity
  /\ timer' = [timer EXCEPT ![j] = "armed"]
  /\ UNCHANGED <<coalesce, queue, worker, stopped, once, taken>>

-----------------------------------------------------------------------------
(* readRepairWorkerLoop; when the server stops, its select may still take   *)
(* jobs, since both cases are ready.                                        *)
StartJob(w) ==
  /\ worker[w] = "select" /\ queue # <<>>
  /\ worker' = [worker EXCEPT ![w] = Head(queue)]
  /\ queue' = Tail(queue)
  /\ Take({Head(queue)})
  /\ UNCHANGED <<coalesce, timer, stopped, once>>

(* finishCoordGetReadRepair returns. *)
FinishJob(w) ==
  /\ worker[w] \in Job
  /\ worker' = [worker EXCEPT ![w] = "select"]
  /\ UNCHANGED <<coalesce, timer, queue, stopped, once, taken>>

Stop ==
  /\ ~stopped
  /\ stopped' = TRUE
  /\ UNCHANGED <<coalesce, timer, queue, worker, once, taken>>

(* drainReadRepairPipeline: the first worker that sees the stop drains, the *)
(* others wait for it in Once.Do and return.                                *)
EnterDrain(w) ==
  /\ worker[w] = "select" /\ stopped /\ once = "unused"
  /\ worker' = [worker EXCEPT ![w] = "drain map"]
  /\ once' = "busy"
  /\ UNCHANGED <<coalesce, timer, queue, stopped, taken>>

DrainMap(w) ==
  LET waiting == {j \in Job : coalesce[KeyOf[j]] = j} IN
  /\ worker[w] = "drain map"
  /\ timer' = [j \in Job |-> IF j \in waiting /\ timer[j] = "armed" THEN "off" ELSE timer[j]]
  /\ Take(waiting)
  /\ coalesce' = [k \in Key |-> NoJob]
  /\ worker' = [worker EXCEPT ![w] = "drain queue"]
  /\ UNCHANGED <<queue, stopped, once>>

DrainQueue(w) ==
  /\ worker[w] = "drain queue"
  /\ IF queue = <<>>
     THEN /\ once' = "done"
          /\ worker' = [worker EXCEPT ![w] = "over"]
          /\ UNCHANGED <<queue, taken>>
     ELSE /\ queue' = Tail(queue)
          /\ Take({Head(queue)})
          /\ UNCHANGED <<worker, once>>
  /\ UNCHANGED <<coalesce, timer, stopped>>

LeaveAfterDrain(w) ==
  /\ worker[w] = "select" /\ stopped /\ once = "done"
  /\ worker' = [worker EXCEPT ![w] = "over"]
  /\ UNCHANGED <<coalesce, timer, queue, stopped, once, taken>>

-----------------------------------------------------------------------------
TimerStep(j) == TimerFires(j) \/ FlushSuperseded(j) \/ Flush(j) \/ FlushFull(j)

WorkerStep(w) ==
  \/ StartJob(w) \/ FinishJob(w)
  \/ EnterDrain(w) \/ DrainMap(w) \/ DrainQueue(w) \/ LeaveAfterDrain(w)

QueueNext ==
  \/ Stop
  \/ \E j \in Job : ScheduleReadRepair(j) \/ TimerStep(j)
  \/ \E w \in Worker : WorkerStep(w)

QueueSpec == QueueInit /\ [][QueueNext]_queueVars

(* Nobody touches a job's channel twice: it is run, or dropped by a newer   *)
(* read of the key, or drained at the stop, and only one of these, although *)
(* the callback of a dropped job may still be due, and a callback may       *)
(* enqueue behind the drain.                                                *)
TakenOnce == \A j \in Job : taken[j] <= 1

(* Every job that is scheduled before a drain begins comes to somebody in   *)
(* the end, in spite of a full queue, of callbacks that race the drain and  *)
(* of workers that are busy.  (One scheduled later may lie in the map or in *)
(* the queue for ever: nobody reads them any more.)                         *)
JobsTaken == \A j \in Job : (timer[j] # "new" /\ once = "unused") ~> taken[j] = 1

=============================================================================
